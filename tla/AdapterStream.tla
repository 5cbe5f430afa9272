--------------------------- MODULE AdapterStream ---------------------------
(***************************************************************************)
(* A chat's turns as its adapter sees them: the agent CLI writes lines,    *)
(* handle_line makes events of them, and the id it harvests decides how    *)
(* the next turn starts (prepare_command, worktree_cwd_prefix).            *)
(*                                                                         *)
(* What the CLI writes is external; "said" and "due" record, whatever the  *)
(* adapter does, what a reader should have seen and which signals the      *)
(* supervisor should have had by now.  "got" is what the events came to    *)
(* that the adapter made of it.  A step is one line, from the CLI to the   *)
(* events.                                                                 *)
(***************************************************************************)
EXTENDS Dialects

CONSTANTS
  Dialects,    \* the dialects of this instance
  BigResult,   \* those whose result line may be oversize
  Sizes,       \* what the context of a model call may be found to measure
  MaxTurns,    \* bound: turns of the chat
  MaxLines     \* bound: for each dialect, the lines of a turn after the first

ASSUME StreamAssumption ==
  /\ Dialects \subseteq Dialect /\ BigResult \subseteq Dialect
  /\ MaxTurns \in Nat \ {0} /\ MaxLines \in [Dialect -> Nat \ {0}]
  /\ Sizes \subseteq Nat \ {0}

VARIABLES
  dialect,   \* chats.agent_kind
  place,     \* the chat's project path (has it one) and chats.worktree
  tree,      \* does the chat's worktree exist
  store,     \* the sessions the CLI can resume
  ids,       \* session ids announced so far
  turns,     \* turns begun
  cli,       \* the CLI's side of the turn
  adapter,   \* the adapter's state
  got,       \* what became of the AgentEvents: chats.agent_session_id, and of this turn
             \* what is shown, the signals and the last reading
  said,      \* what the turn should have shown
  due        \* the signals it should have given

chat == <<dialect, place, tree, store, ids, turns>>
Lines == MaxLines[dialect]

vars == <<chat, cli, adapter, got, said, due>>

\* What the gauge should read, in the agent's own terms: a context between low
\* and high; told is the last one it told the adapter, packed whether it has
\* compacted its context since; blurred: the adapter was not told, or could
\* not tell.
Gauge == [low |-> 0, high |-> 0, told |-> 0, packed |-> FALSE, blurred |-> FALSE]

\* What the model calls of a turn are billed at, if not one by one.
Bill == [sum |-> 0, low |-> 0, high |-> 0]

\* "cut": the process died, or was killed, before its turn was over.
Off == [at |-> "off", resumed |-> FALSE, sid |-> NoSid, n |-> 0, open |-> {},
        own |-> {}, shown |-> {}, wide |-> {}, calls |-> 0, tools |-> 0, final |-> FALSE,
        tasks |-> {}, gauge |-> Gauge, bill |-> Bill, mid |-> FALSE]

Chat == [project |-> place.project, worktree |-> place.worktree, known |-> got.known]

\* Bound: no worktree where the spawner has no part in making it, and then
\* with a project.
Init ==
  /\ dialect \in Dialects /\ place \in [project : BOOLEAN, worktree : BOOLEAN] /\ tree = FALSE
  /\ IF dialect \in {"codex", "gemini", "pi"} THEN place.project \/ place.worktree
     ELSE place.project /\ ~place.worktree
  /\ store = {} /\ ids = 0 /\ turns = 0
  /\ cli = Off /\ adapter = NewAdapter(FALSE) /\ said = <<>> /\ due = <<>>
  /\ got = [known |-> NoSid, shown |-> <<>>, signals |-> <<>>, reading |-> 0]

-----------------------------------------------------------------------------
(* The turn                                                                *)

\* spawn_agent with what the mirror knows of the chat.  The agent never runs
\* when "git worktree add" finds the tree there, or "cd" finds none.
StartTurn ==
  /\ cli.at \in {"off", "cut", "failed"} /\ turns < MaxTurns
  /\ turns' = turns + 1
  /\ LET run == PrepareCommand(dialect, Chat)
         lost == run.cd = "tree" /\ tree = run.adds
         fails == lost \/ run.resumes \notin store \cup {NoSid} IN
       /\ tree' = (tree \/ run.adds)
       /\ cli' = [Off EXCEPT !.at = IF fails THEN "failed" ELSE "opening",
                             !.resumed = run.resumes # NoSid, !.sid = run.resumes]
  /\ adapter' = NewAdapter(got.known # NoSid)
  /\ got' = [got EXCEPT !.shown = <<>>, !.signals = <<>>, !.reading = 0]
  /\ said' = <<>> /\ due' = <<>>
  /\ UNCHANGED <<dialect, place, store, ids>>

\* What is made of an event, and of events in their order.
Takes(had, e) ==
  CASE e.k = "frame" -> [had EXCEPT !.shown = @ \o e.say]
    [] e.k = "tokens" -> [had EXCEPT !.reading = e.n]
    [] e.k = "sid" -> [had EXCEPT !.known = e.n]
    [] e.k = "compact" -> [had EXCEPT !.signals = Append(@, e), !.reading = e.n]
    [] OTHER -> [had EXCEPT !.signals = Append(@, e)]

Received(had, evs) == FoldLeft(Takes, had, evs)

\* The CLI writes a line; c is what it has done then.
Writes(line, c, says, signals) ==
  LET does == Handle(dialect, adapter, line) IN
  /\ adapter' = does.a /\ got' = Received(got, does.ev)
  /\ cli' = c
  /\ said' = said \o says /\ due' = due \o signals

\* The lines in which each dialect says the same thing (external).
OpenLine(d, sid) ==
  [Line(CASE d = "codex" -> "thread.started" [] d = "pi" -> "session" [] OTHER -> "init")
     EXCEPT !.sid = sid]

SayLine(d, n, call, tok, big, say) ==
  [Line(CASE d = "codex" -> "item.completed" [] d = "gemini" -> "message"
          [] d = "pi" -> "message_end" [] OTHER -> "assistant")
     EXCEPT !.id = n, !.call = call, !.tok = tok, !.big = big, !.say = say]

CallLine(d, n, own, tok, big, say) ==
  [Line(CASE d = "codex" -> "item.started" [] d = "gemini" -> "tool_use"
          [] d = "pi" -> "message_end" [] d = "cursor" -> "tool_call.started"
          [] OTHER -> "assistant")
     EXCEPT !.id = n, !.own = own, !.tok = tok, !.big = big, !.say = say]

AnswerLine(d, i, own, big, say) ==
  [Line(CASE d = "codex" -> "item.completed" [] d = "gemini" -> "tool_result"
          [] d = "cursor" -> "tool_call.completed" [] d = "pi" -> "tool_execution_end"
          [] OTHER -> "user")
     EXCEPT !.id = i, !.own = own, !.call = cli.calls, !.big = big, !.say = say]

EndLine(d, ok, big, tok, tools, say) ==
  [Line(CASE d = "codex" -> (IF ok THEN "turn.completed" ELSE "turn.failed")
          [] d = "pi" -> "agent_end" [] d = "hermes" /\ ~ok -> "error" [] OTHER -> "result")
     EXCEPT !.ok = ok, !.big = big, !.tok = tok, !.call = tools, !.say = say]

\* A resumed gemini announces an id under which nothing can be resumed.
Opens ==
  /\ cli.at = "opening" /\ ids' = ids + 1
  /\ LET fresh == ~cli.resumed \/ dialect = "gemini"
         sid == IF fresh THEN ids + 1 ELSE cli.sid IN
       /\ store' = (IF cli.resumed THEN store ELSE store \cup {sid})
       /\ Writes(OpenLine(dialect, sid), [cli EXCEPT !.at = "talking"], <<>>, <<>>)
  /\ UNCHANGED <<dialect, place, tree, turns>>

Talks == cli.at = "talking" /\ cli.n < Lines /\ UNCHANGED <<dialect, place, tree, store, ids, turns>>

Text(n) == <<"text", n>>
Tool(n) == <<"tool", n>>
Output(n) == <<"output", n>>
Raw(n) == <<"raw", n>>
End(n, ok) == <<"end", n, ok>>
Why(n) == <<"why", n>>
File(n) == <<"file", n>>
Hidden(kind, n) == <<kind, n>>

\* cursor and gemini tell the usage of all model calls of the turn at once.
Summed == dialect \in {"cursor", "gemini"}

\* The model call a word or a tool call of theirs belongs to: the one the agent
\* is in the middle of, or the next, which begins when all results of the last
\* are in.  What gemini says without a tool call is its last answer.  (The
\* others' calls are not told apart.)
InCall(c) ==
  \/ ~Summed /\ c = 1
  \/ Summed /\ cli.mid /\ c = cli.calls
  \/ Summed /\ cli.open = {} /\ c = cli.calls + 1 /\ (dialect = "gemini" => ~cli.mid)

\* claude and pi tell the size of the context with the words; claude's
\* adapter passes over a reading like the last (Observe), though a compaction
\* may have come between.
Measured(d, g, s, big) ==
  CASE d = "pi" -> [g EXCEPT !.low = s, !.high = s]
    [] d = "claude" /\ big -> [g EXCEPT !.blurred = TRUE]
    [] d = "claude" /\ ~big ->
         LET again == g.packed /\ s = g.told IN
         [low |-> s, high |-> s, told |-> s, packed |-> again, blurred |-> again]
    [] OTHER -> g

\* A model call is billed once.
Billed(b, c, s) ==
  IF c = cli.calls \/ ~Summed THEN b
  ELSE [sum |-> b.sum + s,
        low |-> IF cli.calls = 0 \/ s < b.low THEN s ELSE b.low,
        high |-> IF s > b.high THEN s ELSE b.high]

\* The agent says something.  cursor: the last call of a turn is not named.
Says ==
  /\ Talks /\ ~cli.final
  /\ \E c \in 1..Lines, s \in Sizes, big \in BOOLEAN, last \in BOOLEAN :
       LET n == cli.n + 1 IN
       /\ InCall(c) /\ (last => dialect = "cursor" /\ c > cli.calls)
       /\ Writes(SayLine(dialect, n, IF last THEN 0 ELSE c, s, big, <<Text(n)>>),
            [cli EXCEPT !.n = n, !.calls = c, !.mid = Summed, !.final = last,
                        !.gauge = Measured(dialect, @, s, big), !.bill = Billed(@, c, s)],
            <<Text(n)>>, <<>>)

\* A tool call.  codex may announce one it knows nothing of yet, or that
\* changes several files; gemini has tools that are no one's business; a
\* message of pi has what was thought and said before the call.  Bound: a
\* message of pi has one call.
Calls ==
  /\ Talks /\ ~cli.final
  /\ \E c \in 1..Lines, s \in Sizes, own, big, blank, more \in BOOLEAN :
       LET n == cli.n + 1
           blanks == IF blank THEN <<Hidden(IF dialect = "gemini" THEN "meta" ELSE "bare", n)>>
                     ELSE <<>>
           shows == IF blank \/ dialect = "cursor" THEN <<>>
                    ELSE CASE more /\ dialect = "pi" -> <<Text(n), Tool(n)>>
                           [] more /\ dialect = "codex" -> <<Tool(n), File(n)>>
                           [] OTHER -> <<Tool(n)>>
           thinks == IF more /\ dialect = "pi" THEN <<Hidden("thinking", n)>> ELSE <<>>
       IN /\ InCall(c) /\ (dialect = "pi" => cli.open = {})
          /\ (blank => dialect \in {"gemini", "codex"} /\ ~(own /\ dialect = "gemini"))
          /\ (more => dialect \in {"pi", "codex"} /\ ~own)
          /\ (own => dialect \notin {"pi", "hermes"})
          /\ Writes(CallLine(dialect, n, own, s, big, thinks \o blanks \o shows),
               [cli EXCEPT !.n = n, !.calls = c, !.tools = @ + 1, !.mid = Summed,
                           !.open = @ \cup {n}, !.own = IF own THEN @ \cup {n} ELSE @,
                           !.shown = IF shows = <<>> THEN @ ELSE @ \cup {n},
                           !.wide = IF more THEN @ \cup {n} ELSE @,
                           !.gauge = Measured(dialect, @, s, big), !.bill = Billed(@, c, s)],
               shows, <<>>)

\* A call of claude whose arguments hold the type field of another line.
\* (Those of a prune call are a string.)
QuotingCalls ==
  /\ Talks /\ dialect = "claude"
  /\ \E s \in Sizes, ty \in {"system", "user", "stream_event", "result"} :
       LET n == cli.n + 1
           hidden == ty # "result"
       IN Writes([CallLine(dialect, n, FALSE, s, FALSE, <<Tool(n)>>) EXCEPT !.holds = {ty}],
            [cli EXCEPT !.n = n, !.open = @ \cup {n},
                        !.gauge = Measured(dialect, @, s, FALSE)],
            Unless(hidden, <<Tool(n)>>), Unless(hidden, <<Ended(FALSE)>>))

\* Its result, in any order.  Bound: a prune call's own is short.
Answers ==
  /\ Talks
  /\ \E i \in cli.open, big \in BOOLEAN :
       LET own == i \in cli.own
           shows == dialect \in {"codex", "cursor"}
           say == IF shows THEN IF i \in cli.wide THEN <<Tool(i), File(i)>> ELSE <<Tool(i)>>
                  ELSE IF dialect = "hermes" THEN <<Output(i)>> ELSE <<>>
       IN /\ (own => ~big)
          /\ Writes(AnswerLine(dialect, i, own, big, say),
               [cli EXCEPT !.n = @ + 1, !.open = @ \ {i}, !.mid = FALSE, !.shown = @ \cup {i},
                           !.gauge.blurred = @ \/ (dialect = "cursor" /\ big)],
               IF shows /\ i \in cli.shown THEN <<>> ELSE say,
               Unless(~own \/ dialect \in {"pi", "hermes"}, <<Cue>>))

\* cursor tells of a call, and of its arguments, with its result.
QuotingAnswers ==
  /\ Talks /\ dialect = "cursor"
  /\ \E i \in cli.open \ cli.own, ty \in {"thinking", "user", "tool_call.started"} :
       Writes([AnswerLine(dialect, i, FALSE, FALSE, <<Tool(i)>>) EXCEPT !.holds = {ty}],
         [cli EXCEPT !.n = @ + 1, !.open = @ \ {i}, !.mid = FALSE,
                     !.gauge.blurred = TRUE],
         <<>>, <<>>)

\* Lines that are no part of the conversation; what claude and the plugin of
\* hermes write beside their JSON is shown.
Chatters ==
  /\ Talks
  /\ LET n == cli.n + 1
         Aside(ty, kind) == [Line(ty) EXCEPT !.id = n, !.say = <<Hidden(kind, n)>>]
         Passes(line) == Writes(line, [cli EXCEPT !.n = n], <<>>, <<>>) IN
     \/ /\ dialect \in {"claude", "hermes"}
        /\ Writes([Line("other") EXCEPT !.say = <<Raw(n)>>], [cli EXCEPT !.n = n], <<Raw(n)>>, <<>>)
     \/ /\ dialect \notin {"claude", "hermes"}
        /\ \E big \in BOOLEAN : Passes([Aside("other", "raw") EXCEPT !.big = big])
     \/ dialect = "claude" /\ \E ty \in {"stream_event", "user", "system"} : Passes(Aside(ty, "raw"))
     \/ dialect = "claude" /\ Passes([Aside("assistant", "thinking") EXCEPT !.big = TRUE])
     \/ dialect = "codex" /\ Passes(Aside("item.completed", "thinking"))
     \/ dialect \in {"codex", "pi"} /\ Passes([OpenLine(dialect, NoSid) EXCEPT !.big = TRUE])

\* claude: a subagent's words, with the subagent's usage.
SubagentSays ==
  /\ Talks /\ dialect = "claude"
  /\ LET n == cli.n + 1 IN
       Writes([Line("assistant") EXCEPT !.id = n, !.sub = TRUE, !.tok = 90, !.say = <<Text(n)>>],
              [cli EXCEPT !.n = n], <<Text(n)>>, <<>>)

\* claude: background tasks.  An update that is not the last one ends nothing.
Tasks ==
  /\ Talks /\ dialect = "claude"
  /\ LET n == cli.n + 1 IN
     \/ Writes([Line("task_started") EXCEPT !.id = n],
               [cli EXCEPT !.n = n, !.tasks = @ \cup {n}], <<>>, <<TaskStarted(n)>>)
     \/ \E i \in cli.tasks, ty \in {"task_notification", "task_updated"} :
          Writes([Line(ty) EXCEPT !.id = i],
                 [cli EXCEPT !.n = n, !.tasks = @ \ {i}], <<>>, <<TaskFinished(i)>>)
     \/ \E i \in cli.tasks :
          Writes([Line("task_updated") EXCEPT !.id = i, !.ok = FALSE],
                 [cli EXCEPT !.n = n], <<>>, <<>>)
     \/ \E s \in Sizes :
          Writes([Line("compact_boundary") EXCEPT !.tok = s],
                 [cli EXCEPT !.n = n, !.gauge.low = s, !.gauge.high = s, !.gauge.packed = TRUE,
                             !.gauge.blurred = FALSE],
                 <<>>, <<Compacted(s)>>)

\* hermes: the plugin reports the size of the context.
Reports ==
  /\ Talks /\ dialect = "hermes" /\ cli.calls > 0
  /\ \E s \in Sizes :
       Writes([Line("context_tokens") EXCEPT !.tok = s],
              [cli EXCEPT !.n = @ + 1, !.gauge.low = s, !.gauge.high = s], <<>>, <<>>)

\* A turn ends.  claude's process goes on: with a task's turn, or the next.
\* Not ok: claude, the abort of a turn the user stopped; the others, an error.
\* gemini's sum is divided by one more than the number of its tool calls, which
\* is that of its model calls if they were made one after the other; by more,
\* if they were not.
Ends ==
  /\ Talks /\ cli.open = {}
  /\ \E ok \in BOOLEAN, big \in BOOLEAN, task \in BOOLEAN :
       LET n == cli.n + 1
           total == IF ok /\ dialect \in {"cursor", "gemini"} THEN cli.bill.sum ELSE 0
           mean == dialect = "cursor" \/ cli.calls = cli.tools + 1
           say == CASE dialect = "claude" /\ ~ok -> <<>>
                    [] dialect = "gemini" /\ ~ok -> <<Why(n), End(n, ok)>>
                    [] OTHER -> <<End(n, ok)>>
           line == [EndLine(dialect, ok, big, total, cli.tools, say) EXCEPT !.task = task]
       IN /\ (big => dialect \in BigResult) /\ (task => dialect = "claude" /\ ok)
          /\ Writes(line,
               [cli EXCEPT !.n = n, !.at = IF dialect = "claude" THEN @ ELSE "over",
                           !.gauge = IF total = 0 THEN @
                                     ELSE [@ EXCEPT !.low = IF mean THEN cli.bill.low ELSE 0,
                                                    !.high = cli.bill.high]],
               say, <<Ended(task)>>)

\* The process exits; codex's reading is taken from its rollout then.
Exits ==
  /\ cli.at = "over" \/ (cli.at = "talking" /\ dialect = "claude" /\ cli.open = {})
  /\ \/ /\ dialect # "codex"
        /\ got' = got /\ cli' = [cli EXCEPT !.at = "off"]
     \/ \E s \in Sizes \cup {0} :
          /\ dialect = "codex" /\ got' = Received(got, CodexPostTurn(s))
          /\ cli' = [cli EXCEPT !.at = "off", !.gauge.low = s, !.gauge.high = s]
  /\ UNCHANGED <<chat, adapter, said, due>>

\* It is stopped or crashes in the middle of a turn.
Cut ==
  /\ cli.at \in {"opening", "talking"}
  /\ cli' = [cli EXCEPT !.at = "cut"]
  /\ UNCHANGED <<chat, adapter, got, said, due>>

Next == \/ StartTurn \/ Opens \/ Says \/ Calls \/ QuotingCalls \/ Answers \/ QuotingAnswers
        \/ Chatters \/ SubagentSays \/ Tasks \/ Reports \/ Ends \/ Exits \/ Cut

Spec == Init /\ [][Next]_vars

-----------------------------------------------------------------------------
(* Properties                                                              *)

TypeOK ==
  /\ got.known \in 0..ids /\ store \subseteq 1..ids /\ turns \in 0..MaxTurns
  /\ cli.at \in {"off", "opening", "talking", "over", "cut", "failed"}
  /\ cli.n \in 0..Lines /\ cli.own \subseteq 1..Lines

\* Everything the agent says and does is shown, once and in the order it
\* came, whatever the length of the line, and nothing else is: what is not
\* shown yet is text gemini's adapter still gathers, and none of it is left
\* once the turn is over (handle_line of the six adapters).  Not claimed of a
\* call of claude or cursor whose arguments hold the type field of a line
\* that is not for the chat ("said" leaves it out).
ChatIsFaithful ==
  /\ got.shown \o adapter.text = said
  /\ cli.at \in {"over", "off"} => adapter.text = <<>>

\* The supervisor and the prune flow get every signal due, once and in
\* order: the end of a turn, with whose turn it was; a background task's
\* start and end; a compaction; and a cue for the result of the agent's own
\* prune-context call, never for that of a call made beside it.  An end more
\* is due for a call of claude whose arguments hold the type field of a
\* result.
SignalsAreTrue == got.signals = due

\* The last reading sent is the size of the agent's own context: not a
\* subagent's, not from before a compaction, and not a sum over the calls of
\* the turn.  cursor's is among those of the calls of the turn; gemini's is
\* not above them, nor below if it made one tool call at a time.  Not claimed
\* after a line of claude or cursor that was too long to read it from, or
\* taken for another, nor while claude's context is after a compaction just
\* what it was last before.
GaugeIsTrue ==
  ~cli.gauge.blurred => cli.gauge.low <= got.reading /\ got.reading <= cli.gauge.high

\* The id harvested is one the CLI can resume, and a turn never fails to
\* start, unless the chat's first turn made the worktree and was cut before
\* it announced its session (the first-turn test of worktree_cwd_prefix).
SessionResumes ==
  /\ got.known \in store \cup {NoSid}
  /\ cli.at = "failed" => store = {}

=============================================================================
