----------------------------- MODULE Transcript -----------------------------
(***************************************************************************)
(* The session transcripts prune-context edits: prune.rs and the pruners   *)
(* of the five agent dialects that have one (adapters/claude.rs,           *)
(* gemini.rs, codex.rs, pi.rs and cursor.rs).                              *)
(*                                                                         *)
(* A transcript is a sequence of lines, a line a sequence of nodes, in     *)
(* document order.  A node is a tool call, a copy of its output, or        *)
(* claude's expansion of a skill ("body").  Names and arguments of a call  *)
(* are one abstract argument; a glob is the set of arguments it hits.  The *)
(* text of an output is "full", "tiny" (not longer than the placeholder:   *)
(* nothing is freed) or "pruned".                                          *)
(*                                                                         *)
(* In cursor's store a line is a message blob and the order of the lines   *)
(* is that of the hashes in the root blob.                                 *)
(***************************************************************************)
EXTENDS Naturals, Sequences, FiniteSets, SequencesExt

CONSTANTS
  Glob,   \* needles a prune request may carry, "" among them: no arguments
  Hits    \* the arguments each of them matches, in [Glob -> SUBSET Arg]

\* "none": called without arguments.  "own": a prune-context call.
Arg == {"a", "b", "none", "own"}
Text == {"full", "tiny", "pruned"}
Dialect == {"claude", "gemini", "codex", "pi", "cursor"}

\* A node.  A call's text is gemini's resultDisplay, "absent" elsewhere.
CallNode(i, a, display) == [kind |-> "call", id |-> i, arg |-> a, text |-> display]
OutNode(k, i, t) == [kind |-> k, id |-> i, arg |-> "none", text |-> t]
Node == [kind : {"call", "output", "body"}, id : Nat, arg : Arg,
         text : Text \cup {"absent"}]

ASSUME GlobAssumption == Hits \in [Glob -> SUBSET Arg]

Nodes(log) == FlattenSeq(log)
NodesOf(log) == UNION {{log[k][j] : j \in 1..Len(log[k])} : k \in 1..Len(log)}

\* Where the nodes are, and which of two comes first in the document.
Places(log) == UNION {{k} \X (1..Len(log[k])) : k \in 1..Len(log)}
At(log, p) == log[p[1]][p[2]]
Before(p, q) == p[1] < q[1] \/ (p[1] = q[1] /\ p[2] < q[2])
Latest(places) == CHOOSE p \in places : \A q \in places : q = p \/ Before(q, p)

-----------------------------------------------------------------------------
(* Selection: what each dialect collects from a transcript                 *)

\* Mutant: own calls are matched like any other.
CallMatchesOwn(n, g) == n.kind = "call" /\ n.arg \in Hits[g]

\* The agent's own prune-context call is never a target, whatever it matches.
CallMatches(n, g) == n.kind = "call" /\ n.arg # "own" /\ n.arg \in Hits[g]

\* The calls a needle matches, by their places.
MatchedAt(log, g) == {p \in Places(log) : CallMatches(At(log, p), g)}

ClaudeMatched(log, g) == MatchedAt(log, g)
CodexMatched(log, g) == MatchedAt(log, g)
PiMatched(log, g) == MatchedAt(log, g)

\* gemini repeats a call in every snapshot: the first of each id counts.
GeminiMatched(log, g) ==
  LET hits == MatchedAt(log, g)
  IN  {p \in hits : ~\E q \in hits : Before(q, p) /\ At(log, q).id = At(log, p).id}

\* The ids of the nodes of some kinds whose text is the placeholder.
PlaceholderIds(log, kinds) ==
  {n.id : n \in {m \in NodesOf(log) : m.kind \in kinds /\ m.text = "pruned"}}

\* claude: the result, or the expansion of the skill the call launched.
ClaudePruned(log) == PlaceholderIds(log, {"output", "body"})
\* gemini: any copy of the response, wherever it sits.
GeminiPruned(log) == PlaceholderIds(log, {"output"})
CodexPruned(log) == PlaceholderIds(log, {"output"})

\* pi: a result line with a text leaf, and every leaf is the placeholder.
PiPruned(log) ==
  {i \in PlaceholderIds(log, {"output"}) :
     \E line \in ToSet(log) : /\ \E n \in ToSet(line) : n.kind = "output" /\ n.id = i
                              /\ \A n \in ToSet(line) : n.kind = "output" => n.text = "pruned"}

\* cursor walks the message blobs in the order of the root.
CursorEligible(log, g) ==
  {p \in MatchedAt(log, g) : At(log, p).id \notin PlaceholderIds(log, {"output"})}

\* PruneOps of a dialect: the two collectors.
Matched(d, log, g) ==
  CASE d = "claude" -> ClaudeMatched(log, g)
    [] d = "gemini" -> GeminiMatched(log, g)
    [] d = "codex"  -> CodexMatched(log, g)
    [] d = "pi"     -> PiMatched(log, g)

Pruned(d, log) ==
  CASE d = "claude" -> ClaudePruned(log)
    [] d = "gemini" -> GeminiPruned(log)
    [] d = "codex"  -> CodexPruned(log)
    [] d = "pi"     -> PiPruned(log)
    [] d = "cursor" -> PlaceholderIds(log, {"output"})

\* The calls a request may prune; count_matches says how many they are.
Eligible(d, log, g) ==
  IF d = "cursor" THEN CursorEligible(log, g)
  ELSE {p \in Matched(d, log, g) : At(log, p).id \notin Pruned(d, log)}

\* Mutant: what earlier targets took is forgotten.
ChooseBatchForgetful(d, log, targets) ==
  UNION {LET left == Eligible(d, log, g)
         IN  IF left = {} THEN {} ELSE {At(log, Latest(left)).id} : g \in ToSet(targets)}

\* Pass 1 of the batch driver: each target takes the last eligible id that no
\* earlier target took; a target with none left contributes nothing.
ChooseBatch(d, log, targets) ==
  FoldLeft(LAMBDA chosen, g :
             LET left == {p \in Eligible(d, log, g) : At(log, p).id \notin chosen}
             IN  IF left = {} THEN chosen ELSE chosen \cup {At(log, Latest(left)).id},
           {}, targets)

-----------------------------------------------------------------------------
(* Blanking: what each dialect does to the nodes of the chosen calls       *)

HasText(n) == n.text \in {"full", "tiny"}
BlankText(n) == IF HasText(n) THEN [n EXCEPT !.text = "pruned"] ELSE n
EraseArgs(n) == [n EXCEPT !.arg = "none"]

\* Mutant: the expansion of a skill stays.
BlankClaudeResult(n) ==
  IF n.kind = "call" THEN EraseArgs(n) ELSE IF n.kind = "body" THEN n ELSE BlankText(n)

\* claude: the call's input, its result, and the body of a skill.
BlankClaude(n) == IF n.kind = "call" THEN EraseArgs(n) ELSE BlankText(n)
\* codex: the call's arguments and its output.
BlankCodex(n) == IF n.kind = "call" THEN EraseArgs(n) ELSE BlankText(n)
\* gemini: every copy of the response, and the display beside the call.
BlankGemini(n) == BlankText(n)
\* pi: every text leaf of the result; the call stays.
BlankPi(n) == IF n.kind = "call" THEN n ELSE BlankText(n)

BlankNode(d, n) ==
  CASE d = "claude" -> BlankClaude(n)
    [] d = "gemini" -> BlankGemini(n)
    [] d = "codex"  -> BlankCodex(n)
    [] d = "pi"     -> BlankPi(n)

\* A line with the nodes of ids blanked.
Blanked(d, line, ids) ==
  [k \in 1..Len(line) |-> IF line[k].id \in ids THEN BlankNode(d, line[k]) ELSE line[k]]

\* The line as it is written back.  gemini says "unchanged" of a line that
\* frees no byte, so a tiny output stays as it was.
WrittenLine(d, line, ids) ==
  IF d = "gemini" /\ ~\E n \in ToSet(line) : n.id \in ids /\ n.text = "full" THEN line
  ELSE Blanked(d, line, ids)

\* The ids a line's blanking reports, written back or not.
Reported(line, ids) == {n.id : n \in {m \in ToSet(line) : m.id \in ids /\ HasText(m)}}

\* Mutant: only the first line that changes is rewritten.
BlankPassFirst(d, log, ids) ==
  LET touched == {k \in 1..Len(log) : WrittenLine(d, log[k], ids) # log[k]}
  IN  [log |-> [k \in 1..Len(log) |-> IF \E j \in touched : j < k THEN log[k]
                                      ELSE WrittenLine(d, log[k], ids)],
       blanked |-> UNION {Reported(log[k], ids) : k \in 1..Len(log)}]

\* Pass 2: every line is blanked in memory, the changed ones written back.
BlankPass(d, log, ids) ==
  [log |-> [k \in 1..Len(log) |-> WrittenLine(d, log[k], ids)],
   blanked |-> UNION {Reported(log[k], ids) : k \in 1..Len(log)}]

\* gemini's scan after the rewrite looks at the entries as blanked in memory.
LeakedGemini(log, ids) ==
  {n \in UNION {ToSet(Blanked("gemini", log[k], ids)) : k \in 1..Len(log)} :
     n.kind = "output" /\ n.id \in ids /\ n.text # "pruned"}

\* The message blobs that hold a result of a chosen call.
CursorTargets(log, ids) ==
  {k \in 1..Len(log) : \E n \in ToSet(log[k]) : n.kind = "output" /\ n.id \in ids}

\* cursor: those blobs are minted again with the results blanked, the root is
\* pointed at them and the head moved, in one transaction.  Without a target
\* nothing is written.
PruneCursor(log, ids) ==
  LET targets == CursorTargets(log, ids)
      hit(n)  == n.kind = "output" /\ n.id \in ids
  IN  [log |-> [k \in 1..Len(log) |->
                  [j \in 1..Len(log[k]) |->
                     IF hit(log[k][j]) THEN BlankText(log[k][j]) ELSE log[k][j]]],
       blanked |-> {n.id : n \in {m \in UNION {ToSet(log[k]) : k \in targets} : hit(m)}}]

\* PruneOps::prune_batch.
PruneBatch(d, log, targets) ==
  LET ids == ChooseBatch(d, log, targets)
  IN  IF d = "cursor" THEN PruneCursor(log, ids) ELSE BlankPass(d, log, ids)

\* Running one target after the other, each reading what the last one wrote.
PruneEach(d, log, targets) ==
  FoldLeft(LAMBDA t, g : PruneBatch(d, t, <<g>>).log, log, targets)

-----------------------------------------------------------------------------
(* What the agents write (external)                                        *)

\* The line a call adds.  gemini repeats the call when its result is there.
CallLine(i, a) == <<CallNode(i, a, "absent")>>

\* The lines an output adds: gemini records it with the call and its display,
\* and echoes it to the user; pi may write more than one text leaf.
AnswerLines(d, i, a, t) ==
  CASE d = "gemini" -> <<<<CallNode(i, a, t), OutNode("output", i, t)>>,
                         <<OutNode("output", i, t)>>>>
    [] d = "pi"     -> <<<<OutNode("output", i, t), OutNode("output", i, "full")>>>>
    [] OTHER        -> <<<<OutNode("output", i, t)>>>>

\* claude's skill calls return a short result and then the skill as a message.
SkillLines(i, t) == <<<<OutNode("output", i, "tiny")>>, <<OutNode("body", i, t)>>>>

\* gemini's $set of all messages: the last state of every call and output
\* again, in one line.
SnapshotLine(log) ==
  LET ns == Nodes(log)
      last == {k \in 1..Len(ns) : ~\E j \in (k + 1)..Len(ns) :
                 ns[j].kind = ns[k].kind /\ ns[j].id = ns[k].id}
  IN  <<FoldLeft(LAMBDA acc, k : IF k \in last THEN Append(acc, ns[k]) ELSE acc,
                 <<>>, [k \in 1..Len(ns) |-> k])>>
=============================================================================
