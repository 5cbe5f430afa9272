------------------------------ MODULE PruneLog ------------------------------
(***************************************************************************)
(* What prune-context promises of a session: an output disappears only     *)
(* because a request asked for it, a request costs at most one output, it  *)
(* takes the latest that is left, and nothing comes back.                  *)
(***************************************************************************)
EXTENDS Naturals, Sequences, SequencesExt

CONSTANTS Glob, Hits, Arg, MaxBatch

VARIABLE calls   \* the calls, in order: what each was made with, what it returned

Out == {"none", "tiny", "full", "pruned"}
TypeOK == calls \in Seq([arg : Arg, out : Out])

\* It begins with whatever earlier turns left, nothing forgotten yet.
Init == \A i \in 1..Len(calls) : calls[i].out # "pruned"

Call == \E a \in Arg : calls' = Append(calls, [arg |-> a, out |-> "none"])

Answer ==
  \E i \in 1..Len(calls), t \in {"tiny", "full"} :
    calls[i].out = "none" /\ calls' = [calls EXCEPT ![i].out = t]

\* The calls a needle may take: never one whose output is gone, never the
\* agent's own prune call.
Left(before, g, taken) ==
  {i \in 1..Len(before) : /\ before[i].arg \in Hits[g] /\ before[i].arg # "own"
                          /\ before[i].out # "pruned" /\ i \notin taken}

Latest(S) == CHOOSE i \in S : \A j \in S : j <= i

\* One call for each needle, the latest that is left.
Taken(before, needles) ==
  FoldLeft(LAMBDA taken, g : IF Left(before, g, taken) = {} THEN taken
                             ELSE taken \cup {Latest(Left(before, g, taken))}, {}, needles)

\* What may become of a taken call: its output goes, or stays if nothing would
\* be gained; its arguments may go too.
Forgotten(c) ==
  [arg : {c.arg, "none"},
   out : CASE c.out = "full" -> {"pruned"}
           [] c.out = "tiny" -> {"tiny", "pruned"}
           [] OTHER          -> {c.out}]

\* after is before with the outputs some needles take forgotten.
Forgets(before, after) ==
  /\ Len(after) = Len(before)
  /\ LET lost == {i \in 1..Len(before) : after[i] # before[i]}
     IN  \E needles \in BoundedSeq(Glob, MaxBatch) :
           /\ lost \subseteq Taken(before, needles)
           /\ \A i \in Taken(before, needles) : after[i] \in Forgotten(before[i])

Prune == Forgets(calls, calls')

Next ==
  /\ calls' # calls
  /\ Call \/ Answer \/ Prune

Spec == Init /\ [][Next]_calls
=============================================================================
