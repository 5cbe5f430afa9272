--------------------------- MODULE MCPruneContext ---------------------------
(* Two needles: one that hits every call made with arguments, the agent's   *)
(* own prune call among them, and the one for calls without arguments.      *)
EXTENDS PruneContext

MCGlob == {"*", ""}
MCHits == ("*" :> {"a", "b", "own"}) @@ ("" :> {"none"})
=============================================================================
