--------------------------- MODULE MCAdapterStream ---------------------------
(***************************************************************************)
(* AdapterStream for TLC: turns as short as the cases of interest allow.   *)
(* claude has the most kinds of lines; cursor needs two tool calls and the *)
(* words of a third model call to tell a mean from a sum.                  *)
(***************************************************************************)
EXTENDS AdapterStream

MCLines == [d \in Dialect |-> CASE d = "claude" -> 4 [] d = "cursor" -> 6 [] OTHER -> 5]
=============================================================================
