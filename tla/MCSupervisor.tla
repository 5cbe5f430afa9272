---------------------------- MODULE MCSupervisor ----------------------------
(***************************************************************************)
(* Supervisor on a small instance: one chat, either kind of adapter.       *)
(***************************************************************************)
EXTENDS Supervisor, TLC

Symmetry == Permutations(Proc)

\* The kind of agent whose task cannot see its token while it waits for a slot.
ResidentInit == Init /\ resident = Chat
ResidentFairSpec == ResidentInit /\ [][Next]_vars /\ Fairness

=============================================================================
