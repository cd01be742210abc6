----------------------------- MODULE MCTailnet -----------------------------
(***************************************************************************)
(* Small instances of Tailnet.                                             *)
(***************************************************************************)
EXTENDS Tailnet, TLC

HandlerSymmetry == Permutations(Handlers)

\* Liveness is checked from the start that exercises most of the code: a key is
\* stored, the gate is open, an exit node is saved and tsnet restored no route.
BusyInit == Init /\ hasKey /\ ~locked /\ exitNode # NoNode /\ route = NoNode

BusyFairSpec == BusyInit /\ [][Next]_vars /\ Fairness
=============================================================================
