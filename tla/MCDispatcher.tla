----------------------------- MODULE MCDispatcher -----------------------------
(***************************************************************************)
(* Dispatcher on a small instance, with its properties.                    *)
(***************************************************************************)
EXTENDS DispatcherProperties, TLC

Symmetry == Permutations(Req) \cup Permutations(Model)
=============================================================================
