----------------------------- MODULE MCTurnState -----------------------------
(* TurnState for TLC. *)
EXTENDS TurnState
=============================================================================
