-------------------------- MODULE MCPendingMessage --------------------------
(* A small instance of PendingMessage for TLC. *)
EXTENDS PendingMessage, TLC

Symmetry == Permutations(Socket) \cup Permutations(Message) \cup Permutations(Request)
=============================================================================
