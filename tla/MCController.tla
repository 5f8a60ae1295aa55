------------------------------ MODULE MCController -----------------------------
(* Small instances of Controller.                                          *)
EXTENDS Controller, TLC

Symmetric == Permutations(AgentId) \cup Permutations(Turn)
=============================================================================
