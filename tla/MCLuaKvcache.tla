---------------------------- MODULE MCLuaKvcache ----------------------------
(* Instance of LuaKvcache for TLC. *)
EXTENDS LuaKvcache, TLC

Symmetry == Permutations(Tasks) \cup Permutations(Nodes)
=============================================================================
