---------------------------- MODULE MCLuaModules ----------------------------
(* Instance of LuaModules for TLC. *)
EXTENDS LuaModules, TLC
=============================================================================
