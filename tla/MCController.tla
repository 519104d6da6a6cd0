---------------------------- MODULE MCController ----------------------------
(***************************************************************************)
(* A C app, which is loaded once, and a Python app without parameters,     *)
(* which may be loaded several times, in two slots.                        *)
(***************************************************************************)
EXTENDS Controller, TLC

MCReqs == {"c", "py"}
MCPython == {"py"}
MCPath == [north |-> "north", c |-> "c", py |-> "loader"]
MCParams == [north |-> {}, c |-> {}, py |-> {}]

MCSymmetry == Permutations(Envs)
=============================================================================
