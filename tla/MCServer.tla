------------------------------ MODULE MCServer ------------------------------
(***************************************************************************)
(* Two threads, as kNumThreads; two commands, one of them with two         *)
(* instructions, each added with either of two states.                     *)
(***************************************************************************)
EXTENDS Server, TLC

CONSTANTS c1, c2

MCCommands == {c1, c2}
MCInstr == (c1 :> 2) @@ (c2 :> 1)
=============================================================================
