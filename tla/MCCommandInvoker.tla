-------------------------- MODULE MCCommandInvoker --------------------------
(***************************************************************************)
(* Instances of CommandInvoker for TLC.                                    *)
(***************************************************************************)
EXTENDS CommandInvoker, TLC

\* The undoable commands are interchangeable.
MCSymmetry == Permutations(Undoable)
=============================================================================
