------------------------------- MODULE MCFiles -------------------------------
(* Two names, three inodes besides the root's, blocks for three files. *)
EXTENDS Files
CONSTANTS file1, hongbai
==============================================================================
