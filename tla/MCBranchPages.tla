---------------------------- MODULE MCBranchPages ----------------------------
(* Small instances of BranchPages for TLC.                                 *)
EXTENDS BranchPages

(* The last branch is in the table and on no list.                         *)
MCBranches == 1 .. 5
MCListed == 1 .. 4
=============================================================================
