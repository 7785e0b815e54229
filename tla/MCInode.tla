------------------------------ MODULE MCInode ------------------------------
(***************************************************************************)
(* The inodes of the disk of module InodeDisk.                             *)
(***************************************************************************)
EXTENDS Inode, InodeDisk, TLC

Symmetry == Permutations(Process)

=============================================================================
