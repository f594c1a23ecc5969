------------------------------ MODULE MCPageFile ------------------------------
(***************************************************************************)
(* Values for the runs of PageFile: descriptor numbers start at 3, after    *)
(* the standard streams.                                                   *)
(***************************************************************************)
EXTENDS PageFile, TLC

TwoFds   == {3, 4}
ThreeFds == {3, 4, 5}

\* The files and the contents are interchangeable.
Symmetric == Permutations(File) \cup Permutations(Block)

=============================================================================
