------------------------------ MODULE MCRecordFile ------------------------------
(***************************************************************************)
(* Values for the runs of RecordFile: a value that fits a slot, and a long  *)
(* one that is cut to it.                                                  *)
(***************************************************************************)
EXTENDS RecordFile, TLC

CutLong == [value \in Value |-> "short"]

\* The keys are interchangeable.
Symmetric == Permutations(Key)

=============================================================================
