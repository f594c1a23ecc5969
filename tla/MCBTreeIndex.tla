----------------------------- MODULE MCBTreeIndex -----------------------------
(***************************************************************************)
(* Values for the runs of BTreeIndex.                                      *)
(***************************************************************************)
EXTENDS BTreeIndex

\* Insertions: enough keys for a third level and for a split of a nonleaf node
\* under its root.
SixKeys   == 1 .. 6
EightKeys == 1 .. 8
NineKeys  == 1 .. 9

\* Scans: the rows have the even keys, the probes fall on and between them,
\* below and above.
EvenKeys  == {2, 4, 6, 8, 10}
AllProbes == 0 .. 10
OneProbe  == {3}
NoProbes  == {}

=============================================================================
