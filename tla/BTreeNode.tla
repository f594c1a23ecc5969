------------------------------ MODULE BTreeNode ------------------------------
(***************************************************************************)
(* The page formats and the in-memory node operations of the B+tree        *)
(* (bruinbase/BTreeNode.cc).  A node object is a 1 KB buffer that is read   *)
(* from, changed, and written back to one page; here it is a record, and    *)
(* each member function is an operator from node to node.                   *)
(*                                                                         *)
(* What the code keeps in bytes and the model keeps as structure:          *)
(*   - a leaf is a sequence of (key, rid) entries and the `next' page id;   *)
(*   - a nonleaf is keys k1..kn and pids p1..p(n+1);                        *)
(*   - the unused rest of a node is 0xff bytes, so a slot past the end      *)
(*     reads as key -1 and pid -1.  The code uses both as end markers, and  *)
(*     a stored key that is -1 is taken for the end: EndKey below.          *)
(* Sequences count from 1; the eid of a leaf entry counts from 0.           *)
(***************************************************************************)
EXTENDS Integers, Sequences, SequencesExt, FiniteSetsExt

CONSTANTS
    MAX_LEAF_KEY_COUNT,     \* entries that fit a leaf (70 in the code)
    MAX_NONLEAF_KEY_COUNT,  \* keys that fit a nonleaf (70 in the code)
    Key,                    \* the int keys of the table
    Rid,                    \* record ids: where a row is in the table file
    NoRid                   \* the record id a 0xff slot reads as: pid = -1

ASSUME LeafCapacity == MAX_LEAF_KEY_COUNT \in Nat \ {0}

\* With room for one key only, a split would leave a nonleaf without keys,
\* which BTNonLeafNode::insert takes for an empty one.
ASSUME NonLeafCapacity == MAX_NONLEAF_KEY_COUNT \in Nat \ {0, 1}

ASSUME KeysAreIntegers == Key \subseteq Int

ASSUME NoRidIsNoRecord == NoRid \notin Rid

\* The names that end in a variation of the name below them (LeafSlotAtEnd,
\* UpperHalfUnlinked, ...) are faulty forms of it, which the properties must
\* tell from the code.

EndKey == -1
NoPid  == -1

\* What a pointer of the index holds: page 0 is the metadata, and no node.
Pid    == (Nat \ {0}) \cup {NoPid}
Entry  == [key : Key, rid : Rid]

(***************************************************************************)
(* Pages.  A fresh page is all 0xff (fetch_new_page): "blank".              *)
(***************************************************************************)
Blank                   == [kind |-> "blank"]
Leaf(entries, next)     == [kind |-> "leaf", entries |-> entries, next |-> next]
NonLeaf(keys, pids)     == [kind |-> "nonleaf", keys |-> keys, pids |-> pids]
Metadata(root, height)  == [kind |-> "meta", rootPid |-> root,
                            treeHeight |-> height]

\* A node object over a 0xff buffer.
EmptyLeaf    == Leaf(<<>>, NoPid)
EmptyNonLeaf == NonLeaf(<<>>, <<>>)

(***************************************************************************)
(* Leaf nodes                                                              *)
(***************************************************************************)

\* The slot an entry goes to: the scan stops at the first key that is larger
\* or that looks like the end.
LeafSlotAtEnd(entries, key) == Len(entries) + 1
LeafSlot(entries, key) ==
    Min({i \in 1 .. Len(entries) : key < entries[i].key
                                     \/ entries[i].key = EndKey}
        \cup {Len(entries) + 1})

LeafPut(entries, e) == InsertAt(entries, LeafSlot(entries, e.key), e)

LeafIsFullLate(leaf) == Len(leaf.entries) > MAX_LEAF_KEY_COUNT
LeafIsFull(leaf)     == Len(leaf.entries) = MAX_LEAF_KEY_COUNT

\* BTLeafNode::insert of a node that is not full; it saves the next pointer
\* over the shift and restores it.
LeafInsert(leaf, e) == [leaf EXCEPT !.entries = LeafPut(@, e)]

\* insertAndSplit: the entry goes in first, the lower half stays.  The shift
\* of _insert moves 0xff over the next pointer, so the lower half has none
\* until the caller sets it.
HalfBarOne(s) == Len(s) - 1
Half(s)       == Len(s) \div 2
UpperHalfUnlinked(leaf, e) ==
    LET all == LeafPut(leaf.entries, e)
    IN  Leaf(SubSeq(all, Half(all) + 1, Len(all)), NoPid)
UpperHalf(leaf, e) ==
    LET all == LeafPut(leaf.entries, e)
    IN  Leaf(SubSeq(all, Half(all) + 1, Len(all)), leaf.next)
LowerHalf(leaf, e) ==
    LET all == LeafPut(leaf.entries, e)
    IN  Leaf(SubSeq(all, 1, Half(all)), NoPid)
SiblingKeyOfLower(leaf, e) == Last(LowerHalf(leaf, e).entries).key
SiblingKey(leaf, e)        == UpperHalf(leaf, e).entries[1].key

\* BTLeafNode::locate: the eid of the first key >= searchKey, else the eid one
\* past the last entry.
LeafLocate(leaf, searchKey) ==
    Min({i \in 1 .. Len(leaf.entries) : leaf.entries[i].key >= searchKey}
        \cup {Len(leaf.entries) + 1}) - 1

(***************************************************************************)
(* Nonleaf nodes                                                           *)
(***************************************************************************)

\* The position where the scan over the keys stops for key.
NonLeafSlot(keys, key) ==
    Min({i \in 1 .. Len(keys) : key < keys[i] \/ keys[i] = EndKey}
        \cup {Len(keys) + 1})

\* getKeyCount counts pids, up to the first -1.
NonLeafKeyCount(node) == IF node.pids = <<>> THEN 0 ELSE Len(node.pids) - 1

NonLeafIsFull(node) == NonLeafKeyCount(node) = MAX_NONLEAF_KEY_COUNT

\* BTNonLeafNode::_insert, and insert of a node that is not full.  A node
\* without keys has its first slot overwritten, and so has a key that looks
\* like the end; otherwise the pid goes to the right of its key.
NonLeafPut(node, key, pid) ==
    LET i == NonLeafSlot(node.keys, key)
    IN  CASE NonLeafKeyCount(node) = 0 -> NonLeaf(<<key>>, <<pid>>)
          [] NonLeafKeyCount(node) # 0 /\ i <= Len(node.keys)
               /\ ~ (key < node.keys[i]) ->
                 [node EXCEPT !.keys[i] = key, !.pids[i + 1] = pid]
          [] OTHER ->
                 [node EXCEPT !.keys = InsertAt(@, i, key),
                              !.pids = InsertAt(@, i + 1, pid)]

\* insertAndSplit: the middle key leaves both halves.
MidKeyTooLow(node, key, pid) ==
    LET all == NonLeafPut(node, key, pid)
    IN  all.keys[Half(all.keys)]
MidKey(node, key, pid) ==
    LET all == NonLeafPut(node, key, pid)
    IN  all.keys[Half(all.keys) + 1]
LowerNode(node, key, pid) ==
    LET all == NonLeafPut(node, key, pid)
        h   == Half(all.keys)
    IN  NonLeaf(SubSeq(all.keys, 1, h), SubSeq(all.pids, 1, h + 1))
UpperNodeKeepsMid(node, key, pid) ==
    LET all == NonLeafPut(node, key, pid)
        h   == Half(all.keys)
    IN  NonLeaf(SubSeq(all.keys, h + 1, Len(all.keys)),
                SubSeq(all.pids, h + 2, Len(all.pids)))
UpperNode(node, key, pid) ==
    LET all == NonLeafPut(node, key, pid)
        h   == Half(all.keys)
    IN  NonLeaf(SubSeq(all.keys, h + 2, Len(all.keys)),
                SubSeq(all.pids, h + 2, Len(all.pids)))

\* locateChildPtr: a key equal to a separator is to the right of it.
ChildLeftOfEqual(node, searchKey) ==
    LET i == Min({j \in 1 .. Len(node.keys) : searchKey <= node.keys[j]}
                 \cup {Len(node.keys) + 1})
    IN  IF i \in DOMAIN node.pids THEN node.pids[i] ELSE NoPid
LocateChildPtr(node, searchKey) ==
    LET i == NonLeafSlot(node.keys, searchKey)
    IN  IF i \in DOMAIN node.pids THEN node.pids[i] ELSE NoPid

\* initializeRoot
NewRoot(pid1, key, pid2) == NonLeaf(<<key>>, <<pid1, pid2>>)

=============================================================================
