------------------------------ MODULE BTreeIndex ------------------------------
(***************************************************************************)
(* The B+tree index file (bruinbase/BTreeIndex.cc) as the SQL engine drives *)
(* it: a LOAD opens it 'w', inserts one (key, rid) pair per row and closes  *)
(* it; a SELECT opens it 'r', locates a start key, reads forward to the end *)
(* and closes it.                                                           *)
(*                                                                         *)
(* The program is sequential, so a step of the model is the code between    *)
(* two page writes: insert is a chain of steps, and what the file holds     *)
(* between two of them is what a crash leaves behind.  A step that reads a  *)
(* node again finds the page as the code's buffer has it, because a call    *)
(* writes a page only when it is done with the node.                        *)
(***************************************************************************)
EXTENDS BTreeNode

CONSTANTS
    Probes,      \* the start keys of scans ({} : no scans)
    MaxCrashes,  \* bound: crashes while the index is open for writing
    MaxDepth     \* bound: frames of _insert and _locate the C++ stack holds

ASSUME ProbesAreIntegers == Probes \subseteq Int
ASSUME MaxCrashesIsNat   == MaxCrashes \in Nat
ASSUME MaxDepthIsNat     == MaxDepth \in Nat \ {0}

VARIABLES
    disk,        \* the pages of the index file: pid p is disk[p + 1]
    mode,        \* how the index is open: "none", "r" or "w"
    rootPid,     \* the object's rootPid
    treeHeight,  \* the object's treeHeight
    pc,          \* what the running call does next
    ins,         \* the entry being inserted
    path,        \* the pids of the active _insert frames, root first
    splitkey,    \* what the last split hands to the frame above it
    splitpid,
    newPid,      \* the page fetched for a split nonleaf or for a new root
    cursor,      \* the IndexCursor of a scan
    scanKey,     \* what the scan was asked for
    scanned,     \* the entries it returned
    acked,       \* the entries whose insert returned
    tried,       \* the keys whose insert was called
    crashes

file  == <<disk, mode>>
head  == <<rootPid, treeHeight>>
frame == <<ins, path, splitkey, splitpid, newPid>>
scan  == <<cursor, scanKey, scanned>>
ghost == <<acked, tried, crashes>>
vars  == <<file, head, pc, frame, scan, ghost>>

NoEntry  == [key |-> EndKey, rid |-> NoRid]
NoCursor == [pid |-> NoPid, eid |-> 0]

(***************************************************************************)
(* Reading and writing pages                                               *)
(***************************************************************************)

\* PageFile::endPid
EndPid == Len(disk)

\* A read outside of the file fails and leaves the 0xff buffer of the node as it
\* was; reads of pages in the file are taken to succeed.
PageAt(pid)    == IF pid \in 0 .. EndPid - 1 THEN disk[pid + 1] ELSE Blank
LeafAt(pid)    == LET page == PageAt(pid)
                  IN  IF page.kind = "leaf" THEN page ELSE EmptyLeaf
NonLeafAt(pid) == LET page == PageAt(pid)
                  IN  IF page.kind = "nonleaf" THEN page ELSE EmptyNonLeaf

WritePage(pid, page) ==
    disk' = IF pid \in 0 .. EndPid - 1 THEN [disk EXCEPT ![pid + 1] = page]
                                       ELSE disk

\* fetch_new_page: the file grows by a 0xff page, whose pid is the old EndPid.
FetchNewPage == disk' = Append(disk, Blank)

ReadRootPid    == IF disk[1].kind = "meta" THEN disk[1].rootPid ELSE NoPid
ReadTreeHeight == IF disk[1].kind = "meta" THEN disk[1].treeHeight ELSE -1

(***************************************************************************)
(* Opening, closing and losing the index                                   *)
(***************************************************************************)

NoFrame == /\ ins' = NoEntry
           /\ path' = <<>>
           /\ splitkey' = EndKey
           /\ splitpid' = NoPid
           /\ newPid' = NoPid

NoScan  == cursor' = NoCursor /\ scanKey' = 0 /\ scanned' = <<>>

\* The BTreeIndex object goes away; the next statement has a new one.
Forget  == /\ mode' = "none"
           /\ rootPid' = NoPid
           /\ treeHeight' = 0
           /\ pc' = "idle"
           /\ NoFrame
           /\ NoScan

Init ==
    /\ disk = <<>>
    /\ mode = "none"
    /\ rootPid = NoPid /\ treeHeight = 0
    /\ pc = "idle"
    /\ ins = NoEntry /\ path = <<>>
    /\ splitkey = EndKey /\ splitpid = NoPid /\ newPid = NoPid
    /\ cursor = NoCursor /\ scanKey = 0 /\ scanned = <<>>
    /\ acked = {} /\ tried = {} /\ crashes = 0

\* An open that fails (no such file, mode 'r') changes nothing and is no step.
\* A page of 0xff bytes in place of the metadata reads as -1 and -1.
Open(m) ==
    /\ mode = "none"
    /\ mode' = m
    /\ IF disk = <<>>
         THEN rootPid' = NoPid /\ treeHeight' = 0
         ELSE rootPid' = ReadRootPid /\ treeHeight' = ReadTreeHeight
    /\ UNCHANGED <<disk, pc, frame, scan, ghost>>

Close ==
    /\ mode # "none"
    /\ pc \in {"idle", "scanEnd"}
    /\ Forget
    /\ UNCHANGED <<disk, ghost>>

\* The process is killed between two writes; what was written stays.
Crash ==
    /\ mode = "w"
    /\ crashes < MaxCrashes
    /\ crashes' = crashes + 1
    /\ Forget
    /\ UNCHANGED <<disk, acked, tried>>

(***************************************************************************)
(* insert: the call, and the first page of an empty file                   *)
(***************************************************************************)

\* Keys are unique in a table; an insert that a crash cut off is not repeated.
MayInsert(e) ==
    /\ mode = "w"
    /\ pc = "idle"
    /\ e.key \notin tried

Insert(e) ==
    /\ MayInsert(e)
    /\ treeHeight # 0
    /\ pc' = "descend"
    /\ ins' = e
    /\ path' = <<rootPid>>
    /\ tried' = tried \cup {e.key}
    /\ UNCHANGED <<file, head, splitkey, splitpid, newPid, scan, acked, crashes>>

FirstInsertNoHeight(e) ==
    /\ MayInsert(e)
    /\ treeHeight = 0
    /\ FetchNewPage
    /\ pc' = "firstRoot"
    /\ ins' = e
    /\ tried' = tried \cup {e.key}
    /\ UNCHANGED <<mode, rootPid, treeHeight, path, splitkey, splitpid, newPid,
                   scan, acked, crashes>>

\* Page 0, for the metadata, which commit_metadata fills in two writes later.
FirstInsert(e) ==
    /\ MayInsert(e)
    /\ treeHeight = 0
    /\ treeHeight' = 1
    /\ FetchNewPage
    /\ pc' = "firstRoot"
    /\ ins' = e
    /\ tried' = tried \cup {e.key}
    /\ UNCHANGED <<mode, rootPid, path, splitkey, splitpid, newPid, scan,
                   acked, crashes>>

FetchFirstRoot ==
    /\ pc = "firstRoot"
    /\ FetchNewPage
    /\ rootPid' = EndPid
    /\ pc' = "firstMetadata"
    /\ UNCHANGED <<mode, treeHeight, frame, scan, ghost>>

\* commit_metadata, then the call of _insert on the root.
CommitFirst ==
    /\ pc = "firstMetadata"
    /\ WritePage(0, Metadata(rootPid, treeHeight))
    /\ path' = <<rootPid>>
    /\ pc' = "descend"
    /\ UNCHANGED <<mode, head, ins, splitkey, splitpid, newPid, scan, ghost>>

(***************************************************************************)
(* _insert on the way down                                                 *)
(***************************************************************************)

Depth   == Len(path)
NodePid == Last(path)

\* insert returns 0 to its caller.
Return == /\ pc' = "idle"
          /\ NoFrame
          /\ acked' = acked \cup {ins}

Descend ==
    /\ pc = "descend"
    /\ Depth # treeHeight
    /\ Depth < MaxDepth
    /\ path' = Append(path, LocateChildPtr(NonLeafAt(NodePid), ins.key))
    /\ UNCHANGED <<file, head, pc, ins, splitkey, splitpid, newPid, scan, ghost>>

\* A height no depth equals: the recursion ends the process.
OverflowInInsert ==
    /\ pc = "descend"
    /\ Depth # treeHeight
    /\ Depth = MaxDepth
    /\ Forget
    /\ UNCHANGED <<disk, ghost>>

AtLeaf == pc = "descend" /\ Depth = treeHeight

InsertInLeaf ==
    /\ AtLeaf
    /\ ~ LeafIsFull(LeafAt(NodePid))
    /\ WritePage(NodePid, LeafInsert(LeafAt(NodePid), ins))
    /\ Return
    /\ UNCHANGED <<mode, head, scan, tried, crashes>>

FetchLeafSibling ==
    /\ AtLeaf
    /\ LeafIsFull(LeafAt(NodePid))
    /\ FetchNewPage
    /\ splitpid' = EndPid
    /\ pc' = "leafSibling"
    /\ UNCHANGED <<mode, head, ins, path, splitkey, newPid, scan, ghost>>

WriteLeafNodeFirst ==
    /\ pc = "leafSibling"
    /\ WritePage(NodePid,
                 [LowerHalf(LeafAt(NodePid), ins) EXCEPT !.next = splitpid])
    /\ splitkey' = SiblingKey(LeafAt(NodePid), ins)
    /\ pc' = "leafNode"
    /\ UNCHANGED <<mode, head, ins, path, splitpid, newPid, scan, ghost>>

WriteLeafSibling ==
    /\ pc = "leafSibling"
    /\ WritePage(splitpid, UpperHalf(LeafAt(NodePid), ins))
    /\ splitkey' = SiblingKey(LeafAt(NodePid), ins)
    /\ pc' = "leafNode"
    /\ UNCHANGED <<mode, head, ins, path, splitpid, newPid, scan, ghost>>

\* setNextNodePtr and the write of the lower half; _insert returns
\* RC_NODE_FULL to the frame above.
WriteLeaf ==
    /\ pc = "leafNode"
    /\ WritePage(NodePid,
                 [LowerHalf(LeafAt(NodePid), ins) EXCEPT !.next = splitpid])
    /\ path' = Front(path)
    /\ pc' = "ascend"
    /\ UNCHANGED <<mode, head, ins, splitkey, splitpid, newPid, scan, ghost>>

(***************************************************************************)
(* _insert on the way up: the child was split                              *)
(***************************************************************************)

InsertInNonLeaf ==
    /\ pc = "ascend"
    /\ path # <<>>
    /\ ~ NonLeafIsFull(NonLeafAt(NodePid))
    /\ WritePage(NodePid, NonLeafPut(NonLeafAt(NodePid), splitkey, splitpid))
    /\ Return
    /\ UNCHANGED <<mode, head, scan, tried, crashes>>

FetchNonLeafSibling ==
    /\ pc = "ascend"
    /\ path # <<>>
    /\ NonLeafIsFull(NonLeafAt(NodePid))
    /\ FetchNewPage
    /\ newPid' = EndPid
    /\ pc' = "nonleafSibling"
    /\ UNCHANGED <<mode, head, ins, path, splitkey, splitpid, scan, ghost>>

WriteNonLeafSibling ==
    /\ pc = "nonleafSibling"
    /\ WritePage(newPid, UpperNode(NonLeafAt(NodePid), splitkey, splitpid))
    /\ pc' = "nonleafNode"
    /\ UNCHANGED <<mode, head, frame, scan, ghost>>

WriteNonLeafOldPid ==
    /\ pc = "nonleafNode"
    /\ WritePage(NodePid, LowerNode(NonLeafAt(NodePid), splitkey, splitpid))
    /\ splitkey' = MidKey(NonLeafAt(NodePid), splitkey, splitpid)
    /\ newPid' = NoPid
    /\ path' = Front(path)
    /\ pc' = "ascend"
    /\ UNCHANGED <<mode, head, ins, splitpid, scan, ghost>>

\* The code sets splitkey and splitpid one write earlier; they are first read
\* by the frame above, which this step returns to.
WriteNonLeaf ==
    /\ pc = "nonleafNode"
    /\ WritePage(NodePid, LowerNode(NonLeafAt(NodePid), splitkey, splitpid))
    /\ splitkey' = MidKey(NonLeafAt(NodePid), splitkey, splitpid)
    /\ splitpid' = newPid
    /\ newPid' = NoPid
    /\ path' = Front(path)
    /\ pc' = "ascend"
    /\ UNCHANGED <<mode, head, ins, scan, ghost>>

\* The root itself was split: insert makes a new one.
FetchNewRoot ==
    /\ pc = "ascend"
    /\ path = <<>>
    /\ FetchNewPage
    /\ newPid' = EndPid
    /\ pc' = "rootNode"
    /\ UNCHANGED <<mode, head, ins, path, splitkey, splitpid, scan, ghost>>

WriteNewRoot ==
    /\ pc = "rootNode"
    /\ WritePage(newPid, NewRoot(rootPid, splitkey, splitpid))
    /\ rootPid' = newPid
    /\ pc' = "rootMetadata"
    /\ UNCHANGED <<mode, treeHeight, frame, scan, ghost>>

CommitRootOldHeight ==
    /\ pc = "rootMetadata"
    /\ treeHeight' = treeHeight + 1
    /\ WritePage(0, Metadata(rootPid, treeHeight))
    /\ Return
    /\ UNCHANGED <<mode, rootPid, scan, tried, crashes>>

CommitRoot ==
    /\ pc = "rootMetadata"
    /\ treeHeight' = treeHeight + 1
    /\ WritePage(0, Metadata(rootPid, treeHeight'))
    /\ Return
    /\ UNCHANGED <<mode, rootPid, scan, tried, crashes>>

(***************************************************************************)
(* locate and readForward, called until the rid is not one of the table    *)
(***************************************************************************)

\* The pid at each depth of the descent for a key; _locate goes to the depth
\* treeHeight.
FindLeaf(key) ==
    LET pid[d \in 1 .. treeHeight] ==
            IF d = 1 THEN rootPid
                     ELSE LocateChildPtr(NonLeafAt(pid[d - 1]), key)
    IN  pid[treeHeight]

\* An empty file and an empty leaf are errors, after which SELECT closes the
\* index: no step.
Locate(key) ==
    /\ mode = "r"
    /\ pc = "idle"
    /\ treeHeight > 0
    /\ LET leaf == LeafAt(FindLeaf(key))
       IN  /\ leaf.entries # <<>>
           /\ cursor' = [pid |-> FindLeaf(key), eid |-> LeafLocate(leaf, key)]
    /\ pc' = "scan"
    /\ scanKey' = key
    /\ scanned' = <<>>
    /\ UNCHANGED <<file, head, frame, ghost>>

\* The recursion of _locate for a height no depth equals.
OverflowInLocate(key) ==
    /\ mode = "r"
    /\ pc = "idle"
    /\ treeHeight < 0
    /\ Forget
    /\ UNCHANGED <<disk, ghost>>

\* The rows a rid left over in the caller's variable may point to: readEntry
\* leaves its outputs alone for an eid that no slot has, and before the first
\* readForward they are uninitialised.
LeftOver == IF scanned = <<>> THEN acked \cup {NoEntry}
                              ELSE {Last(scanned)}

\* readEntry: a slot past the entries is 0xff and holds no rid.
ReadEntry(leaf, eid) ==
    IF eid >= MAX_LEAF_KEY_COUNT THEN LeftOver
    ELSE IF eid < Len(leaf.entries) THEN {leaf.entries[eid + 1]}
    ELSE {NoEntry}

NextCursorPastEnd(leaf) ==
    IF cursor.eid < Len(leaf.entries)
      THEN [cursor EXCEPT !.eid = @ + 1]
      ELSE [pid |-> leaf.next, eid |-> 0]

NextCursor(leaf) ==
    IF cursor.eid < Len(leaf.entries) - 1
      THEN [cursor EXCEPT !.eid = @ + 1]
      ELSE [pid |-> leaf.next, eid |-> 0]

\* The caller's RecordFile::read rejects a rid that is none, and the scan ends.
ReadForward ==
    /\ pc = "scan"
    /\ LET leaf == LeafAt(cursor.pid)
       IN  /\ cursor' = NextCursor(leaf)
           /\ \E e \in ReadEntry(leaf, cursor.eid) :
                IF e.rid = NoRid
                  THEN pc' = "scanEnd" /\ UNCHANGED scanned
                  ELSE scanned' = Append(scanned, e) /\ UNCHANGED pc
    /\ UNCHANGED <<file, head, frame, scanKey, ghost>>

(***************************************************************************)
(* The specification                                                       *)
(***************************************************************************)

InsertStep ==
    \/ FetchFirstRoot \/ CommitFirst
    \/ Descend \/ OverflowInInsert \/ InsertInLeaf
    \/ FetchLeafSibling \/ WriteLeafSibling \/ WriteLeaf
    \/ InsertInNonLeaf
    \/ FetchNonLeafSibling \/ WriteNonLeafSibling \/ WriteNonLeaf
    \/ FetchNewRoot \/ WriteNewRoot \/ CommitRoot

Next ==
    \/ \E m \in {"r", "w"} : Open(m)
    \/ Close
    \/ Crash
    \/ \E e \in Entry : Insert(e) \/ FirstInsert(e)
    \/ InsertStep
    \/ \E key \in Probes : Locate(key) \/ OverflowInLocate(key)
    \/ ReadForward

Spec == Init /\ [][Next]_vars

\* One thread runs a call to its end; nobody has to make the next call.
FairSpec == Spec /\ WF_vars(InsertStep \/ ReadForward)

(***************************************************************************)
(* Invariants                                                              *)
(***************************************************************************)

LeafPage    == [kind : {"leaf"}, entries : Seq(Entry), next : Pid]
NonLeafPage == {page \in [kind : {"nonleaf"}, keys : Seq(Key), pids : Seq(Pid)] :
                    \/ Len(page.pids) = Len(page.keys) + 1
                    \/ Len(page.pids) = 1 /\ Len(page.keys) = 1}
MetaPage    == [kind : {"meta"}, rootPid : Pid, treeHeight : Nat \ {0}]
Page        == LeafPage \cup NonLeafPage \cup MetaPage \cup {Blank}

TypeOK ==
    /\ disk \in Seq(Page)
    /\ mode \in {"none", "r", "w"}
    /\ rootPid \in Pid
    /\ treeHeight \in Nat \cup {-1}
    /\ pc \in {"idle", "firstRoot", "firstMetadata", "descend", "leafSibling",
               "leafNode", "ascend", "nonleafSibling", "nonleafNode",
               "rootNode", "rootMetadata", "scan", "scanEnd"}
    /\ ins \in Entry \cup {NoEntry}
    /\ path \in Seq(Pid)
    /\ splitkey \in Key \cup {EndKey}
    /\ splitpid \in Pid
    /\ newPid \in Pid
    /\ cursor \in [pid : Pid, eid : Nat]
    /\ scanKey \in Int
    /\ scanned \in Seq(Entry)
    /\ acked \subseteq Entry
    /\ tried \subseteq Key
    /\ crashes \in 0 .. MaxCrashes

\* The keys of every node on the disk are in order (BTreeNode.h: "all keys
\* inside a B+tree node should be kept sorted"), at every moment, so also in
\* a half-done split.  locate and locateChildPtr stop at the first match and
\* rely on it.
NodesSorted ==
    \A i \in 1 .. EndPid :
        /\ disk[i].kind = "leaf" =>
             \A j, k \in 1 .. Len(disk[i].entries) :
                 j < k => disk[i].entries[j].key < disk[i].entries[k].key
        /\ disk[i].kind = "nonleaf" =>
             \A j, k \in 1 .. Len(disk[i].keys) :
                 j < k => disk[i].keys[j] < disk[i].keys[k]

\* The leaves in the order of their next pointers.  The leftmost leaf keeps
\* its page: it is the second page of the file for good.
LeafChain ==
    LET pid[n \in 1 .. EndPid] == IF n = 1 THEN 1 ELSE LeafAt(pid[n - 1]).next
    IN  [n \in {m \in 1 .. EndPid : pid[m] # NoPid} |-> pid[n]]
ChainEntries ==
    LET chain == LeafChain
    IN  FlattenSeq([n \in DOMAIN chain |-> LeafAt(chain[n]).entries])
Stored == UNION {ToSet(LeafAt(pid).entries) : pid \in ToSet(LeafChain)}

\* Following the next pointers from the leftmost leaf reads every key once,
\* in ascending order, at every moment of an insert: what readForward lives
\* on.  A cycle would show as a repeated key.
ChainAscending ==
    LET chain == ChainEntries
    IN  \A i, j \in DOMAIN chain : i < j => chain[i].key < chain[j].key

\* No split and no crash takes an entry off the chain once its insert
\* returned.
AckedOnChain == acked \subseteq Stored

\* Between two inserts, and inside one until the lower half of a split leaf is
\* written, the root leads every key to the leaf of its range: what is left
\* of the leaf on the chain is smaller, what is right of it is larger.
Settled == pc \in {"idle", "descend", "leafSibling", "leafNode", "scan", "scanEnd"}
DescentLandsRight ==
    (mode # "none" /\ treeHeight > 0 /\ Settled) =>
        LET chain == LeafChain
        IN  \A key \in Key : \E n \in DOMAIN chain :
              /\ chain[n] = FindLeaf(key)
              /\ \A m \in DOMAIN chain : \A e \in ToSet(LeafAt(chain[m]).entries) :
                    (m < n => e.key < key) /\ (m > n => e.key > key)

\* The pids of each level of the tree, from left to right.
Level ==
    LET pids[d \in 1 .. treeHeight] ==
            IF d = 1 THEN <<rootPid>>
            ELSE FlattenSeq([i \in DOMAIN pids[d - 1] |->
                                NonLeafAt(pids[d - 1][i]).pids])
    IN  pids

\* Between two inserts the leaves under the root are the leaves of the chain,
\* in the same order, and every page of the file but the metadata is a node
\* of the tree, once: no split forgets a page or shares one.
TreeAndChainAgree ==
    (mode # "none" /\ pc = "idle" /\ treeHeight > 0) =>
        LET all == FlattenSeq(Level)
        IN  /\ Level[treeHeight] = LeafChain
            /\ ToSet(all) = 1 .. EndPid - 1
            /\ Len(all) = EndPid - 1

\* A split leaves both halves half full; only the root may hold less.
HalfFull ==
    \A pid \in 1 .. EndPid - 1 :
        (pid # rootPid /\ mode # "none") =>
            /\ PageAt(pid).kind = "leaf" =>
                 Len(PageAt(pid).entries) >= (MAX_LEAF_KEY_COUNT + 1) \div 2
            /\ PageAt(pid).kind = "nonleaf" =>
                 Len(PageAt(pid).keys) >= MAX_NONLEAF_KEY_COUNT \div 2

\* No write ever builds a node with more keys than the maximum, also not in a
\* file that a crash left half-written.  A node one key above it would not
\* equal the maximum again: readEntry would refuse its last eid, and no insert
\* would split it any more, until its entries reach the next pointer.
NodeFits(page) ==
    /\ page.kind = "leaf"    => Len(page.entries) <= MAX_LEAF_KEY_COUNT
    /\ page.kind = "nonleaf" => Len(page.keys) <= MAX_NONLEAF_KEY_COUNT
NodesFit == \A i \in 1 .. EndPid : NodeFits(disk[i])

\* Whenever no insert is running, the metadata page holds the root and the
\* height of the object: what the next open will read (BTreeIndex.h: "Make
\* sure to store the values of the two variables in disk").
MetadataCommitted ==
    (mode # "none" /\ pc = "idle" /\ treeHeight > 0) =>
        disk[1] = Metadata(rootPid, treeHeight)

\* A descent reads a page as the kind of node it holds, also in a file that a
\* crash left half-written; only a height of -1 read from a 0xff metadata
\* page has no leaf level to stop at.
DescentReadsRightKind ==
    (pc = "descend" /\ treeHeight > 0) =>
        /\ Depth <= treeHeight
        /\ Depth < treeHeight => PageAt(NodePid).kind = "nonleaf"
        /\ Depth = treeHeight =>
             \/ PageAt(NodePid).kind = "leaf"
             \/ PageAt(NodePid).kind = "blank" /\ Stored = {}

\* The scan has returned every entry of the chain from key on, each once and
\* in order, and nothing else.
ReturnedFrom(key) ==
    /\ ToSet(scanned) = {e \in Stored : e.key >= key}
    /\ \A i, j \in DOMAIN scanned : i < j => scanned[i].key < scanned[j].key

\* A scan from a key that is present, or from below the least one, returns
\* every entry from there on, in order, and nothing else.
StartsOnEntry == \/ \E e \in acked : e.key = scanKey
                 \/ \A e \in acked : e.key > scanKey
ScanExact == (pc = "scanEnd" /\ StartsOnEntry) => ReturnedFrom(scanKey)

\* The same from any key: what BTreeIndex.h says locate is for ("Find the
\* leaf-node index entry whose key value is larger than or equal to
\* searchKey").  It is stated for scans whose first eid is one of a slot, used
\* or not: the others begin with a rid that readForward did not set.
StartsOnSlot ==
    LeafLocate(LeafAt(FindLeaf(scanKey)), scanKey) < MAX_LEAF_KEY_COUNT
ScanReachesAll == (pc = "scanEnd" /\ StartsOnSlot) => ReturnedFrom(scanKey)

(***************************************************************************)
(* Liveness and refinement                                                 *)
(***************************************************************************)

\* Every insert that is called returns with its entry in the index.
InsertReturns == \A e \in Entry : (ins = e) ~> (e \in acked)

\* The chain is the abstract set of entries: an insert, with all its page
\* writes, adds its entry in one step and does nothing else to the set.
Abstract == INSTANCE OrderedIndex WITH
    entries <- Stored,
    pending <- IF ins \in Stored THEN NoEntry ELSE ins
ImplementsOrderedIndex == Abstract!Spec

=============================================================================
