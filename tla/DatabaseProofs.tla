---------------------------- MODULE DatabaseProofs ----------------------------
(***************************************************************************)
(* Theorems about Database, for any sequence of LOADs and SELECTs.          *)
(*                                                                         *)
(* The index file of Database is an instance of BTreeIndex, Index.  The     *)
(* first part says that Index is what BTreeOrderProofs is about, operator   *)
(* by operator, so that what is proved there of the leaf chain, the order   *)
(* of the keys and the cursor holds of it.  The second part is about the    *)
(* table file.                                                             *)
(*                                                                         *)
(* The invariant DbInv then has six parts: the invariant of the chain, the  *)
(* one of the table, which files are open at each step of a statement       *)
(* (Phases), the types, and the two that relate the files: each entry,      *)
(* stored or on its way, points at a row with its key (Pointing), and each  *)
(* row is indexed, on its way or skipped (Accounting).  Beside it, IdxInv   *)
(* is what BTreeOrderProofs adds to the chain, Answering says that a SELECT *)
(* prints only matching rows, and ByTable and ByIndex say what it has       *)
(* printed by where its rid or its cursor is, so that at its end none is    *)
(* missing.  What Verdict makes of a row is taken from SelectScanProofs.    *)
(***************************************************************************)
EXTENDS Database, MinLemmas, SequenceTheorems, FiniteSetTheorems, TLAPS

\* The theorems about the index, for the index file of Database.  The keys
\* that a SELECT starts from are any numbers.
B == INSTANCE BTreeOrderProofs WITH
    disk <- idxDisk, mode <- idxMode, Rid <- RowRid, NoRid <- NoRow, Probes <- Int

(***************************************************************************)
(* The constants                                                           *)
(***************************************************************************)

\* The assumptions of the modules that Database has instances of, and that
\* -1, the mark of the end of a node, is not a key of a table, as in the
\* theorems about the index.
InstanceConstants ==
    /\ RECORDS_PER_PAGE \in Nat \ {0}
    /\ MaxPages \in Nat
    /\ IOErrors \in BOOLEAN
    /\ NoRecord \notin Table!Record
    /\ Truncated \in [Text -> Text]
    /\ MAX_LEAF_KEY_COUNT \in Nat \ {0}
    /\ MAX_NONLEAF_KEY_COUNT \in Nat \ {0, 1}
    /\ MaxCrashes \in Nat
    /\ MaxDepth \in Nat \ {0}
    /\ Index!EndKey \notin Key

\* With those of Database and SelCond.
Constants ==
    /\ InstanceConstants
    /\ Key \subseteq CInt
    /\ EmptyText \in Text /\ NoComma \notin Text
    /\ Lines \subseteq [key : Key, value : Text \cup {NoComma}]
    /\ \A q \in Queries : q \in Seq(Cond)
    /\ LoadsIndex \subseteq BOOLEAN
    /\ FdLimit \in Nat
    /\ INT_MAX \in Nat \ {0}
    /\ Text \subseteq Int
    /\ Atoi \in [Text -> CInt]
    /\ Junk \subseteq CInt /\ Junk # {}

LEMMA AssumedConstants ==
    ASSUME InstanceConstants
    PROVE  Constants
BY KeysAreInts, EmptyTextIsText, LinesAreLines, QueriesAreConds, LoadsAreBoolean, FdLimitIsNat,
   IntMaxIsNat, TextsAreRanks, AtoiIsInt, JunkIsInt DEF Constants, InstanceConstants

\* What BTreeIndex assumes of its constants holds of those of Database.
LEMMA IndexAssumptions ==
    ASSUME Constants
    PROVE  /\ MAX_LEAF_KEY_COUNT \in Nat \ {0}
           /\ MAX_NONLEAF_KEY_COUNT \in Nat \ {0, 1}
           /\ Key \subseteq Int
           /\ NoRow \notin RowRid
           /\ Int \subseteq Int
           /\ MaxCrashes \in Nat
           /\ MaxDepth \in Nat \ {0}
           /\ B!EndKey \notin Key
BY DEF Constants, InstanceConstants, CInt, NoRow, RowRid, B!EndKey, Index!EndKey

(***************************************************************************)
(* The index of Database is BTreeIndex                                     *)
(***************************************************************************)

LEMMA SameLibrary ==
    /\ \A s : Index!Min(s) = B!Min(s) /\ Index!Last(s) = B!Last(s) /\ Index!Front(s) = B!Front(s)
    /\ \A s, i, x : Index!InsertAt(s, i, x) = B!InsertAt(s, i, x)
    /\ \A s : Index!ToSet(s) = B!ToSet(s)
BY DEF B!Min, Index!Min, B!Last, Index!Last, B!Front, Index!Front,
       B!InsertAt, Index!InsertAt, B!ToSet, Index!ToSet

LEMMA SameLeaves ==
    ASSUME NEW leaf, NEW e, NEW k
    PROVE  /\ Index!LeafPut(leaf.entries, e) = B!LeafPut(leaf.entries, e)
           /\ Index!LeafIsFull(leaf) = B!LeafIsFull(leaf)
           /\ Index!LeafInsert(leaf, e) = B!LeafInsert(leaf, e)
           /\ Index!UpperHalf(leaf, e) = B!UpperHalf(leaf, e)
           /\ Index!LowerHalf(leaf, e) = B!LowerHalf(leaf, e)
           /\ Index!SiblingKey(leaf, e) = B!SiblingKey(leaf, e)
           /\ Index!LeafLocate(leaf, k) = B!LeafLocate(leaf, k)
<1>1. \A s : Index!LeafSlot(s, e.key) = B!LeafSlot(s, e.key)
    BY SameLibrary, Zenon DEF Index!LeafSlot, B!LeafSlot, Index!EndKey, B!EndKey
<1>2. \A s : Index!LeafPut(s, e) = B!LeafPut(s, e)
    BY <1>1, SameLibrary, Zenon DEF Index!LeafPut, B!LeafPut
<1>3. /\ Index!UpperHalf(leaf, e) = B!UpperHalf(leaf, e)
      /\ Index!LowerHalf(leaf, e) = B!LowerHalf(leaf, e)
    BY <1>2, Zenon DEF Index!UpperHalf, B!UpperHalf, Index!LowerHalf, B!LowerHalf,
       Index!Half, B!Half, Index!Leaf, B!Leaf, Index!NoPid, B!NoPid
<1>4. Index!LeafInsert(leaf, e) = B!LeafInsert(leaf, e)
    BY <1>2, Zenon DEF Index!LeafInsert, B!LeafInsert
<1>5. Index!SiblingKey(leaf, e) = B!SiblingKey(leaf, e)
    BY <1>3, Zenon DEF Index!SiblingKey, B!SiblingKey
<1>6. Index!LeafIsFull(leaf) = B!LeafIsFull(leaf)
    BY Zenon DEF Index!LeafIsFull, B!LeafIsFull
<1>7. Index!LeafLocate(leaf, k) = B!LeafLocate(leaf, k)
    BY SameLibrary, Zenon DEF Index!LeafLocate, B!LeafLocate
<1> QED
    BY <1>2, <1>3, <1>4, <1>5, <1>6, <1>7

LEMMA SameNonLeaves ==
    ASSUME NEW node, NEW k, NEW pid
    PROVE  /\ Index!NonLeafIsFull(node) = B!NonLeafIsFull(node)
           /\ Index!NonLeafPut(node, k, pid) = B!NonLeafPut(node, k, pid)
           /\ Index!MidKey(node, k, pid) = B!MidKey(node, k, pid)
           /\ Index!LowerNode(node, k, pid) = B!LowerNode(node, k, pid)
           /\ Index!UpperNode(node, k, pid) = B!UpperNode(node, k, pid)
           /\ Index!LocateChildPtr(node, k) = B!LocateChildPtr(node, k)
           /\ \A p : Index!NewRoot(p, k, pid) = B!NewRoot(p, k, pid)
<1>1. \A s : Index!NonLeafSlot(s, k) = B!NonLeafSlot(s, k)
    BY SameLibrary DEF Index!NonLeafSlot, B!NonLeafSlot, Index!EndKey, B!EndKey
<1>2. Index!NonLeafIsFull(node) = B!NonLeafIsFull(node)
    BY Zenon DEF Index!NonLeafIsFull, B!NonLeafIsFull, Index!NonLeafKeyCount, B!NonLeafKeyCount
<1>3. Index!NonLeafPut(node, k, pid) = B!NonLeafPut(node, k, pid)
  <2>1. PICK i : i = B!NonLeafSlot(node.keys, k) /\ i = Index!NonLeafSlot(node.keys, k)
    BY <1>1
  <2>2. \A s, j, x : Index!InsertAt(s, j, x) = B!InsertAt(s, j, x)
    BY SameLibrary
  <2> QED
    BY <2>1, <2>2, Zenon DEF Index!NonLeafPut, B!NonLeafPut, Index!NonLeafKeyCount,
       B!NonLeafKeyCount, Index!NonLeaf, B!NonLeaf
<1>4. /\ Index!MidKey(node, k, pid) = B!MidKey(node, k, pid)
      /\ Index!LowerNode(node, k, pid) = B!LowerNode(node, k, pid)
      /\ Index!UpperNode(node, k, pid) = B!UpperNode(node, k, pid)
    BY <1>3 DEF Index!MidKey, B!MidKey, Index!LowerNode, B!LowerNode,
       Index!UpperNode, B!UpperNode, Index!Half, B!Half, Index!NonLeaf, B!NonLeaf
<1>5. Index!LocateChildPtr(node, k) = B!LocateChildPtr(node, k)
    BY <1>1 DEF Index!LocateChildPtr, B!LocateChildPtr, Index!NoPid, B!NoPid
<1>6. \A p : Index!NewRoot(p, k, pid) = B!NewRoot(p, k, pid)
    BY Zenon DEF Index!NewRoot, B!NewRoot, Index!NonLeaf, B!NonLeaf
<1> QED
    BY <1>2, <1>3, <1>4, <1>5, <1>6

LEMMA SamePages ==
    /\ Index!EndPid = B!EndPid
    /\ \A p : /\ Index!PageAt(p) = B!PageAt(p)
              /\ Index!LeafAt(p) = B!LeafAt(p)
              /\ Index!NonLeafAt(p) = B!NonLeafAt(p)
    /\ \A p, page : Index!WritePage(p, page) <=> B!WritePage(p, page)
    /\ Index!FetchNewPage <=> B!FetchNewPage
    /\ \A r, h : Index!Metadata(r, h) = B!Metadata(r, h)
<1>1. Index!EndPid = B!EndPid
    BY DEF Index!EndPid, B!EndPid
<1>2. \A p : Index!PageAt(p) = B!PageAt(p)
    BY <1>1, Zenon DEF Index!PageAt, B!PageAt, Index!Blank, B!Blank
<1>3. \A p : /\ Index!LeafAt(p) = B!LeafAt(p)
             /\ Index!NonLeafAt(p) = B!NonLeafAt(p)
    BY <1>2, Zenon DEF Index!LeafAt, B!LeafAt, Index!NonLeafAt, B!NonLeafAt,
       Index!EmptyLeaf, B!EmptyLeaf, Index!EmptyNonLeaf, B!EmptyNonLeaf,
       Index!Leaf, B!Leaf, Index!NonLeaf, B!NonLeaf, Index!NoPid, B!NoPid
<1>4. \A p, page : Index!WritePage(p, page) <=> B!WritePage(p, page)
    BY <1>1, Zenon DEF Index!WritePage, B!WritePage
<1>5. Index!FetchNewPage <=> B!FetchNewPage
    BY Zenon DEF Index!FetchNewPage, B!FetchNewPage, Index!Blank, B!Blank
<1>6. \A r, h : Index!Metadata(r, h) = B!Metadata(r, h)
    BY Zenon DEF Index!Metadata, B!Metadata
<1> QED
    BY <1>1, <1>2, <1>3, <1>4, <1>5, <1>6

LEMMA SameForget ==
           /\ Index!NoFrame <=> B!NoFrame
           /\ Index!Forget <=> B!Forget
           /\ Index!Return <=> B!Return
BY Zenon DEF Index!NoFrame, B!NoFrame, Index!Forget, B!Forget, Index!Return, B!Return,
   Index!NoEntry, B!NoEntry, Index!EndKey, B!EndKey, Index!NoPid, B!NoPid,
   Index!NoScan, B!NoScan, Index!NoCursor, B!NoCursor

LEMMA SameVars ==
    /\ Index!file = B!file /\ Index!head = B!head /\ Index!frame = B!frame
    /\ Index!scan = B!scan /\ Index!ghost = B!ghost
    /\ Index!NodePid = B!NodePid /\ Index!Depth = B!Depth
    /\ Index!AtLeaf <=> B!AtLeaf
BY SameLibrary, Zenon DEF Index!file, B!file, Index!head, B!head, Index!frame, B!frame,
   Index!scan, B!scan,
   Index!ghost, B!ghost, Index!NodePid, B!NodePid, Index!Depth, B!Depth, Index!AtLeaf, B!AtLeaf

LEMMA SameInsertStep ==
           Index!InsertStep <=> B!InsertStep
<1>1. Index!FetchFirstRoot <=> B!FetchFirstRoot
    BY SameLibrary, SameVars, SamePages, SameLeaves, SameNonLeaves, SameForget
       DEF Index!FetchFirstRoot, B!FetchFirstRoot, Index!file, Index!head, Index!frame,
           Index!scan, Index!ghost, B!file, B!head, B!frame, B!scan, B!ghost, B!NoPid, Index!NoPid
<1>2. Index!CommitFirst <=> B!CommitFirst
    BY SameLibrary, SameVars, SamePages, SameLeaves, SameNonLeaves, SameForget
       DEF Index!CommitFirst, B!CommitFirst, Index!file, Index!head, Index!frame,
           Index!scan, Index!ghost, B!file, B!head, B!frame, B!scan, B!ghost, B!NoPid, Index!NoPid
<1>3. Index!Descend <=> B!Descend
    BY SameLibrary, SameVars, SamePages, SameLeaves, SameNonLeaves, SameForget
       DEF Index!Descend, B!Descend, Index!file, Index!head, Index!frame,
           Index!scan, Index!ghost, B!file, B!head, B!frame, B!scan, B!ghost, B!NoPid, Index!NoPid
<1>4. Index!OverflowInInsert <=> B!OverflowInInsert
    BY SameLibrary, SameVars, SamePages, SameLeaves, SameNonLeaves, SameForget
       DEF Index!OverflowInInsert, B!OverflowInInsert, Index!file, Index!head, Index!frame,
           Index!scan, Index!ghost, B!file, B!head, B!frame, B!scan, B!ghost, B!NoPid, Index!NoPid
<1>5. Index!InsertInLeaf <=> B!InsertInLeaf
    BY SameLibrary, SameVars, SamePages, SameLeaves, SameNonLeaves, SameForget
       DEF Index!InsertInLeaf, B!InsertInLeaf, Index!file, Index!head, Index!frame,
           Index!scan, Index!ghost, B!file, B!head, B!frame, B!scan, B!ghost, B!NoPid, Index!NoPid
<1>6. Index!FetchLeafSibling <=> B!FetchLeafSibling
    BY SameLibrary, SameVars, SamePages, SameLeaves, SameNonLeaves, SameForget
       DEF Index!FetchLeafSibling, B!FetchLeafSibling, Index!file, Index!head, Index!frame,
           Index!scan, Index!ghost, B!file, B!head, B!frame, B!scan, B!ghost, B!NoPid, Index!NoPid
<1>7. Index!WriteLeafSibling <=> B!WriteLeafSibling
    BY SameLibrary, SameVars, SamePages, SameLeaves, SameNonLeaves, SameForget
       DEF Index!WriteLeafSibling, B!WriteLeafSibling, Index!file, Index!head, Index!frame,
           Index!scan, Index!ghost, B!file, B!head, B!frame, B!scan, B!ghost, B!NoPid, Index!NoPid
<1>8. Index!WriteLeaf <=> B!WriteLeaf
    BY SameLibrary, SameVars, SamePages, SameLeaves, SameNonLeaves, SameForget
       DEF Index!WriteLeaf, B!WriteLeaf, Index!file, Index!head, Index!frame,
           Index!scan, Index!ghost, B!file, B!head, B!frame, B!scan, B!ghost, B!NoPid, Index!NoPid
<1>9. Index!InsertInNonLeaf <=> B!InsertInNonLeaf
    BY SameLibrary, SameVars, SamePages, SameLeaves, SameNonLeaves, SameForget
       DEF Index!InsertInNonLeaf, B!InsertInNonLeaf, Index!file, Index!head, Index!frame,
           Index!scan, Index!ghost, B!file, B!head, B!frame, B!scan, B!ghost, B!NoPid, Index!NoPid
<1>10. Index!FetchNonLeafSibling <=> B!FetchNonLeafSibling
    BY SameLibrary, SameVars, SamePages, SameLeaves, SameNonLeaves, SameForget
       DEF Index!FetchNonLeafSibling, B!FetchNonLeafSibling, Index!file, Index!head, Index!frame,
           Index!scan, Index!ghost, B!file, B!head, B!frame, B!scan, B!ghost, B!NoPid, Index!NoPid
<1>11. Index!WriteNonLeafSibling <=> B!WriteNonLeafSibling
    BY SameLibrary, SameVars, SamePages, SameLeaves, SameNonLeaves, SameForget
       DEF Index!WriteNonLeafSibling, B!WriteNonLeafSibling, Index!file, Index!head, Index!frame,
           Index!scan, Index!ghost, B!file, B!head, B!frame, B!scan, B!ghost, B!NoPid, Index!NoPid
<1>12. Index!WriteNonLeaf <=> B!WriteNonLeaf
    BY SameLibrary, SameVars, SamePages, SameLeaves, SameNonLeaves, SameForget
       DEF Index!WriteNonLeaf, B!WriteNonLeaf, Index!file, Index!head, Index!frame,
           Index!scan, Index!ghost, B!file, B!head, B!frame, B!scan, B!ghost, B!NoPid, Index!NoPid
<1>13. Index!FetchNewRoot <=> B!FetchNewRoot
    BY SameLibrary, SameVars, SamePages, SameLeaves, SameNonLeaves, SameForget
       DEF Index!FetchNewRoot, B!FetchNewRoot, Index!file, Index!head, Index!frame,
           Index!scan, Index!ghost, B!file, B!head, B!frame, B!scan, B!ghost, B!NoPid, Index!NoPid
<1>14. Index!WriteNewRoot <=> B!WriteNewRoot
    BY SameLibrary, SameVars, SamePages, SameLeaves, SameNonLeaves, SameForget
       DEF Index!WriteNewRoot, B!WriteNewRoot, Index!file, Index!head, Index!frame,
           Index!scan, Index!ghost, B!file, B!head, B!frame, B!scan, B!ghost, B!NoPid, Index!NoPid
<1>15. Index!CommitRoot <=> B!CommitRoot
    BY SameLibrary, SameVars, SamePages, SameLeaves, SameNonLeaves, SameForget
       DEF Index!CommitRoot, B!CommitRoot, Index!file, Index!head, Index!frame,
           Index!scan, Index!ghost, B!file, B!head, B!frame, B!scan, B!ghost, B!NoPid, Index!NoPid
<1> QED
    BY <1>1, <1>2, <1>3, <1>4, <1>5, <1>6, <1>7, <1>8, <1>9, <1>10, <1>11, <1>12, <1>13, <1>14,
       <1>15 DEF Index!InsertStep, B!InsertStep

LEMMA SameFindLeaf ==
    ASSUME NEW k
    PROVE  Index!FindLeaf(k) = B!FindLeaf(k)
BY DEF Index!FindLeaf, B!FindLeaf, Index!LocateChildPtr, B!LocateChildPtr,
   Index!NonLeafSlot, B!NonLeafSlot, Index!Min, B!Min, Index!EndKey, B!EndKey,
   Index!NonLeafAt, B!NonLeafAt, Index!PageAt, B!PageAt, Index!EndPid, B!EndPid,
   Index!Blank, B!Blank, Index!EmptyNonLeaf, B!EmptyNonLeaf, Index!NonLeaf, B!NonLeaf,
   Index!NoPid, B!NoPid

LEMMA SameStored == Index!Stored = B!Stored
<1>1. \A p : Index!LeafAt(p) = B!LeafAt(p)
    BY SamePages
<1>2. Index!LeafChain = B!LeafChain
    BY DEF Index!LeafChain, B!LeafChain, Index!LeafAt, B!LeafAt, Index!PageAt, B!PageAt,
       Index!EndPid, B!EndPid, Index!Blank, B!Blank, Index!EmptyLeaf, B!EmptyLeaf,
       Index!Leaf, B!Leaf, Index!NoPid, B!NoPid
<1> QED
    BY <1>1, <1>2, SameLibrary, Zenon DEF Index!Stored, B!Stored

LEMMA SameIndexCalls ==
           /\ Index!Init <=> B!Init
           /\ Index!TypeOK <=> B!TypeOK
           /\ Index!Close <=> B!Close
           /\ \A m : Index!Open(m) <=> B!Open(m)
           /\ \A e : Index!Insert(e) <=> B!Insert(e)
           /\ \A e : Index!FirstInsert(e) <=> B!FirstInsert(e)
           /\ \A k : Index!Locate(k) <=> B!Locate(k)
           /\ \A leaf : Index!NextCursor(leaf) = B!NextCursor(leaf)
<1>1. Index!NoPid = B!NoPid /\ Index!EndKey = B!EndKey /\ Index!NoEntry = B!NoEntry
      /\ Index!NoCursor = B!NoCursor
    BY DEF Index!NoPid, B!NoPid, Index!EndKey, B!EndKey, Index!NoEntry, B!NoEntry,
       Index!NoCursor, B!NoCursor
<1>2. Index!Init <=> B!Init
    BY <1>1, Zenon DEF Index!Init, B!Init
<1>3. Index!TypeOK <=> B!TypeOK
  <2>1. Index!Pid = B!Pid /\ Index!Entry = B!Entry
    BY <1>1 DEF Index!Pid, B!Pid, Index!Entry, B!Entry
  <2>2. Index!Page = B!Page
    BY <2>1 DEF Index!Page, B!Page, Index!LeafPage, B!LeafPage, Index!NonLeafPage,
       B!NonLeafPage, Index!MetaPage, B!MetaPage, Index!Blank, B!Blank
  <2> QED
    BY <1>1, <2>1, <2>2, Zenon DEF Index!TypeOK, B!TypeOK
<1>4. Index!Close <=> B!Close
    BY SameForget, SameVars DEF Index!Close, B!Close, Index!ghost, B!ghost
<1>5. ASSUME NEW m PROVE Index!Open(m) <=> B!Open(m)
    BY <1>1, SameVars DEF Index!Open, B!Open, Index!ReadRootPid, B!ReadRootPid,
       Index!ReadTreeHeight, B!ReadTreeHeight, Index!frame, B!frame, Index!scan, B!scan,
       Index!ghost, B!ghost
<1>6. ASSUME NEW e PROVE Index!Insert(e) <=> B!Insert(e)
    BY DEF Index!Insert, B!Insert, Index!MayInsert, B!MayInsert, Index!file, B!file,
       Index!head, B!head, Index!scan, B!scan
<1>7. ASSUME NEW e PROVE Index!FirstInsert(e) <=> B!FirstInsert(e)
    BY SamePages DEF Index!FirstInsert, B!FirstInsert, Index!MayInsert, B!MayInsert,
       Index!scan, B!scan
<1>8. ASSUME NEW k PROVE Index!Locate(k) <=> B!Locate(k)
  <2>1. /\ Index!FindLeaf(k) = B!FindLeaf(k)
        /\ Index!LeafAt(B!FindLeaf(k)) = B!LeafAt(B!FindLeaf(k))
        /\ Index!LeafLocate(B!LeafAt(B!FindLeaf(k)), k) = B!LeafLocate(B!LeafAt(B!FindLeaf(k)), k)
    BY SameFindLeaf, SamePages, SameLeaves
  <2> QED
    BY <2>1, SameVars DEF Index!Locate, B!Locate, Index!file, B!file, Index!head, B!head,
       Index!frame, B!frame, Index!ghost, B!ghost
<1>9. \A leaf : Index!NextCursor(leaf) = B!NextCursor(leaf)
    BY <1>1, Zenon DEF Index!NextCursor, B!NextCursor
<1> QED
    BY <1>2, <1>3, <1>4, <1>5, <1>6, <1>7, <1>8, <1>9

(***************************************************************************)
(* The table file of Database                                              *)
(***************************************************************************)

\* Every page but the last is full, the last has a record, and the slots
\* below the count of a page hold records.
TblFilled ==
    /\ Table!EndPid <= MaxPages
    /\ \A p \in 1 .. Table!EndPid :
         /\ tblDisk[p].count > 0
         /\ p < Table!EndPid => tblDisk[p].count = RECORDS_PER_PAGE
         /\ \A sid \in Table!Sid : sid < tblDisk[p].count => tblDisk[p].slots[sid] \in Table!Record
TblAtEnd == erid = Table!EndRid

\* The assumptions on the page size, in the form that most steps use.
LEMMA TblSlotZero ==
    ASSUME Constants
    PROVE  0 \in Table!Sid /\ RECORDS_PER_PAGE \in Nat /\ RECORDS_PER_PAGE > 0
BY DEF Constants, InstanceConstants, Table!Sid

\* The rid after a rid is a rid.
LEMMA TblSuccessorIsRid ==
    ASSUME Constants, NEW loc \in [pid : Nat, sid : Table!Sid]
    PROVE  Table!Successor(loc) \in [pid : Nat, sid : Table!Sid]
BY DEF Constants, InstanceConstants, Table!Successor, Table!Rid, Table!Sid

\* Nothing lies between a rid and the one after it.
LEMMA TblBeforeSuccessor ==
    ASSUME Constants, NEW loc \in [pid : Nat, sid : Table!Sid], NEW other \in [pid : Nat,
    sid : Table!Sid]
    PROVE  Table!Before(other, Table!Successor(loc)) <=> Table!Before(other, loc) \/ other = loc
<1>1. other = loc <=> other.pid = loc.pid /\ other.sid = loc.sid
    OBVIOUS
<1> QED
    BY <1>1 DEF Constants, InstanceConstants, Table!Before, Table!Successor, Table!Rid, Table!Sid

\* A record as it comes back from its slot is a record.
LEMMA TblInSlotIsRecord ==
    ASSUME Constants, NEW record \in Table!Record
    PROVE  Table!InSlot(record) \in Table!Record /\ Table!InSlot(record) # NoRecord
BY DEF Constants, InstanceConstants, Table!InSlot, Table!Record

\* The end rid that open rebuilds is a rid.
LEMMA TblEndRidIsRid ==
    ASSUME Constants, Table!TypeOK
    PROVE  Table!EndRid \in [pid : Nat, sid : Table!Sid]
<1>1. Table!EndPid \in Nat
    BY DEF Table!TypeOK, Table!EndPid
<1>2. CASE Table!EndPid = 0
    BY <1>2, TblSlotZero DEF Table!EndRid, Table!Rid
<1>3. CASE Table!EndPid # 0
  <2>1. tblDisk[Table!EndPid] \in Table!Page
    BY <1>1, <1>3 DEF Table!TypeOK, Table!EndPid
  <2>2. tblDisk[Table!EndPid].count \in 0 .. RECORDS_PER_PAGE
    BY <2>1 DEF Table!Page
  <2> QED
    BY <1>1, <1>3, <2>2, TblSlotZero DEF Table!EndRid, Table!Rid, Table!Sid
<1> QED
    BY <1>2, <1>3

\* Where it is: on a page not yet in the file when all pages are full, or at
\* the first free slot of the last page.
LEMMA TblEndRidCases ==
    ASSUME Constants, Table!TypeOK, TblFilled
    PROVE  \/ /\ Table!EndRid = Table!Rid(Table!EndPid, 0)
              /\ \A p \in 1 .. Table!EndPid : tblDisk[p].count = RECORDS_PER_PAGE
           \/ /\ Table!EndPid > 0
              /\ Table!EndRid = Table!Rid(Table!EndPid - 1, tblDisk[Table!EndPid].count)
              /\ tblDisk[Table!EndPid].count \in 1 .. RECORDS_PER_PAGE - 1
              /\ \A p \in 1 .. Table!EndPid - 1 : tblDisk[p].count = RECORDS_PER_PAGE
<1>1. Table!EndPid \in Nat
    BY DEF Table!TypeOK, Table!EndPid
<1>2. \A p \in 1 .. Table!EndPid : tblDisk[p].count \in 1 .. RECORDS_PER_PAGE
  <2> SUFFICES ASSUME NEW p \in 1 .. Table!EndPid
               PROVE  tblDisk[p].count \in 1 .. RECORDS_PER_PAGE
      OBVIOUS
  <2>1. tblDisk[p] \in Table!Page
    BY DEF Table!TypeOK, Table!EndPid
  <2> QED
    BY <2>1, TblSlotZero DEF Table!Page, TblFilled
<1>3. \A p \in 1 .. Table!EndPid - 1 : tblDisk[p].count = RECORDS_PER_PAGE
    BY <1>1 DEF TblFilled
<1>4. CASE Table!EndPid = 0
    BY <1>4 DEF Table!EndRid
<1>5. CASE Table!EndPid > 0 /\ tblDisk[Table!EndPid].count >= RECORDS_PER_PAGE
    BY <1>1, <1>2, <1>3, <1>5, TblSlotZero DEF Table!EndRid
<1>6. CASE Table!EndPid > 0 /\ ~ (tblDisk[Table!EndPid].count >= RECORDS_PER_PAGE)
  <2>1. tblDisk[Table!EndPid].count \in 1 .. RECORDS_PER_PAGE
    BY <1>1, <1>2, <1>6
  <2> QED
    BY <1>3, <1>6, <2>1, TblSlotZero DEF Table!EndRid
<1> QED
    BY <1>1, <1>4, <1>5, <1>6

\* The rids before it are those that hold a record: a scan that ends there
\* misses no record and meets no empty slot.
LEMMA TblBeforeEndRid ==
    ASSUME Constants, Table!TypeOK, TblFilled, NEW loc \in [pid : Nat, sid : Table!Sid]
    PROVE  Table!Before(loc, Table!EndRid) <=> Table!Stored(loc)
<1>1. Table!EndPid \in Nat
    BY DEF Table!TypeOK, Table!EndPid
<1>2. loc.pid \in Nat /\ loc.sid \in Nat /\ loc.sid < RECORDS_PER_PAGE
    BY TblSlotZero DEF Table!Sid
<1>3. CASE /\ Table!EndRid = Table!Rid(Table!EndPid, 0)
           /\ \A p \in 1 .. Table!EndPid : tblDisk[p].count = RECORDS_PER_PAGE
  <2>1. loc.pid < Table!EndPid => tblDisk[loc.pid + 1].count = RECORDS_PER_PAGE
    BY <1>1, <1>2, <1>3
  <2> QED
    BY <1>1, <1>2, <1>3, <2>1 DEF Table!Before, Table!Rid, Table!Stored
<1>4. CASE /\ Table!EndPid > 0
           /\ Table!EndRid = Table!Rid(Table!EndPid - 1, tblDisk[Table!EndPid].count)
           /\ tblDisk[Table!EndPid].count \in 1 .. RECORDS_PER_PAGE - 1
           /\ \A p \in 1 .. Table!EndPid - 1 : tblDisk[p].count = RECORDS_PER_PAGE
  <2>1. loc.pid < Table!EndPid - 1 => tblDisk[loc.pid + 1].count = RECORDS_PER_PAGE
    BY <1>1, <1>2, <1>4
  <2>2. loc.pid = Table!EndPid - 1 => loc.pid + 1 = Table!EndPid
    BY <1>1, <1>2
  <2> QED
    BY <1>1, <1>2, <1>4, <2>1, <2>2 DEF Table!Before, Table!Rid, Table!Stored
<1> QED
    BY <1>3, <1>4, TblEndRidCases

\* A record below the end rid is in the file, and every page's slot is one
\* the type admits.
LEMMA TblStoredIsRecord ==
    ASSUME Constants, Table!TypeOK, TblFilled, NEW loc \in [pid : Nat, sid : Table!Sid],
    Table!Stored(loc)
    PROVE  Table!RecordAt(loc) \in Table!Record
<1>1. loc.pid + 1 \in 1 .. Table!EndPid
    BY DEF Table!TypeOK, Table!EndPid, Table!Stored
<1> QED
    BY <1>1 DEF TblFilled, Table!Stored, Table!RecordAt

\* The rows of the file are its stored records, each at its rid.
LEMMA TblRowsAreStored ==
    ASSUME Constants, Table!TypeOK, NEW loc \in [pid : Nat, sid : Table!Sid], NEW record
    PROVE  Table!Row(loc,
    record) \in Table!Rows <=> Table!Stored(loc) /\ Table!RecordAt(loc) = record
<1>1. Table!EndPid \in Nat
    BY DEF Table!TypeOK, Table!EndPid
<1>2. ASSUME Table!Stored(loc), Table!RecordAt(loc) = record
      PROVE  Table!Row(loc, record) \in Table!Rows
  <2>1. loc \in [pid : 0 .. Table!EndPid - 1, sid : Table!Sid]
    BY <1>1, <1>2 DEF Table!Stored
  <2> QED
    BY <1>2, <2>1 DEF Table!Rows
<1>3. ASSUME Table!Row(loc, record) \in Table!Rows
      PROVE  Table!Stored(loc) /\ Table!RecordAt(loc) = record
  <2>1. PICK r \in [pid : 0 .. Table!EndPid - 1, sid : Table!Sid] :
            Table!Stored(r) /\ Table!Row(loc, record) = Table!Row(r, Table!RecordAt(r))
    BY <1>3 DEF Table!Rows
  <2>2. loc = r /\ record = Table!RecordAt(r)
    BY <2>1 DEF Table!Row
  <2> QED
    BY <2>1, <2>2
<1> QED
    BY <1>2, <1>3

\* The page that append writes is a page.
LEMMA TblFilledIsPage ==
    ASSUME Constants, Table!TypeOK, Table!MayAppend, NEW record \in Table!Record
    PROVE  /\ Table!Filled(record) \in Table!Page
           /\ Table!Filled(record).count = erid.sid + 1
           /\ Table!Filled(record).slots[erid.sid] = Table!InSlot(record)
           /\ \A sid \in Table!Sid : sid < erid.sid =>
                 Table!Filled(record).slots[sid] = tblDisk[erid.pid + 1].slots[sid]
<1>1. erid.pid \in Nat /\ erid.sid \in Table!Sid /\ erid.sid \in Nat
    BY TblSlotZero DEF Table!TypeOK, Table!Sid
<1>2. Table!InSlot(record) \in Table!Slot
    BY TblInSlotIsRecord DEF Table!Slot
<1>3. Table!PageToFill.slots \in [Table!Sid -> Table!Slot]
  <2>1. CASE erid.sid > 0
    <3>1. erid.pid + 1 \in 1 .. Len(tblDisk)
      BY <1>1, <2>1 DEF Table!MayAppend, Table!EndPid, Table!TypeOK
    <3>2. tblDisk[erid.pid + 1] \in Table!Page
      BY <3>1 DEF Table!TypeOK
    <3> QED
      BY <2>1, <3>2 DEF Table!PageToFill, Table!Page
  <2>2. CASE ~ (erid.sid > 0)
    BY <2>2 DEF Table!PageToFill, Table!ZeroPage, Table!Slot
  <2> QED
    BY <2>1, <2>2
<1>4. erid.sid + 1 \in 0 .. RECORDS_PER_PAGE
    BY <1>1, TblSlotZero DEF Table!Sid
<1>5. [Table!PageToFill.slots EXCEPT ![erid.sid] = Table!InSlot(record)] \in [Table!Sid -> Table!Slot]
    BY <1>1, <1>2, <1>3
<1>6. ASSUME NEW sid \in Table!Sid, sid < erid.sid
      PROVE  Table!Filled(record).slots[sid] = tblDisk[erid.pid + 1].slots[sid]
  <2>1. erid.sid > 0 /\ sid # erid.sid
    BY <1>1, <1>6 DEF Table!Sid
  <2> QED
    BY <1>3, <2>1 DEF Table!Filled, Table!PageToFill
<1> QED
    BY <1>1, <1>3, <1>4, <1>5, <1>6 DEF Table!Filled, Table!Page

\* The write fills the file by one record, at the end rid, which moves to its
\* successor; no other record is touched.
LEMMA TblWriteAtEnd ==
    ASSUME Constants, Table!TypeOK, TblFilled, TblAtEnd, Table!MayAppend, erid.pid < MaxPages,
           NEW record \in Table!Record, Table!WritePage(erid.pid, Table!Filled(record))
    PROVE  /\ tblDisk' \in Seq(Table!Page)
           /\ TblFilled'
           /\ Table!EndRid' = Table!Successor(erid)
           /\ \A loc \in [pid : Nat, sid : Table!Sid] :
                 /\ Table!Stored(loc)' <=> Table!Stored(loc) \/ loc = erid
                 /\ Table!Stored(loc) => Table!RecordAt(loc)' = Table!RecordAt(loc)
                 /\ loc = erid => Table!RecordAt(loc)' = Table!InSlot(record)
<1> DEFINE page == Table!Filled(record)
<1>1. /\ Table!EndPid \in Nat /\ Table!EndPid <= MaxPages /\ Table!EndPid <= MaxPages
      /\ erid.pid \in Nat /\ erid.sid \in Table!Sid /\ erid.sid \in Nat
      /\ erid \in [pid : Nat, sid : Table!Sid]
      /\ MaxPages \in Nat /\ MaxPages \in Nat
    BY TblSlotZero DEF Constants, InstanceConstants, Table!TypeOK, Table!EndPid, TblFilled,
       Table!Sid
<1>2. /\ page \in Table!Page
      /\ page.count = erid.sid + 1
      /\ page.slots[erid.sid] = Table!InSlot(record)
      /\ \A sid \in Table!Sid : sid < erid.sid =>
            page.slots[sid] = tblDisk[erid.pid + 1].slots[sid]
    BY TblFilledIsPage
<1> HIDE DEF page
<1>3. Table!InSlot(record) \in Table!Record
    BY TblInSlotIsRecord
<1>4. CASE /\ Table!EndRid = Table!Rid(Table!EndPid, 0)
           /\ \A p \in 1 .. Table!EndPid : tblDisk[p].count = RECORDS_PER_PAGE
  <2>1. erid = Table!Rid(Table!EndPid, 0) /\ erid.pid = Table!EndPid /\ erid.sid = 0
    BY <1>4 DEF TblAtEnd, Table!Rid
  <2>2. tblDisk' = Append(tblDisk, page)
    BY <1>1, <2>1 DEF Table!WritePage, page
  <2>3. /\ tblDisk' \in Seq(Table!Page) /\ Table!EndPid' = Table!EndPid + 1
        /\ \A p \in 1 .. Table!EndPid : tblDisk'[p] = tblDisk[p]
        /\ tblDisk'[Table!EndPid + 1] = page
    BY <1>1, <1>2, <2>2 DEF Table!TypeOK, Table!EndPid
  <2>4. page.count = 1 /\ page.slots[0] \in Table!Record
    BY <1>2, <1>3, <2>1
  <2>5. TblFilled'
    <3>1. Table!EndPid' <= MaxPages /\ Table!EndPid' <= MaxPages
      BY <1>1, <2>1, <2>3 DEF Table!MayAppend
    <3>2. ASSUME NEW p \in 1 .. Table!EndPid + 1
          PROVE  /\ tblDisk'[p].count > 0
                 /\ p < Table!EndPid + 1 => tblDisk'[p].count = RECORDS_PER_PAGE
                 /\ \A sid \in Table!Sid : sid < tblDisk'[p].count => tblDisk'[p].slots[sid] \in Table!Record
      <4>1. CASE p \in 1 .. Table!EndPid
        BY <1>4, <2>3, <4>1, TblSlotZero DEF TblFilled
      <4>2. CASE p = Table!EndPid + 1
        BY <1>1, <2>3, <2>4, <4>2, TblSlotZero DEF Table!Sid
      <4> QED
        BY <1>1, <4>1, <4>2
    <3> QED
      BY <2>3, <3>1, <3>2 DEF TblFilled
  <2>6. Table!EndRid' = Table!Successor(erid)
    <3>1. tblDisk'[Table!EndPid'].count = 1 /\ Table!EndPid' = Table!EndPid + 1
      BY <2>3, <2>4
    <3> QED
      BY <1>1, <2>1, <3>1, TblSlotZero DEF Table!EndRid, Table!Successor, Table!Rid
  <2>7. ASSUME NEW loc \in [pid : Nat, sid : Table!Sid]
        PROVE  /\ Table!Stored(loc)' <=> Table!Stored(loc) \/ loc = erid
               /\ Table!Stored(loc) => Table!RecordAt(loc)' = Table!RecordAt(loc)
    <3>1. loc.pid \in Nat /\ loc.sid \in Nat
      BY TblSlotZero DEF Table!Sid
    <3>2. CASE loc.pid < Table!EndPid
      <4>1. loc.pid + 1 \in 1 .. Table!EndPid /\ loc # erid
        BY <1>1, <2>1, <3>1, <3>2
      <4>2. tblDisk'[loc.pid + 1] = tblDisk[loc.pid + 1]
        BY <2>3, <4>1
      <4> QED
        BY <1>1, <2>3, <3>1, <3>2, <4>1, <4>2 DEF Table!Stored, Table!RecordAt
    <3>3. CASE loc.pid = Table!EndPid
      <4>1. ~ Table!Stored(loc)
        BY <1>1, <3>3 DEF Table!Stored
      <4>2. Table!Stored(loc)' <=> loc.sid < 1
        BY <1>1, <2>3, <2>4, <3>3 DEF Table!Stored
      <4>3. loc = erid <=> loc.sid = 0
        BY <1>1, <2>1, <3>3
      <4> QED
        BY <3>1, <4>1, <4>2, <4>3
    <3>4. CASE loc.pid > Table!EndPid
      BY <1>1, <2>1, <2>3, <3>1, <3>4 DEF Table!Stored
    <3> QED
      BY <1>1, <3>1, <3>2, <3>3, <3>4
  <2>8. tblDisk'[erid.pid + 1].slots[erid.sid] = Table!InSlot(record)
    BY <1>1, <1>2, <2>1, <2>3
  <2>9. ASSUME NEW loc \in [pid : Nat, sid : Table!Sid], loc = erid
        PROVE  Table!RecordAt(loc)' = Table!InSlot(record)
    BY <2>8, <2>9 DEF Table!RecordAt
  <2> QED
    BY <2>3, <2>5, <2>6, <2>7, <2>9
<1>5. CASE /\ Table!EndPid > 0
           /\ Table!EndRid = Table!Rid(Table!EndPid - 1, tblDisk[Table!EndPid].count)
           /\ tblDisk[Table!EndPid].count \in 1 .. RECORDS_PER_PAGE - 1
           /\ \A p \in 1 .. Table!EndPid - 1 : tblDisk[p].count = RECORDS_PER_PAGE
  <2>1. /\ erid.pid = Table!EndPid - 1 /\ erid.sid = tblDisk[Table!EndPid].count
        /\ erid.pid + 1 = Table!EndPid /\ Table!EndPid \in 1 .. Table!EndPid
        /\ erid.sid \in 1 .. RECORDS_PER_PAGE - 1
    BY <1>1, <1>5 DEF TblAtEnd, Table!Rid
  <2>2. tblDisk' = [tblDisk EXCEPT ![Table!EndPid] = page]
    BY <1>1, <2>1 DEF Table!WritePage, page
  <2>3. /\ tblDisk' \in Seq(Table!Page) /\ Table!EndPid' = Table!EndPid
        /\ \A p \in 1 .. Table!EndPid - 1 : tblDisk'[p] = tblDisk[p]
        /\ tblDisk'[Table!EndPid] = page
    <3>1. tblDisk \in Seq(Table!Page) /\ Table!EndPid = Len(tblDisk) /\ Table!EndPid' = Len(tblDisk')
      BY DEF Table!TypeOK, Table!EndPid
    <3>2. Table!EndPid \in 1 .. Len(tblDisk)
      BY <2>1, <3>1
    <3> QED
      BY <1>1, <1>2, <2>2, <3>1, <3>2, ExceptSeq
  <2>4. ASSUME NEW sid \in Table!Sid, sid < erid.sid
        PROVE  page.slots[sid] = tblDisk[Table!EndPid].slots[sid]
    BY <1>2, <2>1, <2>4
  <2>5. TblFilled'
    <3>1. ASSUME NEW p \in 1 .. Table!EndPid
          PROVE  /\ tblDisk'[p].count > 0
                 /\ p < Table!EndPid => tblDisk'[p].count = RECORDS_PER_PAGE
                 /\ \A sid \in Table!Sid : sid < tblDisk'[p].count => tblDisk'[p].slots[sid] \in Table!Record
      <4>1. CASE p \in 1 .. Table!EndPid - 1
        BY <1>1, <1>5, <2>3, <4>1, TblSlotZero DEF TblFilled
      <4>2. CASE p = Table!EndPid
        <5>1. tblDisk'[p].count = erid.sid + 1
          BY <1>2, <2>3, <4>2
        <5>2. ASSUME NEW sid \in Table!Sid, sid < erid.sid + 1
              PROVE  page.slots[sid] \in Table!Record
          <6>1. CASE sid < erid.sid
            BY <2>1, <2>4, <6>1 DEF TblFilled
          <6>2. CASE sid = erid.sid
            BY <1>2, <1>3, <6>2
          <6> QED
            BY <1>1, <5>2, <6>1, <6>2, TblSlotZero DEF Table!Sid
        <5> QED
          BY <1>1, <2>3, <4>2, <5>1, <5>2
      <4> QED
        BY <1>1, <4>1, <4>2
    <3> QED
      BY <1>1, <2>3, <3>1 DEF TblFilled
  <2>6. Table!EndRid' = Table!Successor(erid)
    <3>1. tblDisk'[Table!EndPid'].count = erid.sid + 1 /\ Table!EndPid' = Table!EndPid
      BY <1>2, <2>3
    <3> QED
      BY <1>1, <1>5, <2>1, <3>1, TblSlotZero DEF Table!EndRid, Table!Successor, Table!Rid
  <2>7. ASSUME NEW loc \in [pid : Nat, sid : Table!Sid]
        PROVE  /\ Table!Stored(loc)' <=> Table!Stored(loc) \/ loc = erid
               /\ Table!Stored(loc) => Table!RecordAt(loc)' = Table!RecordAt(loc)
    <3>1. loc.pid \in Nat /\ loc.sid \in Nat
      BY TblSlotZero DEF Table!Sid
    <3>2. CASE loc.pid < Table!EndPid - 1
      <4>1. loc.pid + 1 \in 1 .. Table!EndPid - 1 /\ loc # erid
        BY <1>1, <2>1, <3>1, <3>2
      <4>2. tblDisk'[loc.pid + 1] = tblDisk[loc.pid + 1]
        BY <2>3, <4>1
      <4> QED
        BY <1>1, <2>3, <3>1, <3>2, <4>1, <4>2 DEF Table!Stored, Table!RecordAt
    <3>3. CASE loc.pid = Table!EndPid - 1
      <4>1. loc.pid + 1 = Table!EndPid /\ loc.pid < Table!EndPid
        BY <1>1, <3>3
      <4>2. Table!Stored(loc)' <=> loc.sid < erid.sid + 1
        BY <1>2, <2>3, <4>1 DEF Table!Stored
      <4>3. Table!Stored(loc) <=> loc.sid < erid.sid
        BY <2>1, <4>1 DEF Table!Stored
      <4>4. loc = erid <=> loc.sid = erid.sid
        BY <1>1, <2>1, <3>3
      <4>5. loc.sid < erid.sid => Table!RecordAt(loc)' = Table!RecordAt(loc)
        BY <2>3, <2>4, <4>1 DEF Table!RecordAt
      <4> QED
        BY <1>1, <3>1, <4>2, <4>3, <4>4, <4>5
    <3>4. CASE loc.pid > Table!EndPid - 1
      <4>1. ~ (loc.pid < Table!EndPid) /\ loc # erid
        BY <1>1, <2>1, <3>1, <3>4
      <4> QED
        BY <2>3, <4>1 DEF Table!Stored
    <3> QED
      BY <1>1, <3>1, <3>2, <3>3, <3>4
  <2>8. tblDisk'[erid.pid + 1].slots[erid.sid] = Table!InSlot(record)
    BY <1>1, <1>2, <2>1, <2>3
  <2>9. ASSUME NEW loc \in [pid : Nat, sid : Table!Sid], loc = erid
        PROVE  Table!RecordAt(loc)' = Table!InSlot(record)
    BY <2>8, <2>9 DEF Table!RecordAt
  <2> QED
    BY <2>3, <2>5, <2>6, <2>7, <2>9
<1> QED
    BY <1>4, <1>5, TblEndRidCases

\* The rows of the file after the write are those before it and the new one.
LEMMA TblWriteAddsRow ==
    ASSUME Constants, Table!TypeOK, TblFilled, TblAtEnd, Table!MayAppend, erid.pid < MaxPages,
           NEW record \in Table!Record, Table!WritePage(erid.pid, Table!Filled(record))
    PROVE  Table!Rows' = Table!Rows \cup {Table!Row(erid, Table!InSlot(record))}
<1>1. /\ tblDisk' \in Seq(Table!Page) /\ Table!EndPid' \in Nat
      /\ \A loc \in [pid : Nat, sid : Table!Sid] :
            /\ Table!Stored(loc)' <=> Table!Stored(loc) \/ loc = erid
            /\ Table!Stored(loc) => Table!RecordAt(loc)' = Table!RecordAt(loc)
            /\ loc = erid => Table!RecordAt(loc)' = Table!InSlot(record)
    BY TblWriteAtEnd DEF Table!EndPid
<1>2. Table!EndPid \in Nat /\ erid \in [pid : Nat, sid : Table!Sid]
    BY DEF Table!TypeOK, Table!EndPid
<1>3. ASSUME NEW row \in Table!Rows'
      PROVE  row \in Table!Rows \cup {Table!Row(erid, Table!InSlot(record))}
  <2>1. PICK r \in [pid : 0 .. Table!EndPid' - 1, sid : Table!Sid] :
            Table!Stored(r)' /\ row = Table!Row(r, Table!RecordAt(r)')
    BY <1>3 DEF Table!Rows, Table!Row
  <2>2. r \in [pid : Nat, sid : Table!Sid]
    BY <1>1, <2>1
  <2>3. CASE Table!Stored(r)
    BY <1>1, <2>1, <2>2, <2>3, TblRowsAreStored
  <2>4. CASE r = erid
    BY <1>1, <2>1, <2>2, <2>4
  <2> QED
    BY <1>1, <2>1, <2>2, <2>3, <2>4
<1>4. ASSUME NEW r \in [pid : Nat, sid : Table!Sid], Table!Stored(r)'
      PROVE  Table!Row(r, Table!RecordAt(r)') \in Table!Rows'
  <2>1. r \in [pid : 0 .. Table!EndPid' - 1, sid : Table!Sid]
    BY <1>1, <1>4 DEF Table!Stored
  <2> QED
    BY <1>4, <2>1 DEF Table!Rows, Table!Row
<1>5. ASSUME NEW row \in Table!Rows
      PROVE  row \in Table!Rows'
  <2>1. PICK r \in [pid : 0 .. Table!EndPid - 1, sid : Table!Sid] :
            Table!Stored(r) /\ row = Table!Row(r, Table!RecordAt(r))
    BY <1>5 DEF Table!Rows
  <2>2. r \in [pid : Nat, sid : Table!Sid]
    BY <1>2, <2>1
  <2> QED
    BY <1>1, <1>4, <2>1, <2>2
<1>6. Table!Row(erid, Table!InSlot(record)) \in Table!Rows'
  <2>1. PICK r \in [pid : Nat, sid : Table!Sid] : r = erid
    BY <1>2
  <2>2. Table!Stored(r)' /\ Table!RecordAt(r)' = Table!InSlot(record)
    BY <1>1, <2>1
  <2> QED
    BY <1>4, <2>1, <2>2
<1> QED
    BY <1>3, <1>5, <1>6

\* And it is that instance.
\* What a step leaves of the table file: the pages are as they should be, and
\* an open object has the end rid of its file.
TblInv == Table!TypeOK /\ TblFilled /\ (tblMode # "none" => TblAtEnd)

LEMMA TblSame ==
    ASSUME TblInv, tblDisk' = tblDisk, appended' = appended, reply' \in Table!Reply,
           tblMode' \in {"none", "r", "w", "failed"}, erid' \in [pid : Nat, sid : Table!Sid],
           tblMode' # "none" => erid' = Table!EndRid
    PROVE  TblInv' /\ Table!Rows' = Table!Rows
<1>1. Table!EndPid' = Table!EndPid /\ Table!EndRid' = Table!EndRid
    BY DEF Table!EndPid, Table!EndRid
<1>2. Table!TypeOK'
    BY DEF TblInv, Table!TypeOK
<1>3. TblFilled'
    BY <1>1 DEF TblInv, TblFilled
<1>4. Table!Rows' = Table!Rows
    BY <1>1 DEF Table!Rows, Table!Stored, Table!RecordAt
<1> QED
    BY <1>1, <1>2, <1>3, <1>4 DEF TblInv, TblAtEnd

LEMMA TblOpens ==
    ASSUME Constants, TblInv, NEW m \in {"r", "w"}, Table!Open(m)
    PROVE  TblInv' /\ Table!Rows' = Table!Rows /\ tblMode' = m
<1>1. Table!EndRid \in [pid : Nat, sid : Table!Sid]
    BY TblEndRidIsRid DEF TblInv
<1> QED
    BY <1>1, TblSame DEF Table!Open, TblInv, Table!TypeOK

LEMMA TblIsGone ==
    ASSUME Constants, TblInv, tblDisk' = tblDisk, appended' = appended, reply' = reply,
           tblMode' = "none", erid' = Table!Rid(0, 0)
    PROVE  TblInv' /\ Table!Rows' = Table!Rows
<1>1. Table!Rid(0, 0) \in [pid : Nat, sid : Table!Sid]
    BY TblSlotZero DEF Table!Rid
<1> QED
    BY <1>1, TblSame DEF TblInv, Table!TypeOK

LEMMA TblFailures ==
    ASSUME Constants, TblInv,
           \/ Table!OpenFails \/ Table!AppendFails
           \/ \E loc : Table!ReadInvalid(loc) \/ Table!ReadFails(loc)
    PROVE  TblInv' /\ Table!Rows' = Table!Rows
<1>1. \A op \in {"open", "append", "read"} :
        \A rc \in {Table!RC_FILE_READ_FAILED, Table!RC_FILE_WRITE_FAILED, Table!RC_INVALID_PID,
                   Table!RC_INVALID_RID} :
            Table!Failed(op, rc) \in Table!Reply
    BY DEF Table!RC_FILE_READ_FAILED, Table!RC_FILE_WRITE_FAILED, Table!RC_INVALID_PID,
       Table!RC_INVALID_RID, Table!Failed, Table!Reply
<1>2. /\ tblDisk' = tblDisk /\ appended' = appended /\ erid' = erid
      /\ tblMode' = tblMode \/ (tblMode' = "failed" /\ tblMode # "none")
    BY DEF Table!OpenFails, Table!AppendFails, Table!MayAppend, Table!ReadInvalid, Table!ReadFails
<1>3. reply' \in Table!Reply
  <2>1. CASE Table!OpenFails
    BY <1>1, <2>1 DEF Table!OpenFails
  <2>2. CASE Table!AppendFails
    BY <1>1, <2>2 DEF Table!AppendFails
  <2>3. ASSUME NEW loc, Table!ReadInvalid(loc) \/ Table!ReadFails(loc) PROVE reply' \in Table!Reply
    BY <1>1, <2>3 DEF Table!ReadInvalid, Table!ReadFails
  <2> QED
    BY <2>1, <2>2, <2>3
<1> QED
    BY <1>2, <1>3, TblSame DEF TblInv, Table!TypeOK, TblAtEnd

LEMMA TblReads ==
    ASSUME Constants, TblInv, NEW loc \in [pid : Int, sid : Int], Table!Read(loc)
    PROVE  /\ TblInv' /\ Table!Rows' = Table!Rows /\ tblMode' = tblMode
           /\ Table!Stored(loc)
           /\ reply'.row = Table!Row(loc, Table!RecordAt(loc))
           /\ reply'.row \in Table!Rows
           /\ reply'.row.record \in Table!Record
<1>1. /\ tblMode # "none" /\ loc.pid \in Nat /\ loc.sid \in Table!Sid
      /\ Table!Before(loc, erid) /\ reply' = Table!Done("read", Table!Row(loc, Table!RecordAt(loc)))
    BY DEF Table!Read, Table!InRange, Table!RecordAt
<1>2. loc \in [pid : Nat, sid : Table!Sid]
    BY <1>1
<1>3. Table!Stored(loc)
    BY <1>1, <1>2, TblBeforeEndRid DEF TblInv, TblAtEnd
<1>4. Table!RecordAt(loc) \in Table!Record
    BY <1>2, <1>3, TblStoredIsRecord DEF TblInv
<1>5. Table!Row(loc, Table!RecordAt(loc)) \in Table!Rows
    BY <1>2, <1>3, TblRowsAreStored DEF TblInv
<1>6. reply' \in Table!Reply
    BY <1>1, <1>2, <1>4 DEF Table!Reply, Table!Done, Table!ARow, Table!Slot, Table!Row
<1>7. TblInv' /\ Table!Rows' = Table!Rows
    BY <1>6, TblSame DEF Table!Read, TblInv, Table!TypeOK, TblAtEnd
<1> QED
    BY <1>1, <1>3, <1>4, <1>5, <1>7 DEF Table!Done, Table!Row, Table!Read

LEMMA TblAppends ==
    ASSUME Constants, TblInv, NEW record \in Table!Record, Table!AppendRecord(record)
    PROVE  /\ TblInv' /\ tblMode = "w" /\ tblMode' = "w"
           /\ reply'.row = Table!Row(erid, Table!InSlot(record))
           /\ Table!Rows' = Table!Rows \cup {Table!Row(erid, Table!InSlot(record))}
           /\ erid \in [pid : 0 .. MaxPages - 1, sid : Table!Sid]
           /\ \A loc \in [pid : Nat, sid : Table!Sid] :
                /\ Table!Stored(loc) => Table!Stored(loc)' /\ Table!RecordAt(loc)' = Table!RecordAt(loc)
                /\ loc = erid => Table!Stored(loc)' /\ Table!RecordAt(loc)' = Table!InSlot(record)
<1>1. /\ Table!MayAppend /\ erid.pid < MaxPages /\ Table!WritePage(erid.pid, Table!Filled(record))
      /\ erid' = Table!Successor(erid) /\ tblMode' = tblMode /\ tblMode = "w"
      /\ appended' = appended \cup {Table!Row(erid, Table!InSlot(record))}
      /\ reply' = Table!Done("append", Table!Row(erid, Table!InSlot(record)))
    BY DEF Table!AppendRecord, Table!MayAppend, Table!Acknowledge
<1>2. /\ Table!TypeOK /\ TblFilled /\ TblAtEnd /\ erid \in [pid : Nat, sid : Table!Sid]
    BY <1>1 DEF TblInv, Table!TypeOK
<1>3. /\ tblDisk' \in Seq(Table!Page)
      /\ TblFilled'
      /\ Table!EndRid' = Table!Successor(erid)
      /\ \A loc \in [pid : Nat, sid : Table!Sid] :
            /\ Table!Stored(loc)' <=> Table!Stored(loc) \/ loc = erid
            /\ Table!Stored(loc) => Table!RecordAt(loc)' = Table!RecordAt(loc)
            /\ loc = erid => Table!RecordAt(loc)' = Table!InSlot(record)
    BY <1>1, <1>2, TblWriteAtEnd
<1>4. Table!Rows' = Table!Rows \cup {Table!Row(erid, Table!InSlot(record))}
    BY <1>1, <1>2, TblWriteAddsRow
<1>5. Table!InSlot(record) \in Table!Record /\ Table!Successor(erid) \in [pid : Nat,
sid : Table!Sid]
    BY <1>2, TblInSlotIsRecord, TblSuccessorIsRid
<1>6. Table!Row(erid, Table!InSlot(record)) \in Table!ARow
    BY <1>2, <1>5 DEF Table!ARow, Table!Row, Table!Slot
<1>7. reply' \in Table!Reply /\ reply'.row = Table!Row(erid, Table!InSlot(record))
    BY <1>1, <1>6 DEF Table!Reply, Table!Done
<1>8. Table!TypeOK'
    BY <1>1, <1>2, <1>3, <1>5, <1>6, <1>7 DEF Table!TypeOK
<1>9. TblInv'
    BY <1>1, <1>3, <1>8 DEF TblInv, TblAtEnd
<1>10. erid \in [pid : 0 .. MaxPages - 1, sid : Table!Sid]
    BY <1>1, <1>2 DEF Constants, InstanceConstants
<1> QED
    BY <1>1, <1>2, <1>3, <1>4, <1>7, <1>9, <1>10

(***************************************************************************)
(* The index file of Database                                              *)
(***************************************************************************)

LEMMA IdxStored ==
    ASSUME Constants, B!Chained, NEW c, NEW lev, B!Linked(c, lev)
    PROVE  B!Stored = B!Kept(c) /\ B!Stored \subseteq B!Entry /\ acked \subseteq B!Stored
<1>1. B!Stored = B!Kept(c)
    BY B!StoredIs, IndexAssumptions DEF B!Chained, B!Typed, B!TypeOK, B!Linked, B!Tree
<1> QED
    BY <1>1 DEF B!Kept, B!Linked, B!Accounted

LEMMA IdxForgets ==
    ASSUME Constants, B!Chained, B!Forget, idxDisk' = idxDisk, acked' = acked, tried' = tried,
           crashes' \in 0 .. MaxCrashes
    PROVE  B!Chained' /\ B!Stored' = B!Stored
<1>1. PICK c, lev : B!Linked(c, lev)
    BY DEF B!Chained
<1>2. B!Typed' /\ B!Linked(c, lev)' /\ B!Kept(c)' = B!Kept(c)
    BY <1>1, B!ForgetTyped, B!ForgetLinked, IndexAssumptions DEF B!Chained
<1>3. B!Chained'
    BY <1>2 DEF B!Chained
<1>4. B!Stored' = B!Kept(c)'
    BY <1>2, <1>3, B!ChainedStoredNext, IndexAssumptions DEF B!StoredIsKept, B!Linked, B!Tree
<1> QED
    BY <1>1, <1>2, <1>3, <1>4, IdxStored

\* A step of the index adds the entry of the running insert, or nothing.
LEMMA IdxSteps ==
    ASSUME Constants, B!Chained, [B!Next]_(B!vars)
    PROVE  /\ B!Chained'
           /\ \/ B!Stored' = B!Stored
              \/ (B!InsertInLeaf \/ B!WriteLeaf) /\ B!Stored' = B!Stored \cup {ins}
<1>1. PICK c, lev : B!Linked(c, lev)
    BY DEF B!Chained
<1>2. PICK c2, lev2 : B!Linked(c2, lev2)' /\ B!Kin(c, c2)
    BY <1>1, B!NextLinked, IndexAssumptions DEF B!Chained, Constants, InstanceConstants
<1>3. B!Chained'
    BY B!NextChained, IndexAssumptions DEF Constants, InstanceConstants
<1>4. B!Stored' = B!Kept(c2)'
    BY <1>2, <1>3, B!ChainedStoredNext, IndexAssumptions DEF B!StoredIsKept, B!Linked, B!Tree
<1>5. B!Stored = B!Kept(c)
    BY <1>1, IdxStored
<1> QED
    BY <1>2, <1>3, <1>4, <1>5 DEF B!Kin

LEMMA IdxCalls ==
    ASSUME Constants, B!Chained,
           \/ UNCHANGED B!vars \/ B!Close
           \/ \E m \in {"r", "w"} : B!Open(m)
           \/ \E e \in B!Entry : B!Insert(e) \/ B!FirstInsert(e)
           \/ \E k \in Int : B!Locate(k)
    PROVE  B!Chained' /\ B!Stored' = B!Stored
<1>1. [B!Next]_(B!vars)
    BY DEF B!Next, Constants, InstanceConstants
<1>2. B!Chained' /\ (B!Stored' = B!Stored \/ B!InsertInLeaf \/ B!WriteLeaf)
    BY <1>1, IdxSteps
<1>3. CASE UNCHANGED B!vars
    BY <1>2, <1>3 DEF B!vars, B!file, B!Stored, B!LeafChain, B!LeafAt, B!PageAt, B!EndPid
<1>4. CASE ~ UNCHANGED B!vars
  <2>1. pc \in {"idle", "scanEnd"}
    BY <1>4 DEF B!Close, B!Open, B!Insert, B!FirstInsert, B!MayInsert, B!Locate, B!Chained,
       B!Typed, B!Running
  <2> QED
    BY <1>2, <2>1 DEF B!InsertInLeaf, B!AtLeaf, B!WriteLeaf
<1> QED
    BY <1>3, <1>4

\* readForward, without the rid that it hands out.
LEMMA IdxReadsForward ==
    ASSUME Constants, B!Chained, pc = "scan", cursor' = B!NextCursor(B!LeafAt(cursor.pid)),
           UNCHANGED <<idxDisk, idxMode, rootPid, treeHeight, pc, ins, path, splitkey,
                       splitpid, newPid, scanKey, scanned, acked, tried, crashes>>
    PROVE  B!Chained' /\ B!Stored' = B!Stored
<1>1. PICK c, lev : B!Linked(c, lev)
    BY DEF B!Chained
<1>2. B!Linked(c, lev)' /\ B!Kept(c)' = B!Kept(c)
    BY <1>1, B!ScanLinked, IndexAssumptions DEF B!Chained
<1>3. cursor' \in [pid : B!Pid, eid : Nat]
  <2>1. B!LeafAt(cursor.pid).next \in B!Pid /\ cursor \in [pid : B!Pid, eid : Nat]
    BY B!LeafAtTyped, IndexAssumptions DEF B!Chained, B!Typed, B!TypeOK, B!LeafPage
  <2> QED
    BY <2>1 DEF B!NextCursor
<1>4. B!TypeOK'
    BY <1>3 DEF B!Chained, B!Typed, B!TypeOK
<1>5. B!Running'
    BY DEF B!Chained, B!Typed, B!Running
<1>6. B!Chained'
    BY <1>2, <1>4, <1>5 DEF B!Chained, B!Typed
<1>7. B!Stored' = B!Kept(c)'
    BY <1>2, <1>6, B!ChainedStoredNext, IndexAssumptions DEF B!StoredIsKept, B!Linked, B!Tree
<1> QED
    BY <1>1, <1>2, <1>6, <1>7, IdxStored

\* Where a step of an insert leaves the index open, the insert goes on or its
\* entry is in the index.
LEMMA IdxInserts ==
    ASSUME Constants, B!Chained, B!InsertStep, idxMode' = "w"
    PROVE  /\ B!Chained'
           /\ B!Stored' = B!Stored \/ B!Stored' = B!Stored \cup {ins}
           /\ pc' \notin {"scan", "scanEnd"}
           /\ pc' = "idle" => ins \in B!Stored'
           /\ pc' # "idle" => ins' = ins
<1>1. [B!Next]_(B!vars)
    BY DEF B!Next
<1>2. PICK c, lev : B!Linked(c, lev)'
    BY <1>1, IdxSteps DEF B!Chained
<1>3. acked' \subseteq B!Stored'
  <2>1. B!Stored' = B!Kept(c)'
    BY <1>1, <1>2, IdxSteps, B!ChainedStoredNext, IndexAssumptions DEF B!StoredIsKept, B!Linked,
       B!Tree
  <2> QED
    BY <1>2, <2>1 DEF B!Linked, B!Accounted
<1>4. ~ B!OverflowInInsert
    BY DEF B!OverflowInInsert, B!Forget
<1>5. /\ pc' \notin {"scan", "scanEnd"}
      /\ pc' = "idle" => ins \in acked'
      /\ pc' # "idle" => ins' = ins
  <2>1. CASE B!InsertInLeaf \/ B!InsertInNonLeaf \/ B!CommitRoot
    BY <2>1 DEF B!InsertInLeaf, B!InsertInNonLeaf, B!CommitRoot, B!Return
  <2>2. CASE \/ B!FetchFirstRoot \/ B!CommitFirst \/ B!Descend \/ B!FetchLeafSibling
             \/ B!WriteLeafSibling \/ B!WriteLeaf \/ B!FetchNonLeafSibling
             \/ B!WriteNonLeafSibling \/ B!WriteNonLeaf \/ B!FetchNewRoot \/ B!WriteNewRoot
    BY <2>2 DEF B!FetchFirstRoot, B!CommitFirst, B!Descend, B!FetchLeafSibling, B!WriteLeafSibling,
       B!WriteLeaf, B!FetchNonLeafSibling, B!WriteNonLeafSibling, B!WriteNonLeaf, B!FetchNewRoot,
       B!WriteNewRoot, B!frame
  <2> QED
    BY <1>4, <2>1, <2>2 DEF B!InsertStep
<1> QED
    BY <1>1, <1>3, <1>5, IdxSteps

(***************************************************************************)
(* The start key of a SELECT                                               *)
(***************************************************************************)

\* The number that Database!Merged puts where the code sets none.
JunkInt == CHOOSE junk \in Junk : TRUE

LEMMA MergeKeepsConds ==
    ASSUME Constants, NEW merged \in Seq(MergedCond), NEW cond \in Cond
    PROVE  Merge(merged, cond, JunkInt) \in Seq(MergedCond)
<1>1. /\ cond.attr \in {1, 2} /\ cond.comp \in Comparator /\ cond.value \in Text
      /\ Atoi[cond.value] \in CInt /\ JunkInt \in CInt
    BY DEF Constants, InstanceConstants, Cond, JunkInt
<1>2. \A old \in MergedCond : Tighten(old, cond) \in MergedCond
    BY <1>1 DEF Tighten, MergedCond
<1>3. ASSUME SameComp(merged, cond) # {}
      PROVE  [merged EXCEPT ![Min(SameComp(merged, cond))] = Tighten(@, cond)]
                 \in Seq(MergedCond)
  <2>1. SameComp(merged, cond) \subseteq 1 .. Len(merged)
    BY DEF SameComp
  <2>2. Min(SameComp(merged, cond)) \in 1 .. Len(merged)
    <3>1. SameComp(merged, cond) \in SUBSET Nat
      BY <2>1
    <3> QED
      BY <1>3, <2>1, <3>1, MinOfNaturals DEF Min, Min
  <2> DEFINE i == Min(SameComp(merged, cond))
  <2> HIDE DEF i
  <2>3. i \in 1 .. Len(merged) /\ Tighten(merged[i], cond) \in MergedCond
    BY <1>2, <2>2 DEF i
  <2>4. [merged EXCEPT ![i] = Tighten(merged[i], cond)] \in Seq(MergedCond)
    BY <2>3, ExceptSeq
  <2> QED
    BY <2>4 DEF i
<1>4. [attr |-> cond.attr, comp |-> cond.comp, value |-> cond.value,
       intValue |-> IF cond.attr = 1 THEN Atoi[cond.value] ELSE JunkInt] \in MergedCond
    BY <1>1 DEF MergedCond
<1> QED
    BY <1>3, <1>4 DEF Merge

\* The function in Merged exists: it takes one step for each condition.
LEMMA MergesExist ==
    ASSUME NEW n \in Nat
    PROVE  \E f : f = [k \in 0 .. n |->
                         IF k = 0 THEN <<>> ELSE Merge(f[k - 1], query[k], JunkInt)]
<1> DEFINE Step(f, k) == IF k = 0 THEN <<>> ELSE Merge(f[k - 1], query[k], JunkInt)
           Is(f, m)   == f = [k \in 0 .. m |-> Step(f, k)]
           bad        == {m \in Nat : \A f : ~ Is(f, m)}
<1>1. ASSUME NEW m \in Nat, m \notin bad PROVE \E f : Is(f, m)
  <2> HIDE DEF Is
  <2> QED
    BY <1>1
<1>2. SUFFICES bad = {}
  <2>1. \E f : Is(f, n)
    <3> HIDE DEF Is
    <3> QED
      BY <1>1, <1>2
  <2> QED
    BY <2>1
<1>3. SUFFICES ASSUME bad # {} PROVE FALSE
    OBVIOUS
<1> DEFINE m == Min(bad)
<1>4. m \in bad /\ \A other \in bad : m <= other
  <2>1. bad \in SUBSET Nat
      OBVIOUS
  <2> HIDE DEF bad
  <2> QED
    BY <1>3, <2>1, MinOfNaturals
<1> HIDE DEF m
<1>5. m \in Nat /\ \A f : ~ Is(f, m)
  <2> HIDE DEF Is
  <2> QED
    BY <1>4
<1>6. CASE m = 0
  <2> DEFINE f == [k \in {0} |-> <<>>]
  <2>1. f = [k \in 0 .. 0 |-> Step(f, k)]
    OBVIOUS
  <2> QED
    BY <1>5, <1>6, <2>1
<1>7. CASE m # 0
  <2>1. m - 1 \in Nat /\ ~ (m <= m - 1)
    BY <1>5, <1>7
  <2>2. m - 1 \notin bad
    BY <1>4, <2>1
  <2>3. \E f : Is(f, m - 1)
    <3> HIDE DEF Is, bad
    <3> QED
      BY <1>1, <2>1, <2>2
  <2>4. PICK f : Is(f, m - 1)
    <3> HIDE DEF Is
    <3> QED
      BY <2>3
  <2> DEFINE g == [k \in 0 .. m |-> IF k = m THEN Step(f, m) ELSE f[k]]
  <2>5. \A k \in 0 .. m : k # 0 => g[k - 1] = f[k - 1]
    BY <1>5
  <2>6. \A k \in 0 .. m : g[k] = Step(f, k)
    <3> HIDE DEF Step
    <3> QED
      BY <1>5, <2>4
  <2>7. \A k \in 0 .. m : Step(g, k) = Step(f, k)
    BY <2>5
  <2>8. Is(g, m)
    <3> HIDE DEF Step
    <3> QED
      BY <2>6, <2>7
  <2> QED
    BY <1>5, <2>8
<1> QED
    BY <1>6, <1>7

\* What the engine merges are conditions.
LEMMA MergedAreConds ==
    ASSUME Constants, query \in Seq(Cond)
    PROVE  Merged \in Seq(MergedCond)
<1> DEFINE n == Len(query)
           Is(f) == f = [k \in 0 .. n |->
                            IF k = 0 THEN <<>> ELSE Merge(f[k - 1], query[k], JunkInt)]
           merged == CHOOSE f : Is(f)
           bad    == {k \in 0 .. n : merged[k] \notin Seq(MergedCond)}
<1>1. n \in Nat
    OBVIOUS
<1>2. Is(merged)
    BY <1>1, MergesExist
<1>3. Merged = merged[n]
    BY DEF Merged, JunkInt
<1> HIDE DEF merged
<1>4. /\ merged[0] = <<>>
      /\ \A k \in 1 .. n : merged[k] = Merge(merged[k - 1], query[k], JunkInt)
    BY <1>1, <1>2
<1>5. bad = {}
  <2> SUFFICES ASSUME bad # {} PROVE FALSE
    OBVIOUS
  <2> DEFINE k == Min(bad)
  <2>1. k \in bad /\ \A other \in bad : k <= other
    <3>1. bad \in SUBSET Nat
      OBVIOUS
    <3> HIDE DEF bad
    <3> QED
      BY <3>1, MinOfNaturals
  <2> HIDE DEF k
  <2>2. k \in 0 .. n /\ merged[k] \notin Seq(MergedCond)
    BY <2>1
  <2>3. k # 0
    BY <1>4, <2>2, EmptySeq
  <2>4. k - 1 \in 0 .. n /\ ~ (k <= k - 1) /\ k \in 1 .. n
    BY <1>1, <2>2, <2>3
  <2>5. merged[k - 1] \in Seq(MergedCond)
    BY <2>1, <2>4
  <2>6. query[k] \in Cond
    BY <2>4
  <2> QED
    BY <1>4, <2>2, <2>4, <2>5, <2>6, MergeKeepsConds
<1>6. n \in 0 .. n
    BY <1>1
<1> QED
    BY <1>3, <1>5, <1>6

LEMMA StartKeyIsInt ==
    ASSUME Constants, query \in Seq(Cond)
    PROVE  StartKey(Merged) \in Int
<1> DEFINE merged == Merged
<1>1. merged \in Seq(MergedCond) /\ Len(merged) \in Nat
    BY MergedAreConds
<1> HIDE DEF merged
<1>2. ASSUME NEW comp, OnKey(merged, comp) # {}
      PROVE  LastInt(merged, OnKey(merged, comp)) \in CInt
  <2>1. OnKey(merged, comp) \in SUBSET (1 .. Len(merged))
    BY <1>1 DEF OnKey
  <2>2. Max(OnKey(merged, comp)) \in 1 .. Len(merged)
    BY <1>1, <1>2, <2>1, MaxInSet DEF Max, Max
  <2>3. merged[Max(OnKey(merged, comp))] \in MergedCond
    BY <1>1, <2>2
  <2> QED
    BY <2>3 DEF LastInt, MergedCond
<1>3. INT_MAX \in Nat /\ CInt \subseteq Int
    BY DEF Constants, InstanceConstants, CInt
<1>4. \A i \in Int : Wrap(i + 1) \in Int
  <2>1. \A a \in Int, w \in Nat \ {0} : a % w \in Int
    OBVIOUS
  <2>2. 2 * (INT_MAX + 1) \in Nat \ {0} /\ \A i \in Int : i + 1 + INT_MAX + 1 \in Int
    BY <1>3
  <2> QED
    BY <1>3, <2>1, <2>2 DEF Wrap
<1>5. \A comp : OnKey(merged, comp) # {} =>
        /\ LastInt(merged, OnKey(merged, comp)) \in Int
        /\ Wrap(LastInt(merged, OnKey(merged, comp)) + 1) \in Int
    BY <1>2, <1>3, <1>4
<1>6. StartKey(merged) \in Int
    BY <1>5 DEF StartKey
<1> QED
    BY <1>6 DEF merged

(***************************************************************************)
(* The invariant                                                           *)
(***************************************************************************)

\* How the files are open in each phase of a statement, and what the index
\* object is doing.
Phases ==
    /\ stmt \in {"none", "loaded", "selected", "unopened", "failed"} =>
         tblMode = "none" /\ idxMode = "none"
    /\ stmt = "loadIndex" => tblMode = "w" /\ idxMode = "none"
    /\ stmt \in {"load", "index", "insert"} => tblMode = "w" /\ idxMode \in {"none", "w"}
    /\ stmt = "loadFailed" => tblMode = "failed" /\ idxMode \in {"none", "w"}
    /\ stmt \in {"index", "insert"} => idxMode = "w"
    /\ stmt = "openTable" => tblMode = "none" /\ idxMode = "r"
    /\ stmt \in {"locate", "fetch"} => tblMode = "r" /\ idxMode = "r"
    /\ stmt = "endPrint" => tblMode \in {"r", "failed"} /\ idxMode = "r"
    /\ stmt = "scan" => tblMode = "r" /\ idxMode = "none"
    /\ stmt = "scanFailed" => tblMode = "failed" /\ idxMode = "none"
    /\ stmt \notin {"insert", "fetch", "endPrint"} => pc = "idle"
    /\ stmt \in {"fetch", "endPrint"} => pc = "scan"
    /\ stmt = "insert" => pc \notin {"idle", "scan", "scanEnd"}

\* The types of what is Database's own.  No open makes the free descriptors
\* fewer than none.
OwnTypes ==
    /\ stmt \in {"none", "load", "loadIndex", "loadFailed", "index", "insert",
                 "openTable", "locate", "fetch", "endPrint", "scan", "scanFailed",
                 "loaded", "selected", "unopened", "failed"}
    /\ files \subseteq {"tbl", "idx"}
    /\ value \in Text
    /\ query \in Queries \cup {<<>>}
    /\ rid \in [pid : Int, sid : Int]
    /\ answer \in Seq([key : Key, value : Text])
    /\ leaked \in Nat
    /\ FreeFds >= 0
    /\ skipped \subseteq Key

\* The table has a row with the entry's key at the entry's rid.
PointsAtRow(e) ==
    e \in B!Entry /\ \E row \in Table!Rows : row.rid = e.rid /\ row.record.key = e.key

\* The entry of the row that LOAD has appended and not yet seen in the index.
InFlight == IF stmt = "index" THEN {AppendedEntry}
            ELSE IF stmt = "insert" THEN {ins}
            ELSE {}

\* So for each entry on the chain or on its way there.
Pointing == \A e \in B!Stored \cup InFlight : PointsAtRow(e)

KeysIn(entries) == {e.key : e \in entries}
RowKeys         == {row.record.key : row \in Table!Rows}

\* Each row's key is in one of three sets, and no key is in two of them.
Accounting ==
    LET pending == KeysIn(InFlight \ B!Stored)
    IN  /\ RowKeys = KeysIn(B!Stored) \cup pending \cup skipped
        /\ KeysIn(B!Stored) \cap skipped = {}
        /\ pending \cap (KeysIn(B!Stored) \cup skipped) = {}

\* The inductive invariant.
DbInv == B!Chained /\ TblInv /\ Phases /\ OwnTypes /\ Pointing /\ Accounting

LEMMA TblUnchanged ==
    ASSUME TblInv, UNCHANGED <<tblDisk, tblMode, erid, reply, appended>>
    PROVE  TblInv' /\ Table!Rows' = Table!Rows
BY TblSame DEF TblInv, Table!TypeOK, TblAtEnd

LEMMA TblCloses ==
    ASSUME Constants, TblInv, Table!Close
    PROVE  TblInv' /\ Table!Rows' = Table!Rows /\ tblMode' = "none"
BY TblIsGone DEF Table!Close

\* A step that leaves the rows and the entries alone, with no entry on its way.
LEMMA QuietStep ==
    ASSUME DbInv, B!Chained', TblInv', Phases', OwnTypes',
           Table!Rows' = Table!Rows, B!Stored' = B!Stored, skipped' = skipped,
           stmt \notin {"index", "insert"}, stmt' \notin {"index", "insert"}
    PROVE  DbInv'
<1>1. InFlight = {} /\ InFlight' = {}
    BY DEF InFlight
<1>2. Pointing'
    BY <1>1 DEF DbInv, Pointing, PointsAtRow
<1>3. RowKeys' = RowKeys
    BY DEF RowKeys
<1>4. Accounting'
    BY <1>1, <1>3 DEF DbInv, Accounting, KeysIn
<1> QED
    BY <1>2, <1>4 DEF DbInv

LEMMA LoadOpensTableKeeps ==
    ASSUME Constants, DbInv, NEW withIndex \in LoadsIndex, LoadOpensTable(withIndex)
    PROVE  DbInv'
<1>1. /\ Table!Open("w")
      /\ UNCHANGED B!vars
    BY SameIndexCalls, SameForget DEF LoadOpensTable, FreeInLoad, tableVars, indexVars, selectVars, B!vars,
       B!file, B!head, B!frame, B!scan, B!ghost
<1>2. TblInv' /\ Table!Rows' = Table!Rows /\ tblMode = "none" /\ tblMode' = "w"
    BY <1>1, TblOpens DEF DbInv, Table!Open
<1>3. B!Chained' /\ B!Stored' = B!Stored /\ idxMode' = idxMode /\ pc' = pc
    BY <1>1, IdxCalls DEF DbInv, B!Open, B!Close, B!Locate, B!Forget, B!vars, B!file, B!head,
       B!frame, B!scan, B!ghost, B!Chained, B!Typed, B!TypeOK
<1>4. Phases' /\ OwnTypes' /\ skipped' = skipped
      /\ stmt \notin {"index", "insert"} /\ stmt' \notin {"index", "insert"}
    BY <1>1, <1>2, <1>3 DEF DbInv, Phases, OwnTypes, FreeFds, Constants, InstanceConstants,
       LoadOpensTable, FreeInLoad, tableVars, indexVars, selectVars
<1> QED
    BY <1>2, <1>3, <1>4, QuietStep

LEMMA LoadFindsNoTableKeeps ==
    ASSUME Constants, DbInv, LoadFindsNoTable
    PROVE  DbInv'
<1>1. /\ Table!OpenFails
      /\ UNCHANGED B!vars
    BY SameIndexCalls, SameForget DEF LoadFindsNoTable, tableVars, indexVars, selectVars, B!vars,
       B!file, B!head, B!frame, B!scan, B!ghost
<1>2. TblInv' /\ Table!Rows' = Table!Rows /\ tblMode' = tblMode
    BY <1>1, TblFailures DEF DbInv, Table!OpenFails
<1>3. B!Chained' /\ B!Stored' = B!Stored /\ idxMode' = idxMode /\ pc' = pc
    BY <1>1, IdxCalls DEF DbInv, B!Open, B!Close, B!Locate, B!Forget, B!vars, B!file, B!head,
       B!frame, B!scan, B!ghost, B!Chained, B!Typed, B!TypeOK
<1>4. Phases' /\ OwnTypes' /\ skipped' = skipped
      /\ stmt \notin {"index", "insert"} /\ stmt' \notin {"index", "insert"}
    BY <1>1, <1>2, <1>3 DEF DbInv, Phases, OwnTypes, FreeFds, Constants, InstanceConstants,
       LoadFindsNoTable, tableVars, indexVars, selectVars
<1> QED
    BY <1>2, <1>3, <1>4, QuietStep

LEMMA LoadOpensIndexKeeps ==
    ASSUME Constants, DbInv, LoadOpensIndex
    PROVE  DbInv'
<1>1. /\ UNCHANGED <<tblDisk, tblMode, erid, reply, appended>>
      /\ B!Open("w")
    BY SameIndexCalls, SameForget DEF LoadOpensIndex, FreeInLoad, tableVars, indexVars, selectVars, B!vars,
       B!file, B!head, B!frame, B!scan, B!ghost
<1>2. TblInv' /\ Table!Rows' = Table!Rows /\ tblMode' = tblMode
    BY <1>1, TblUnchanged DEF DbInv
<1>3. B!Chained' /\ B!Stored' = B!Stored /\ idxMode = "none" /\ idxMode' = "w" /\ pc' = pc
    BY <1>1, IdxCalls DEF DbInv, B!Open, B!Close, B!Locate, B!Forget, B!vars, B!file, B!head,
       B!frame, B!scan, B!ghost, B!Chained, B!Typed, B!TypeOK
<1>4. Phases' /\ OwnTypes' /\ skipped' = skipped
      /\ stmt \notin {"index", "insert"} /\ stmt' \notin {"index", "insert"}
    BY <1>1, <1>2, <1>3 DEF DbInv, Phases, OwnTypes, FreeFds, Constants, InstanceConstants,
       LoadOpensIndex, FreeInLoad, tableVars, indexVars, selectVars
<1> QED
    BY <1>2, <1>3, <1>4, QuietStep

LEMMA LoadIgnoresOpenKeeps ==
    ASSUME Constants, DbInv, LoadIgnoresOpen
    PROVE  DbInv'
<1>1. /\ UNCHANGED <<tblDisk, tblMode, erid, reply, appended>>
      /\ UNCHANGED B!vars
    BY SameIndexCalls, SameForget DEF LoadIgnoresOpen, tableVars, indexVars, selectVars, B!vars,
       B!file, B!head, B!frame, B!scan, B!ghost
<1>2. TblInv' /\ Table!Rows' = Table!Rows /\ tblMode' = tblMode
    BY <1>1, TblUnchanged DEF DbInv
<1>3. B!Chained' /\ B!Stored' = B!Stored /\ idxMode' = idxMode /\ pc' = pc
    BY <1>1, IdxCalls DEF DbInv, B!Open, B!Close, B!Locate, B!Forget, B!vars, B!file, B!head,
       B!frame, B!scan, B!ghost, B!Chained, B!Typed, B!TypeOK
<1>4. Phases' /\ OwnTypes' /\ skipped' = skipped
      /\ stmt \notin {"index", "insert"} /\ stmt' \notin {"index", "insert"}
    BY <1>1, <1>2, <1>3 DEF DbInv, Phases, OwnTypes, FreeFds, Constants, InstanceConstants,
       LoadIgnoresOpen, tableVars, indexVars, selectVars
<1> QED
    BY <1>2, <1>3, <1>4, QuietStep

LEMMA LoadFailsKeeps ==
    ASSUME Constants, DbInv, LoadFails
    PROVE  DbInv'
<1>1. /\ Table!AppendFails
      /\ UNCHANGED B!vars
    BY SameIndexCalls, SameForget DEF LoadFails, tableVars, indexVars, selectVars, B!vars, B!file,
       B!head, B!frame, B!scan, B!ghost
<1>2. TblInv' /\ Table!Rows' = Table!Rows /\ tblMode # "none" /\ tblMode' = "failed"
    BY <1>1, TblFailures DEF DbInv, Table!AppendFails, Table!MayAppend
<1>3. B!Chained' /\ B!Stored' = B!Stored /\ idxMode' = idxMode /\ pc' = pc
    BY <1>1, IdxCalls DEF DbInv, B!Open, B!Close, B!Locate, B!Forget, B!vars, B!file, B!head,
       B!frame, B!scan, B!ghost, B!Chained, B!Typed, B!TypeOK
<1>4. Phases' /\ OwnTypes' /\ skipped' = skipped
      /\ stmt \notin {"index", "insert"} /\ stmt' \notin {"index", "insert"}
    BY <1>1, <1>2, <1>3 DEF DbInv, Phases, OwnTypes, FreeFds, Constants, InstanceConstants,
       LoadFails, tableVars, indexVars, selectVars
<1> QED
    BY <1>2, <1>3, <1>4, QuietStep

LEMMA LoadReturnsErrorKeeps ==
    ASSUME Constants, DbInv, LoadReturnsError
    PROVE  DbInv'
<1>1. /\ Table!Close
      /\ B!Forget /\ idxDisk' = idxDisk /\ acked' = acked /\ tried' = tried /\ crashes' = crashes
    BY SameIndexCalls, SameForget DEF LoadReturnsError, tableVars, indexVars, selectVars, B!vars,
       B!file, B!head, B!frame, B!scan, B!ghost
<1>2. TblInv' /\ Table!Rows' = Table!Rows
    BY <1>1, TblCloses DEF DbInv
<1>3. B!Chained' /\ B!Stored' = B!Stored /\ idxMode' = "none" /\ pc' = "idle"
    BY <1>1, IdxForgets DEF DbInv, B!Open, B!Close, B!Locate, B!Forget, B!vars, B!file, B!head,
       B!frame, B!scan, B!ghost, B!Chained, B!Typed, B!TypeOK
<1>4. skipped' = skipped
      /\ stmt \notin {"index", "insert"} /\ stmt' \notin {"index", "insert"}
    BY <1>1 DEF LoadReturnsError
<1>5. Phases'
    BY <1>1, <1>2, <1>3 DEF DbInv, Phases, Table!Close, LoadReturnsError
<1>6. FreeFds' >= 0 /\ leaked' \in Nat
    BY <1>1, <1>2, <1>3 DEF DbInv, Phases, OwnTypes, Table!Close, B!Close, B!Forget, FreeFds,
       Constants, InstanceConstants, LoadReturnsError
<1>7. OwnTypes'
    BY <1>1, <1>6 DEF DbInv, OwnTypes, Constants, InstanceConstants, LoadReturnsError, tableVars,
       indexVars, selectVars
<1> QED
    BY <1>2, <1>3, <1>4, <1>5, <1>7, QuietStep

LEMMA EndLoadKeeps ==
    ASSUME Constants, DbInv, EndLoad
    PROVE  DbInv'
<1>1. /\ Table!Close
      /\ B!Forget /\ idxDisk' = idxDisk /\ acked' = acked /\ tried' = tried /\ crashes' = crashes
    BY SameIndexCalls, SameForget DEF EndLoad, tableVars, indexVars, selectVars, B!vars, B!file,
       B!head, B!frame, B!scan, B!ghost
<1>2. TblInv' /\ Table!Rows' = Table!Rows
    BY <1>1, TblCloses DEF DbInv
<1>3. B!Chained' /\ B!Stored' = B!Stored /\ idxMode' = "none" /\ pc' = "idle"
    BY <1>1, IdxForgets DEF DbInv, B!Open, B!Close, B!Locate, B!Forget, B!vars, B!file, B!head,
       B!frame, B!scan, B!ghost, B!Chained, B!Typed, B!TypeOK
<1>4. skipped' = skipped
      /\ stmt \notin {"index", "insert"} /\ stmt' \notin {"index", "insert"}
    BY <1>1 DEF EndLoad
<1>5. Phases'
    BY <1>1, <1>2, <1>3 DEF DbInv, Phases, Table!Close, EndLoad
<1>6. FreeFds' >= 0 /\ leaked' \in Nat
    BY <1>1, <1>2, <1>3 DEF DbInv, Phases, OwnTypes, Table!Close, B!Close, B!Forget, FreeFds,
       Constants, InstanceConstants, EndLoad
<1>7. OwnTypes'
    BY <1>1, <1>6 DEF DbInv, OwnTypes, Constants, InstanceConstants, EndLoad, tableVars,
       indexVars, selectVars
<1> QED
    BY <1>2, <1>3, <1>4, <1>5, <1>7, QuietStep

LEMMA SelectOpensIndexKeeps ==
    ASSUME Constants, DbInv, NEW q \in Queries, SelectOpensIndex(q)
    PROVE  DbInv'
<1>1. /\ UNCHANGED <<tblDisk, tblMode, erid, reply, appended>>
      /\ B!Open("r")
    BY SameIndexCalls, SameForget DEF SelectOpensIndex, tableVars, indexVars, selectVars, B!vars,
       B!file, B!head, B!frame, B!scan, B!ghost
<1>2. TblInv' /\ Table!Rows' = Table!Rows /\ tblMode' = tblMode
    BY <1>1, TblUnchanged DEF DbInv
<1>3. B!Chained' /\ B!Stored' = B!Stored /\ idxMode = "none" /\ idxMode' = "r" /\ pc' = pc
    BY <1>1, IdxCalls DEF DbInv, B!Open, B!Close, B!Locate, B!Forget, B!vars, B!file, B!head,
       B!frame, B!scan, B!ghost, B!Chained, B!Typed, B!TypeOK
<1>4. Phases' /\ OwnTypes' /\ skipped' = skipped
      /\ stmt \notin {"index", "insert"} /\ stmt' \notin {"index", "insert"}
    BY <1>1, <1>2, <1>3 DEF DbInv, Phases, OwnTypes, FreeFds, Constants, InstanceConstants,
       SelectOpensIndex, tableVars, indexVars, selectVars
<1> QED
    BY <1>2, <1>3, <1>4, QuietStep

LEMMA PrintTuplesOpensKeeps ==
    ASSUME Constants, DbInv, PrintTuplesOpens
    PROVE  DbInv'
<1>1. /\ Table!Open("r")
      /\ UNCHANGED B!vars
    BY SameIndexCalls, SameForget DEF PrintTuplesOpens, tableVars, indexVars, selectVars, B!vars,
       B!file, B!head, B!frame, B!scan, B!ghost
<1>2. TblInv' /\ Table!Rows' = Table!Rows /\ tblMode = "none" /\ tblMode' = "r"
    BY <1>1, TblOpens DEF DbInv, Table!Open
<1>3. B!Chained' /\ B!Stored' = B!Stored /\ idxMode' = idxMode /\ pc' = pc
    BY <1>1, IdxCalls DEF DbInv, B!Open, B!Close, B!Locate, B!Forget, B!vars, B!file, B!head,
       B!frame, B!scan, B!ghost, B!Chained, B!Typed, B!TypeOK
<1>4. Phases' /\ OwnTypes' /\ skipped' = skipped
      /\ stmt \notin {"index", "insert"} /\ stmt' \notin {"index", "insert"}
    BY <1>1, <1>2, <1>3 DEF DbInv, Phases, OwnTypes, FreeFds, Constants, InstanceConstants,
       PrintTuplesOpens, tableVars, indexVars, selectVars
<1> QED
    BY <1>2, <1>3, <1>4, QuietStep

LEMMA PrintTuplesFindsNoTableKeeps ==
    ASSUME Constants, DbInv, PrintTuplesFindsNoTable
    PROVE  DbInv'
<1>1. /\ Table!OpenFails \/ UNCHANGED <<tblDisk, tblMode, erid, reply, appended>>
      /\ B!Close
    BY SameIndexCalls, SameForget DEF PrintTuplesFindsNoTable, tableVars, indexVars, selectVars,
       B!vars, B!file, B!head, B!frame, B!scan, B!ghost
<1>2. TblInv' /\ Table!Rows' = Table!Rows /\ tblMode' = tblMode
    BY <1>1, TblFailures, TblUnchanged DEF DbInv, Table!OpenFails
<1>3. B!Chained' /\ B!Stored' = B!Stored /\ idxMode' = "none" /\ pc' = "idle"
    BY <1>1, IdxCalls DEF DbInv, B!Open, B!Close, B!Locate, B!Forget, B!vars, B!file, B!head,
       B!frame, B!scan, B!ghost, B!Chained, B!Typed, B!TypeOK
<1>4. Phases' /\ OwnTypes' /\ skipped' = skipped
      /\ stmt \notin {"index", "insert"} /\ stmt' \notin {"index", "insert"}
    BY <1>1, <1>2, <1>3 DEF DbInv, Phases, OwnTypes, FreeFds, Constants, InstanceConstants,
       PrintTuplesFindsNoTable, tableVars, indexVars, selectVars
<1> QED
    BY <1>2, <1>3, <1>4, QuietStep

LEMMA PrintTuplesLocatesKeeps ==
    ASSUME Constants, DbInv, PrintTuplesLocates
    PROVE  DbInv'
<1>0. StartKey(Merged) \in Int
    BY StartKeyIsInt, EmptySeq DEF DbInv, OwnTypes, Constants, InstanceConstants
<1>1. /\ UNCHANGED <<tblDisk, tblMode, erid, reply, appended>>
      /\ \E k \in Int : B!Locate(k)
    BY <1>0, SameIndexCalls, SameForget DEF PrintTuplesLocates, tableVars, indexVars, selectVars,
       B!vars, B!file, B!head, B!frame, B!scan, B!ghost
<1>2. TblInv' /\ Table!Rows' = Table!Rows /\ tblMode' = tblMode
    BY <1>1, TblUnchanged DEF DbInv
<1>3. B!Chained' /\ B!Stored' = B!Stored /\ idxMode' = idxMode /\ pc' = "scan"
    BY <1>1, IdxCalls DEF DbInv, B!Open, B!Close, B!Locate, B!Forget, B!vars, B!file, B!head,
       B!frame, B!scan, B!ghost, B!Chained, B!Typed, B!TypeOK
<1>4. Phases' /\ OwnTypes' /\ skipped' = skipped
      /\ stmt \notin {"index", "insert"} /\ stmt' \notin {"index", "insert"}
    BY <1>1, <1>2, <1>3 DEF DbInv, Phases, OwnTypes, FreeFds, Constants, InstanceConstants,
       PrintTuplesLocates, tableVars, indexVars, selectVars
<1> QED
    BY <1>2, <1>3, <1>4, QuietStep

LEMMA PrintTuplesLocatesNoneKeeps ==
    ASSUME Constants, DbInv, PrintTuplesLocatesNone
    PROVE  DbInv'
<1>1. /\ Table!Close
      /\ B!Close
    BY SameIndexCalls, SameForget DEF PrintTuplesLocatesNone, tableVars, indexVars, selectVars,
       B!vars, B!file, B!head, B!frame, B!scan, B!ghost
<1>2. TblInv' /\ Table!Rows' = Table!Rows
    BY <1>1, TblCloses DEF DbInv
<1>3. B!Chained' /\ B!Stored' = B!Stored /\ idxMode' = "none" /\ pc' = "idle"
    BY <1>1, IdxCalls DEF DbInv, B!Open, B!Close, B!Locate, B!Forget, B!vars, B!file, B!head,
       B!frame, B!scan, B!ghost, B!Chained, B!Typed, B!TypeOK
<1>4. skipped' = skipped
      /\ stmt \notin {"index", "insert"} /\ stmt' \notin {"index", "insert"}
    BY <1>1 DEF PrintTuplesLocatesNone
<1>5. Phases'
    BY <1>1, <1>2, <1>3 DEF DbInv, Phases, Table!Close, PrintTuplesLocatesNone
<1>6. FreeFds' >= 0 /\ leaked' \in Nat
    BY <1>1, <1>2, <1>3 DEF DbInv, Phases, OwnTypes, Table!Close, B!Close, B!Forget, FreeFds,
       Constants, InstanceConstants, PrintTuplesLocatesNone
<1>7. OwnTypes'
    BY <1>1, <1>6 DEF DbInv, OwnTypes, Constants, InstanceConstants, PrintTuplesLocatesNone,
       tableVars, indexVars, selectVars
<1> QED
    BY <1>2, <1>3, <1>4, <1>5, <1>7, QuietStep

LEMMA PrintTuplesEndsKeeps ==
    ASSUME Constants, DbInv, PrintTuplesEnds
    PROVE  DbInv'
<1>1. /\ Table!Close
      /\ B!Forget /\ idxDisk' = idxDisk /\ acked' = acked /\ tried' = tried /\ crashes' = crashes
    BY SameIndexCalls, SameForget DEF PrintTuplesEnds, tableVars, indexVars, selectVars, B!vars,
       B!file, B!head, B!frame, B!scan, B!ghost
<1>2. TblInv' /\ Table!Rows' = Table!Rows
    BY <1>1, TblCloses DEF DbInv
<1>3. B!Chained' /\ B!Stored' = B!Stored /\ idxMode' = "none" /\ pc' = "idle"
    BY <1>1, IdxForgets DEF DbInv, B!Open, B!Close, B!Locate, B!Forget, B!vars, B!file, B!head,
       B!frame, B!scan, B!ghost, B!Chained, B!Typed, B!TypeOK
<1>4. skipped' = skipped
      /\ stmt \notin {"index", "insert"} /\ stmt' \notin {"index", "insert"}
    BY <1>1 DEF PrintTuplesEnds
<1>5. Phases'
    BY <1>1, <1>2, <1>3 DEF DbInv, Phases, Table!Close, PrintTuplesEnds
<1>6. FreeFds' >= 0 /\ leaked' \in Nat
    BY <1>1, <1>2, <1>3 DEF DbInv, Phases, OwnTypes, Table!Close, B!Close, B!Forget, FreeFds,
       Constants, InstanceConstants, PrintTuplesEnds
<1>7. OwnTypes'
    BY <1>1, <1>6 DEF DbInv, OwnTypes, Constants, InstanceConstants, PrintTuplesEnds, tableVars,
       indexVars, selectVars
<1> QED
    BY <1>2, <1>3, <1>4, <1>5, <1>7, QuietStep

LEMMA SelectOpensTableKeeps ==
    ASSUME Constants, DbInv, NEW q \in Queries, SelectOpensTable(q)
    PROVE  DbInv'
<1>1. /\ Table!Open("r")
      /\ UNCHANGED B!vars
    BY SameIndexCalls, SameForget DEF SelectOpensTable, tableVars, indexVars, selectVars, B!vars,
       B!file, B!head, B!frame, B!scan, B!ghost
<1>2. TblInv' /\ Table!Rows' = Table!Rows /\ tblMode = "none" /\ tblMode' = "r"
    BY <1>1, TblOpens DEF DbInv, Table!Open
<1>3. B!Chained' /\ B!Stored' = B!Stored /\ idxMode' = idxMode /\ pc' = pc
    BY <1>1, IdxCalls DEF DbInv, B!Open, B!Close, B!Locate, B!Forget, B!vars, B!file, B!head,
       B!frame, B!scan, B!ghost, B!Chained, B!Typed, B!TypeOK
<1>4. skipped' = skipped
      /\ stmt \notin {"index", "insert"} /\ stmt' \notin {"index", "insert"}
    BY <1>1 DEF SelectOpensTable
<1>5. Phases'
    BY <1>1, <1>2, <1>3 DEF DbInv, Phases, Table!Close, SelectOpensTable, Table!Open
<1>6. FreeFds' >= 0 /\ leaked' \in Nat
    BY <1>1, <1>2, <1>3 DEF DbInv, Phases, OwnTypes, Table!Close, B!Close, B!Forget, FreeFds,
       Constants, InstanceConstants, SelectOpensTable, Table!Open
<1>7. OwnTypes'
    BY <1>1, <1>6 DEF DbInv, OwnTypes, Constants, InstanceConstants, SelectOpensTable, tableVars,
       indexVars, selectVars, Table!Rid
<1> QED
    BY <1>2, <1>3, <1>4, <1>5, <1>7, QuietStep

LEMMA ScanFailsKeeps ==
    ASSUME Constants, DbInv, ScanFails
    PROVE  DbInv'
<1>1. /\ Table!ReadFails(rid)
      /\ UNCHANGED B!vars
    BY SameIndexCalls, SameForget DEF ScanFails, tableVars, indexVars, selectVars, B!vars, B!file,
       B!head, B!frame, B!scan, B!ghost
<1>2. TblInv' /\ Table!Rows' = Table!Rows /\ tblMode # "none" /\ tblMode' = "failed"
    BY <1>1, TblFailures DEF DbInv, Table!ReadFails
<1>3. B!Chained' /\ B!Stored' = B!Stored /\ idxMode' = idxMode /\ pc' = pc
    BY <1>1, IdxCalls DEF DbInv, B!Open, B!Close, B!Locate, B!Forget, B!vars, B!file, B!head,
       B!frame, B!scan, B!ghost, B!Chained, B!Typed, B!TypeOK
<1>4. Phases' /\ OwnTypes' /\ skipped' = skipped
      /\ stmt \notin {"index", "insert"} /\ stmt' \notin {"index", "insert"}
    BY <1>1, <1>2, <1>3 DEF DbInv, Phases, OwnTypes, FreeFds, Constants, InstanceConstants,
       ScanFails, tableVars, indexVars, selectVars
<1> QED
    BY <1>2, <1>3, <1>4, QuietStep

LEMMA EndScanKeeps ==
    ASSUME Constants, DbInv, EndScan
    PROVE  DbInv'
<1>1. /\ Table!Close
      /\ UNCHANGED B!vars
    BY SameIndexCalls, SameForget DEF EndScan, tableVars, indexVars, selectVars, B!vars, B!file,
       B!head, B!frame, B!scan, B!ghost
<1>2. TblInv' /\ Table!Rows' = Table!Rows
    BY <1>1, TblCloses DEF DbInv
<1>3. B!Chained' /\ B!Stored' = B!Stored /\ idxMode' = idxMode /\ pc' = pc
    BY <1>1, IdxCalls DEF DbInv, B!Open, B!Close, B!Locate, B!Forget, B!vars, B!file, B!head,
       B!frame, B!scan, B!ghost, B!Chained, B!Typed, B!TypeOK
<1>4. skipped' = skipped
      /\ stmt \notin {"index", "insert"} /\ stmt' \notin {"index", "insert"}
    BY <1>1 DEF EndScan
<1>5. Phases'
    BY <1>1, <1>2, <1>3 DEF DbInv, Phases, Table!Close, EndScan
<1>6. FreeFds' >= 0 /\ leaked' \in Nat
    BY <1>1, <1>2, <1>3 DEF DbInv, Phases, OwnTypes, Table!Close, B!Close, B!Forget, FreeFds,
       Constants, InstanceConstants, EndScan
<1>7. OwnTypes'
    BY <1>1, <1>6 DEF DbInv, OwnTypes, Constants, InstanceConstants, EndScan, tableVars,
       indexVars, selectVars
<1> QED
    BY <1>2, <1>3, <1>4, <1>5, <1>7, QuietStep

LEMMA PromptKeeps ==
    ASSUME Constants, DbInv, Prompt
    PROVE  DbInv'
<1>1. /\ UNCHANGED <<tblDisk, tblMode, erid, reply, appended>>
      /\ UNCHANGED B!vars
    BY SameIndexCalls, SameForget DEF Prompt, tableVars, indexVars, selectVars, B!vars, B!file,
       B!head, B!frame, B!scan, B!ghost
<1>2. TblInv' /\ Table!Rows' = Table!Rows /\ tblMode' = tblMode
    BY <1>1, TblUnchanged DEF DbInv
<1>3. B!Chained' /\ B!Stored' = B!Stored /\ idxMode' = idxMode /\ pc' = pc
    BY <1>1, IdxCalls DEF DbInv, B!Open, B!Close, B!Locate, B!Forget, B!vars, B!file, B!head,
       B!frame, B!scan, B!ghost, B!Chained, B!Typed, B!TypeOK
<1>4. Phases' /\ OwnTypes' /\ skipped' = skipped
      /\ stmt \notin {"index", "insert"} /\ stmt' \notin {"index", "insert"}
    BY <1>1, <1>2, <1>3 DEF DbInv, Phases, OwnTypes, FreeFds, Constants, InstanceConstants,
       Prompt, tableVars, indexVars, selectVars, Unset
<1> QED
    BY <1>2, <1>3, <1>4, QuietStep

LEMMA AppendsOne ==
    ASSUME NEW S, NEW s \in Seq(S), NEW x \in S
    PROVE  Append(s, x) \in Seq(S)
OBVIOUS

LEMMA ScanTupleKeeps ==
    ASSUME Constants, DbInv, ScanTuple
    PROVE  DbInv'
<1>1. Table!Read(rid) /\ UNCHANGED B!vars /\ rid \in [pid : Int, sid : Int]
    BY DEF DbInv, OwnTypes, ScanTuple, indexVars, B!vars, B!file, B!head, B!frame, B!scan, B!ghost
<1>2. TblInv' /\ Table!Rows' = Table!Rows /\ tblMode' = tblMode /\ reply'.row.record \in Table!Record
    BY <1>1, TblReads DEF DbInv
<1>3. B!Chained' /\ B!Stored' = B!Stored /\ idxMode' = idxMode /\ pc' = pc
    BY <1>1, IdxCalls DEF DbInv, B!vars, B!file
<1>4. skipped' = skipped /\ stmt = "scan" /\ stmt' = "scan"
    BY DEF ScanTuple
<1>5. Phases'
    BY <1>2, <1>3, <1>4 DEF DbInv, Phases
<1>6. answer' \in Seq([key : Key, value : Text])
  <2>1. answer' = Append(answer, reply'.row.record) \/ answer' = answer
    BY DEF ScanTuple
  <2>2. answer \in Seq(Table!Record)
    BY DEF DbInv, OwnTypes, Table!Record
  <2> QED
    BY <1>2, <2>1, <2>2, AppendsOne DEF Table!Record
<1>7. rid' \in [pid : Int, sid : Int]
  <2>1. RECORDS_PER_PAGE \in Int
    BY DEF Constants, InstanceConstants
  <2>2. rid' = Table!Successor(rid)
    BY DEF ScanTuple
  <2> QED
    BY <1>1, <2>1, <2>2 DEF Table!Successor, Table!Rid
<1>8. OwnTypes'
    BY <1>2, <1>3, <1>6, <1>7 DEF DbInv, OwnTypes, FreeFds, ScanTuple
<1> QED
    BY <1>2, <1>3, <1>4, <1>5, <1>8, QuietStep

\* Where readForward gets its rid.
LEMMA FetchedAreRids ==
    ASSUME Constants, DbInv, NEW fetched \in FetchedRids(Index!LeafAt(cursor.pid))
    PROVE  fetched \in [pid : Int, sid : Int]
<1> DEFINE leaf == B!LeafAt(cursor.pid)
<1>1. Index!LeafAt(cursor.pid) = leaf
    BY SamePages
<1>2. leaf.entries \in Seq(B!Entry) /\ cursor.eid \in Nat
  <2>1. idxDisk \in Seq(B!Page) /\ cursor \in [pid : B!Pid, eid : Nat]
    BY DEF DbInv, B!Chained, B!Typed, B!TypeOK
  <2>2. leaf \in B!LeafPage
    BY <2>1, B!LeafAtTyped, IndexAssumptions
  <2> QED
    BY <2>1, <2>2 DEF B!LeafPage
<1> HIDE DEF leaf
<1>3. \A i \in 1 .. Len(leaf.entries) : leaf.entries[i].rid \in RowRid
  <2>1. \A e \in B!Entry : e.rid \in RowRid
    BY DEF B!Entry, Constants, InstanceConstants
  <2> QED
    BY <1>2, <2>1, ElementOfSeq
<1>4. RowRid \subseteq [pid : Int, sid : Int] /\ NoRow \in [pid : Int, sid : Int]
    BY DEF RowRid, NoRow
<1>5. rid \in [pid : Int, sid : Int]
    BY DEF DbInv, OwnTypes
<1>6. cursor.eid < Len(leaf.entries) => cursor.eid + 1 \in 1 .. Len(leaf.entries)
    BY <1>2
<1> QED
    BY <1>1, <1>3, <1>4, <1>5, <1>6 DEF FetchedRids

LEMMA FetchTupleKeeps ==
    ASSUME Constants, DbInv, FetchTuple
    PROVE  DbInv'
<1>1. stmt = "fetch" /\ pc = "scan"
    BY DEF FetchTuple, DbInv, Phases
<1>2. B!Chained' /\ B!Stored' = B!Stored /\ idxMode' = idxMode /\ pc' = pc
  <2>1. cursor' = B!NextCursor(B!LeafAt(cursor.pid))
    BY SamePages, SameIndexCalls DEF FetchTuple, Constants, InstanceConstants
  <2> QED
    BY <1>1, <2>1, IdxReadsForward DEF DbInv, FetchTuple
<1>3. PICK fetched \in FetchedRids(Index!LeafAt(cursor.pid)) :
        /\ rid' = fetched
        /\ \/ Table!Read(fetched) /\ Judge(reply'.row.record)
           \/ /\ Table!ReadInvalid(fetched) \/ Table!ReadFails(fetched)
              /\ stmt' = "endPrint"
              /\ UNCHANGED answer
    BY DEF FetchTuple
<1>4. rid' \in [pid : Int, sid : Int]
    BY <1>3, FetchedAreRids
<1>5. /\ TblInv' /\ Table!Rows' = Table!Rows
      /\ answer' \in Seq([key : Key, value : Text])
      /\ stmt' \in {"fetch", "endPrint"}
      /\ stmt' = "fetch" => tblMode' = "r"
      /\ tblMode' \in {"r", "failed"}
  <2>1. tblMode = "r" /\ answer \in Seq([key : Key, value : Text])
    BY <1>1 DEF DbInv, Phases, OwnTypes
  <2>2. CASE Table!Read(fetched) /\ Judge(reply'.row.record)
    <3>1. Table!Read(fetched)
      BY <2>2
    <3>2. TblInv' /\ Table!Rows' = Table!Rows /\ tblMode' = tblMode /\ reply'.row.record \in Table!Record
      BY <1>3, <1>4, <3>1, TblReads DEF DbInv
    <3>3. answer' \in Seq([key : Key, value : Text]) /\ stmt' \in {"fetch", "endPrint"}
      <4>1. answer' = Append(answer, reply'.row.record) \/ answer' = answer
        BY <2>2 DEF Judge
      <4>2. answer \in Seq(Table!Record)
        BY <2>1 DEF Table!Record
      <4>3. stmt' \in {"fetch", "endPrint"}
        BY <2>2 DEF Judge
      <4> QED
        BY <3>2, <4>1, <4>2, <4>3, AppendsOne DEF Table!Record
    <3> QED
      BY <2>1, <3>2, <3>3
  <2>3. CASE /\ Table!ReadInvalid(fetched) \/ Table!ReadFails(fetched)
             /\ stmt' = "endPrint"
             /\ UNCHANGED answer
    <3>1. Table!ReadInvalid(fetched) \/ Table!ReadFails(fetched)
      BY <2>3
    <3>2. TblInv' /\ Table!Rows' = Table!Rows
      BY <3>1, TblFailures DEF DbInv
    <3>3. tblMode' \in {"r", "failed"}
      BY <2>1, <3>1 DEF Table!ReadInvalid, Table!ReadFails
    <3> QED
      BY <2>1, <2>3, <3>2, <3>3
  <2> QED
    BY <1>3, <2>2, <2>3
<1>6. Phases'
    BY <1>1, <1>2, <1>5 DEF DbInv, Phases
<1>7. skipped' = skipped /\ UNCHANGED <<files, query, value, leaked>>
    BY DEF FetchTuple
<1>8. FreeFds' >= 0
    BY <1>1, <1>2, <1>5, <1>7 DEF DbInv, Phases, OwnTypes, FreeFds
<1>9. OwnTypes'
    BY <1>4, <1>5, <1>7, <1>8 DEF DbInv, OwnTypes
<1> QED
    BY <1>1, <1>2, <1>5, <1>6, <1>7, <1>9, QuietStep

(***************************************************************************)
(* Steps that add a row, an entry or a skipped key                         *)
(***************************************************************************)

LEMMA KeysOfUnion ==
    ASSUME NEW S, NEW e
    PROVE  KeysIn(S \cup {e}) = KeysIn(S) \cup {e.key} /\ KeysIn({}) = {}
BY DEF KeysIn

\* The row of a line gets a rid that an index entry can hold.
LEMMA LoadLineAppends ==
    ASSUME Constants, DbInv, NEW line \in Lines, LoadLine(line)
    PROVE  LET new == [key |-> line.key, rid |-> erid]
           IN  /\ TblInv' /\ tblMode' = "w" /\ value' \in Text
               /\ new \in B!Entry /\ line.key \in Key /\ line.key \notin RowKeys
               /\ AppendedEntry' = new
               /\ Table!Rows \subseteq Table!Rows'
               /\ RowKeys' = RowKeys \cup {line.key}
               /\ \E row \in Table!Rows' : row.rid = new.rid /\ row.record.key = new.key
<1> DEFINE record == Parsed(line)
           new    == [key |-> line.key, rid |-> erid]
<1>1. line \in [key : Key, value : Text \cup {NoComma}] /\ value \in Text
    BY DEF Constants, InstanceConstants, DbInv, OwnTypes
<1>2. record \in Table!Record /\ record.key = line.key
    BY <1>1 DEF Parsed, Table!Record
<1>3. value' = record.value /\ Table!AppendRecord(record)
    BY DEF LoadLine
<1>4. value' \in Text
    BY <1>2, <1>3 DEF Table!Record
<1>5. line.key \notin RowKeys
    BY DEF LoadLine, TableKeys, RowKeys
<1> HIDE DEF record
<1>6. /\ TblInv' /\ tblMode' = "w"
      /\ reply'.row = Table!Row(erid, Table!InSlot(record))
      /\ Table!Rows' = Table!Rows \cup {Table!Row(erid, Table!InSlot(record))}
      /\ erid \in [pid : 0 .. MaxPages - 1, sid : Table!Sid]
    BY <1>2, <1>3, TblAppends DEF DbInv
<1>7. Table!InSlot(record).key = line.key
    BY <1>2 DEF Table!InSlot, Table!Record
<1>8. Table!Row(erid, Table!InSlot(record)).rid = erid /\ Table!Row(erid,
Table!InSlot(record)).record.key = line.key
    BY <1>7 DEF Table!Row
<1>9. new \in B!Entry
    BY <1>1, <1>6 DEF B!Entry, Constants, InstanceConstants, RowRid, Table!Sid
<1>10. AppendedEntry' = new
    BY <1>6, <1>8 DEF AppendedEntry
<1>11. RowKeys' = RowKeys \cup {line.key}
    BY <1>6, <1>8 DEF RowKeys
<1>12. \E row \in Table!Rows' : row.rid = new.rid /\ row.record.key = new.key
    BY <1>6, <1>8
<1> QED
    BY <1>1, <1>4, <1>5, <1>6, <1>9, <1>10, <1>11, <1>12

LEMMA LoadLineKeeps ==
    ASSUME Constants, DbInv, NEW line \in Lines, LoadLine(line)
    PROVE  DbInv'
<1> DEFINE new == [key |-> line.key, rid |-> erid]
<1>1. /\ TblInv' /\ tblMode' = "w" /\ value' \in Text
      /\ new \in B!Entry /\ line.key \in Key /\ line.key \notin RowKeys
      /\ AppendedEntry' = new
      /\ Table!Rows \subseteq Table!Rows'
      /\ RowKeys' = RowKeys \cup {line.key}
      /\ \E row \in Table!Rows' : row.rid = new.rid /\ row.record.key = new.key
    BY LoadLineAppends
<1>2. /\ stmt = "load" /\ InFlight = {}
      /\ \/ idxMode = "w" /\ stmt' = "index" /\ skipped' = skipped
         \/ idxMode # "w" /\ stmt' = "load" /\ skipped' = skipped \cup {line.key}
      /\ UNCHANGED B!vars /\ UNCHANGED <<files, query, rid, answer, leaked>>
    BY DEF LoadLine, InFlight, indexVars, selectVars, B!vars, B!file, B!head, B!frame, B!scan,
       B!ghost
<1>3. B!Chained' /\ B!Stored' = B!Stored /\ idxMode' = idxMode /\ pc' = pc
    BY <1>2, IdxCalls DEF DbInv, B!vars, B!file
<1>4. InFlight' = IF stmt' = "index" THEN {new} ELSE {}
    BY <1>1, <1>2 DEF InFlight
<1> HIDE DEF new
<1>5. Phases'
    BY <1>1, <1>2, <1>3 DEF DbInv, Phases
<1>6. FreeFds' >= 0
    BY <1>1, <1>2, <1>3 DEF DbInv, Phases, OwnTypes, FreeFds
<1>7. OwnTypes'
    BY <1>1, <1>2, <1>6 DEF DbInv, OwnTypes
<1>8. Pointing'
  <2>1. \A e : PointsAtRow(e) => PointsAtRow(e)'
    BY <1>1 DEF PointsAtRow
  <2>2. \A e \in B!Stored : PointsAtRow(e)
    BY DEF DbInv, Pointing
  <2>3. new \in B!Entry /\ \E row \in Table!Rows' : row.rid = new.rid /\ row.record.key = new.key
    BY <1>1
  <2>4. \A e \in B!Stored' \cup InFlight' :
            e \in B!Entry /\ \E row \in Table!Rows' : row.rid = e.rid /\ row.record.key = e.key
    BY <1>3, <1>4, <2>1, <2>2, <2>3 DEF PointsAtRow
  <2> QED
    BY <2>4 DEF Pointing, PointsAtRow
<1>9. Accounting'
  <2>1. /\ RowKeys = KeysIn(B!Stored) \cup skipped
        /\ KeysIn(B!Stored) \cap skipped = {}
    BY <1>2, KeysOfUnion DEF DbInv, Accounting
  <2>2. new.key = line.key /\ new \notin B!Stored
    <3>1. new.key = line.key
      BY DEF new
    <3> QED
      BY <1>1, <2>1, <3>1 DEF KeysIn
  <2>3. InFlight' \ B!Stored' = InFlight'
    BY <1>3, <1>4, <2>2
  <2>4. KeysIn(InFlight') = IF stmt' = "index" THEN {line.key} ELSE {}
    BY <1>4, <2>2 DEF KeysIn
  <2>5. /\ RowKeys' = KeysIn(B!Stored') \cup KeysIn(InFlight') \cup skipped'
        /\ KeysIn(B!Stored') \cap skipped' = {}
        /\ KeysIn(InFlight') \cap (KeysIn(B!Stored') \cup skipped') = {}
    BY <1>1, <1>2, <1>3, <2>1, <2>4
  <2> QED
    BY <2>3, <2>5 DEF Accounting, KeysIn
<1> QED
    BY <1>1, <1>3, <1>5, <1>7, <1>8, <1>9 DEF DbInv

LEMMA LoadInsertsKeeps ==
    ASSUME Constants, DbInv, LoadInserts
    PROVE  DbInv'
<1> DEFINE e == AppendedEntry
<1>1. stmt = "index" /\ stmt' = "insert" /\ (B!Insert(e) \/ B!FirstInsert(e))
    BY SameIndexCalls DEF LoadInserts, Constants, InstanceConstants
<1>2. InFlight = {e} /\ e \in B!Entry
    BY <1>1 DEF InFlight, DbInv, Pointing, PointsAtRow
<1> HIDE DEF e
<1>3. /\ idxMode' = idxMode /\ idxMode = "w" /\ pc' \in {"descend", "firstRoot"} /\ ins' = e
    BY <1>1 DEF B!Insert, B!FirstInsert, B!MayInsert, B!file
<1>4. B!Chained' /\ B!Stored' = B!Stored
    BY <1>1, <1>2, IdxCalls DEF DbInv
<1>5. InFlight' = InFlight
    BY <1>1, <1>2, <1>3 DEF InFlight
<1>6. /\ UNCHANGED <<tblDisk, tblMode, erid, reply, appended>>
      /\ UNCHANGED <<files, query, rid, answer, value, leaked, skipped>>
    BY DEF LoadInserts, tableVars, selectVars
<1>7. TblInv' /\ Table!Rows' = Table!Rows
    BY <1>6, TblUnchanged DEF DbInv
<1>8. Phases'
    BY <1>1, <1>3, <1>6 DEF DbInv, Phases
<1>9. OwnTypes'
    BY <1>1, <1>3, <1>6 DEF DbInv, OwnTypes, FreeFds
<1>10. Pointing'
    BY <1>4, <1>5, <1>7 DEF DbInv, Pointing, PointsAtRow
<1>11. Accounting'
  <2>1. RowKeys' = RowKeys
    BY <1>7 DEF RowKeys
  <2> QED
    BY <1>4, <1>5, <1>6, <2>1 DEF DbInv, Accounting, KeysIn
<1> QED
    BY <1>4, <1>7, <1>8, <1>9, <1>10, <1>11 DEF DbInv

LEMMA LoadContinuesInsertKeeps ==
    ASSUME Constants, DbInv, LoadContinuesInsert
    PROVE  DbInv'
<1>1. stmt = "insert" /\ B!InsertStep /\ idxMode' = "w"
      /\ stmt' = IF pc' = "idle" THEN "load" ELSE "insert"
    BY SameInsertStep DEF LoadContinuesInsert, Constants, InstanceConstants
<1>2. /\ B!Chained'
      /\ B!Stored' = B!Stored \/ B!Stored' = B!Stored \cup {ins}
      /\ pc' \notin {"scan", "scanEnd"}
      /\ pc' = "idle" => ins \in B!Stored'
      /\ pc' # "idle" => ins' = ins
    BY <1>1, IdxInserts DEF DbInv
<1>3. InFlight = {ins} /\ InFlight' = IF pc' = "idle" THEN {} ELSE {ins}
    BY <1>1, <1>2 DEF InFlight
<1>4. /\ UNCHANGED <<tblDisk, tblMode, erid, reply, appended>>
      /\ UNCHANGED <<files, query, rid, answer, value, leaked, skipped>>
    BY DEF LoadContinuesInsert, tableVars, selectVars
<1>5. TblInv' /\ Table!Rows' = Table!Rows
    BY <1>4, TblUnchanged DEF DbInv
<1>6. Phases'
    BY <1>1, <1>2, <1>4 DEF DbInv, Phases
<1>7. FreeFds' >= 0
    BY <1>1, <1>4 DEF DbInv, Phases, OwnTypes, FreeFds
<1>8. OwnTypes'
    BY <1>1, <1>4, <1>7 DEF DbInv, OwnTypes
<1>9. Pointing'
  <2>1. B!Stored' \cup InFlight' \subseteq B!Stored \cup InFlight
    BY <1>2, <1>3
  <2>2. \A e : PointsAtRow(e)' <=> PointsAtRow(e)
    BY <1>5 DEF PointsAtRow
  <2>3. \A e \in B!Stored \cup InFlight : PointsAtRow(e)
    BY DEF DbInv, Pointing
  <2>4. \A e \in B!Stored' \cup InFlight' :
            e \in B!Entry /\ \E row \in Table!Rows' : row.rid = e.rid /\ row.record.key = e.key
    BY <2>1, <2>2, <2>3 DEF PointsAtRow
  <2> QED
    BY <2>4 DEF Pointing, PointsAtRow
<1>10. Accounting'
  <2>1. RowKeys' = RowKeys /\ skipped' = skipped
    BY <1>4, <1>5 DEF RowKeys
  <2>2. /\ RowKeys = KeysIn(B!Stored) \cup KeysIn({ins} \ B!Stored) \cup skipped
        /\ KeysIn(B!Stored) \cap skipped = {}
        /\ KeysIn({ins} \ B!Stored) \cap (KeysIn(B!Stored) \cup skipped) = {}
    BY <1>3 DEF DbInv, Accounting
  <2>3. CASE B!Stored' = B!Stored
    <3>1. InFlight' \ B!Stored' = {ins} \ B!Stored
      BY <1>2, <1>3, <2>3
    <3> QED
      BY <2>1, <2>2, <2>3, <3>1 DEF Accounting, KeysIn
  <2>4. CASE ins \notin B!Stored /\ B!Stored' = B!Stored \cup {ins}
    <3>1. InFlight' \ B!Stored' = {}
      BY <1>3, <2>4
    <3>2. {ins} \ B!Stored = {ins} /\ KeysIn({ins}) = {ins.key}
      BY <2>4 DEF KeysIn
    <3>3. KeysIn(B!Stored') = KeysIn(B!Stored) \cup {ins.key} /\ KeysIn({}) = {}
      BY <2>4, KeysOfUnion
    <3>4. /\ RowKeys' = KeysIn(B!Stored') \cup KeysIn({}) \cup skipped'
          /\ KeysIn(B!Stored') \cap skipped' = {}
          /\ KeysIn({}) \cap (KeysIn(B!Stored') \cup skipped') = {}
      BY <2>1, <2>2, <3>2, <3>3
    <3> QED
      BY <3>1, <3>4 DEF Accounting, KeysIn
  <2>5. CASE ins \in B!Stored /\ B!Stored' = B!Stored \cup {ins}
    <3>1. B!Stored' = B!Stored
      BY <2>5
    <3> QED
      BY <2>3, <3>1
  <2> QED
    BY <1>2, <2>3, <2>4, <2>5
<1> QED
    BY <1>2, <1>5, <1>6, <1>8, <1>9, <1>10 DEF DbInv

\* The process ends, and with it the insert on its way.
LEMMA GoneKeeps ==
    ASSUME Constants, DbInv, Gone, crashes' \in 0 .. MaxCrashes
    PROVE  DbInv'
<1>1. /\ tblDisk' = tblDisk /\ appended' = appended /\ reply' = reply
      /\ tblMode' = "none" /\ erid' = Table!Rid(0, 0)
      /\ B!Forget /\ idxDisk' = idxDisk /\ acked' = acked /\ tried' = tried
      /\ stmt' = "none" /\ value' = EmptyText /\ query' = <<>> /\ rid' = Unset
      /\ answer' = <<>> /\ leaked' = 0 /\ files' = files
    BY SameForget DEF Gone, Constants, InstanceConstants
<1>2. TblInv' /\ Table!Rows' = Table!Rows
    BY <1>1, TblIsGone DEF DbInv
<1>3. B!Chained' /\ B!Stored' = B!Stored /\ idxMode' = "none" /\ pc' = "idle"
    BY <1>1, IdxForgets DEF DbInv, B!Forget
<1>4. skipped' = skipped \cup KeysIn(InFlight \ B!Stored) /\ InFlight' = {}
  <2>1. Pending = InFlight \ B!Stored
    BY SameStored DEF Pending, InFlight
  <2> QED
    BY <1>1, <2>1 DEF Gone, KeysOf, KeysIn, InFlight
<1>5. Phases'
    BY <1>1, <1>3 DEF Phases
<1>6. Pointing'
    BY <1>2, <1>3, <1>4 DEF DbInv, Pointing, PointsAtRow
<1>7. RowKeys' = RowKeys
    BY <1>2 DEF RowKeys
<1>8. Accounting'
    BY <1>3, <1>4, <1>7 DEF DbInv, Accounting, KeysIn
<1>9. skipped' \subseteq Key
  <2>1. \A e \in InFlight : e.key \in Key
    BY DEF DbInv, Pointing, PointsAtRow, B!Entry
  <2> QED
    BY <1>4, <2>1 DEF KeysIn, DbInv, OwnTypes
<1>10. OwnTypes'
  <2>1. /\ <<>> \in Seq([key : Key, value : Text]) /\ Unset \in [pid : Int, sid : Int]
        /\ EmptyText \in Text /\ FdLimit \in Nat
    BY EmptySeq DEF Constants, InstanceConstants, Unset
  <2>2. files' \subseteq {"tbl", "idx"}
    BY <1>1 DEF DbInv, OwnTypes
  <2> QED
    BY <1>1, <1>3, <1>9, <2>1, <2>2 DEF OwnTypes, FreeFds
<1> QED
    BY <1>2, <1>3, <1>5, <1>6, <1>8, <1>10 DEF DbInv

(***************************************************************************)
(* The theorems                                                            *)
(***************************************************************************)

LEMMA InitDbInv == ASSUME Constants, Init PROVE DbInv
<1>1. B!Init /\ Table!Init
    BY SameIndexCalls DEF Init, Constants, InstanceConstants
<1>2. B!Chained /\ B!Stored = {}
  <2>1. B!Chained
    BY <1>1, B!InitChained, IndexAssumptions
  <2>2. \A p : B!LeafAt(p).entries = <<>>
    BY <1>1 DEF B!Init, B!LeafAt, B!PageAt, B!EndPid, B!Blank, B!EmptyLeaf, B!Leaf
  <2>3. \A p : B!ToSet(B!LeafAt(p).entries) = {}
    BY <2>2 DEF B!ToSet
  <2> QED
    BY <2>1, <2>3 DEF B!Stored
<1>3. TblInv /\ Table!Rows = {}
  <2>1. tblDisk = <<>> /\ Table!EndPid = 0 /\ tblMode = "none" /\ appended = {}
    BY <1>1 DEF Table!Init, Table!EndPid
  <2>2. Table!Rid(0, 0) \in [pid : Nat, sid : Table!Sid] /\ Table!Failed("none", -1) \in Table!Reply
    BY TblSlotZero DEF Table!Rid, Table!Failed, Table!Reply
  <2>3. Table!TypeOK
    BY <1>1, <2>1, <2>2, EmptySeq DEF Table!Init, Table!TypeOK
  <2>4. TblFilled
    BY <2>1 DEF TblFilled, Constants, InstanceConstants
  <2>5. Table!Rows = {}
    BY <2>1 DEF Table!Rows
  <2> QED
    BY <2>1, <2>3, <2>4, <2>5 DEF TblInv
<1>4. InFlight = {} /\ skipped = {}
    BY DEF Init, InFlight
<1>5. Phases
    BY <1>1 DEF Init, B!Init, Table!Init, Phases
<1>6. OwnTypes
    BY <1>1, EmptySeq DEF Init, B!Init, Table!Init, OwnTypes, Constants, InstanceConstants,
       FreeFds, Unset
<1>7. Pointing /\ Accounting
    BY <1>2, <1>3, <1>4 DEF Pointing, Accounting, RowKeys, KeysIn
<1> QED
    BY <1>2, <1>3, <1>5, <1>6, <1>7 DEF DbInv

LEMMA NextDbInv == ASSUME Constants, DbInv, [Next]_vars PROVE DbInv'
<1>1. crashes \in 0 .. MaxCrashes /\ MaxCrashes \in Nat
    BY IndexAssumptions DEF DbInv, B!Chained, B!Typed, B!TypeOK
<1>2. ASSUME Quit \/ Crash \/ StackOverflows PROVE DbInv'
  <2>1. Gone /\ crashes' \in 0 .. MaxCrashes
    BY <1>1, <1>2 DEF Quit, Crash, StackOverflows
  <2> QED
    BY <2>1, GoneKeeps
<1>3. ASSUME EngineStep PROVE DbInv'
    BY <1>2, <1>3, LoadOpensIndexKeeps, LoadIgnoresOpenKeeps, LoadLineKeeps, LoadFailsKeeps,
       LoadReturnsErrorKeeps, LoadInsertsKeeps, LoadContinuesInsertKeeps, EndLoadKeeps,
       PrintTuplesOpensKeeps, PrintTuplesFindsNoTableKeeps, PrintTuplesLocatesKeeps,
       PrintTuplesLocatesNoneKeeps, FetchTupleKeeps, PrintTuplesEndsKeeps, ScanTupleKeeps,
       ScanFailsKeeps, EndScanKeeps, PromptKeeps DEF EngineStep
<1>4. ASSUME UNCHANGED vars PROVE DbInv'
  <2>1. /\ UNCHANGED B!vars
        /\ UNCHANGED <<tblDisk, tblMode, erid, reply, appended>>
        /\ UNCHANGED <<stmt, files, value, query, rid, answer, leaked, skipped>>
    BY <1>4 DEF vars, tableVars, indexVars, selectVars, B!vars, B!file, B!head, B!frame, B!scan,
       B!ghost
  <2>2. B!Chained' /\ B!Stored' = B!Stored /\ TblInv' /\ Table!Rows' = Table!Rows
    BY <2>1, IdxCalls, TblUnchanged DEF DbInv
  <2>3. InFlight' = InFlight /\ idxMode' = idxMode /\ pc' = pc
    BY <2>1 DEF InFlight, AppendedEntry, B!vars, B!file, B!frame
  <2>4. Phases'
    BY <2>1, <2>3 DEF DbInv, Phases
  <2>5. OwnTypes'
    BY <2>1, <2>3 DEF DbInv, OwnTypes, FreeFds
  <2>6. Pointing'
    BY <2>2, <2>3 DEF DbInv, Pointing, PointsAtRow
  <2>7. RowKeys' = RowKeys /\ skipped' = skipped
    BY <2>1, <2>2 DEF RowKeys
  <2>8. Accounting'
    BY <2>2, <2>3, <2>7 DEF DbInv, Accounting, KeysIn
  <2> QED
    BY <2>2, <2>4, <2>5, <2>6, <2>8 DEF DbInv
<1> QED
    BY <1>2, <1>3, <1>4, LoadOpensTableKeeps, LoadFindsNoTableKeeps, SelectOpensIndexKeeps,
       SelectOpensTableKeeps DEF Next

\* What LOAD and SELECT rely on between any two steps.
THEOREM DatabaseInvariant ==
    ASSUME InstanceConstants
    PROVE  Spec => []DbInv
<1>0. Constants
    BY AssumedConstants
<1>1. Init => DbInv
    BY <1>0, InitDbInv
<1>2. DbInv /\ [Next]_vars => DbInv'
    BY <1>0, NextDbInv
<1> QED
    BY <1>1, <1>2, PTL DEF Spec

\* Every variable keeps to its type: above all, the descriptors that
\* statements leak never come to more than the process may have, and what a
\* read hands to the engine, at any rid, is a record.
THEOREM DatabaseTypeOK ==
    ASSUME InstanceConstants
    PROVE  Spec => []TypeOK
<1>0. Constants
    BY AssumedConstants
<1>1. ASSUME DbInv PROVE TypeOK
  <2>1. Table!TypeOK /\ Index!TypeOK
    BY <1>1, SameIndexCalls DEF DbInv, TblInv, B!Chained, B!Typed
  <2>2. leaked \in 0 .. FdLimit
    BY <1>0, <1>1 DEF DbInv, OwnTypes, FreeFds, Constants
  <2> QED
    BY <1>1, <2>1, <2>2 DEF DbInv, OwnTypes, TypeOK
<1> QED
    BY <1>1, DatabaseInvariant, PTL

\* Every entry on the leaf chain holds the rid of a row with its key, at every
\* moment of a LOAD, for any sequence of statements, and whatever crashes and
\* failed reads and writes of the table left half done: print_tuples tests the
\* row that it reads at the rid and never the key of the entry.
THEOREM DatabaseIndexPointsAtRows ==
    ASSUME InstanceConstants
    PROVE  Spec => []IndexPointsAtRows
<1>1. ASSUME DbInv PROVE IndexPointsAtRows
  <2> SUFFICES ASSUME NEW e \in B!Stored
               PROVE  Table!Stored(e.rid) /\ Table!RecordAt(e.rid).key = e.key
      BY SameStored DEF IndexPointsAtRows
  <2>1. PICK row \in Table!Rows : row.rid = e.rid /\ row.record.key = e.key
    BY <1>1 DEF DbInv, Pointing, PointsAtRow
  <2>2. PICK loc \in [pid : 0 .. Table!EndPid - 1, sid : Table!Sid] :
            Table!Stored(loc) /\ row = Table!Row(loc, Table!RecordAt(loc))
    BY DEF Table!Rows
  <2> QED
    BY <2>1, <2>2 DEF Table!Row
<1> QED
    BY <1>1, DatabaseInvariant, PTL

\* Each row of the table is in the index, on its way there, or one that no
\* insert put there, and only one of the three: a LOAD loses no row between the
\* two files and counts none twice, also when it is killed between two steps,
\* when a read or write of the table fails and when the index cannot be opened.
\* Reads and writes of an open index file succeed here.
THEOREM DatabaseEachRowAccounted ==
    ASSUME InstanceConstants
    PROVE  Spec => []EachRowAccounted
<1>1. ASSUME DbInv PROVE EachRowAccounted
  <2>1. Pending = InFlight \ B!Stored /\ Index!Stored = B!Stored /\ TableKeys = RowKeys
    BY SameStored DEF Pending, InFlight, TableKeys, RowKeys
  <2>2. \A entries : KeysOf(entries) = KeysIn(entries)
    BY DEF KeysOf, KeysIn
  <2> QED
    BY <1>1, <2>1, <2>2 DEF DbInv, Accounting, EachRowAccounted
<1> QED
    BY <1>1, DatabaseInvariant, PTL

(***************************************************************************)
(* The order of the index                                                  *)
(***************************************************************************)

\* What BTreeOrderProofs has of the index beside the chain.
IdxInv == B!MetadataKept /\ B!Ordered /\ B!Halved /\ B!NodesFit

LEMMA IdxStepKeeps ==
    ASSUME Constants, B!Chained, IdxInv, [B!Next]_(B!vars)
    PROVE  IdxInv'
<1>1. B!Typed
    BY DEF B!Chained
<1>2. B!MetadataKept'
    BY <1>1, B!NextKeepsMetadata, IndexAssumptions DEF IdxInv
<1>3. B!Ordered'
    BY B!NextKeepsOrder, IndexAssumptions DEF IdxInv
<1>4. B!Halved'
    BY B!NextKeepsHalves, IndexAssumptions DEF IdxInv
<1>5. B!NodesFit'
    BY <1>1, B!NextFits, IndexAssumptions DEF IdxInv
<1> QED
    BY <1>2, <1>3, <1>4, <1>5 DEF IdxInv

\* The engine lets go of the object between two calls.
LEMMA IdxForgetKeeps ==
    ASSUME Constants, B!Chained, IdxInv, B!Forget, idxDisk' = idxDisk, crashes' = crashes,
           pc \in {"idle", "scan"}
    PROVE  IdxInv'
<1>1. B!Typed /\ idxMode' = "none"
    BY DEF B!Chained, B!Forget
<1>2. pc \notin B!Ascending /\ pc \notin B!Splitting /\ ~ B!CommitPending
    BY DEF B!Ascending, B!Splitting, B!CommitPending
<1>3. B!MetadataKept'
    BY <1>1 DEF B!MetadataKept
<1>4. B!NodesSorted => B!NodesSorted'
    BY DEF B!NodesSorted, B!EndPid
<1>5. B!Ordered'
  <2>1. ASSUME NEW lvl, NEW rng, B!Ranged(lvl, rng) PROVE B!Ranged(lvl, rng)'
    BY <1>1, <1>2, <2>1, B!ForgetRanged, IndexAssumptions DEF IdxInv
  <2> QED
    BY <1>4, <2>1 DEF IdxInv, B!Ordered
<1>6. B!Halved'
  <2>1. ASSUME NEW lvl, NEW rng, B!Ranged(lvl, rng), B!Halves PROVE B!Halves'
    BY <1>1, <1>2, <2>1, B!ForgetHalves, IndexAssumptions DEF IdxInv
  <2> QED
    BY <2>1 DEF IdxInv, B!Ordered, B!Halved
<1>7. B!NodesFit'
    BY DEF IdxInv, B!NodesFit, B!NodeFits, B!EndPid
<1> QED
    BY <1>3, <1>5, <1>6, <1>7 DEF IdxInv

\* The process is killed: nothing is said of the order any more.
LEMMA IdxCrashKeeps ==
    ASSUME Constants, B!Chained, IdxInv, B!Forget, idxDisk' = idxDisk, crashes' = crashes + 1
    PROVE  IdxInv'
<1>1. idxMode' = "none" /\ crashes' # 0
    BY DEF B!Forget, B!Chained, B!Typed, B!TypeOK
<1>2. B!NodesFit'
    BY DEF IdxInv, B!NodesFit, B!NodeFits, B!EndPid
<1> QED
    BY <1>1, <1>2 DEF IdxInv, B!MetadataKept, B!Ordered, B!Halved

\* readForward moves the cursor only.
LEMMA IdxReadKeeps ==
    ASSUME Constants, B!Chained, IdxInv, pc = "scan",
           UNCHANGED <<idxDisk, idxMode, rootPid, treeHeight, pc, ins, path, splitkey,
                       splitpid, newPid, scanKey, scanned, acked, tried, crashes>>
    PROVE  IdxInv'
<1>1. B!Typed /\ idxMode # "none"
    BY DEF B!Chained, B!Typed, B!Running
<1>2. B!MetadataKept' /\ B!NodesFit' /\ (B!NodesSorted => B!NodesSorted')
    BY DEF IdxInv, B!MetadataKept, B!CommitPending, B!NodesFit, B!NodeFits, B!EndPid,
       B!NodesSorted, B!Metadata
<1>3. B!Ordered'
  <2>1. ASSUME NEW lvl, NEW rng, B!Ranged(lvl, rng) PROVE B!Ranged(lvl, rng)'
    BY <1>1, <2>1, B!ScanRanged, IndexAssumptions
  <2> QED
    BY <1>2, <2>1 DEF IdxInv, B!Ordered
<1>4. B!Halves => B!Halves'
  <2>1. idxDisk \in Seq(B!Page) /\ B!IndexRoot' = B!IndexRoot
    BY <1>1 DEF B!Typed, B!TypeOK, B!IndexRoot
  <2>2. pc' \notin B!Ascending
    BY DEF B!Ascending
  <2> QED
    BY <2>1, <2>2, B!SameFileHalves, IndexAssumptions
<1> QED
    BY <1>2, <1>3, <1>4 DEF IdxInv, B!Halved

LEMMA SameOverflows ==
    /\ Index!OverflowInInsert <=> B!OverflowInInsert
    /\ \A k : Index!OverflowInLocate(k) <=> B!OverflowInLocate(k)
<1>1. Index!OverflowInInsert <=> B!OverflowInInsert
    BY SameVars, SameForget
       DEF Index!OverflowInInsert, B!OverflowInInsert, Index!ghost, B!ghost
<1>2. ASSUME NEW k PROVE Index!OverflowInLocate(k) <=> B!OverflowInLocate(k)
    BY SameForget DEF Index!OverflowInLocate, B!OverflowInLocate, Index!ghost, B!ghost
<1> QED
    BY <1>1, <1>2

\* Each step of the engine keeps the order.
LEMMA NextIdxInv ==
    ASSUME Constants, DbInv, IdxInv, [Next]_vars
    PROVE  IdxInv'
<1> USE DEF Constants, InstanceConstants
<1>1. B!Chained /\ Phases /\ query \in Queries \cup {<<>>}
    BY DEF DbInv, OwnTypes
<1>2. SUFFICES \/ [B!Next]_(B!vars)
               \/ /\ B!Forget /\ idxDisk' = idxDisk
                  /\ \/ crashes' = crashes + 1
                     \/ crashes' = crashes /\ pc \in {"idle", "scan"}
               \/ FetchTuple
  <2>1. CASE FetchTuple
    BY <1>1, <2>1, IdxReadKeeps DEF FetchTuple, DbInv, Phases
  <2> QED
    BY <1>1, <1>2, <2>1, IdxStepKeeps, IdxForgetKeeps, IdxCrashKeeps
<1>3. ASSUME UNCHANGED indexVars PROVE [B!Next]_(B!vars)
    BY <1>3 DEF indexVars, B!vars, B!file, B!head, B!frame, B!scan, B!ghost
<1>4. CASE \/ \E withIndex \in LoadsIndex : LoadOpensTable(withIndex)
           \/ LoadFindsNoTable \/ LoadIgnoresOpen \/ \E line \in Lines : LoadLine(line)
           \/ LoadFails \/ PrintTuplesOpens \/ \E q \in Queries : SelectOpensTable(q)
           \/ ScanTuple \/ ScanFails \/ EndScan \/ Prompt
    BY <1>3, <1>4 DEF LoadOpensTable, LoadFindsNoTable, LoadIgnoresOpen, LoadLine, LoadFails,
       PrintTuplesOpens, SelectOpensTable, ScanTuple, ScanFails, EndScan, Prompt
<1>5. CASE \/ LoadOpensIndex \/ \E q \in Queries : SelectOpensIndex(q)
           \/ PrintTuplesFindsNoTable \/ PrintTuplesLocatesNone
  <2>1. B!Open("w") \/ B!Open("r") \/ B!Close
    BY <1>5, SameIndexCalls DEF LoadOpensIndex, SelectOpensIndex, PrintTuplesFindsNoTable,
       PrintTuplesLocatesNone
  <2> QED
    BY <2>1 DEF B!Next
<1>6. CASE LoadInserts
  <2>1. B!Insert(AppendedEntry) \/ B!FirstInsert(AppendedEntry)
    BY <1>6, SameIndexCalls DEF LoadInserts
  <2>2. AppendedEntry \in B!Entry
    BY <1>6 DEF LoadInserts, DbInv, Pointing, InFlight, PointsAtRow
  <2> QED
    BY <2>1, <2>2 DEF B!Next
<1>7. CASE LoadContinuesInsert
    BY <1>7, SameInsertStep DEF LoadContinuesInsert, B!Next
<1>8. StartKey(Merged) \in Int
    BY <1>1, StartKeyIsInt, EmptySeq
<1>9. CASE PrintTuplesLocates
  <2>1. B!Locate(StartKey(Merged))
    BY <1>9, SameIndexCalls DEF PrintTuplesLocates
  <2> QED
    BY <1>8, <2>1 DEF B!Next
<1>10. CASE LoadReturnsError \/ EndLoad \/ PrintTuplesEnds
  <2>1. B!Forget /\ idxDisk' = idxDisk /\ crashes' = crashes
    BY <1>10, SameForget DEF LoadReturnsError, EndLoad, PrintTuplesEnds
  <2>2. pc \in {"idle", "scan"}
    BY <1>1, <1>10 DEF Phases, LoadReturnsError, EndLoad, PrintTuplesEnds
  <2> QED
    BY <2>1, <2>2
<1>11. ASSUME Gone PROVE B!Forget /\ idxDisk' = idxDisk
    BY <1>11, SameForget DEF Gone
<1>12. CASE Quit \/ Crash
  <2>1. Quit => crashes' = crashes /\ pc = "idle"
    BY <1>1 DEF Quit, Phases
  <2> QED
    BY <1>11, <1>12, <2>1 DEF Quit, Crash
<1>13. CASE StackOverflows
  <2>1. B!OverflowInInsert \/ \E k \in Int : B!OverflowInLocate(k)
    BY <1>8, <1>13, SameOverflows DEF StackOverflows
  <2> QED
    BY <2>1 DEF B!Next, B!InsertStep
<1>14. CASE UNCHANGED vars
    BY <1>3, <1>14 DEF vars
<1> QED
    BY <1>4, <1>5, <1>6, <1>7, <1>9, <1>10, <1>12, <1>13, <1>14 DEF Next, EngineStep

LEMMA InitIdxInv == ASSUME Constants, Init PROVE IdxInv
<1>1. B!Init
    BY SameIndexCalls DEF Init, Constants, InstanceConstants
<1>2. B!MetadataKept /\ B!NodesFit
    BY <1>1 DEF B!Init, B!MetadataKept, B!NodesFit, B!EndPid
<1>3. B!Ordered /\ B!Halved
    BY <1>1, B!InitOrdered, B!InitHalved, IndexAssumptions
<1> QED
    BY <1>2, <1>3 DEF IdxInv

(***************************************************************************)
(* What a SELECT prints                                                    *)
(***************************************************************************)

\* The queries that lose no condition in the merging (SelectScan says which
\* do: Swallows and Replaces), over keys whose distance from any number in a
\* query is an int.
KeptQueries ==
    /\ \A q \in Queries : \A i, j \in DOMAIN q :
         (i < j /\ q[j].attr = 1 /\ q[i].comp = q[j].comp) =>
             /\ q[i].attr = 1
             /\ q[j].comp \in {"EQ", "NE"} => Atoi[q[i].value] = Atoi[q[j].value]
    /\ \A key \in Key, text \in Text : key - Atoi[text] \in CInt

\* What a condition says of a row.
Satisfies(cond, row) ==
    Meets(cond.comp, IF cond.attr = 1 THEN row.key - Atoi[cond.value]
                                         ELSE row.value - cond.value)

\* A merged condition that accepts no row that a condition of the query does
\* not.
AsTight(m, cond) ==
    /\ m.attr = cond.attr /\ m.comp = cond.comp
    /\ cond.attr = 1 =>
         /\ cond.comp \in {"LT", "LE"} => m.intValue <= Atoi[cond.value]
         /\ cond.comp \in {"GT", "GE"} => m.intValue >= Atoi[cond.value]
         /\ cond.comp \in {"EQ", "NE"} => m.intValue = Atoi[cond.value]
    /\ cond.attr = 2 => m.value = cond.value

\* A merged condition that tests what a condition of the query says.
TestsSame(m, cond) ==
    /\ m.attr = cond.attr /\ m.comp = cond.comp
    /\ cond.attr = 1 => m.intValue = Atoi[cond.value]
    /\ cond.attr = 2 => m.value = cond.value

\* Each merged condition is one of the first n of a query, each of those has a
\* merged one as tight, and no comparator has two merged ones on the key.
Covers(merged, q, n) ==
    /\ \A i \in DOMAIN merged : \E j \in 1 .. n : TestsSame(merged[i], q[j])
    /\ \A j \in 1 .. n : \E i \in DOMAIN merged : AsTight(merged[i], q[j])
    /\ \A i, k \in DOMAIN merged :
         (merged[i].attr = 1 /\ merged[k].attr = 1 /\ merged[i].comp = merged[k].comp)
             => i = k

LEMMA CondTypes ==
    ASSUME Constants
    PROVE  /\ Text \subseteq Int /\ Key \subseteq Int /\ CInt \subseteq Int
           /\ \A cond \in Cond :
                /\ Atoi[cond.value] \in Int /\ Atoi[cond.value] \in CInt
                /\ cond.value \in Text /\ cond.comp \in Comparator /\ cond.attr \in {1, 2}
           /\ \A m \in MergedCond : m.intValue \in Int /\ m.value \in Text
<1>1. CInt \subseteq Int
    BY DEF Constants, InstanceConstants, CInt
<1> QED
    BY <1>1, IndexAssumptions DEF Constants, InstanceConstants, Cond, MergedCond

\* What each comparator accepts, of a difference.
LEMMA MeetsMeans ==
    ASSUME NEW diff \in Int
    PROVE  /\ Meets("EQ", diff) <=> diff = 0
           /\ Meets("NE", diff) <=> diff # 0
           /\ Meets("LT", diff) <=> diff < 0
           /\ Meets("LE", diff) <=> diff <= 0
           /\ Meets("GT", diff) <=> diff > 0
           /\ Meets("GE", diff) <=> diff >= 0
<1>1. /\ Accepts["EQ"] = {0} /\ Accepts["NE"] = {-1, 1}
      /\ Accepts["LT"] = {-1} /\ Accepts["LE"] = {-1, 0}
      /\ Accepts["GT"] = {1} /\ Accepts["GE"] = {0, 1}
    BY DEF Accepts
<1> QED
    BY <1>1 DEF Meets, Sign

LEMMA TightMeans ==
    ASSUME Constants, NEW m \in MergedCond, NEW cond \in Cond, NEW row \in Table!Record,
           AsTight(m, cond), IndexTest(m, row)
    PROVE  Satisfies(cond, row)
<1>1. /\ row.key \in Int /\ row.value \in Int /\ cond.value \in Int
      /\ Atoi[cond.value] \in Int /\ m.intValue \in Int
      /\ cond.comp \in Comparator /\ cond.attr \in {1, 2}
    BY CondTypes DEF Table!Record
<1>2. CASE cond.attr = 2
    BY <1>2 DEF AsTight, IndexTest, Satisfies
<1>3. CASE cond.attr = 1
  <2>1. m.comp = cond.comp /\ Meets(cond.comp, row.key - m.intValue)
    BY <1>3 DEF AsTight, IndexTest
  <2>2. row.key - m.intValue \in Int /\ row.key - Atoi[cond.value] \in Int
    BY <1>1
  <2>3. Meets(cond.comp, row.key - Atoi[cond.value])
    <3>1. CASE cond.comp \in {"EQ", "NE"}
      BY <1>3, <2>1, <3>1 DEF AsTight
    <3>2. CASE cond.comp \in {"LT", "LE"}
      <4>1. m.intValue <= Atoi[cond.value]
        BY <1>3, <3>2 DEF AsTight
      <4> QED
        BY <1>1, <2>1, <2>2, <3>2, <4>1, MeetsMeans
    <3>3. CASE cond.comp \in {"GT", "GE"}
      <4>1. m.intValue >= Atoi[cond.value]
        BY <1>3, <3>3 DEF AsTight
      <4> QED
        BY <1>1, <2>1, <2>2, <3>3, <4>1, MeetsMeans
    <3> QED
      BY <1>1, <3>1, <3>2, <3>3 DEF Comparator
  <2> QED
    BY <1>3, <2>3 DEF Satisfies
<1> QED
    BY <1>1, <1>2, <1>3

\* What tightening makes of a merged condition on the key.
LEMMA TightenTests ==
    ASSUME Constants, NEW old \in MergedCond, NEW cond \in Cond,
           old.attr = cond.attr, old.comp = cond.comp, cond.attr = 1
    PROVE  LET new == Tighten(old, cond)
           IN  /\ new.attr = cond.attr /\ new.comp = cond.comp
               /\ AsTight(new, cond)
               /\ new = old \/ TestsSame(new, cond)
               /\ \A c \in Cond :
                    (AsTight(old, c) /\ (c.comp \in {"EQ", "NE"} => Atoi[c.value] = Atoi[cond.value]))
                        => AsTight(new, c)
<1> DEFINE new == Tighten(old, cond)
           number == Atoi[cond.value]
           moves == \/ old.comp \in {"LT", "LE"} /\ number < old.intValue
                    \/ old.comp \in {"GT", "GE"} /\ number > old.intValue
                    \/ old.comp \in {"EQ", "NE"}
<1>1. /\ number \in Int /\ old.intValue \in Int
      /\ cond.comp \in Comparator
      /\ \A c \in Cond : Atoi[c.value] \in Int
    BY CondTypes
<1>2. CASE moves
  <2>1. new = [old EXCEPT !.value = cond.value, !.intValue = number]
    BY <1>2 DEF Tighten
  <2>2. new.attr = 1 /\ new.comp = cond.comp /\ new.intValue = number
    BY <1>1, <2>1 DEF MergedCond
  <2>3. AsTight(new, cond) /\ TestsSame(new, cond)
    BY <1>1, <2>2 DEF AsTight, TestsSame
  <2>4. ASSUME NEW c \in Cond, AsTight(old, c),
               c.comp \in {"EQ", "NE"} => Atoi[c.value] = number
        PROVE  AsTight(new, c)
    <3>1. c.attr = 1 /\ c.comp = cond.comp
      BY <1>1, <2>4 DEF AsTight
    <3>2. c.comp \in {"LT", "LE"} => number <= Atoi[c.value]
      BY <1>1, <1>2, <2>4, <3>1 DEF AsTight
    <3>3. c.comp \in {"GT", "GE"} => number >= Atoi[c.value]
      BY <1>1, <1>2, <2>4, <3>1 DEF AsTight
    <3> QED
      BY <1>1, <2>2, <2>4, <3>1, <3>2, <3>3 DEF AsTight
  <2> QED
    BY <1>1, <2>2, <2>3, <2>4
<1>3. CASE ~ moves
  <2>1. new = old
    BY <1>3 DEF Tighten
  <2>2. AsTight(old, cond)
    BY <1>1, <1>3 DEF AsTight, Comparator
  <2> QED
    BY <2>1, <2>2
<1> QED
    BY <1>2, <1>3

\* A merged condition that takes in another is on the same column.
LEMMA MergeCovers ==
    ASSUME Constants, KeptQueries, NEW q \in Queries, NEW n \in 1 .. Len(q),
           NEW merged \in Seq(MergedCond), Covers(merged, q, n - 1)
    PROVE  Covers(Merge(merged, q[n], JunkInt), q, n)
<1> DEFINE cond == q[n]
           same == SameComp(merged, cond)
           k    == Min(same)
           after == Merge(merged, cond, JunkInt)
<1>1. /\ q \in Seq(Cond) /\ Len(q) \in Nat /\ DOMAIN q = 1 .. Len(q)
      /\ \A j \in 1 .. Len(q) : q[j] \in Cond
      /\ DOMAIN merged = 1 .. Len(merged) /\ Len(merged) \in Nat
      /\ \A i \in DOMAIN merged : merged[i] \in MergedCond
      /\ n \in Nat /\ cond \in Cond
    BY DEF Constants, InstanceConstants
<1>2. \A j \in 1 .. n : j = n \/ j \in 1 .. n - 1
    BY <1>1
<1>3. \A j \in 1 .. n - 1 : j < n /\ j \in 1 .. n /\ j \in DOMAIN q
    BY <1>1
<1>4. n \in DOMAIN q /\ n \in 1 .. n
    BY <1>1
<1>5. CASE same # {}
  <2> DEFINE new == Tighten(merged[k], cond)
  <2>1. k \in DOMAIN merged /\ cond.attr = 1 /\ merged[k].comp = cond.comp
    <3>1. same \in SUBSET Nat
      BY <1>1 DEF SameComp
    <3>2. k \in same
      BY <1>5, <3>1, MinOfNaturals DEF Min, Min
    <3> QED
      BY <3>2 DEF SameComp
  <2>2. merged[k].attr = 1
    <3>1. PICK j \in 1 .. n - 1 : TestsSame(merged[k], q[j])
      BY <2>1 DEF Covers
    <3> QED
      BY <1>3, <1>4, <2>1, <3>1 DEF KeptQueries, TestsSame
  <2>3. /\ new.attr = cond.attr /\ new.comp = cond.comp
        /\ AsTight(new, cond)
        /\ new = merged[k] \/ TestsSame(new, cond)
        /\ \A c \in Cond :
             (AsTight(merged[k], c) /\ (c.comp \in {"EQ", "NE"} => Atoi[c.value] = Atoi[cond.value]))
                 => AsTight(new, c)
    BY <1>1, <2>1, <2>2, TightenTests
  <2>4. after = [merged EXCEPT ![k] = new]
    BY <1>5 DEF Merge
  <2> HIDE DEF new, k
  <2>5. DOMAIN after = DOMAIN merged /\ after[k] = new
        /\ \A i \in DOMAIN merged : i # k => after[i] = merged[i]
    BY <1>1, <2>1, <2>4
  <2> HIDE DEF after
  <2>6. ASSUME NEW i \in DOMAIN merged
        PROVE  \E j \in 1 .. n : TestsSame(after[i], q[j])
    <3>1. PICK j \in 1 .. n - 1 : TestsSame(merged[i], q[j])
      BY DEF Covers
    <3> QED
      BY <1>3, <1>4, <2>3, <2>5, <3>1
  <2>8. \A i, l \in DOMAIN merged :
            (after[i].attr = 1 /\ after[l].attr = 1 /\ after[i].comp = after[l].comp) => i = l
    <3>1. \A i \in DOMAIN merged : after[i].attr = merged[i].attr /\ after[i].comp = merged[i].comp
      BY <2>1, <2>2, <2>3, <2>5
    <3> QED
      BY <3>1 DEF Covers
  <2>7. ASSUME NEW j \in 1 .. n
        PROVE  \E i \in DOMAIN merged : AsTight(after[i], q[j])
    <3>1. CASE j = n
      BY <2>1, <2>3, <2>5, <3>1
    <3>2. CASE j \in 1 .. n - 1
      <4>1. PICK i \in DOMAIN merged : AsTight(merged[i], q[j])
        BY <3>2 DEF Covers
      <4>2. CASE i = k
        <5>1. q[j].comp = cond.comp /\ q[j] \in Cond
          BY <1>1, <1>3, <2>1, <3>2, <4>1, <4>2 DEF AsTight
        <5>2. q[j].comp \in {"EQ", "NE"} => Atoi[q[j].value] = Atoi[cond.value]
          BY <1>3, <1>4, <2>1, <3>2, <5>1 DEF KeptQueries
        <5> QED
          BY <2>1, <2>3, <2>5, <4>1, <4>2, <5>1, <5>2
      <4> QED
        BY <2>5, <4>1, <4>2
    <3> QED
      BY <1>2, <3>1, <3>2
  <2> QED
    BY <2>5, <2>6, <2>7, <2>8 DEF Covers, after
<1>6. CASE same = {}
  <2> DEFINE m   == Len(merged) + 1
             new == [attr |-> cond.attr, comp |-> cond.comp, value |-> cond.value,
                     intValue |-> IF cond.attr = 1 THEN Atoi[cond.value] ELSE JunkInt]
  <2>1. after = Append(merged, new)
    BY <1>6 DEF Merge
  <2>2. new.attr = cond.attr /\ new.comp = cond.comp /\ TestsSame(new, cond)
    BY DEF TestsSame
  <2>3. AsTight(new, cond)
    <3>1. cond.attr = 1 => new.intValue = Atoi[cond.value]
      OBVIOUS
    <3>2. Atoi[cond.value] \in Int /\ new.value = cond.value
      BY <1>1, CondTypes
    <3> HIDE DEF new
    <3> QED
      BY <2>2, <3>1, <3>2 DEF AsTight
  <2> HIDE DEF new
  <2>4. /\ DOMAIN after = DOMAIN merged \cup {m} /\ after[m] = new
        /\ \A i \in DOMAIN merged : after[i] = merged[i]
    BY <1>1, <2>1
  <2> HIDE DEF after
  <2>5. ASSUME NEW i \in DOMAIN after
        PROVE  \E j \in 1 .. n : TestsSame(after[i], q[j])
    <3>1. CASE i = m
      BY <1>4, <2>2, <2>4, <3>1
    <3>2. CASE i \in DOMAIN merged
      <4>1. PICK j \in 1 .. n - 1 : TestsSame(merged[i], q[j])
        BY <3>2 DEF Covers
      <4> QED
        BY <1>3, <2>4, <3>2, <4>1
    <3> QED
      BY <2>4, <3>1, <3>2
  <2>6. ASSUME NEW j \in 1 .. n
        PROVE  \E i \in DOMAIN after : AsTight(after[i], q[j])
    <3>1. CASE j = n
      BY <2>3, <2>4, <3>1
    <3>2. CASE j \in 1 .. n - 1
      <4>1. PICK i \in DOMAIN merged : AsTight(merged[i], q[j])
        BY <3>2 DEF Covers
      <4> QED
        BY <2>4, <4>1
    <3> QED
      BY <1>2, <3>1, <3>2
  <2>7. ASSUME NEW i \in DOMAIN after, NEW l \in DOMAIN after,
               after[i].attr = 1, after[l].attr = 1, after[i].comp = after[l].comp
        PROVE  i = l
    <3>1. ASSUME NEW old \in DOMAIN merged, after[old].comp = new.comp, new.attr = 1
          PROVE  FALSE
      BY <1>6, <2>2, <2>4, <3>1 DEF SameComp
    <3>2. CASE i \in DOMAIN merged /\ l \in DOMAIN merged
      BY <2>4, <2>7, <3>2 DEF Covers
    <3> QED
      BY <2>4, <2>7, <3>1, <3>2
  <2> QED
    BY <2>5, <2>6, <2>7 DEF Covers, after
<1> QED
    BY <1>5, <1>6

\* What the engine merges covers the query.
LEMMA MergedCovers ==
    ASSUME Constants, KeptQueries, query \in Queries
    PROVE  Covers(Merged, query, Len(query))
<1> DEFINE n == Len(query)
           Is(f) == f = [k \in 0 .. n |->
                            IF k = 0 THEN <<>> ELSE Merge(f[k - 1], query[k], JunkInt)]
           merged  == CHOOSE f : Is(f)
           Good(k) == merged[k] \in Seq(MergedCond) /\ Covers(merged[k], query, k)
           bad     == {k \in 0 .. n : ~ Good(k)}
<1>1. n \in Nat /\ query \in Seq(Cond)
    BY DEF Constants, InstanceConstants
<1>2. Is(merged)
    BY <1>1, MergesExist
<1>3. Merged = merged[n]
    BY DEF Merged, JunkInt
<1> HIDE DEF merged
<1>4. /\ merged[0] = <<>>
      /\ \A k \in 1 .. n : merged[k] = Merge(merged[k - 1], query[k], JunkInt)
    BY <1>1, <1>2
<1>5. bad = {}
  <2> SUFFICES ASSUME bad # {} PROVE FALSE
    OBVIOUS
  <2> DEFINE k == Min(bad)
  <2>1. k \in bad /\ \A other \in bad : k <= other
    <3>1. bad \in SUBSET Nat
      OBVIOUS
    <3> HIDE DEF bad
    <3> QED
      BY <3>1, MinOfNaturals
  <2> HIDE DEF k
  <2>2. k \in 0 .. n /\ ~ Good(k)
    BY <2>1
  <2>3. Good(0)
    <3>1. Covers(<<>>, query, 0)
      BY DEF Covers
    <3> QED
      BY <1>4, <3>1, EmptySeq
  <2> HIDE DEF Good
  <2>4. k # 0
    BY <2>2, <2>3
  <2>5. k - 1 \in 0 .. n /\ ~ (k <= k - 1) /\ k \in 1 .. n
    BY <1>1, <2>2, <2>4
  <2>6. Good(k - 1)
    BY <2>1, <2>5
  <2>7. query[k] \in Cond
    BY <1>1, <2>5
  <2>8. merged[k - 1] \in Seq(MergedCond) /\ Covers(merged[k - 1], query, k - 1)
    BY <2>6 DEF Good
  <2>9. Good(k)
    BY <1>4, <2>5, <2>7, <2>8, MergeKeepsConds, MergeCovers DEF Good
  <2> QED
    BY <2>2, <2>9
<1>6. n \in 0 .. n
    BY <1>1
<1>7. Good(n)
  <2> HIDE DEF Good
  <2> QED
    BY <1>5, <1>6
<1> QED
    BY <1>3, <1>7

\* print_tuples prints rows that satisfy the query only.
LEMMA PrintedSatisfies ==
    ASSUME Constants, KeptQueries, query \in Queries, NEW row \in Table!Record,
           Verdict(Merged, row) = "print"
    PROVE  \A j \in DOMAIN query : Satisfies(query[j], row)
<1> DEFINE merged == Merged
           failed == FailedConds(merged, row)
<1>1. query \in Seq(Cond) /\ DOMAIN query = 1 .. Len(query)
      /\ \A j \in DOMAIN query : query[j] \in Cond
    BY DEF Constants, InstanceConstants
<1>2. merged \in Seq(MergedCond)
    BY <1>1, MergedAreConds
<1>3. Covers(merged, query, Len(query))
    BY MergedCovers
<1>4. failed = {}
    BY DEF Verdict
<1> HIDE DEF merged
<1>5. \A i \in DOMAIN merged : IndexTest(merged[i], row) /\ merged[i] \in MergedCond
    BY <1>2, <1>4 DEF FailedConds
<1> TAKE j \in DOMAIN query
<1>6. PICK i \in DOMAIN merged : AsTight(merged[i], query[j])
    BY <1>1, <1>3 DEF Covers
<1> QED
    BY <1>1, <1>5, <1>6, TightMeans

\* The scan of the table prints those, and all of those.
LEMMA ScannedSatisfies ==
    ASSUME Constants, KeptQueries, query \in Queries, NEW row \in Table!Record
    PROVE  TableAnswers(query, row) <=> \A j \in DOMAIN query : Satisfies(query[j], row)
<1>1. \A d \in CInt : Wrap(d) = d
  <2> TAKE d \in CInt
  <2> DEFINE w == 2 * (INT_MAX + 1)
  <2>1. INT_MAX \in Nat /\ d \in Int /\ d >= -INT_MAX - 1 /\ d <= INT_MAX
    BY DEF CInt, Constants, InstanceConstants
  <2>2. w \in Nat /\ w > 0 /\ d + INT_MAX + 1 \in 0 .. w - 1
    BY <2>1
  <2>3. (d + INT_MAX + 1) % w = d + INT_MAX + 1
    <3> HIDE DEF w
    <3>1. \A a \in 0 .. w - 1 : a % w = a
      BY <2>2
    <3> QED
      BY <2>2, <3>1
  <2> QED
    BY <2>1, <2>3 DEF Wrap
<1>2. ASSUME NEW j \in DOMAIN query
      PROVE  TableTest(query[j], row) <=> Satisfies(query[j], row)
  <2>1. query[j] \in Cond
    BY DEF Constants, InstanceConstants
  <2>2. row.key - Atoi[query[j].value] \in CInt
    BY <2>1, CondTypes DEF KeptQueries, Table!Record
  <2> QED
    BY <1>1, <2>2 DEF TableTest, Satisfies
<1> QED
    BY <1>2 DEF TableAnswers

\* The printed rows are rows of the table that satisfy the query; before the
\* scan of a SELECT there are none.
BeforeScan == {"none", "load", "loadIndex", "loadFailed", "index", "insert", "loaded",
               "openTable", "locate"}
Selecting  == {"openTable", "locate", "fetch", "scan"}
Matches(record) ==
    /\ \E row \in Table!Rows : row.record = record
    /\ \A j \in DOMAIN query : Satisfies(query[j], record)
Answering ==
    /\ stmt \in BeforeScan => answer = <<>>
    /\ stmt \in Selecting => query \in Queries
    /\ \A i \in 1 .. Len(answer) : Matches(answer[i])

LEMMA AnswersNone ==
    ASSUME answer' = <<>>, stmt' \in Selecting => query' \in Queries
    PROVE  Answering'
BY DEF Answering

\* The two ways in which a step of the scan leaves the printed rows.
LEMMA AnswersStay ==
    ASSUME Answering, Table!Rows' = Table!Rows, query' = query, answer' = answer,
           stmt' = stmt \/ stmt' \notin BeforeScan \cup Selecting
    PROVE  Answering'
<1>1. \A record : Matches(record)' <=> Matches(record)
    BY DEF Matches, Satisfies
<1> QED
    BY <1>1 DEF Answering

LEMMA AnswersMore ==
    ASSUME Answering, Table!Rows' = Table!Rows, query' = query, stmt \in Selecting,
           answer \in Seq(Table!Record), NEW record \in Table!Record, Matches(record),
           answer' = Append(answer, record), stmt' \notin BeforeScan
    PROVE  Answering'
<1>1. \A i \in 1 .. Len(answer') :
         /\ \E row \in Table!Rows : row.record = answer'[i]
         /\ \A j \in DOMAIN query : Satisfies(query[j], answer'[i])
  <2> TAKE i \in 1 .. Len(answer')
  <2>1. CASE i \in 1 .. Len(answer)
    BY <2>1 DEF Answering, Matches
  <2>2. CASE i = Len(answer) + 1
    BY <2>2 DEF Matches
  <2> QED
    BY <2>1, <2>2
<1>2. query' \in Queries
    BY DEF Answering
<1>3. \A i \in 1 .. Len(answer') :
         /\ \E row \in Table!Rows' : row.record = answer'[i]
         /\ \A j \in DOMAIN query' : Satisfies(query'[j], answer'[i])
    BY <1>1
<1>4. (\A i \in 1 .. Len(answer) : Matches(answer[i]))'
    BY <1>3 DEF Matches, Satisfies
<1> QED
    BY <1>2, <1>4 DEF Answering

\* A row that print_tuples read at an entry's rid.
LEMMA FetchTupleAnswers ==
    ASSUME Constants, KeptQueries, DbInv, Answering, FetchTuple
    PROVE  Answering'
<1>1. stmt = "fetch" /\ stmt \in Selecting /\ query' = query
    BY DEF FetchTuple, Selecting
<1>2. query \in Queries
    BY <1>1 DEF Answering
<1>3. PICK fetched \in FetchedRids(Index!LeafAt(cursor.pid)) :
        \/ Table!Read(fetched) /\ Judge(reply'.row.record)
        \/ /\ Table!ReadInvalid(fetched) \/ Table!ReadFails(fetched)
           /\ stmt' = "endPrint"
           /\ UNCHANGED answer
    BY DEF FetchTuple
<1>4. fetched \in [pid : Int, sid : Int]
    BY FetchedAreRids
<1>5. CASE Table!Read(fetched) /\ Judge(reply'.row.record)
  <2> DEFINE record == reply'.row.record
  <2>1. Table!Rows' = Table!Rows /\ reply'.row \in Table!Rows /\ record \in Table!Record
    BY <1>4, <1>5, TblReads DEF DbInv
  <2>2. stmt' \in {"fetch", "endPrint"}
    BY <1>5 DEF Judge
  <2>3. CASE Verdict(Merged, record) = "print"
    <3>1. \A j \in DOMAIN query : Satisfies(query[j], record)
      BY <1>2, <2>1, <2>3, PrintedSatisfies
    <3>2. Matches(record)
      BY <2>1, <3>1 DEF Matches
    <3>3. answer' = Append(answer, record)
      BY <1>5, <2>3 DEF Judge
    <3>4. answer \in Seq(Table!Record)
      BY DEF DbInv, OwnTypes, Table!Record
    <3>5. stmt' \notin BeforeScan
      BY <2>2 DEF BeforeScan
    <3> HIDE DEF record
    <3> QED
      BY <1>1, <2>1, <3>2, <3>3, <3>4, <3>5, AnswersMore
  <2>4. CASE Verdict(Merged, record) # "print"
    <3>1. answer' = answer
      BY <1>5, <2>4 DEF Judge
    <3>2. stmt' = stmt \/ stmt' \notin BeforeScan \cup Selecting
      BY <1>1, <2>2 DEF BeforeScan, Selecting
    <3> QED
      BY <1>1, <2>1, <3>1, <3>2, AnswersStay
  <2> QED
    BY <2>3, <2>4
<1>6. CASE /\ Table!ReadInvalid(fetched) \/ Table!ReadFails(fetched)
           /\ stmt' = "endPrint"
           /\ UNCHANGED answer
  <2>1. Table!Rows' = Table!Rows
    BY <1>6, TblFailures DEF DbInv
  <2>2. stmt' \notin BeforeScan \cup Selecting
    BY <1>6 DEF BeforeScan, Selecting
  <2> QED
    BY <1>1, <1>6, <2>1, <2>2, AnswersStay
<1> QED
    BY <1>3, <1>5, <1>6

\* A row that the scan of the table read.
LEMMA ScanTupleAnswers ==
    ASSUME Constants, KeptQueries, DbInv, Answering, ScanTuple
    PROVE  Answering'
<1> DEFINE record == reply'.row.record
<1>1. stmt = "scan" /\ stmt' = stmt /\ query' = query
    BY DEF ScanTuple
<1>2. stmt \in Selecting /\ stmt' \notin BeforeScan /\ query \in Queries
    BY <1>1 DEF Answering, Selecting, BeforeScan
<1>3. Table!Read(rid) /\ rid \in [pid : Int, sid : Int]
    BY DEF DbInv, OwnTypes, ScanTuple
<1>4. Table!Rows' = Table!Rows /\ reply'.row \in Table!Rows /\ record \in Table!Record
    BY <1>3, TblReads DEF DbInv
<1>5. CASE TableAnswers(query, record)
  <2>1. \A j \in DOMAIN query : Satisfies(query[j], record)
    BY <1>2, <1>4, <1>5, ScannedSatisfies
  <2>2. Matches(record)
    BY <1>4, <2>1 DEF Matches
  <2>3. answer' = Append(answer, record)
    BY <1>5 DEF ScanTuple
  <2>4. answer \in Seq(Table!Record)
    BY DEF DbInv, OwnTypes, Table!Record
  <2> HIDE DEF record
  <2> QED
    BY <1>1, <1>2, <1>4, <2>2, <2>3, <2>4, AnswersMore
<1>6. CASE ~ TableAnswers(query, record)
  <2>1. answer' = answer
    BY <1>6 DEF ScanTuple
  <2> QED
    BY <1>1, <1>4, <2>1, AnswersStay
<1> QED
    BY <1>5, <1>6

\* The steps before the first row of a SELECT print nothing.
LEMMA QuietAnswers ==
    ASSUME Answering,
           stmt \in BeforeScan, answer' = answer,
           stmt' \in Selecting => query' \in Queries
    PROVE  Answering'
BY AnswersNone DEF Answering

LEMMA SelectOpensAnswers ==
    ASSUME Answering, NEW q \in Queries, SelectOpensIndex(q) \/ SelectOpensTable(q)
    PROVE  Answering'
<1>1. stmt = "none" /\ answer' = answer /\ query' \in Queries
    BY DEF SelectOpensIndex, SelectOpensTable
<1> QED
    BY <1>1, QuietAnswers DEF BeforeScan

LEMMA LoadAnswers ==
    ASSUME Answering,
           \/ \E withIndex \in LoadsIndex : LoadOpensTable(withIndex)
           \/ LoadFindsNoTable \/ LoadOpensIndex \/ LoadIgnoresOpen
           \/ \E line \in Lines : LoadLine(line)
           \/ LoadFails \/ LoadReturnsError
           \/ LoadInserts \/ LoadContinuesInsert \/ EndLoad
    PROVE  Answering'
<1>1. /\ stmt \in BeforeScan \ {"openTable", "locate"} /\ answer' = answer
      /\ stmt' \notin Selecting
    BY DEF BeforeScan, Selecting, selectVars, LoadOpensTable, LoadFindsNoTable,
       LoadOpensIndex, LoadIgnoresOpen, LoadLine, LoadFails, LoadReturnsError,
       LoadInserts, LoadContinuesInsert, EndLoad
<1> QED
    BY <1>1, QuietAnswers

LEMMA LocateAnswers ==
    ASSUME Answering,
           \/ PrintTuplesOpens \/ PrintTuplesFindsNoTable
           \/ PrintTuplesLocates \/ PrintTuplesLocatesNone
    PROVE  Answering'
<1>1. stmt \in {"openTable", "locate"} /\ answer' = answer /\ query' = query
    BY DEF selectVars, PrintTuplesOpens, PrintTuplesFindsNoTable,
       PrintTuplesLocates, PrintTuplesLocatesNone
<1>2. stmt \in BeforeScan /\ query' \in Queries
    BY <1>1 DEF BeforeScan, Selecting, Answering
<1> QED
    BY <1>1, <1>2, QuietAnswers

LEMMA EndAnswers ==
    ASSUME Constants, DbInv, Answering,
           PrintTuplesEnds \/ ScanFails \/ EndScan
    PROVE  Answering'
<1>1. Table!Rows' = Table!Rows
    BY TblCloses, TblFailures
       DEF DbInv, PrintTuplesEnds, ScanFails, EndScan
<1>2. query' = query /\ answer' = answer /\ stmt' \in {"selected", "scanFailed", "failed"}
    BY DEF PrintTuplesEnds, ScanFails, EndScan, selectVars
<1>3. stmt' \notin BeforeScan \cup Selecting
    BY <1>2 DEF BeforeScan, Selecting
<1> QED
    BY <1>1, <1>2, <1>3, AnswersStay

LEMMA AfterAnswers ==
    ASSUME Prompt \/ Gone
    PROVE  Answering'
<1>1. answer' = <<>> /\ stmt' = "none"
    BY DEF Prompt, Gone
<1> QED
    BY <1>1, AnswersNone DEF Selecting

LEMMA NextAnswering ==
    ASSUME Constants, KeptQueries, DbInv, Answering, [Next]_vars
    PROVE  Answering'
<1>1. ASSUME Quit \/ Crash \/ StackOverflows PROVE Answering'
    BY <1>1, AfterAnswers DEF Quit, Crash, StackOverflows
<1>2. ASSUME EngineStep PROVE Answering'
    BY <1>1, <1>2, LoadAnswers, LocateAnswers, FetchTupleAnswers, ScanTupleAnswers, EndAnswers,
       AfterAnswers DEF EngineStep
<1>3. ASSUME UNCHANGED vars PROVE Answering'
  <2>1. UNCHANGED <<stmt, query, answer>> /\ Table!Rows' = Table!Rows
    BY <1>3, TblUnchanged DEF DbInv, vars, tableVars, selectVars
  <2> QED
    BY <2>1, AnswersStay
<1> QED
    BY <1>1, <1>2, <1>3, LoadAnswers, SelectOpensAnswers DEF Next

\* Whatever happened before, crashes, failed reads of the table and rows
\* without an entry included, a SELECT that loses no condition in the merging prints only rows
\* of the table that satisfy its conditions, by the index and by the scan of
\* the table.
THEOREM DatabaseAnswersMatch ==
    ASSUME InstanceConstants, KeptQueries
    PROVE  Spec => []AnswersMatch
<1>0. Constants
    BY AssumedConstants
<1>1. Init => Answering
    BY DEF Init, Answering, Selecting
<1>2. DbInv /\ Answering /\ [Next]_vars => Answering'
    BY <1>0, NextAnswering
<1>3. ASSUME Answering PROVE AnswersMatch
  <2> SUFFICES ASSUME NEW i \in 1 .. Len(answer), NEW record, record = answer[i]
               PROVE  record \in Matching
      BY DEF AnswersMatch, ToSet
  <2>1. (\E row \in Table!Rows : row.record = record) /\ \A j \in DOMAIN query : Satisfies(query[j], record)
    BY <1>3 DEF Answering, Matches
  <2>2. record \in {row.record : row \in Table!Rows}
    BY <2>1
  <2> QED
    BY <2>1, <2>2 DEF Matching, Satisfies
<1> QED
    BY <1>1, <1>2, <1>3, DatabaseInvariant, PTL DEF Spec

(***************************************************************************)
(* What a SELECT leaves out                                                *)
(***************************************************************************)

RowRecords == {row.record : row \in Table!Rows}

\* The rows of the table are records at different rids, those that are stored.
LEMMA RowsAre ==
    ASSUME Constants, TblInv, NEW row \in Table!Rows
    PROVE  /\ row.record \in Table!Record
           /\ row.rid \in [pid : Nat, sid : Table!Sid] /\ Table!Stored(row.rid)
           /\ row = Table!Row(row.rid, Table!RecordAt(row.rid))
<1>1. PICK loc \in [pid : 0 .. Table!EndPid - 1, sid : Table!Sid] :
          Table!Stored(loc) /\ row = Table!Row(loc, Table!RecordAt(loc))
    BY DEF Table!Rows
<1>2. Table!EndPid \in Nat
    BY DEF TblInv, Table!TypeOK, Table!EndPid
<1>3. loc \in [pid : Nat, sid : Table!Sid]
    BY <1>2
<1>4. Table!RecordAt(loc) \in Table!Record
    BY <1>1, <1>3, TblStoredIsRecord DEF TblInv
<1>5. row.rid = loc /\ row.record = Table!RecordAt(loc)
    BY <1>1 DEF Table!Row
<1> QED
    BY <1>1, <1>3, <1>4, <1>5

\* LOAD gives no key to two rows.
UniqueKeys == \A r1, r2 \in Table!Rows : r1.record.key = r2.record.key => r1 = r2

LEMMA LoadLineUnique ==
    ASSUME Constants, DbInv, UniqueKeys, NEW line \in Lines, LoadLine(line)
    PROVE  UniqueKeys'
<1> DEFINE record == Parsed(line)
           new    == Table!Row(erid, Table!InSlot(record))
<1>1. line \in [key : Key, value : Text \cup {NoComma}] /\ value \in Text
    BY DEF Constants, InstanceConstants, DbInv, OwnTypes
<1>2. record \in Table!Record /\ record.key = line.key
    BY <1>1 DEF Parsed, Table!Record
<1>3. Table!AppendRecord(record)
    BY DEF LoadLine
<1>4. \A row \in Table!Rows : row.record.key # line.key
    BY DEF LoadLine, TableKeys
<1> HIDE DEF record
<1>5. Table!Rows' = Table!Rows \cup {new}
    BY <1>2, <1>3, TblAppends DEF DbInv
<1>6. new.record.key = line.key
    BY <1>2 DEF Table!InSlot, Table!Record, Table!Row
<1> HIDE DEF new
<1> QED
    BY <1>4, <1>5, <1>6 DEF UniqueKeys

\* No other step changes the table.
LEMMA OnlyLoadWrites ==
    ASSUME [Next]_vars, ~ \E line \in Lines : LoadLine(line)
    PROVE  tblDisk' = tblDisk
<1>1. CASE \/ \E withIndex \in LoadsIndex : LoadOpensTable(withIndex)
           \/ LoadFindsNoTable \/ \E q \in Queries : SelectOpensIndex(q) \/ SelectOpensTable(q)
    BY <1>1 DEF LoadOpensTable, LoadFindsNoTable, SelectOpensIndex, SelectOpensTable,
       tableVars, Table!Open, Table!OpenFails
<1>2. CASE \/ LoadOpensIndex \/ LoadIgnoresOpen \/ LoadFails \/ LoadReturnsError
           \/ LoadInserts \/ LoadContinuesInsert \/ EndLoad
    BY <1>2 DEF LoadOpensIndex, LoadIgnoresOpen, LoadFails, LoadReturnsError, LoadInserts,
       LoadContinuesInsert, EndLoad, tableVars, Table!AppendFails, Table!Close
<1>3. CASE \/ PrintTuplesOpens \/ PrintTuplesFindsNoTable \/ PrintTuplesLocates
           \/ PrintTuplesLocatesNone \/ PrintTuplesEnds
    BY <1>3 DEF PrintTuplesOpens, PrintTuplesFindsNoTable, PrintTuplesLocates,
       PrintTuplesLocatesNone, PrintTuplesEnds, tableVars, Table!Open, Table!OpenFails, Table!Close
<1>4. CASE FetchTuple
    BY <1>4 DEF FetchTuple, Table!Read, Table!ReadInvalid, Table!ReadFails
<1>5. CASE \/ ScanTuple \/ ScanFails \/ EndScan \/ Prompt
    BY <1>5 DEF ScanTuple, ScanFails, EndScan, Prompt, tableVars, Table!Read, Table!ReadFails,
       Table!Close
<1>6. CASE Quit \/ Crash \/ StackOverflows
    BY <1>6 DEF Quit, Crash, StackOverflows, Gone
<1>7. CASE UNCHANGED vars
    BY <1>7 DEF vars, tableVars
<1> QED
    BY <1>1, <1>2, <1>3, <1>4, <1>5, <1>6, <1>7 DEF Next, EngineStep

LEMMA SameRows ==
    ASSUME tblDisk' = tblDisk
    PROVE  Table!Rows' = Table!Rows
BY DEF Table!Rows, Table!EndPid, Table!Stored, Table!RecordAt

LEMMA NextUnique ==
    ASSUME Constants, DbInv, UniqueKeys, [Next]_vars
    PROVE  UniqueKeys'
<1>1. CASE \E line \in Lines : LoadLine(line)
    BY <1>1, LoadLineUnique
<1>2. CASE ~ \E line \in Lines : LoadLine(line)
    BY <1>2, OnlyLoadWrites, SameRows DEF UniqueKeys
<1> QED
    BY <1>1, <1>2

(***************************************************************************)
(* The verdicts of a scan by the index                                     *)
(***************************************************************************)

\* SelectScanProofs, for the scan of the table's rows over the merged
\* conditions.
Scan == INSTANCE SelectScanProofs WITH
    table <- RowRecords, merged <- Merged, todo <- <<>>, pc <- "index", left <- {},
    answer <- {}, Conds <- Cond, MaxConds <- 0,
    Tables <- {t \in SUBSET [key : CInt, value : Text] :
                  \A r1, r2 \in t : r1.key = r2.key => r1 = r2}

\* The queries whose start key is right (SelectScan says when it is not:
\* StartsTooLow and StartsTooHigh).
KeyCondsOf(q, comp) == {i \in DOMAIN q : q[i].attr = 1 /\ q[i].comp = comp}
StartsRight ==
    \A q \in Queries, key \in Key :
        KeyCondsOf(q, "EQ") = {} =>
            /\ KeyCondsOf(q, "GT") = {} /\ KeyCondsOf(q, "GE") = {} => key >= 0
            /\ (/\ KeyCondsOf(q, "GT") # {}
                /\ \A j \in KeyCondsOf(q, "GT") : key > Atoi[q[j].value]) =>
                 \A i \in KeyCondsOf(q, "GE") : key >= Atoi[q[i].value]

\* The assumptions of SelCond and SelectScan.
LEMMA ScanAssumptions ==
    ASSUME Constants
    PROVE  /\ INT_MAX \in Nat \ {0}
           /\ Text \subseteq Int
           /\ Atoi \in [Text -> CInt] /\ Atoi \in [Text -> Scan!CInt]
           /\ Junk \subseteq CInt /\ Junk # {} /\ Junk \subseteq Scan!CInt
           /\ \A table \in {t \in SUBSET [key : CInt, value : Text] :
                              \A r1, r2 \in t : r1.key = r2.key => r1 = r2} :
                 /\ table \subseteq [key : CInt, value : Text]
                 /\ table \subseteq [key : Scan!CInt, value : Text]
                 /\ \A r1, r2 \in table : r1.key = r2.key => r1 = r2
           /\ Cond \subseteq Cond /\ Cond \subseteq Scan!Cond
           /\ 0 \in Nat
BY DEF Constants, CInt, Scan!CInt, Cond, Scan!Cond, Comparator, Scan!Comparator

LEMMA SameTests ==
    /\ Scan!Cond = Cond /\ Scan!MergedCond = MergedCond /\ Scan!CInt = CInt
    /\ \A comp, diff : Scan!Meets(comp, diff) = Meets(comp, diff)
    /\ \A m, row : Scan!IndexTest(m, row) = IndexTest(m, row)
    /\ \A ms, row : Scan!FailedConds(ms, row) = FailedConds(ms, row)
    /\ \A ms, row : Scan!Verdict(ms, row) = Verdict(ms, row)
    /\ \A ms : Scan!StartKey(ms) = StartKey(ms)
    /\ \A cond, row : Scan!Satisfies(cond, row) = Satisfies(cond, row)
<1>1. /\ Scan!Cond = Cond /\ Scan!MergedCond = MergedCond /\ Scan!CInt = CInt
    BY DEF Cond, Scan!Cond, MergedCond, Scan!MergedCond, CInt, Scan!CInt, Comparator, Scan!Comparator
<1>2. \A comp, diff : Scan!Meets(comp, diff) = Meets(comp, diff)
    BY DEF Meets, Scan!Meets, Accepts, Scan!Accepts, Sign, Scan!Sign
<1>3. \A m, row : Scan!IndexTest(m, row) = IndexTest(m, row)
    BY <1>2 DEF IndexTest, Scan!IndexTest
<1>4. \A ms, row : Scan!FailedConds(ms, row) = FailedConds(ms, row)
    BY <1>3 DEF FailedConds, Scan!FailedConds
<1>5. \A ms, row : Scan!Verdict(ms, row) = Verdict(ms, row)
    BY <1>4 DEF Verdict, Scan!Verdict, Min, Scan!Min
<1>6. \A ms : Scan!StartKey(ms) = StartKey(ms)
    BY DEF StartKey, Scan!StartKey, OnKey, Scan!OnKey, LastInt, Scan!LastInt, Wrap, Scan!Wrap, Max, Scan!Max
<1>7. \A cond, row : Scan!Satisfies(cond, row) = Satisfies(cond, row)
    BY <1>2 DEF Satisfies, Scan!Satisfies, Scan!Number
<1> QED
    BY <1>1, <1>2, <1>3, <1>4, <1>5, <1>6, <1>7

\* What the scan decides about a row is right: it prints a row just when it
\* matches, and when it stops, no row of a greater key matches.
LEMMA ScanJudges ==
    ASSUME Constants, KeptQueries, StartsRight, DbInv, UniqueKeys, query \in Queries,
           NEW record \in RowRecords
    PROVE  /\ Verdict(Merged, record) = "print" <=> Matches(record)
           /\ Matches(record) => record.key >= StartKey(Merged)
           /\ (Verdict(Merged, record) = "stop" /\ record.key >= StartKey(Merged)) =>
                 \A other \in RowRecords : Matches(other) => other.key < record.key
<1>1. query \in Seq(Cond) /\ DOMAIN query = 1 .. Len(query) /\ Len(query) \in Nat
    BY DEF Constants, InstanceConstants
<1>2. Merged \in Seq(MergedCond) /\ Covers(Merged, query, Len(query))
    BY <1>1, MergedAreConds, MergedCovers
<1>3. /\ RowRecords \subseteq Table!Record
      /\ \A r1, r2 \in RowRecords : r1.key = r2.key => r1 = r2
    BY RowsAre DEF DbInv, RowRecords, UniqueKeys
<1>4. RowRecords \in {t \in SUBSET [key : CInt, value : Text] :
                        \A r1, r2 \in t : r1.key = r2.key => r1 = r2}
  <2>1. Table!Record \subseteq [key : CInt, value : Text]
    BY DEF Table!Record, Constants
  <2> QED
    BY <1>3, <2>1
<1>5. Scan!TypeOK
    BY <1>1, <1>2, <1>4, SameTests, EmptySeq DEF Scan!TypeOK
<1>6. Scan!Taken = Len(query)
    BY <1>1 DEF Scan!Taken
<1>7. Scan!Phases
    BY <1>1, <1>6 DEF Scan!Phases
<1>8. Scan!MergedFaithfully
  <2>1. \A m, cond : /\ Scan!TestsSame(m, cond) <=> TestsSame(m, cond)
                     /\ Scan!AsTight(m, cond) <=> AsTight(m, cond)
    BY DEF Scan!TestsSame, TestsSame, Scan!AsTight, AsTight, Scan!SameColumn, Scan!Number
  <2> QED
    BY <1>2, <1>6, <2>1 DEF Covers, Scan!MergedFaithfully, Scan!FromQuery, Scan!Covered, Scan!OnePerComp
<1>9. \A row \in RowRecords : row.key \in Key /\ row.key \in Int
    BY <1>3, CondTypes DEF Table!Record
<1>10. \A comp : Scan!KeyConds(comp) = KeyCondsOf(query, comp)
    BY DEF Scan!KeyConds, KeyCondsOf
<1>11. ~ Scan!StartsTooHigh
    BY <1>9, <1>10 DEF StartsRight, Scan!StartsTooHigh
<1>12. ~ Scan!StartsTooLow
  <2> SUFFICES ASSUME KeyCondsOf(query, "EQ") = {}, KeyCondsOf(query, "GT") # {},
                      NEW row \in RowRecords, NEW i \in KeyCondsOf(query, "GE"),
                      row.key < Atoi[query[i].value],
                      \A j \in KeyCondsOf(query, "GT") : row.key > Atoi[query[j].value]
               PROVE  FALSE
    BY <1>10 DEF Scan!StartsTooLow, Scan!Number
  <2>1. row.key >= Atoi[query[i].value]
    BY <1>9 DEF StartsRight
  <2>2. Atoi[query[i].value] \in Int /\ row.key \in Int
    BY <1>1, <1>9, CondTypes DEF KeyCondsOf
  <2> QED
    BY <2>1, <2>2
<1>13. \A row \in RowRecords : row \in Scan!Matching <=> Matches(row)
    BY SameTests DEF Scan!Matching, Matches, RowRecords
<1>14. Scan!Matching \subseteq RowRecords
    BY DEF Scan!Matching
<1>15. \A row \in RowRecords :
           row \in Scan!Matching <=> \A i \in DOMAIN Merged : Scan!IndexTest(Merged[i], row)
    BY <1>5, <1>7, <1>8, ScanAssumptions, Scan!MatchingIsAccepted
<1>16. /\ Verdict(Merged, record) = "print" <=>
              \A i \in DOMAIN Merged : Scan!IndexTest(Merged[i], record)
       /\ Verdict(Merged, record) = "stop" =>
              \E i \in DOMAIN Merged :
                 /\ Merged[i].attr = 1 /\ Merged[i].comp # "NE"
                 /\ ~ Scan!IndexTest(Merged[i], record)
    BY <1>5, ScanAssumptions, SameTests, Scan!VerdictMeans
<1>17. \A row \in Scan!Matching : row.key >= StartKey(Merged)
    BY <1>5, <1>7, <1>8, <1>11, ScanAssumptions, SameTests, Scan!StartKeyIsLow
<1>18. ASSUME Verdict(Merged, record) = "stop", record.key >= StartKey(Merged),
              NEW other \in RowRecords, Matches(other), record.key <= other.key
       PROVE  FALSE
  <2>1. PICK m \in DOMAIN Merged :
            /\ Merged[m].attr = 1 /\ Merged[m].comp # "NE"
            /\ ~ Scan!IndexTest(Merged[m], record)
    BY <1>16, <1>18
  <2>2. other \in Scan!Matching /\ record.key >= Scan!StartKey(Merged)
    BY <1>13, <1>18, SameTests
  <2> QED
    BY <1>5, <1>7, <1>8, <1>12, <1>18, <2>1, <2>2, ScanAssumptions, Scan!StopIsRight
<1> QED
    BY <1>9, <1>13, <1>15, <1>16, <1>17, <1>18

(***************************************************************************)
(* What has been printed                                                   *)
(***************************************************************************)

\* ans has each matching record of done once, and no other.
Printed(done, ans) ==
    /\ \A i \in 1 .. Len(ans) : ans[i] \in done /\ Matches(ans[i])
    /\ \A record \in done : Matches(record) => \E i \in 1 .. Len(ans) : ans[i] = record
    /\ \A i, j \in 1 .. Len(ans) : ans[i] = ans[j] => i = j

\* What has been printed depends on the rows and the query.
LEMMA PrintedSame ==
    ASSUME Table!Rows' = Table!Rows, query' = query, NEW done, NEW ans
    PROVE  /\ Printed(done, ans)' <=> Printed(done, ans)
           /\ \A record : Matches(record)' <=> Matches(record)
<1>1. \A record : Matches(record)' <=> Matches(record)
    BY DEF Matches, Satisfies
<1> QED
    BY <1>1 DEF Printed

LEMMA PrintedNone ==
    ASSUME NEW done, \A record \in done : ~ Matches(record)
    PROVE  Printed(done, <<>>)
BY DEF Printed

\* One more record is read.
LEMMA PrintedOneMore ==
    ASSUME NEW done, NEW ans \in Seq(Table!Record), Printed(done, ans),
           NEW record \in Table!Record, record \notin done, NEW more,
           more = IF Matches(record) THEN Append(ans, record) ELSE ans
    PROVE  Printed(done \cup {record}, more)
<1>1. CASE ~ Matches(record)
    BY <1>1 DEF Printed
<1>2. CASE Matches(record)
  <2>1. /\ Len(more) = Len(ans) + 1 /\ more[Len(ans) + 1] = record
        /\ \A i \in 1 .. Len(ans) : more[i] = ans[i]
        /\ Len(ans) \in Nat
    BY <1>2, AppendProperties
  <2>2. PICK n : n = Len(ans)
    OBVIOUS
  <2>3. 1 .. Len(more) = 1 .. n \cup {n + 1} /\ n + 1 \notin 1 .. n
    BY <2>1, <2>2
  <2>4. more[n + 1] = record /\ \A i \in 1 .. n : more[i] = ans[i]
    BY <2>1, <2>2
  <2>5. /\ \A i \in 1 .. n : ans[i] \in done /\ Matches(ans[i])
        /\ \A other \in done : Matches(other) => \E i \in 1 .. n : ans[i] = other
        /\ \A i, j \in 1 .. n : ans[i] = ans[j] => i = j
    BY <2>2 DEF Printed
  <2>6. \A i \in 1 .. Len(more) : more[i] \in done \cup {record} /\ Matches(more[i])
    BY <1>2, <2>3, <2>4, <2>5
  <2>7. \A other \in done \cup {record} : Matches(other) => \E i \in 1 .. Len(more) : more[i] = other
    BY <2>3, <2>4, <2>5
  <2>8. \A i, j \in 1 .. Len(more) : more[i] = more[j] => i = j
    BY <2>3, <2>4, <2>5
  <2> QED
    BY <2>6, <2>7, <2>8 DEF Printed
<1> QED
    BY <1>1, <1>2

\* When the rest does not match, all has been printed.
LEMMA PrintedTheRest ==
    ASSUME NEW done, NEW ans, Printed(done, ans), NEW all, done \subseteq all,
           \A record \in all : Matches(record) => record \in done
    PROVE  Printed(all, ans)
BY DEF Printed

(***************************************************************************)
(* The scan of the table                                                   *)
(***************************************************************************)

RecordsBefore(loc) == {row.record : row \in {r \in Table!Rows : Table!Before(r.rid, loc)}}

\* Where there is an index file, a SELECT is by the index.
Chosen ==
    /\ stmt \in {"scan", "scanFailed"} => "idx" \notin files
    /\ stmt \in {"openTable", "locate", "fetch", "endPrint"} => "idx" \in files

LEMMA NextChosen ==
    ASSUME Chosen, [Next]_vars
    PROVE  Chosen'
<1>1. CASE UNCHANGED vars
    BY <1>1 DEF vars, Chosen
<1>2. CASE \/ LoadFindsNoTable \/ LoadOpensIndex \/ LoadIgnoresOpen
           \/ \E withIndex \in LoadsIndex : LoadOpensTable(withIndex)
           \/ \E line \in Lines : LoadLine(line)
           \/ LoadFails \/ LoadReturnsError \/ LoadInserts \/ LoadContinuesInsert \/ EndLoad
           \/ Quit \/ Crash \/ StackOverflows \/ Prompt
    BY <1>2 DEF Chosen, LoadOpensTable, LoadFindsNoTable, Quit, Crash, Gone, LoadOpensIndex,
       LoadIgnoresOpen, LoadLine, LoadFails, LoadReturnsError, LoadInserts, LoadContinuesInsert,
       EndLoad, StackOverflows, Prompt
<1>3. CASE \/ \E q \in Queries : SelectOpensIndex(q) \/ SelectOpensTable(q)
           \/ PrintTuplesOpens \/ PrintTuplesFindsNoTable \/ PrintTuplesLocates
           \/ PrintTuplesLocatesNone \/ FetchTuple \/ PrintTuplesEnds
           \/ ScanTuple \/ ScanFails \/ EndScan
    BY <1>3 DEF Chosen, SelectOpensIndex, SelectOpensTable, PrintTuplesOpens,
       PrintTuplesFindsNoTable, PrintTuplesLocates, PrintTuplesLocatesNone, FetchTuple, Judge,
       PrintTuplesEnds, ScanTuple, ScanFails, EndScan
<1> QED
    BY <1>1, <1>2, <1>3 DEF Next, EngineStep

\* Where a SELECT by the table is, and what it has printed then.
ByTable ==
    /\ stmt = "scan" =>
         /\ rid \in [pid : Nat, sid : Table!Sid]
         /\ Printed(RecordsBefore(rid), answer)
    /\ (stmt = "selected" /\ "idx" \notin files) => Printed(RowRecords, answer)

\* The records before the next rid are those before the rid and the one there.
LEMMA OneRecordMore ==
    ASSUME Constants, TblInv, UniqueKeys, NEW loc \in [pid : Nat, sid : Table!Sid],
           NEW record, Table!Row(loc, record) \in Table!Rows
    PROVE  /\ RecordsBefore(Table!Successor(loc)) = RecordsBefore(loc) \cup {record}
           /\ record \notin RecordsBefore(loc)
<1> DEFINE here == Table!Row(loc, record)
<1>1. here \in Table!Rows /\ here.rid = loc /\ here.record = record
    BY DEF Table!Row
<1>2. ASSUME NEW row \in Table!Rows
      PROVE  Table!Before(row.rid, Table!Successor(loc)) <=>
                Table!Before(row.rid, loc) \/ row = here
  <2>1. row.rid \in [pid : Nat, sid : Table!Sid] /\ row = Table!Row(row.rid, Table!RecordAt(row.rid))
    BY RowsAre
  <2>2. here = Table!Row(loc, Table!RecordAt(loc))
    BY <1>1, RowsAre
  <2>3. row.rid = loc <=> row = here
    BY <1>1, <2>1, <2>2
  <2> QED
    BY <2>1, <2>3, TblBeforeSuccessor
<1>3. ~ Table!Before(loc, loc)
    BY DEF Table!Before, Table!Sid
<1>4. record \notin RecordsBefore(loc)
    BY <1>1, <1>3 DEF RecordsBefore, UniqueKeys
<1> HIDE DEF here
<1>5. RecordsBefore(Table!Successor(loc)) = RecordsBefore(loc) \cup {record}
    BY <1>1, <1>2 DEF RecordsBefore
<1> QED
    BY <1>4, <1>5

LEMMA SameBefore ==
    ASSUME Table!Rows' = Table!Rows, NEW loc
    PROVE  RecordsBefore(loc)' = RecordsBefore(loc) /\ RowRecords' = RowRecords
BY DEF RecordsBefore, RowRecords, Table!Before

LEMMA ScanTupleByTable ==
    ASSUME Constants, KeptQueries, DbInv, Answering, UniqueKeys, ByTable, ScanTuple
    PROVE  ByTable'
<1>1. /\ stmt = "scan" /\ stmt' = "scan" /\ files' = files /\ query' = query
      /\ query \in Queries /\ Table!Read(rid) /\ rid' = Table!Successor(rid)
      /\ answer' = IF TableAnswers(query, reply'.row.record)
                     THEN Append(answer, reply'.row.record) ELSE answer
      /\ answer \in Seq(Table!Record)
    BY DEF ScanTuple, Answering, Selecting, DbInv, OwnTypes, Table!Record
<1>2. /\ rid \in [pid : Nat, sid : Table!Sid] /\ rid \in [pid : Int, sid : Int]
      /\ Printed(RecordsBefore(rid), answer)
    BY <1>1 DEF ByTable, DbInv, OwnTypes
<1>3. PICK record : record = reply'.row.record
    OBVIOUS
<1>4. /\ Table!Rows' = Table!Rows /\ Table!Row(rid, record) \in Table!Rows
      /\ record \in Table!Record
  <2>1. /\ Table!Rows' = Table!Rows
        /\ reply'.row = Table!Row(rid, Table!RecordAt(rid)) /\ reply'.row \in Table!Rows
        /\ reply'.row.record \in Table!Record
    BY <1>1, <1>2, TblReads DEF DbInv
  <2>2. record = Table!RecordAt(rid)
    BY <1>3, <2>1 DEF Table!Row
  <2> QED
    BY <1>3, <2>1, <2>2
<1>5. TableAnswers(query, record) <=> Matches(record)
  <2>1. \E row \in Table!Rows : row.record = record
    BY <1>4 DEF Table!Row
  <2> QED
    BY <1>1, <1>4, <2>1, ScannedSatisfies DEF Matches
<1>6. /\ RecordsBefore(Table!Successor(rid)) = RecordsBefore(rid) \cup {record}
      /\ record \notin RecordsBefore(rid)
    BY <1>2, <1>4, OneRecordMore DEF DbInv
<1>7. PICK loc, more : loc = Table!Successor(rid) /\ more = answer'
    OBVIOUS
<1>8. Printed(RecordsBefore(loc), more)
  <2>1. PICK before : before = RecordsBefore(rid)
    OBVIOUS
  <2>2. more = IF Matches(record) THEN Append(answer, record) ELSE answer
    BY <1>1, <1>3, <1>5, <1>7
  <2>3. Printed(before, answer) /\ record \notin before
    BY <1>2, <1>6, <2>1
  <2>4. Printed(before \cup {record}, more)
    BY <1>1, <1>4, <2>2, <2>3, PrintedOneMore
  <2> QED
    BY <1>6, <1>7, <2>1, <2>4
<1>9. PICK done : done = RecordsBefore(loc)
    OBVIOUS
<1>10. Printed(done, more)'
    BY <1>1, <1>4, <1>8, <1>9, PrintedSame
<1>11. RecordsBefore(loc)' = done
    BY <1>4, <1>9, SameBefore
<1>12. rid' = loc /\ answer' = more
    BY <1>1, <1>7
<1>13. RecordsBefore(rid)' = RecordsBefore(loc)'
    BY <1>12 DEF RecordsBefore, Table!Before
<1>14. Printed(RecordsBefore(rid), answer)'
    BY <1>10, <1>11, <1>12, <1>13 DEF Printed
<1>15. rid' \in [pid : Nat, sid : Table!Sid]
    BY <1>1, <1>2, TblSuccessorIsRid
<1> QED
    BY <1>1, <1>14, <1>15 DEF ByTable

\* The scan of the table ends where all rows lie before its rid.
LEMMA EndScanByTable ==
    ASSUME Constants, DbInv, ByTable, EndScan
    PROVE  ByTable'
<1>1. /\ query' = query /\ answer' = answer /\ files' = files /\ stmt' \in {"selected", "failed"}
      /\ stmt' = "selected" => stmt = "scan" /\ ~ Table!Before(rid, erid)
      /\ Table!Close
    BY DEF EndScan, selectVars
<1>2. Table!Rows' = Table!Rows /\ RowRecords' = RowRecords
    BY <1>1, TblCloses, SameBefore DEF DbInv
<1>3. ASSUME stmt' = "selected" PROVE Printed(RowRecords, answer)'
  <2>1. /\ rid \in [pid : Nat, sid : Table!Sid] /\ Printed(RecordsBefore(rid), answer)
        /\ ~ Table!Before(rid, Table!EndRid)
        /\ Table!EndRid \in [pid : Nat, sid : Table!Sid]
    BY <1>1, <1>3, TblEndRidIsRid DEF ByTable, DbInv, Phases, TblInv, TblAtEnd
  <2>2. ASSUME NEW row \in Table!Rows PROVE Table!Before(row.rid, rid)
    <3>1. row.rid \in [pid : Nat, sid : Table!Sid] /\ Table!Stored(row.rid)
      BY RowsAre DEF DbInv
    <3>2. Table!Before(row.rid, Table!EndRid)
      BY <3>1, TblBeforeEndRid DEF DbInv, TblInv
    <3> QED
      BY <2>1, <3>1, <3>2 DEF Table!Before, Table!Sid
  <2>3. RecordsBefore(rid) = RowRecords
    BY <2>2 DEF RecordsBefore, RowRecords
  <2>4. PICK all, ans : all = RowRecords /\ ans = answer
    OBVIOUS
  <2>5. Printed(all, ans)'
    BY <1>1, <1>2, <2>1, <2>3, <2>4, PrintedSame
  <2> QED
    BY <1>1, <1>2, <2>4, <2>5 DEF Printed
<1> QED
    BY <1>1, <1>3 DEF ByTable

LEMMA SelectByTable ==
    ASSUME Constants, DbInv, Answering, NEW q \in Queries, SelectOpensTable(q)
    PROVE  ByTable'
<1>1. /\ answer' = <<>> /\ stmt' = "scan" /\ files' = files /\ "idx" \notin files
      /\ rid' = Table!Rid(0, 0) /\ Table!Open("r")
    BY DEF SelectOpensTable, Answering, BeforeScan
<1>2. Table!Rows' = Table!Rows
    BY <1>1, TblOpens DEF DbInv
<1>3. PICK loc : loc = Table!Rid(0, 0)
    OBVIOUS
<1>4. RecordsBefore(loc) = {}
  <2>1. \A row \in Table!Rows : row.rid.pid \in Nat /\ row.rid.sid \in Nat
    BY RowsAre DEF DbInv, Table!Sid
  <2> QED
    BY <1>3, <2>1 DEF RecordsBefore, Table!Before, Table!Rid
<1>5. RecordsBefore(rid)' = {}
  <2>1. RecordsBefore(loc)' = {}
    BY <1>2, <1>4, SameBefore
  <2> QED
    BY <1>1, <1>3, <2>1 DEF RecordsBefore, Table!Before
<1>6. Len(<<>>) = 0
    OBVIOUS
<1>7. Printed(RecordsBefore(rid), answer)'
    BY <1>1, <1>5, <1>6 DEF Printed
<1>8. rid' \in [pid : Nat, sid : Table!Sid]
    BY <1>1, TblSlotZero DEF Table!Rid
<1> QED
    BY <1>1, <1>7, <1>8 DEF ByTable

LEMMA NextByTable ==
    ASSUME Constants, KeptQueries, DbInv, Answering, UniqueKeys, Chosen, ByTable, [Next]_vars
    PROVE  ByTable'
<1>1. ASSUME stmt' \notin {"scan", "scanFailed", "selected"} PROVE ByTable'
    BY <1>1 DEF ByTable
<1>2. CASE stmt' \notin {"scan", "scanFailed", "selected"}
    BY <1>1, <1>2
<1>3. CASE UNCHANGED vars
  <2>1. /\ stmt' = stmt /\ files' = files /\ query' = query /\ answer' = answer /\ rid' = rid
        /\ Table!Rows' = Table!Rows
    BY <1>3, TblUnchanged DEF vars, tableVars, selectVars, DbInv
  <2>2. PICK loc, ans : loc = rid /\ ans = answer
    OBVIOUS
  <2>3. RecordsBefore(loc)' = RecordsBefore(loc) /\ RowRecords' = RowRecords
    BY <2>1, SameBefore
  <2>4. PICK before, all : before = RecordsBefore(loc) /\ all = RowRecords
    OBVIOUS
  <2>5. (Printed(before, ans)' <=> Printed(before, ans)) /\ (Printed(all, ans)' <=> Printed(all, ans))
    BY <2>1, PrintedSame
  <2>6. RecordsBefore(rid)' = before /\ RowRecords' = all
    BY <2>1, <2>2, <2>3, <2>4 DEF RecordsBefore, Table!Before
  <2>7. Printed(before, ans)' <=> Printed(RecordsBefore(rid), answer)'
    BY <2>1, <2>2, <2>6 DEF Printed
  <2>8. Printed(all, ans)' <=> Printed(RowRecords, answer)'
    BY <2>1, <2>2, <2>6 DEF Printed
  <2> QED
    BY <2>1, <2>2, <2>4, <2>5, <2>7, <2>8 DEF ByTable
<1>4. CASE stmt' \in {"scan", "scanFailed", "selected"} /\ ~ UNCHANGED vars
  <2>1. \/ \E q \in Queries : SelectOpensTable(q)
        \/ PrintTuplesLocatesNone \/ PrintTuplesEnds \/ ScanTuple \/ ScanFails \/ EndScan
    BY <1>4 DEF Next, EngineStep, LoadOpensTable, LoadFindsNoTable, SelectOpensIndex, Quit, Crash,
       Gone, LoadOpensIndex, LoadIgnoresOpen, LoadLine, LoadFails, LoadReturnsError, LoadInserts,
       LoadContinuesInsert, EndLoad, PrintTuplesOpens, PrintTuplesFindsNoTable,
       PrintTuplesLocates, FetchTuple, Judge, StackOverflows, Prompt
  <2>2. CASE PrintTuplesLocatesNone \/ PrintTuplesEnds
    BY <2>2 DEF PrintTuplesLocatesNone, PrintTuplesEnds, Chosen, ByTable
  <2>3. CASE ScanFails
    BY <2>3 DEF ScanFails, ByTable
  <2> QED
    BY <2>1, <2>2, <2>3, SelectByTable, ScanTupleByTable, EndScanByTable
<1> QED
    BY <1>2, <1>3, <1>4

\* All matching rows once are as many rows as there are.
LEMMA PrintedIsExact ==
    ASSUME answer \in Seq(Table!Record), Printed(RowRecords, answer)
    PROVE  ToSet(answer) = Matching /\ Len(answer) = Cardinality(Matching)
<1>1. Matching = {record \in RowRecords : Matches(record)}
    BY DEF Matching, Matches, RowRecords, Satisfies
<1>2. PICK n : n = Len(answer)
    OBVIOUS
<1>3. n \in Nat /\ DOMAIN answer = 1 .. n
    BY <1>2
<1>4. /\ \A i \in 1 .. n : answer[i] \in Matching
      /\ \A record \in Matching : \E i \in 1 .. n : answer[i] = record
      /\ \A i, j \in 1 .. n : answer[i] = answer[j] => i = j
    BY <1>1, <1>2 DEF Printed
<1>5. ToSet(answer) = Matching
    BY <1>3, <1>4 DEF ToSet
<1>6. PICK f : f = [i \in 1 .. n |-> answer[i]]
    OBVIOUS
<1>7. f \in Bijection(1 .. n, Matching)
  <2>1. f \in [1 .. n -> Matching]
    BY <1>4, <1>6
  <2>2. f \in Surjection(1 .. n, Matching)
    BY <1>4, <1>6, <2>1 DEF Surjection
  <2>3. f \in Injection(1 .. n, Matching)
    BY <1>4, <1>6, <2>1 DEF Injection, IsInjective
  <2> QED
    BY <2>2, <2>3 DEF Bijection
<1>8. ExistsBijection(1 .. n, Matching)
    BY <1>7 DEF ExistsBijection
<1>9. Cardinality(Matching) = n
    BY <1>3, <1>8, FS_CountingElements
<1> QED
    BY <1>2, <1>5, <1>9

(***************************************************************************)
(* The scan by the index                                                   *)
(***************************************************************************)

\* When a SELECT by the index prints all: SelectExact says it of its end.
Sound == skipped = {} /\ crashes = 0 /\ StartsOnRow

\* The rows of the entries that the cursor has passed are printed, if they
\* match; the entries below the start key were passed by locate.
RecordsOf(entries) == {record \in RowRecords : record.key \in KeysIn(entries)}
HasJudged(c) ==
    /\ B!Behind(cursor) \/ B!Facing(c, cursor)
    /\ {e \in B!Kept(c) : e.key < StartKey(Merged)} \subseteq B!Passed(c, cursor)
    /\ Printed(RecordsOf(B!Passed(c, cursor)), answer)
ByIndex ==
    /\ stmt = "fetch" => treeHeight > 0
    /\ (stmt = "fetch" /\ Sound) => \E c, lev : B!Linked(c, lev) /\ HasJudged(c)
    /\ (/\ stmt = "endPrint" \/ (stmt = "selected" /\ "idx" \in files)
        /\ Sound) => Printed(RowRecords, answer)

LEMMA SameMerged ==
    ASSUME query' = query
    PROVE  Merged' = Merged /\ StartKey(Merged)' = StartKey(Merged)
<1>1. Merged' = Merged
    BY DEF Merged
<1>2. StartKey(Merged)' = StartKey(Merged')
    BY DEF StartKey, OnKey, LastInt
<1> QED
    BY <1>1, <1>2

LEMMA SameSound ==
    ASSUME Table!Rows' = Table!Rows, query' = query, skipped' = skipped, crashes' = crashes
    PROVE  Sound' <=> Sound
<1>1. TableKeys' = TableKeys
    BY DEF TableKeys
<1>2. StartKey(Merged)' = StartKey(Merged)
    BY SameMerged
<1>3. StartsOnRow' <=> StartsOnRow
    BY <1>1, <1>2 DEF StartsOnRow
<1> QED
    BY <1>3 DEF Sound

\* While a SELECT reads, no insert runs, and the rows are the entries.
LEMMA AllIndexed ==
    ASSUME Constants, DbInv, stmt \in {"locate", "fetch"}, skipped = {},
           NEW c, NEW lev, B!Linked(c, lev)
    PROVE  RowKeys = KeysIn(B!Kept(c)) /\ B!Stored = B!Kept(c)
<1>1. B!Stored = B!Kept(c)
    BY IdxStored DEF DbInv
<1>2. InFlight = {} /\ KeysIn({}) = {}
    BY DEF InFlight, KeysIn
<1>3. RowKeys = KeysIn(B!Stored) \cup KeysIn(InFlight \ B!Stored) \cup skipped
    BY DEF DbInv, Accounting
<1>4. InFlight \ B!Stored = {}
    BY <1>2
<1> QED
    BY <1>1, <1>2, <1>3, <1>4

LEMMA AtRestInSelect ==
    ASSUME Constants, DbInv, IdxInv, stmt \in {"locate", "fetch"}, crashes = 0, treeHeight > 0,
           NEW c, NEW lev, B!Linked(c, lev)
    PROVE  \E lvl, rng : B!AtRest(c, lev, lvl, rng)
<1>1. idxMode # "none" /\ pc \in {"idle", "scan", "scanEnd"}
    BY DEF DbInv, Phases
<1>2. B!NodesSorted /\ B!Halves /\ \E lvl, rng : B!Ranged(lvl, rng)
    BY DEF IdxInv, B!Ordered, B!Halved
<1> QED
    BY <1>1, <1>2 DEF DbInv, B!Chained, B!AtRest

\* The places of the cursor depend on the index file alone.
LEMMA SameCursor ==
    ASSUME Constants, NEW c, idxDisk' = idxDisk, B!Kept(c)' = B!Kept(c), NEW cur, cursor' = cur
    PROVE  /\ B!Behind(cursor)' <=> B!Behind(cur)
           /\ B!Facing(c, cursor)' <=> B!Facing(c, cur)
           /\ B!Passed(c, cursor)' = B!Passed(c, cur)
<1>1. /\ B!Facing(c, cur)' <=> B!Facing(c, cur)
      /\ B!Passed(c, cur)' = B!Passed(c, cur)
    BY B!SamePlaces, IndexAssumptions
<1>2. /\ B!Facing(c, cursor)' <=> B!Facing(c, cur)'
      /\ B!Passed(c, cursor)' = B!Passed(c, cur)'
    BY DEF B!Facing, B!Passed, B!NextEntry
<1> QED
    BY <1>1, <1>2 DEF B!Behind

LEMMA LocateByIndex ==
    ASSUME Constants, KeptQueries, StartsRight, DbInv, IdxInv, Answering, UniqueKeys,
           PrintTuplesLocates
    PROVE  ByIndex'
<1> DEFINE key == StartKey(Merged)
<1>1. /\ stmt = "locate" /\ stmt' = "fetch" /\ query' = query /\ answer' = answer
      /\ skipped' = skipped /\ B!Locate(key) /\ answer = <<>> /\ query \in Queries
      /\ UNCHANGED <<tblDisk, tblMode, erid, reply, appended>>
    BY SameIndexCalls DEF PrintTuplesLocates, selectVars, tableVars, Answering, BeforeScan, Selecting
<1>2. /\ treeHeight' = treeHeight /\ treeHeight > 0 /\ crashes' = crashes /\ idxDisk' = idxDisk
      /\ cursor' = [pid |-> B!FindLeaf(key), eid |-> B!LeafLocate(B!LeafAt(B!FindLeaf(key)), key)]
      /\ B!LeafAt(B!FindLeaf(key)).entries # <<>>
      /\ idxMode' = idxMode /\ rootPid' = rootPid /\ ins' = ins /\ acked' = acked
      /\ tried' = tried /\ pc = "idle" /\ pc' = "scan"
    BY <1>1 DEF B!Locate, B!file, B!head, B!frame, B!ghost
<1>3. key \in Int
    BY <1>1, StartKeyIsInt DEF Constants
<1>4. Table!Rows' = Table!Rows
    BY <1>1, TblUnchanged DEF DbInv
<1> SUFFICES ASSUME Sound' PROVE \E c, lev : B!Linked(c, lev)' /\ HasJudged(c)'
    BY <1>1, <1>2 DEF ByIndex
<1>5. Sound
    BY <1>1, <1>2, <1>4, SameSound
<1>6. PICK c, lev : B!Linked(c, lev)
    BY DEF DbInv, B!Chained
<1>7. PICK lvl, rng : B!AtRest(c, lev, lvl, rng)
    BY <1>1, <1>2, <1>5, <1>6, AtRestInSelect DEF Sound
<1>8. B!Linked(c, lev)' /\ B!Kept(c)' = B!Kept(c)
    BY <1>2, <1>6, B!ScanLinked, IndexAssumptions DEF DbInv, B!Chained
<1>9. RowKeys = KeysIn(B!Kept(c))
    BY <1>1, <1>5, <1>6, AllIndexed DEF Sound
<1>10. (\E e \in B!Kept(c) : e.key = key) \/ (\A e \in B!Kept(c) : e.key > key)
  <2>1. RowKeys = TableKeys
    BY DEF RowKeys, TableKeys
  <2>2. \A e \in B!Kept(c) : e.key \in TableKeys
    BY <1>9, <2>1 DEF KeysIn
  <2>3. \A e \in B!Kept(c) : e.key \in Int
    BY CondTypes DEF B!Kept, B!Entry
  <2>4. CASE key \in TableKeys
    BY <1>9, <2>1, <2>4 DEF KeysIn
  <2>5. CASE \A k \in TableKeys : key < k
    BY <1>3, <2>2, <2>3, <2>5
  <2> QED
    BY <1>5, <2>4, <2>5 DEF Sound, StartsOnRow
<1>11. PICK cur : cur = cursor'
    OBVIOUS
<1>12. B!Facing(c, cur) /\ B!Passed(c, cur) = {e \in B!Kept(c) : e.key < key}
    BY <1>2, <1>3, <1>7, <1>10, <1>11, B!LocateFaces, IndexAssumptions
<1>13. /\ B!Facing(c, cursor)'
       /\ B!Passed(c, cursor)' = {e \in B!Kept(c) : e.key < key}
    BY <1>2, <1>8, <1>11, <1>12, SameCursor
<1>14. PICK low : low = {e \in B!Kept(c) : e.key < key}
    OBVIOUS
<1>15. PICK done : done = RecordsOf(low)
    OBVIOUS
<1>16. Printed(done, <<>>)
  <2> SUFFICES ASSUME NEW record \in done, Matches(record) PROVE FALSE
    BY PrintedNone
  <2>1. record \in RowRecords
    BY <1>15 DEF RecordsOf
  <2>2. PICK e \in low : e.key = record.key
    BY <1>15 DEF RecordsOf, KeysIn
  <2>3. record.key >= key
    BY <1>1, <2>1, ScanJudges
  <2>4. e.key < key /\ e.key \in Int
    BY <1>14, <2>2, CondTypes DEF B!Kept, B!Entry
  <2> QED
    BY <1>3, <2>2, <2>3, <2>4
<1>17. Printed(done, <<>>)'
    BY <1>1, <1>4, <1>16, PrintedSame
<1>18. RecordsOf(B!Passed(c, cursor))' = done
  <2>1. RowRecords' = RowRecords
    BY <1>4, SameBefore
  <2> QED
    BY <1>13, <1>14, <1>15, <2>1 DEF RecordsOf, KeysIn
<1>19. Printed(RecordsOf(B!Passed(c, cursor)), answer)'
    BY <1>1, <1>17, <1>18 DEF Printed
<1>20. {e \in B!Kept(c) : e.key < StartKey(Merged)}' \subseteq B!Passed(c, cursor)'
  <2>1. StartKey(Merged)' = key
    BY <1>1, SameMerged
  <2> QED
    BY <1>8, <1>13, <2>1
<1> QED
    BY <1>8, <1>13, <1>19, <1>20 DEF HasJudged

\* print_tuples returns with nothing printed only if the table has no rows.
LEMMA NoneByIndex ==
    ASSUME Constants, DbInv, IdxInv, Answering, PrintTuplesLocatesNone
    PROVE  ByIndex'
<1>1. /\ stmt = "locate" /\ stmt' = "selected" /\ query' = query /\ answer' = answer
      /\ skipped' = skipped /\ answer = <<>> /\ Table!Close /\ NoEntryLocated
    BY DEF PrintTuplesLocatesNone, selectVars, Answering, BeforeScan
<1>2. crashes' = crashes
    BY SameIndexCalls DEF PrintTuplesLocatesNone, B!Close, B!ghost
<1>3. Table!Rows' = Table!Rows
    BY <1>1, TblCloses DEF DbInv
<1> SUFFICES ASSUME Sound' PROVE Printed(RowRecords, answer)'
    BY <1>1 DEF ByIndex
<1>4. skipped = {} /\ crashes = 0
    BY <1>1, <1>2, <1>3, SameSound DEF Sound
<1>5. PICK c, lev : B!Linked(c, lev)
    BY DEF DbInv, B!Chained
<1>6. B!Kept(c) = {}
  <2>1. CASE treeHeight = 0
    <3>1. idxDisk = <<>>
      BY <1>1, <2>1 DEF DbInv, Phases, B!Chained, B!Typed, B!Running
    <3>2. \A p : B!LeafAt(p).entries = <<>>
      BY <3>1 DEF B!LeafAt, B!PageAt, B!EndPid, B!Blank, B!EmptyLeaf, B!Leaf
    <3> QED
      BY <3>2 DEF B!Kept, B!Has, B!Occurs
  <2>2. CASE treeHeight > 0
    <3>1. PICK key \in Int : key = StartKey(Merged)
      BY StartKeyIsInt, EmptySeq DEF DbInv, OwnTypes, Constants, InstanceConstants
    <3>2. B!LeafAt(B!FindLeaf(key)).entries = <<>>
      BY <1>1, <2>2, <3>1, SameFindLeaf, SamePages DEF NoEntryLocated
    <3>3. PICK lvl, rng : B!AtRest(c, lev, lvl, rng)
      BY <1>1, <1>4, <1>5, <2>2, AtRestInSelect
    <3> QED
      BY <3>2, <3>3, B!LocateFindsNone, IndexAssumptions
  <2> QED
    BY <1>1, <2>1, <2>2 DEF NoEntryLocated
<1>7. RowKeys = {}
    BY <1>1, <1>4, <1>5, <1>6, AllIndexed DEF KeysIn
<1>8. RowRecords' = {}
    BY <1>3, <1>7 DEF RowKeys, RowRecords
<1>9. Len(<<>>) = 0
    OBVIOUS
<1> QED
    BY <1>1, <1>8, <1>9 DEF Printed

\* Behind the chain readForward finds no rid, and the read of the row fails.
LEMMA FetchesNone ==
    ASSUME Constants, DbInv, B!Behind(cursor), NEW fetched \in FetchedRids(B!LeafAt(cursor.pid))
    PROVE  ~ Table!Read(fetched)
<1>1. B!LeafAt(cursor.pid).entries = <<>> /\ cursor.eid = 0
  <2>1. idxDisk \in Seq(B!Page)
    BY DEF DbInv, B!Chained, B!Typed, B!TypeOK
  <2>2. cursor.pid \notin 0 .. B!EndPid - 1
    BY <2>1 DEF B!Behind, B!NoPid, B!EndPid
  <2> QED
    BY <2>2 DEF B!Behind, B!LeafAt, B!PageAt, B!Blank, B!EmptyLeaf, B!Leaf
<1>2. ~ (0 >= MAX_LEAF_KEY_COUNT) /\ 0 < MAX_LEAF_KEY_COUNT /\ ~ (0 < Len(<<>>))
    BY IndexAssumptions
<1>3. fetched = NoRow
    BY <1>1, <1>2 DEF FetchedRids
<1>4. fetched.pid \notin 0 .. erid.pid
    BY <1>3 DEF NoRow
<1> QED
    BY <1>4 DEF Table!Read, Table!InRange

\* Before an entry it finds the entry's rid, and the read finds its row.
LEMMA FetchesRow ==
    ASSUME Constants, DbInv, stmt = "fetch", NEW c, NEW lev, B!Linked(c, lev),
           B!Facing(c, cursor), B!NextEntry(cursor) \in B!Kept(c),
           NEW fetched \in FetchedRids(B!LeafAt(cursor.pid))
    PROVE  /\ ~ Table!ReadInvalid(fetched)
           /\ Table!Read(fetched) =>
                /\ reply'.row \in Table!Rows
                /\ reply'.row.record.key = B!NextEntry(cursor).key
<1>1. PICK f, es : f = B!NextEntry(cursor) /\ es = B!LeafAt(cursor.pid).entries
    OBVIOUS
<1>2. fetched = f.rid
  <2>1. cursor.eid \in Nat
    BY DEF DbInv, B!Chained, B!Typed, B!TypeOK
  <2>2. cursor.eid + 1 \in 1 .. Len(es) /\ f = es[cursor.eid + 1]
    BY <1>1 DEF B!Facing, B!NextEntry
  <2>3. es \in Seq(B!Entry)
    <3>1. idxDisk \in Seq(B!Page)
      BY DEF DbInv, B!Chained, B!Typed, B!TypeOK
    <3>2. B!LeafAt(cursor.pid) \in B!LeafPage
      BY <3>1, B!LeafAtTyped, IndexAssumptions
    <3> QED
      BY <1>1, <3>2 DEF B!LeafPage
  <2>4. cursor.eid < Len(es)
    BY <2>1, <2>2, <2>3
  <2> QED
    BY <1>1, <2>2, <2>4 DEF FetchedRids
<1>3. PICK row \in Table!Rows : row.rid = f.rid /\ row.record.key = f.key
  <2>1. f \in B!Stored
    BY <1>1, IdxStored DEF DbInv
  <2> QED
    BY <2>1 DEF DbInv, Pointing, PointsAtRow
<1>4. /\ fetched \in [pid : Nat, sid : Table!Sid] /\ Table!Stored(fetched)
      /\ row = Table!Row(fetched, Table!RecordAt(fetched))
    BY <1>2, <1>3, RowsAre DEF DbInv
<1>5. Table!Before(fetched, erid) /\ erid \in [pid : Nat, sid : Table!Sid]
    BY <1>4, TblBeforeEndRid DEF DbInv, Phases, TblInv, TblAtEnd, Table!TypeOK
<1>6. ~ Table!ReadInvalid(fetched)
  <2>1. fetched.pid \in 0 .. erid.pid
    BY <1>4, <1>5 DEF Table!Before
  <2>2. fetched.pid < Table!EndPid
    BY <1>4 DEF Table!Stored
  <2> QED
    BY <1>4, <1>5, <2>1, <2>2 DEF Table!ReadInvalid, Table!InRange
<1>7. ASSUME Table!Read(fetched)
      PROVE  reply'.row \in Table!Rows /\ reply'.row.record.key = f.key
  <2>1. fetched \in [pid : Int, sid : Int]
    BY <1>4 DEF Table!Sid
  <2>2. reply'.row = row
    BY <1>4, <1>7, <2>1, TblReads DEF DbInv
  <2> QED
    BY <1>3, <2>2
<1> QED
    BY <1>1, <1>6, <1>7

\* The records of the entries up to one are those of the entries before it and
\* the one with its key.
LEMMA OneEntryMore ==
    ASSUME UniqueKeys, NEW kept, RowKeys = KeysIn(kept), \A e \in kept : e.key \in Int,
           NEW f \in kept, NEW row \in Table!Rows, row.record.key = f.key,
           NEW passed, \A e : e \in passed <=> e \in kept /\ e.key < f.key,
           NEW more, more = passed \cup {f}
    PROVE  /\ RecordsOf(more) = RecordsOf(passed) \cup {row.record}
           /\ row.record \notin RecordsOf(passed)
           /\ \A other \in RowRecords : other.key < f.key => other \in RecordsOf(passed)
<1>2. row.record \in RowRecords
    BY DEF RowRecords
<1>3. \A other \in RowRecords : other.key = f.key => other = row.record
    BY DEF RowRecords, UniqueKeys
<1>4. f.key \notin KeysIn(passed)
    BY DEF KeysIn
<1>5. KeysIn(more) = KeysIn(passed) \cup {f.key}
    BY DEF KeysIn
<1>6. RecordsOf(more) = RecordsOf(passed) \cup {row.record}
    BY <1>2, <1>3, <1>5 DEF RecordsOf
<1>7. row.record \notin RecordsOf(passed)
    BY <1>4 DEF RecordsOf
<1>8. ASSUME NEW other \in RowRecords, other.key < f.key
      PROVE  other \in RecordsOf(passed)
  <2>1. other.key \in KeysIn(kept)
    BY DEF RowRecords, RowKeys
  <2>2. PICK e \in kept : e.key = other.key
    BY <2>1 DEF KeysIn
  <2>3. e \in passed
    BY <1>8, <2>2
  <2> QED
    BY <2>2, <2>3 DEF RecordsOf, KeysIn
<1> QED
    BY <1>6, <1>7, <1>8

\* What a step of the scan makes of what has been printed.
LEMMA FetchPrints ==
    ASSUME Constants, KeptQueries, StartsRight, DbInv, UniqueKeys, query \in Queries,
           NEW c, NEW lev, B!Linked(c, lev), RowKeys = KeysIn(B!Kept(c)), HasJudged(c),
           B!Facing(c, cursor), B!NextEntry(cursor) \in B!Kept(c), cursor.pid # B!NoPid,
           NEW row \in Table!Rows, row.record.key = B!NextEntry(cursor).key,
           reply'.row = row, Judge(reply'.row.record)
    PROVE  /\ stmt' \in {"fetch", "endPrint"}
           /\ stmt' = "fetch" =>
                Printed(RecordsOf(B!Passed(c, cursor) \cup {B!NextEntry(cursor)}), answer')
           /\ stmt' = "endPrint" => Printed(RowRecords, answer')
<1>1. PICK f, passed, record :
          f = B!NextEntry(cursor) /\ passed = B!Passed(c, cursor) /\ record = row.record
    OBVIOUS
<1>2. passed = {e \in B!Kept(c) : e.key < f.key} /\ f \in B!Kept(c) /\ record.key = f.key
    BY <1>1 DEF B!Passed
<1>3. /\ RecordsOf(passed \cup {f}) = RecordsOf(passed) \cup {record}
      /\ record \notin RecordsOf(passed)
      /\ \A other \in RowRecords : other.key < f.key => other \in RecordsOf(passed)
  <2>1. PICK kept : kept = B!Kept(c)
    OBVIOUS
  <2>2. \A e \in kept : e.key \in Int
    BY <2>1, CondTypes DEF B!Kept, B!Entry
  <2>3. /\ row.record.key = f.key /\ f \in kept /\ RowKeys = KeysIn(kept)
        /\ \A e : e \in passed <=> e \in kept /\ e.key < f.key
    BY <1>1, <1>2, <2>1
  <2>4. PICK more : more = passed \cup {f}
    OBVIOUS
  <2>5. /\ RecordsOf(more) = RecordsOf(passed) \cup {row.record}
        /\ row.record \notin RecordsOf(passed)
        /\ \A other \in RowRecords : other.key < f.key => other \in RecordsOf(passed)
    BY <2>2, <2>3, <2>4, OneEntryMore
  <2> QED
    BY <1>1, <2>4, <2>5
<1>4. record \in RowRecords /\ record \in Table!Record
    BY <1>1, RowsAre DEF RowRecords, DbInv
<1>5. /\ Verdict(Merged, record) = "print" <=> Matches(record)
      /\ (Verdict(Merged, record) = "stop" /\ record.key >= StartKey(Merged)) =>
            \A other \in RowRecords : Matches(other) => other.key < record.key
    BY <1>4, ScanJudges
<1>6. record.key >= StartKey(Merged)
  <2>1. \A e \in B!Kept(c) : e.key \in Int
    BY CondTypes DEF B!Kept, B!Entry
  <2>2. ~ (f.key < StartKey(Merged))
    BY <1>1, <1>2, <2>1 DEF HasJudged
  <2>3. StartKey(Merged) \in Int
    BY StartKeyIsInt DEF Constants
  <2> QED
    BY <1>2, <2>1, <2>2, <2>3
<1>7. Printed(RecordsOf(passed), answer) /\ answer \in Seq(Table!Record)
    BY <1>1 DEF HasJudged, DbInv, OwnTypes, Table!Record
<1>8. PICK more, done : more = answer' /\ done = RecordsOf(passed)
    OBVIOUS
<1>9. /\ more = IF Verdict(Merged, record) = "print" THEN Append(answer, record) ELSE answer
      /\ stmt' = IF Verdict(Merged, record) = "stop" THEN "endPrint" ELSE "fetch"
    BY <1>1, <1>8 DEF Judge
<1>10. CASE Verdict(Merged, record) # "stop"
  <2>1. Printed(done \cup {record}, more)
    BY <1>3, <1>4, <1>5, <1>7, <1>8, <1>9, PrintedOneMore
  <2> QED
    BY <1>1, <1>3, <1>8, <1>9, <1>10, <2>1
<1>11. CASE Verdict(Merged, record) = "stop"
  <2>1. more = answer /\ stmt' = "endPrint"
    BY <1>9, <1>11
  <2>2. \A other \in RowRecords : Matches(other) => other \in done
    BY <1>2, <1>3, <1>5, <1>6, <1>8, <1>11
  <2>3. PICK all : all = RowRecords
    OBVIOUS
  <2>4. done \subseteq all
    BY <1>8, <2>3 DEF RecordsOf
  <2>5. Printed(all, more)
    BY <1>7, <1>8, <2>1, <2>2, <2>3, <2>4, PrintedTheRest
  <2> QED
    BY <1>8, <2>1, <2>3, <2>5
<1> QED
    BY <1>10, <1>11

LEMMA FetchByIndex ==
    ASSUME Constants, KeptQueries, StartsRight, IOErrors = FALSE, DbInv, IdxInv, Answering,
           UniqueKeys, ByIndex, FetchTuple
    PROVE  ByIndex'
<1>1. /\ stmt = "fetch" /\ pc = "scan" /\ idxMode = "r" /\ query' = query /\ skipped' = skipped
      /\ UNCHANGED <<idxDisk, idxMode, rootPid, treeHeight, pc, ins, path, splitkey, splitpid,
                     newPid, scanKey, scanned, acked, tried, crashes, files>>
      /\ cursor' = B!NextCursor(B!LeafAt(cursor.pid)) /\ query \in Queries /\ treeHeight > 0
    BY SamePages, SameIndexCalls DEF FetchTuple, DbInv, Phases, Answering, Selecting, ByIndex,
       Constants, InstanceConstants
<1>2. PICK fetched \in FetchedRids(B!LeafAt(cursor.pid)) :
        \/ Table!Read(fetched) /\ Judge(reply'.row.record)
        \/ Table!ReadInvalid(fetched) /\ stmt' = "endPrint" /\ answer' = answer
    BY SamePages DEF FetchTuple, Table!ReadFails
<1>3. Table!Rows' = Table!Rows
  <2>1. fetched \in [pid : Int, sid : Int]
    BY SamePages, FetchedAreRids
  <2> QED
    BY <1>2, <2>1, TblReads, TblFailures DEF DbInv
<1>4. stmt' \in {"fetch", "endPrint"}
    BY <1>2 DEF Judge
<1> SUFFICES ASSUME Sound'
             PROVE  /\ stmt' = "fetch" => \E c, lev : B!Linked(c, lev)' /\ HasJudged(c)'
                    /\ stmt' = "endPrint" => Printed(RowRecords, answer)'
    BY <1>1, <1>4 DEF ByIndex
<1>5. Sound
    BY <1>1, <1>3, SameSound
<1>6. PICK c, lev : B!Linked(c, lev) /\ HasJudged(c)
    BY <1>1, <1>5 DEF ByIndex
<1>7. PICK lvl, rng : B!AtRest(c, lev, lvl, rng)
    BY <1>1, <1>5, <1>6, AtRestInSelect DEF Sound
<1>8. B!Linked(c, lev)' /\ B!Kept(c)' = B!Kept(c)
    BY <1>1, <1>6, B!ScanLinked, IndexAssumptions DEF DbInv, B!Chained
<1>9. RowKeys = KeysIn(B!Kept(c))
    BY <1>1, <1>5, <1>6, AllIndexed DEF Sound
<1>10. PICK all, ans : all = RowRecords /\ ans = answer'
    OBVIOUS
<1>11. ASSUME Printed(all, ans) PROVE Printed(RowRecords, answer)'
  <2>1. Printed(all, ans)'
    BY <1>1, <1>3, <1>11, PrintedSame
  <2>2. RowRecords' = all
    BY <1>3, <1>10, SameBefore
  <2> QED
    BY <1>10, <2>1, <2>2 DEF Printed
<1>12. CASE B!Behind(cursor)
  <2>1. stmt' = "endPrint" /\ ans = answer
    BY <1>2, <1>10, <1>12, FetchesNone
  <2>2. B!Passed(c, cursor) = B!Kept(c)
    BY <1>12 DEF B!Behind, B!Passed
  <2>3. RecordsOf(B!Kept(c)) = RowRecords
    BY <1>9 DEF RecordsOf, RowRecords, RowKeys
  <2>4. Printed(all, ans)
    BY <1>6, <1>10, <2>1, <2>2, <2>3 DEF HasJudged
  <2> QED
    BY <1>11, <2>1, <2>4
<1>13. CASE B!Facing(c, cursor)
  <2>1. cursor \in [pid : B!Pid, eid : Nat]
    BY DEF DbInv, B!Chained, B!Typed, B!TypeOK
  <2>2. PICK next : next = cursor'
    OBVIOUS
  <2>3. /\ B!NextEntry(cursor) \in B!Kept(c) /\ cursor.pid # B!NoPid
        /\ B!Behind(next) \/ B!Facing(c, next)
        /\ B!Passed(c, next) = B!Passed(c, cursor) \cup {B!NextEntry(cursor)}
    BY <1>1, <1>7, <1>13, <2>1, <2>2, B!ForwardFaces, IndexAssumptions
  <2>4. /\ Judge(reply'.row.record) /\ reply'.row \in Table!Rows
        /\ reply'.row.record.key = B!NextEntry(cursor).key
    BY <1>1, <1>2, <1>6, <1>13, <2>3, FetchesRow
  <2>5. PICK row : row = reply'.row
    OBVIOUS
  <2>6. /\ stmt' = "fetch" =>
             Printed(RecordsOf(B!Passed(c, cursor) \cup {B!NextEntry(cursor)}), answer')
        /\ stmt' = "endPrint" => Printed(RowRecords, answer')
    BY <1>1, <1>6, <1>9, <1>13, <2>3, <2>4, <2>5, FetchPrints
  <2>7. stmt' = "endPrint" => Printed(RowRecords, answer)'
    BY <1>10, <1>11, <2>6
  <2>8. ASSUME stmt' = "fetch" PROVE HasJudged(c)'
    <3>1. PICK passed, done : passed = B!Passed(c, next) /\ done = RecordsOf(passed)
      OBVIOUS
    <3>2. Printed(done, ans)
      BY <1>10, <2>3, <2>6, <2>8, <3>1
    <3>3. Printed(done, ans)'
      BY <1>1, <1>3, <3>2, PrintedSame
    <3>4. B!Behind(cursor)' \/ B!Facing(c, cursor)'
      BY <1>1, <1>8, <2>2, <2>3, SameCursor
    <3>5. B!Passed(c, cursor)' = passed
      BY <1>1, <1>8, <2>2, <3>1, SameCursor
    <3>6. RecordsOf(B!Passed(c, cursor))' = done
      <4>1. RowRecords' = RowRecords
        BY <1>3, SameBefore
      <4> QED
        BY <3>1, <3>5, <4>1 DEF RecordsOf, KeysIn
    <3>7. Printed(RecordsOf(B!Passed(c, cursor)), answer)'
      BY <1>10, <3>3, <3>6 DEF Printed
    <3>8. {e \in B!Kept(c) : e.key < StartKey(Merged)}' \subseteq B!Passed(c, cursor)'
      <4>1. StartKey(Merged)' = StartKey(Merged)
        BY <1>1, SameMerged
      <4>2. {e \in B!Kept(c) : e.key < StartKey(Merged)} \subseteq passed
        BY <1>6, <2>3, <3>1 DEF HasJudged
      <4> QED
        BY <1>8, <3>5, <4>1, <4>2
    <3> QED
      BY <3>4, <3>7, <3>8 DEF HasJudged
  <2> QED
    BY <1>8, <2>7, <2>8
<1> QED
    BY <1>6, <1>12, <1>13 DEF HasJudged

\* Nothing moves.
LEMMA StayByIndex ==
    ASSUME Constants, DbInv, ByIndex, UNCHANGED vars
    PROVE  ByIndex'
<1>1. /\ UNCHANGED <<idxDisk, idxMode, rootPid, treeHeight, pc, ins, acked, tried, crashes>>
      /\ UNCHANGED <<stmt, files, query, answer, skipped>>
      /\ cursor' = cursor /\ Table!Rows' = Table!Rows
    BY TblUnchanged DEF vars, tableVars, indexVars, selectVars, DbInv
<1>2. Sound' <=> Sound
    BY <1>1, SameSound
<1>3. PICK all, ans : all = RowRecords /\ ans = answer
    OBVIOUS
<1>4. RowRecords' = all
    BY <1>1, <1>3, SameBefore
<1>5. Printed(RowRecords, answer)' <=> Printed(RowRecords, answer)
  <2>1. Printed(all, ans)' <=> Printed(all, ans)
    BY <1>1, PrintedSame
  <2>2. Printed(RowRecords, answer)' <=> Printed(all, ans)'
    BY <1>1, <1>3, <1>4 DEF Printed
  <2> QED
    BY <1>3, <2>1, <2>2
<1>6. ASSUME stmt = "fetch", Sound
      PROVE  \E c, lev : B!Linked(c, lev)' /\ HasJudged(c)'
  <2>1. PICK c, lev : B!Linked(c, lev) /\ HasJudged(c)
    BY <1>6 DEF ByIndex
  <2>2. pc \in {"idle", "scan", "scanEnd"}
    BY <1>6 DEF DbInv, Phases
  <2>3. B!Linked(c, lev)' /\ B!Kept(c)' = B!Kept(c)
    BY <1>1, <2>1, <2>2, B!ScanLinked, IndexAssumptions DEF DbInv, B!Chained
  <2>4. PICK cur : cur = cursor
    OBVIOUS
  <2>5. PICK passed, done : passed = B!Passed(c, cur) /\ done = RecordsOf(passed)
    OBVIOUS
  <2>6. B!Behind(cursor)' \/ B!Facing(c, cursor)'
    BY <1>1, <2>1, <2>3, <2>4, SameCursor DEF HasJudged
  <2>7. B!Passed(c, cursor)' = passed
    BY <1>1, <2>3, <2>4, <2>5, SameCursor
  <2>8. Printed(done, ans)
    BY <1>3, <2>1, <2>4, <2>5 DEF HasJudged
  <2>9. Printed(done, ans)'
    BY <1>1, <2>8, PrintedSame
  <2>10. RecordsOf(B!Passed(c, cursor))' = done
    BY <1>3, <1>4, <2>5, <2>7 DEF RecordsOf, KeysIn
  <2>11. Printed(RecordsOf(B!Passed(c, cursor)), answer)'
    BY <1>1, <1>3, <2>9, <2>10 DEF Printed
  <2>12. {e \in B!Kept(c) : e.key < StartKey(Merged)}' \subseteq B!Passed(c, cursor)'
    <3>1. StartKey(Merged)' = StartKey(Merged)
      BY <1>1, SameMerged
    <3>2. {e \in B!Kept(c) : e.key < StartKey(Merged)} \subseteq passed
      BY <2>1, <2>4, <2>5 DEF HasJudged
    <3> QED
      BY <2>3, <2>7, <3>1, <3>2
  <2> QED
    BY <2>3, <2>6, <2>11, <2>12 DEF HasJudged
<1> QED
  <2>1. stmt' = "fetch" => treeHeight' > 0
    BY <1>1 DEF ByIndex
  <2>2. (stmt' = "fetch" /\ Sound') => \E c, lev : B!Linked(c, lev)' /\ HasJudged(c)'
    BY <1>1, <1>2, <1>6
  <2>3. (/\ stmt' = "endPrint" \/ (stmt' = "selected" /\ "idx" \in files')
         /\ Sound') => Printed(RowRecords, answer)'
    BY <1>1, <1>2, <1>5 DEF ByIndex
  <2> QED
    BY <2>1, <2>2, <2>3 DEF ByIndex

\* print_tuples returns with what it has printed.
LEMMA EndByIndex ==
    ASSUME Constants, DbInv, ByIndex, PrintTuplesEnds
    PROVE  ByIndex'
<1>1. /\ stmt = "endPrint" /\ stmt' = "selected" /\ Table!Close
      /\ UNCHANGED <<crashes, files, query, answer, skipped>>
    BY DEF PrintTuplesEnds, selectVars
<1>2. Table!Rows' = Table!Rows
    BY <1>1, TblCloses DEF DbInv
<1>3. Sound' => Printed(RowRecords, answer)
    BY <1>1, <1>2, SameSound DEF ByIndex
<1>4. PICK all, ans : all = RowRecords /\ ans = answer
    OBVIOUS
<1>5. RowRecords' = all
    BY <1>2, <1>4, SameBefore
<1>6. Printed(all, ans)' <=> Printed(all, ans)
    BY <1>1, <1>2, PrintedSame
<1>7. Printed(RowRecords, answer)' <=> Printed(all, ans)'
    BY <1>1, <1>4, <1>5 DEF Printed
<1> QED
    BY <1>1, <1>3, <1>4, <1>6, <1>7 DEF ByIndex

LEMMA NextByIndex ==
    ASSUME Constants, KeptQueries, StartsRight, IOErrors = FALSE, DbInv, IdxInv, Answering,
           UniqueKeys, Chosen, ByIndex, [Next]_vars
    PROVE  ByIndex'
<1>1. ASSUME stmt' \notin {"fetch", "endPrint", "selected"} PROVE ByIndex'
    BY <1>1 DEF ByIndex
<1>2. CASE stmt' \notin {"fetch", "endPrint", "selected"}
    BY <1>1, <1>2
<1>3. CASE UNCHANGED vars
    BY <1>3, StayByIndex
<1>4. CASE stmt' \in {"fetch", "endPrint", "selected"} /\ ~ UNCHANGED vars
  <2>1. PrintTuplesLocates \/ PrintTuplesLocatesNone \/ FetchTuple \/ PrintTuplesEnds \/ EndScan
    BY <1>4 DEF Next, EngineStep, LoadOpensTable, LoadFindsNoTable, SelectOpensIndex,
       SelectOpensTable, Quit, Crash, Gone, LoadOpensIndex, LoadIgnoresOpen, LoadLine,
       LoadFails, LoadReturnsError, LoadInserts, LoadContinuesInsert, EndLoad,
       PrintTuplesOpens, PrintTuplesFindsNoTable, ScanTuple, ScanFails,
       StackOverflows, Prompt
  <2>2. CASE EndScan
    BY <2>2 DEF EndScan, Chosen, ByIndex
  <2> QED
    BY <2>1, <2>2, LocateByIndex, NoneByIndex, FetchByIndex, EndByIndex
<1> QED
    BY <1>2, <1>3, <1>4

(***************************************************************************)
(* The theorems                                                            *)
(***************************************************************************)

LEMMA InitScans == ASSUME Constants, Init PROVE UniqueKeys /\ Chosen /\ ByTable /\ ByIndex
<1>1. stmt = "none" /\ tblDisk = <<>>
    BY DEF Init, Table!Init
<1>2. Table!Rows = {}
  <2>1. 0 .. Table!EndPid - 1 = {}
    BY <1>1 DEF Table!EndPid
  <2> QED
    BY <2>1 DEF Table!Rows
<1> QED
    BY <1>1, <1>2 DEF UniqueKeys, Chosen, ByTable, ByIndex

\* After a SELECT by the table that returns without an error each matching row
\* has been printed once: select reads every slot up to the end and stops at
\* nothing, also when reads of other statements fail.
THEOREM DatabaseTableScanExact ==
    ASSUME InstanceConstants, KeptQueries
    PROVE  Spec => []((stmt = "selected" /\ "idx" \notin files) => Exact)
<1>0. Constants
    BY AssumedConstants
<1> DEFINE Inv == Answering /\ UniqueKeys /\ Chosen /\ ByTable
<1>1. Init => Inv
    BY <1>0, InitScans DEF Init, Answering, Selecting
<1>2. DbInv /\ Inv /\ [Next]_vars => Inv'
    BY <1>0, NextAnswering, NextUnique, NextChosen, NextByTable
<1>3. ASSUME DbInv, Inv PROVE (stmt = "selected" /\ "idx" \notin files) => Exact
  <2>1. answer \in Seq(Table!Record)
    BY <1>3 DEF DbInv, OwnTypes, Table!Record
  <2> QED
    BY <1>3, <2>1, PrintedIsExact DEF ByTable, Exact
<1> HIDE DEF Inv
<1> QED
    BY <1>1, <1>2, <1>3, DatabaseInvariant, PTL DEF Spec

\* After a SELECT that has opened its table and returned 0 each matching row
\* has been printed once and no other, by the table or by the index: locate
\* fails only if there is no row, it passes only rows that do not match,
\* readForward passes the others one by one, the rid of each entry is the row
\* with its key, and the scan stops where no row after it can match.
THEOREM DatabaseSelectExact ==
    ASSUME InstanceConstants, KeptQueries, StartsRight, IOErrors = FALSE
    PROVE  Spec => []SelectExact
<1>0. Constants
    BY AssumedConstants
<1> DEFINE Inv == IdxInv /\ Answering /\ UniqueKeys /\ Chosen /\ ByTable /\ ByIndex
<1>1. Init => Inv
    BY <1>0, InitScans, InitIdxInv DEF Init, Answering, Selecting
<1>2. DbInv /\ Inv /\ [Next]_vars => Inv'
    BY <1>0, NextIdxInv, NextAnswering, NextUnique, NextChosen, NextByTable, NextByIndex
<1>3. ASSUME DbInv, Inv PROVE SelectExact
  <2>1. answer \in Seq(Table!Record)
    BY <1>3 DEF DbInv, OwnTypes, Table!Record
  <2>2. (stmt = "selected" /\ ("idx" \in files => Sound)) => Printed(RowRecords, answer)
    BY <1>3 DEF ByTable, ByIndex
  <2> QED
    BY <2>1, <2>2, PrintedIsExact DEF SelectExact, Indexed, Exact, Sound
<1> HIDE DEF Inv
<1> QED
    BY <1>1, <1>2, <1>3, DatabaseInvariant, PTL DEF Spec

=============================================================================
