--------------------------- MODULE BTreeIndexProofs ---------------------------
(***************************************************************************)
(* Theorems about BTreeIndex, for any node capacities, keys and records.    *)
(***************************************************************************)
EXTENDS BTreeIndex, MinLemmas, SequenceTheorems

(***************************************************************************)
(* Sequences and slots                                                     *)
(***************************************************************************)

\* A shift and an insertion: what _insert does to the entries of a node.
LEMMA InsertAtProperties ==
    ASSUME NEW S, NEW s \in Seq(S), NEW i \in 1 .. Len(s) + 1, NEW e \in S
    PROVE  /\ InsertAt(s, i, e) \in Seq(S)
           /\ Len(InsertAt(s, i, e)) = Len(s) + 1
           /\ \A j \in 1 .. Len(s) + 1 :
                InsertAt(s, i, e)[j] =
                    IF j < i THEN s[j] ELSE IF j = i THEN e ELSE s[j - 1]
<1> DEFINE left  == SubSeq(s, 1, i - 1)
           right == SubSeq(s, i, Len(s))
<1>1. Len(s) \in Nat /\ i \in Int
    OBVIOUS
<1>2. \A j \in 1 .. Len(s) : s[j] \in S
    BY ElementOfSeq
<1>3. /\ left \in Seq(S)
      /\ Len(left) = i - 1
      /\ \A j \in 1 .. i - 1 : left[j] = s[j]
    BY <1>1, <1>2, SubSeqProperties
<1>4. /\ right \in Seq(S)
      /\ Len(right) = Len(s) - i + 1
      /\ \A j \in 1 .. Len(s) - i + 1 : right[j] = s[i + j - 1]
    BY <1>1, <1>2, SubSeqProperties
<1> DEFINE mid  == <<e>>
           begin == left \o mid
<1>5. mid \in Seq(S) /\ Len(mid) = 1 /\ mid[1] = e
    OBVIOUS
<1>6. InsertAt(s, i, e) = begin \o right
    BY DEF InsertAt
<1> HIDE DEF left, right, mid
<1>7. /\ begin \in Seq(S)
      /\ Len(begin) = Len(left) + Len(mid)
      /\ \A j \in 1 .. Len(left) + Len(mid) :
            begin[j] = IF j <= Len(left) THEN left[j] ELSE mid[j - Len(left)]
    BY <1>3, <1>5, ConcatProperties
<1> HIDE DEF begin
<1>8. Len(begin) = i /\ begin[i] = e /\ \A j \in 1 .. i - 1 : begin[j] = s[j]
    BY <1>1, <1>3, <1>5, <1>7
<1>9. /\ begin \o right \in Seq(S)
      /\ Len(begin \o right) = Len(begin) + Len(right)
      /\ \A j \in 1 .. Len(begin) + Len(right) :
            (begin \o right)[j] = IF j <= Len(begin) THEN begin[j]
                                                  ELSE right[j - Len(begin)]
  <2>1. begin \in Seq(S) /\ right \in Seq(S)
    BY <1>4, <1>7
  <2> QED
    BY <2>1, ConcatProperties
<1>10. Len(begin \o right) = Len(s) + 1
    BY <1>1, <1>4, <1>8, <1>9
<1>11. ASSUME NEW j \in 1 .. Len(s) + 1
       PROVE  (begin \o right)[j] =
                  IF j < i THEN s[j] ELSE IF j = i THEN e ELSE s[j - 1]
  <2>1. (begin \o right)[j] = IF j <= i THEN begin[j] ELSE right[j - i]
    BY <1>1, <1>4, <1>8, <1>9
  <2>2. CASE j <= i
    BY <1>1, <1>8, <2>1, <2>2
  <2>3. CASE j > i
    <3>1. j - i \in 1 .. Len(s) - i + 1 /\ i + (j - i) - 1 = j - 1
      BY <1>1, <2>3
    <3>2. right[j - i] = s[j - 1]
      BY <1>4, <3>1
    <3> QED
      BY <1>1, <2>1, <2>3, <3>2
  <2>4. j <= i \/ j > i
    BY <1>1
  <2> QED
    BY <2>2, <2>3, <2>4
<1> QED
    BY <1>6, <1>9, <1>10, <1>11

\* The scans of the nodes stop at a slot, at the latest behind the last one.
LEMMA FirstOrEnd ==
    ASSUME NEW n \in Nat, NEW stops \in SUBSET (1 .. n)
    PROVE  /\ Min(stops \cup {n + 1}) \in 1 .. n + 1
           /\ Min(stops \cup {n + 1}) \in stops \cup {n + 1}
           /\ \A i \in stops : Min(stops \cup {n + 1}) <= i
<1> DEFINE all == stops \cup {n + 1}
<1>1. all \in SUBSET Nat /\ all # {} /\ all \subseteq 1 .. n + 1
    OBVIOUS
<1>2. Min(all) \in all /\ \A i \in all : Min(all) <= i
    BY <1>1, MinOfNaturals
<1> QED
    BY <1>1, <1>2

LEMMA LeafSlotInRange ==
    ASSUME NEW entries \in Seq(Entry), NEW key
    PROVE  LeafSlot(entries, key) \in 1 .. Len(entries) + 1
<1> DEFINE stops == {i \in 1 .. Len(entries) : key < entries[i].key
                                               \/ entries[i].key = EndKey}
<1>1. Len(entries) \in Nat /\ stops \in SUBSET (1 .. Len(entries))
    OBVIOUS
<1>2. LeafSlot(entries, key) = Min(stops \cup {Len(entries) + 1})
    BY DEF LeafSlot
<1> HIDE DEF stops
<1> QED
    BY <1>1, <1>2, FirstOrEnd, ZenonT(60)

LEMMA NonLeafSlotInRange ==
    ASSUME NEW keys \in Seq(Key), NEW key
    PROVE  NonLeafSlot(keys, key) \in 1 .. Len(keys) + 1
<1> DEFINE stops == {i \in 1 .. Len(keys) : key < keys[i] \/ keys[i] = EndKey}
<1>1. Len(keys) \in Nat /\ stops \in SUBSET (1 .. Len(keys))
    OBVIOUS
<1>2. NonLeafSlot(keys, key) = Min(stops \cup {Len(keys) + 1})
    BY DEF NonLeafSlot
<1> HIDE DEF stops
<1> QED
    BY <1>1, <1>2, FirstOrEnd, ZenonT(60)

LEMMA LeafPutEntries ==
    ASSUME NEW entries \in Seq(Entry), NEW e \in Entry
    PROVE  LeafPut(entries, e) \in Seq(Entry)
           /\ Len(LeafPut(entries, e)) = Len(entries) + 1
BY LeafSlotInRange, InsertAtProperties DEF LeafPut

\* Half of something is less than all of it.
LEMMA HalfInRange ==
    ASSUME NEW S, NEW s \in Seq(S), s # <<>>
    PROVE  Half(s) \in 0 .. Len(s) - 1
BY EmptySeq DEF Half

(***************************************************************************)
(* Nodes                                                                   *)
(***************************************************************************)

LEMMA LeafInsertTyped ==
    ASSUME NEW leaf \in LeafPage, NEW e \in Entry
    PROVE  LeafInsert(leaf, e) \in LeafPage
BY LeafPutEntries DEF LeafInsert, LeafPage

\* A split leaves two leaves, the upper one with an entry.
LEMMA LeafSplitTyped ==
    ASSUME NEW leaf \in LeafPage, NEW e \in Entry
    PROVE  /\ LowerHalf(leaf, e) \in LeafPage
           /\ UpperHalf(leaf, e) \in LeafPage
           /\ SiblingKey(leaf, e) \in Key
<1> DEFINE all == LeafPut(leaf.entries, e)
           lower == SubSeq(all, 1, Half(all))
           upper == SubSeq(all, Half(all) + 1, Len(all))
<1>1. leaf.entries \in Seq(Entry) /\ leaf.next \in Pid /\ NoPid \in Pid
    BY DEF LeafPage, Pid
<1>2. all \in Seq(Entry) /\ Len(all) = Len(leaf.entries) + 1
    BY <1>1, LeafPutEntries
<1>3. Len(leaf.entries) \in Nat
    BY <1>1
<1>4. all # <<>> /\ Half(all) \in 0 .. Len(all) - 1
    BY <1>2, <1>3, EmptySeq, HalfInRange
<1>5. \A i \in 1 .. Len(all) : all[i] \in Entry
    BY <1>2, ElementOfSeq
<1>6. lower \in Seq(Entry)
    BY <1>2, <1>4, <1>5, SubSeqProperties
<1>7. upper \in Seq(Entry) /\ Len(upper) = Len(all) - Half(all)
    BY <1>2, <1>4, <1>5, SubSeqProperties
<1>8. upper[1] \in Entry
    BY <1>2, <1>4, <1>7, ElementOfSeq
<1>9. LowerHalf(leaf, e) \in LeafPage
    BY <1>1, <1>6 DEF LowerHalf, Leaf, LeafPage
<1>10. UpperHalf(leaf, e) \in LeafPage /\ UpperHalf(leaf, e).entries = upper
    BY <1>1, <1>7 DEF UpperHalf, Leaf, LeafPage
<1>11. SiblingKey(leaf, e) \in Key
    BY <1>8, <1>10 DEF SiblingKey, Entry
<1> QED
    BY <1>9, <1>10, <1>11

\* The nonleaf nodes a read can give: those of pages, and the empty buffer.
NonLeafNode == NonLeafPage \cup {EmptyNonLeaf}

LEMMA NonLeafNodeParts ==
    ASSUME NEW node \in NonLeafNode
    PROVE  /\ node.keys \in Seq(Key) /\ node.pids \in Seq(Pid)
           /\ NonLeafKeyCount(node) \in Nat
           /\ NonLeafKeyCount(node) # 0 =>
                /\ Len(node.keys) = NonLeafKeyCount(node)
                /\ Len(node.pids) = Len(node.keys) + 1
<1>1. node.keys \in Seq(Key) /\ node.pids \in Seq(Pid)
  <2>1. CASE node \in NonLeafPage
    BY <2>1 DEF NonLeafPage
  <2>2. CASE node = EmptyNonLeaf
    <3>1. node.keys = <<>> /\ node.pids = <<>>
      BY <2>2 DEF EmptyNonLeaf, NonLeaf
    <3> QED
      BY <3>1
  <2> QED
    BY <2>1, <2>2 DEF NonLeafNode
<1>2. node.pids # <<>> => Len(node.pids) \in Nat \ {0}
    BY <1>1, EmptySeq
<1>3. NonLeafKeyCount(node) # 0 =>
          /\ Len(node.keys) = NonLeafKeyCount(node)
          /\ Len(node.pids) = Len(node.keys) + 1
    BY <1>1, <1>2 DEF NonLeafNode, NonLeafPage, EmptyNonLeaf, NonLeaf, NonLeafKeyCount
<1> QED
    BY <1>1, <1>2, <1>3 DEF NonLeafKeyCount

\* What _insert leaves in a nonleaf node: one pid more than keys, or the first
\* slot of a node that had no keys.
LEMMA NonLeafPutTyped ==
    ASSUME NEW node \in NonLeafNode, NEW key \in Key, NEW pid \in Pid
    PROVE  /\ NonLeafPut(node, key, pid) \in NonLeafPage
           /\ NonLeafPut(node, key, pid).keys # <<>>
           /\ NonLeafKeyCount(node) # 0 =>
                /\ Len(NonLeafPut(node, key, pid).keys) >= NonLeafKeyCount(node)
                /\ Len(NonLeafPut(node, key, pid).pids) =
                       Len(NonLeafPut(node, key, pid).keys) + 1
<1> DEFINE put == NonLeafPut(node, key, pid)
           i   == NonLeafSlot(node.keys, key)
<1>1. node.keys \in Seq(Key) /\ node.pids \in Seq(Pid)
      /\ NonLeafKeyCount(node) \in Nat
    BY NonLeafNodeParts
<1>2. i \in 1 .. Len(node.keys) + 1 /\ Len(node.keys) \in Nat
    BY <1>1, NonLeafSlotInRange
<1>3. CASE NonLeafKeyCount(node) = 0
  <2>1. put = NonLeaf(<<key>>, <<pid>>)
    BY <1>3 DEF NonLeafPut
  <2>2. <<key>> \in Seq(Key) /\ <<pid>> \in Seq(Pid)
        /\ Len(<<key>>) = 1 /\ Len(<<pid>>) = 1 /\ <<key>> # <<>>
    OBVIOUS
  <2> QED
    BY <1>3, <2>1, <2>2 DEF NonLeaf, NonLeafPage
<1>4. CASE NonLeafKeyCount(node) # 0
  <2>1. /\ Len(node.keys) = NonLeafKeyCount(node)
        /\ Len(node.pids) = Len(node.keys) + 1
        /\ node \in [kind : {"nonleaf"}, keys : Seq(Key), pids : Seq(Pid)]
    BY <1>4, NonLeafNodeParts DEF NonLeafNode, NonLeafPage, EmptyNonLeaf, NonLeaf,
       NonLeafKeyCount
  <2>2. SUFFICES /\ put \in [kind : {"nonleaf"}, keys : Seq(Key), pids : Seq(Pid)]
                 /\ Len(put.keys) >= Len(node.keys)
                 /\ Len(put.pids) = Len(put.keys) + 1
                 /\ put.keys # <<>>
      BY <2>1 DEF NonLeafPage
  <2>3. CASE i <= Len(node.keys) /\ ~ (key < node.keys[i])
    <3>1. put = [node EXCEPT !.keys[i] = key, !.pids[i + 1] = pid]
      BY <1>4, <2>3 DEF NonLeafPut
    <3> DEFINE keys == [node.keys EXCEPT ![i] = key]
               pids == [node.pids EXCEPT ![i + 1] = pid]
    <3>2. keys \in Seq(Key) /\ Len(keys) = Len(node.keys)
      BY <1>1, <1>2, <2>3, ExceptSeq
    <3>3. pids \in Seq(Pid) /\ Len(pids) = Len(node.pids)
      BY <1>1, <1>2, <2>1, <2>3, ExceptSeq
    <3>4. put.kind = node.kind /\ put.keys = keys /\ put.pids = pids
          /\ put \in [kind : {"nonleaf"}, keys : Seq(Key), pids : Seq(Pid)]
      BY <2>1, <3>1, <3>2, <3>3
    <3> QED
      BY <1>2, <2>1, <2>3, <3>2, <3>3, <3>4, EmptySeq
  <2>4. CASE ~ (i <= Len(node.keys) /\ ~ (key < node.keys[i]))
    <3> DEFINE keys == InsertAt(node.keys, i, key)
               pids == InsertAt(node.pids, i + 1, pid)
    <3>1. put = [node EXCEPT !.keys = keys, !.pids = pids]
      BY <1>4, <2>4 DEF NonLeafPut
    <3>2. keys \in Seq(Key) /\ Len(keys) = Len(node.keys) + 1
      <4> HIDE DEF i
      <4> QED
        BY <1>1, <1>2, InsertAtProperties
    <3>3. pids \in Seq(Pid) /\ Len(pids) = Len(node.pids) + 1
      <4>1. i + 1 \in 1 .. Len(node.pids) + 1
        BY <1>2, <2>1
      <4> HIDE DEF i
      <4> QED
        BY <1>1, <4>1, InsertAtProperties
    <3>4. put.keys = keys /\ put.pids = pids
          /\ put \in [kind : {"nonleaf"}, keys : Seq(Key), pids : Seq(Pid)]
      BY <2>1, <3>1, <3>2, <3>3
    <3> QED
      BY <1>2, <2>1, <3>2, <3>3, <3>4, EmptySeq
  <2> QED
    BY <2>3, <2>4
<1> QED
    BY <1>3, <1>4

\* The lower node and the middle key of a split need a key; the upper node
\* needs two, which a full node has.
LEMMA NonLeafSplitTyped ==
    ASSUME NEW node \in NonLeafNode, NEW key \in Key, NEW pid \in Pid
    PROVE  /\ MidKey(node, key, pid) \in Key
           /\ LowerNode(node, key, pid) \in NonLeafPage
           /\ NonLeafIsFull(node) => UpperNode(node, key, pid) \in NonLeafPage
<1> DEFINE all == NonLeafPut(node, key, pid)
           h   == Half(all.keys)
<1>1. /\ all \in NonLeafPage /\ all.keys # <<>>
      /\ all.keys \in Seq(Key) /\ all.pids \in Seq(Pid)
    BY NonLeafPutTyped DEF NonLeafPage
<1>2. Len(all.keys) \in Nat /\ h \in 0 .. Len(all.keys) - 1
    BY <1>1, HalfInRange
<1>3. /\ \A i \in 1 .. Len(all.keys) : all.keys[i] \in Key
      /\ \A i \in 1 .. Len(all.pids) : all.pids[i] \in Pid
    BY <1>1, ElementOfSeq
<1>4. \/ Len(all.pids) = Len(all.keys) + 1
      \/ Len(all.pids) = 1 /\ Len(all.keys) = 1
    BY <1>1 DEF NonLeafPage
<1>5. MidKey(node, key, pid) \in Key
    BY <1>2, <1>3 DEF MidKey
<1>6. LowerNode(node, key, pid) \in NonLeafPage
  <2> DEFINE keys == SubSeq(all.keys, 1, h)
             pids == SubSeq(all.pids, 1, h + 1)
  <2>1. keys \in Seq(Key) /\ Len(keys) = h
    BY <1>2, <1>3, SubSeqProperties
  <2>2. h + 1 <= Len(all.pids)
    <3> HIDE DEF h, all
    <3> QED
      BY <1>2, <1>4
  <2>3. pids \in Seq(Pid) /\ Len(pids) = h + 1
    BY <1>2, <1>3, <2>2, SubSeqProperties
  <2> QED
    BY <2>1, <2>3 DEF LowerNode, NonLeaf, NonLeafPage
<1>7. ASSUME NonLeafIsFull(node)
      PROVE  UpperNode(node, key, pid) \in NonLeafPage
  <2> DEFINE n    == Len(all.keys)
             keys == SubSeq(all.keys, h + 2, n)
             pids == SubSeq(all.pids, h + 2, Len(all.pids))
  <2>1. n >= 2 /\ Len(all.pids) = n + 1
    BY <1>2, <1>7, NonLeafPutTyped, NonLeafCapacity DEF NonLeafIsFull
  <2>2. h + 1 <= n
    BY <1>2
  <2>3. keys \in Seq(Key) /\ Len(keys) = n - h - 1
    BY <1>2, <1>3, <2>2, SubSeqProperties
  <2>4. pids \in Seq(Pid) /\ Len(pids) = n - h
    BY <1>2, <1>3, <2>1, <2>2, SubSeqProperties, SMTT(30)
  <2>5. UpperNode(node, key, pid) = NonLeaf(keys, pids)
    BY DEF UpperNode
  <2>6. Len(pids) = Len(keys) + 1
    <3> HIDE DEF h, keys, pids, all
    <3> QED
      BY <1>2, <2>3, <2>4
  <2> HIDE DEF keys, pids
  <2> QED
    BY <2>3, <2>4, <2>5, <2>6 DEF NonLeaf, NonLeafPage
<1> QED
    BY <1>5, <1>6, <1>7

LEMMA ChildTyped ==
    ASSUME NEW node \in NonLeafNode, NEW key
    PROVE  LocateChildPtr(node, key) \in Pid
<1>1. node.pids \in Seq(Pid)
    BY NonLeafNodeParts
<1>2. \A i \in DOMAIN node.pids : node.pids[i] \in Pid
    BY <1>1, ElementOfSeq
<1> QED
    BY <1>2 DEF LocateChildPtr, Pid

(***************************************************************************)
(* Pages                                                                   *)
(***************************************************************************)

LEMMA PageAtTyped ==
    ASSUME disk \in Seq(Page), NEW pid
    PROVE  PageAt(pid) \in Page
<1>1. Blank \in Page
    BY DEF Page
<1>2. ASSUME pid \in 0 .. EndPid - 1 PROVE disk[pid + 1] \in Page
  <2>1. pid + 1 \in 1 .. Len(disk)
    BY <1>2 DEF EndPid
  <2> QED
    BY <2>1, ElementOfSeq
<1> QED
    BY <1>1, <1>2 DEF PageAt

LEMMA LeafAtTyped ==
    ASSUME disk \in Seq(Page), NEW pid
    PROVE  LeafAt(pid) \in LeafPage
<1>1. PageAt(pid).kind = "leaf" => PageAt(pid) \in LeafPage
    BY PageAtTyped DEF Page, NonLeafPage, MetaPage, Blank
<1>2. EmptyLeaf \in LeafPage
    BY DEF EmptyLeaf, Leaf, LeafPage, Pid
<1> QED
    BY <1>1, <1>2 DEF LeafAt

LEMMA NonLeafAtTyped ==
    ASSUME disk \in Seq(Page), NEW pid
    PROVE  NonLeafAt(pid) \in NonLeafNode
<1>1. PageAt(pid).kind = "nonleaf" => PageAt(pid) \in NonLeafPage
    BY PageAtTyped DEF Page, LeafPage, MetaPage, Blank
<1> QED
    BY <1>1 DEF NonLeafAt, NonLeafNode

LEMMA WritePageTyped ==
    ASSUME disk \in Seq(Page), NEW pid, NEW page \in Page, WritePage(pid, page)
    PROVE  disk' \in Seq(Page) /\ Len(disk') = Len(disk)
           /\ (disk' = <<>> <=> disk = <<>>)
<1>1. CASE pid \in 0 .. EndPid - 1
  <2>1. pid + 1 \in 1 .. Len(disk)
    BY <1>1 DEF EndPid
  <2>2. disk' = [disk EXCEPT ![pid + 1] = page]
    BY <1>1 DEF WritePage
  <2> QED
    BY <2>1, <2>2, ExceptSeq, EmptySeq
<1>2. CASE pid \notin 0 .. EndPid - 1
    BY <1>2 DEF WritePage
<1> QED
    BY <1>1, <1>2

LEMMA FetchTyped ==
    ASSUME disk \in Seq(Page), FetchNewPage
    PROVE  /\ disk' \in Seq(Page) /\ Len(disk') = Len(disk) + 1 /\ disk' # <<>>
           /\ EndPid \in Nat /\ (disk # <<>> => EndPid \in Pid)
           /\ \A pid \in 0 .. EndPid - 1 : PageAt(pid)' = PageAt(pid)
<1>1. Blank \in Page
    BY DEF Page
<1>2. disk' = Append(disk, Blank)
    BY DEF FetchNewPage
<1>3. /\ disk' \in Seq(Page) /\ Len(disk') = Len(disk) + 1
      /\ \A i \in 1 .. Len(disk) : disk'[i] = disk[i]
    BY <1>1, <1>2, AppendProperties
<1>4. Len(disk) \in Nat
    OBVIOUS
<1>5. disk' # <<>> /\ (disk # <<>> => EndPid \in Pid)
    BY <1>3, <1>4, EmptySeq DEF EndPid, Pid
<1>6. \A pid \in 0 .. EndPid - 1 : PageAt(pid)' = PageAt(pid)
    BY <1>3, <1>4 DEF PageAt, EndPid
<1> QED
    BY <1>3, <1>4, <1>5, <1>6 DEF EndPid

\* The function in FindLeaf exists: a descent takes one step for each level.
LEMMA DescentExists ==
    ASSUME NEW key, NEW n \in Nat
    PROVE  \E f : f = [d \in 1 .. n |->
                          IF d = 1 THEN rootPid
                                   ELSE LocateChildPtr(NonLeafAt(f[d - 1]), key)]
<1> DEFINE Step(f, d) == IF d = 1 THEN rootPid
                                  ELSE LocateChildPtr(NonLeafAt(f[d - 1]), key)
           Is(f, k)   == f = [d \in 1 .. k |-> Step(f, d)]
           bad        == {k \in Nat : \A f : ~ Is(f, k)}
<1>1. ASSUME NEW k \in Nat, k \notin bad PROVE \E f : Is(f, k)
  <2> HIDE DEF Is
  <2> QED
    BY <1>1
<1>2. SUFFICES bad = {}
  <2>1. \E f : Is(f, n)
    <3> HIDE DEF Is
    <3> QED
      BY <1>1, <1>2
  <2> QED
    BY <2>1
<1>3. SUFFICES ASSUME bad # {} PROVE FALSE
    OBVIOUS
<1> DEFINE m == Min(bad)
<1>4. m \in bad /\ \A other \in bad : m <= other
  <2>1. bad \in SUBSET Nat
      OBVIOUS
  <2> HIDE DEF bad
  <2> QED
    BY <1>3, <2>1, MinOfNaturals
<1> HIDE DEF m
<1>5. m \in Nat /\ \A f : ~ Is(f, m)
  <2> HIDE DEF Is
  <2> QED
    BY <1>4
<1>6. CASE m = 0
  <2>1. Is(<<>>, 0)
    OBVIOUS
  <2> QED
    BY <1>5, <1>6, <2>1
<1>7. CASE m # 0
  <2>1. m - 1 \in Nat /\ ~ (m <= m - 1)
    BY <1>5, <1>7
  <2>2. m - 1 \notin bad
    BY <1>4, <2>1
  <2>3. \E f : Is(f, m - 1)
    <3> HIDE DEF Is, bad
    <3> QED
      BY <1>1, <2>1, <2>2
  <2>4. PICK f : Is(f, m - 1)
    <3> HIDE DEF Is
    <3> QED
      BY <2>3
  <2> DEFINE g == [d \in 1 .. m |-> IF d = m THEN Step(f, m) ELSE f[d]]
  <2>5. \A d \in 1 .. m : d # 1 => g[d - 1] = f[d - 1]
    BY <1>5
  <2>6. \A d \in 1 .. m : g[d] = Step(f, d)
    BY <1>5, <2>4
  <2>7. \A d \in 1 .. m : Step(g, d) = Step(f, d)
    BY <2>5
  <2>8. Is(g, m)
    BY <2>6, <2>7
  <2> QED
    BY <1>5, <2>8
<1> QED
    BY <1>6, <1>7

LEMMA FindLeafIsPid ==
    ASSUME disk \in Seq(Page), rootPid \in Pid, treeHeight \in Nat \ {0}, NEW key
    PROVE  FindLeaf(key) \in Pid
<1> DEFINE Is(f) == f = [d \in 1 .. treeHeight |->
                            IF d = 1 THEN rootPid
                                     ELSE LocateChildPtr(NonLeafAt(f[d - 1]), key)]
           pid   == CHOOSE f : Is(f)
<1>1. Is(pid)
    BY DescentExists
<1>2. FindLeaf(key) = pid[treeHeight]
    BY DEF FindLeaf
<1> HIDE DEF pid
<1>3. treeHeight \in 1 .. treeHeight
    OBVIOUS
<1>4. pid[treeHeight] = IF treeHeight = 1 THEN rootPid
                        ELSE LocateChildPtr(NonLeafAt(pid[treeHeight - 1]), key)
    BY <1>1, <1>3
<1> QED
    BY <1>2, <1>4, NonLeafAtTyped, ChildTyped

(***************************************************************************)
(* The inductive invariant                                                 *)
(***************************************************************************)

\* What the steps rely on beyond the types:
\*   - a call runs only on an open index, and only one whose height is 0 has
\*     no page, so that the first page fetched for a node is never page 0;
\*   - past the descent the height is a real one, not the -1 of a 0xff page;
\*   - an insert has an entry, a split has a key to hand on, and a frame that
\*     works on a node is on the path;
\*   - a nonleaf about to be split is full, so that its upper half has a key
\*     to begin with.
Running ==
    /\ mode = "none" => pc = "idle"
    /\ mode # "none" => (treeHeight = 0 <=> disk = <<>>)
    /\ pc \notin {"idle", "descend"} => treeHeight > 0
    /\ pc \notin {"idle", "scan", "scanEnd"} => ins \in Entry
    /\ pc \in {"leafNode", "ascend", "nonleafSibling", "nonleafNode", "rootNode"} =>
         splitkey \in Key
    /\ pc \in {"descend", "leafSibling", "leafNode", "nonleafSibling", "nonleafNode"} =>
         path # <<>>
    /\ pc = "nonleafSibling" => NonLeafIsFull(NonLeafAt(NodePid))
Typed == TypeOK /\ Running

LEMMA InitTyped == Init => Typed
<1>1. /\ <<>> \in Seq(Page) /\ <<>> \in Seq(Pid) /\ <<>> \in Seq(Entry)
      /\ NoCursor \in [pid : Pid, eid : Nat]
      /\ NoPid \in Pid
    BY DEF NoCursor, Pid
<1> QED
    BY <1>1, MaxCrashesIsNat DEF Init, Typed, TypeOK, Running

\* The object and the call go, the file stays.
LEMMA ForgetTyped ==
    ASSUME Typed, Forget, disk' = disk, acked' = acked, tried' = tried,
           crashes' \in 0 .. MaxCrashes
    PROVE  Typed'
<1>1. /\ <<>> \in Seq(Pid) /\ <<>> \in Seq(Entry)
      /\ NoCursor \in [pid : Pid, eid : Nat]
      /\ NoPid \in Pid
    BY DEF NoCursor, Pid
<1> QED
    BY <1>1 DEF Forget, NoFrame, NoScan, Typed, TypeOK, Running

LEMMA OpenTyped ==
    ASSUME Typed, NEW m \in {"r", "w"}, Open(m)
    PROVE  Typed'
<1>1. disk # <<>> =>
          ReadRootPid \in Pid /\ ReadTreeHeight \in (Nat \ {0}) \cup {-1}
  <2>1. CASE disk # <<>>
    <3>1. disk[1] \in Page
      BY <2>1, ElementOfSeq, EmptySeq DEF Typed, TypeOK
    <3>2. disk[1].kind = "meta" => disk[1] \in MetaPage
      BY <3>1 DEF Page, LeafPage, NonLeafPage, Blank
    <3> QED
      BY <3>2 DEF ReadRootPid, ReadTreeHeight, MetaPage, Pid
  <2> QED
    BY <2>1
<1>2. rootPid' \in Pid /\ treeHeight' \in Nat \cup {-1}
      /\ (treeHeight' = 0 <=> disk = <<>>)
    BY <1>1 DEF Open, Pid
<1> QED
    BY <1>2 DEF Open, frame, scan, ghost, Typed, TypeOK, Running

LEMMA InsertTyped ==
    ASSUME Typed, NEW e \in Entry, Insert(e) \/ FirstInsert(e)
    PROVE  Typed'
<1>1. e.key \in Key
    BY DEF Entry
<1>2. CASE Insert(e)
    BY <1>1, <1>2 DEF Insert, MayInsert, file, head, scan, Typed, TypeOK, Running
<1>3. CASE FirstInsert(e)
  <2>1. disk' \in Seq(Page) /\ disk' # <<>>
    BY <1>3, FetchTyped DEF FirstInsert, Typed, TypeOK
  <2> QED
    BY <1>1, <1>3, <2>1 DEF FirstInsert, MayInsert, scan, Typed, TypeOK, Running
<1> QED
    BY <1>2, <1>3

LEMMA FetchFirstRootTyped ==
    ASSUME Typed, FetchFirstRoot
    PROVE  Typed'
<1>1. disk' \in Seq(Page) /\ disk' # <<>> /\ EndPid \in Pid
    BY FetchTyped DEF FetchFirstRoot, Typed, TypeOK, Running
<1> QED
    BY <1>1 DEF FetchFirstRoot, frame, scan, ghost, Typed, TypeOK, Running

LEMMA CommitFirstTyped ==
    ASSUME Typed, CommitFirst
    PROVE  Typed'
<1>1. Metadata(rootPid, treeHeight) \in Page
    BY DEF CommitFirst, Typed, TypeOK, Running, Metadata, Page, MetaPage
<1>2. disk' \in Seq(Page) /\ (disk' = <<>> <=> disk = <<>>)
    BY <1>1, WritePageTyped DEF CommitFirst, Typed, TypeOK
<1> QED
    BY <1>2 DEF CommitFirst, head, scan, ghost, Typed, TypeOK, Running

LEMMA DescendTyped ==
    ASSUME Typed, Descend
    PROVE  Typed'
<1> DEFINE child == LocateChildPtr(NonLeafAt(NodePid), ins.key)
<1>1. child \in Pid
    BY NonLeafAtTyped, ChildTyped DEF Typed, TypeOK
<1>2. path' \in Seq(Pid)
  <2> HIDE DEF child
  <2>1. path' = Append(path, child)
    BY DEF Descend, child
  <2> QED
    BY <1>1, <2>1, AppendProperties DEF Typed, TypeOK
<1> QED
    BY <1>2 DEF Descend, file, head, scan, ghost, Typed, TypeOK, Running

\* insert returns to the caller, and the entry is acknowledged.
LEMMA ReturnTyped ==
    ASSUME Typed, Return, pc \notin {"idle", "scan", "scanEnd"},
           disk' \in Seq(Page), disk' # <<>>, mode' = mode, rootPid' = rootPid,
           treeHeight' \in Nat \ {0}, scan' = scan, tried' = tried,
           crashes' = crashes
    PROVE  Typed'
<1>1. <<>> \in Seq(Pid) /\ NoPid \in Pid
    BY DEF Pid
<1>2. acked' \subseteq Entry
    BY DEF Return, Typed, TypeOK, Running
<1> QED
    BY <1>1, <1>2 DEF Return, NoFrame, scan, Typed, TypeOK, Running

\* A descent that has reached the leaf level has a height and a file.
LEMMA AtLeafHasHeight ==
    ASSUME Typed, AtLeaf
    PROVE  treeHeight \in Nat \ {0} /\ disk # <<>>
<1>1. Depth \in Nat \ {0}
    BY EmptySeq DEF AtLeaf, Depth, Typed, TypeOK, Running
<1> QED
    BY <1>1 DEF AtLeaf, Typed, TypeOK, Running

LEMMA InsertInLeafTyped ==
    ASSUME Typed, InsertInLeaf
    PROVE  Typed'
<1>1. LeafInsert(LeafAt(NodePid), ins) \in Page
    BY LeafAtTyped, LeafInsertTyped
    DEF InsertInLeaf, AtLeaf, Typed, TypeOK, Running, Page
<1>2. disk' \in Seq(Page) /\ (disk' = <<>> <=> disk = <<>>)
    BY <1>1, WritePageTyped DEF InsertInLeaf, Typed, TypeOK
<1> QED
    BY <1>2, AtLeafHasHeight, ReturnTyped DEF InsertInLeaf, AtLeaf, head, Typed, TypeOK

LEMMA FetchLeafSiblingTyped ==
    ASSUME Typed, FetchLeafSibling
    PROVE  Typed'
<1>1. disk' \in Seq(Page) /\ disk' # <<>> /\ EndPid \in Pid
    BY AtLeafHasHeight, FetchTyped DEF FetchLeafSibling, Typed, TypeOK
<1> QED
    BY <1>1, AtLeafHasHeight DEF FetchLeafSibling, AtLeaf, head, scan, ghost, Typed, TypeOK, Running

LEMMA WriteLeafSiblingTyped ==
    ASSUME Typed, WriteLeafSibling
    PROVE  Typed'
<1>1. /\ UpperHalf(LeafAt(NodePid), ins) \in Page
      /\ SiblingKey(LeafAt(NodePid), ins) \in Key
    BY LeafAtTyped, LeafSplitTyped DEF WriteLeafSibling, Typed, TypeOK, Running, Page
<1>2. disk' \in Seq(Page) /\ (disk' = <<>> <=> disk = <<>>)
    BY <1>1, WritePageTyped DEF WriteLeafSibling, Typed, TypeOK
<1> QED
    BY <1>1, <1>2 DEF WriteLeafSibling, head, scan, ghost, Typed, TypeOK, Running

\* The path without its last frame.
LEMMA FrontTyped ==
    ASSUME path \in Seq(Pid)
    PROVE  Front(path) \in Seq(Pid)
<1>1. Len(path) \in Nat /\ \A i \in 1 .. Len(path) : path[i] \in Pid
    BY ElementOfSeq
<1> QED
    BY <1>1, SubSeqProperties DEF Front

LEMMA WriteLeafTyped ==
    ASSUME Typed, WriteLeaf
    PROVE  Typed'
<1> DEFINE lower == LowerHalf(LeafAt(NodePid), ins)
           page  == [lower EXCEPT !.next = splitpid]
<1>1. lower \in LeafPage
    BY LeafAtTyped, LeafSplitTyped DEF WriteLeaf, Typed, TypeOK, Running
<1>2. page \in Page
  <2> HIDE DEF lower
  <2> QED
    BY <1>1 DEF Typed, TypeOK, LeafPage, Page
<1>3. disk' \in Seq(Page) /\ (disk' = <<>> <=> disk = <<>>)
  <2>1. WritePage(NodePid, page)
    BY DEF WriteLeaf
  <2> HIDE DEF page
  <2> QED
    BY <1>2, <2>1, WritePageTyped DEF Typed, TypeOK
<1> QED
    BY <1>3, FrontTyped DEF WriteLeaf, head, scan, ghost, Typed, TypeOK, Running

LEMMA InsertInNonLeafTyped ==
    ASSUME Typed, InsertInNonLeaf
    PROVE  Typed'
<1>1. NonLeafPut(NonLeafAt(NodePid), splitkey, splitpid) \in Page
    BY NonLeafAtTyped, NonLeafPutTyped
    DEF InsertInNonLeaf, Typed, TypeOK, Running, Page
<1>2. disk' \in Seq(Page) /\ (disk' = <<>> <=> disk = <<>>)
    BY <1>1, WritePageTyped DEF InsertInNonLeaf, Typed, TypeOK
<1> QED
    BY <1>2, ReturnTyped DEF InsertInNonLeaf, head, Typed, TypeOK, Running

LEMMA FetchNonLeafSiblingTyped ==
    ASSUME Typed, FetchNonLeafSibling
    PROVE  Typed'
<1>1. FetchNewPage /\ path' = path /\ disk \in Seq(Page) /\ disk # <<>>
    BY DEF FetchNonLeafSibling, Typed, TypeOK, Running
<1>2. disk' \in Seq(Page) /\ disk' # <<>> /\ EndPid \in Pid
    BY <1>1, FetchTyped
\* A node that is full is on a page of its own, which the new page leaves alone.
<1>3. NonLeafIsFull(NonLeafAt(NodePid))'
  <2>1. NonLeafIsFull(NonLeafAt(NodePid))
    BY DEF FetchNonLeafSibling
  <2>2. NonLeafAt(NodePid) # EmptyNonLeaf
    BY <2>1, NonLeafCapacity DEF NonLeafIsFull, NonLeafKeyCount, EmptyNonLeaf, NonLeaf
  <2>3. NodePid \in 0 .. EndPid - 1
    BY <2>2 DEF NonLeafAt, PageAt, Blank
  <2>4. PageAt(NodePid)' = PageAt(NodePid)
    <3>1. NodePid' = NodePid
      BY <1>1 DEF NodePid
    <3>2. \A pid \in 0 .. EndPid - 1 : PageAt(pid)' = PageAt(pid)
      BY <1>1, FetchTyped
    <3> QED
      BY <2>3, <3>1, <3>2 DEF PageAt, EndPid
  <2>5. NonLeafAt(NodePid)' = NonLeafAt(NodePid)
    BY <2>4 DEF NonLeafAt
  <2> QED
    BY <2>1, <2>5 DEF NonLeafIsFull
<1> QED
    BY <1>2, <1>3 DEF FetchNonLeafSibling, head, scan, ghost, Typed, TypeOK, Running

LEMMA WriteNonLeafSiblingTyped ==
    ASSUME Typed, WriteNonLeafSibling
    PROVE  Typed'
<1>1. UpperNode(NonLeafAt(NodePid), splitkey, splitpid) \in Page
    BY NonLeafAtTyped, NonLeafSplitTyped
    DEF WriteNonLeafSibling, Typed, TypeOK, Running, Page
<1>2. disk' \in Seq(Page) /\ (disk' = <<>> <=> disk = <<>>)
    BY <1>1, WritePageTyped DEF WriteNonLeafSibling, Typed, TypeOK
<1> QED
    BY <1>2 DEF WriteNonLeafSibling, head, frame, scan, ghost, Typed, TypeOK, Running

LEMMA WriteNonLeafTyped ==
    ASSUME Typed, WriteNonLeaf
    PROVE  Typed'
<1>1. /\ LowerNode(NonLeafAt(NodePid), splitkey, splitpid) \in Page
      /\ MidKey(NonLeafAt(NodePid), splitkey, splitpid) \in Key
    BY NonLeafAtTyped, NonLeafSplitTyped
    DEF WriteNonLeaf, Typed, TypeOK, Running, Page
<1>2. disk' \in Seq(Page) /\ (disk' = <<>> <=> disk = <<>>)
    BY <1>1, WritePageTyped DEF WriteNonLeaf, Typed, TypeOK
<1> QED
    BY <1>1, <1>2, FrontTyped
    DEF WriteNonLeaf, head, scan, ghost, Typed, TypeOK, Running, Pid

LEMMA FetchNewRootTyped ==
    ASSUME Typed, FetchNewRoot
    PROVE  Typed'
<1>1. disk' \in Seq(Page) /\ disk' # <<>> /\ EndPid \in Pid
    BY FetchTyped DEF FetchNewRoot, Typed, TypeOK, Running
<1> QED
    BY <1>1 DEF FetchNewRoot, head, scan, ghost, Typed, TypeOK, Running

LEMMA WriteNewRootTyped ==
    ASSUME Typed, WriteNewRoot
    PROVE  Typed'
<1>1. splitkey \in Key /\ rootPid \in Pid /\ splitpid \in Pid
    BY DEF WriteNewRoot, Typed, TypeOK, Running
<1>2. NewRoot(rootPid, splitkey, splitpid) \in Page
  <2>1. /\ <<splitkey>> \in Seq(Key) /\ Len(<<splitkey>>) = 1
        /\ <<rootPid, splitpid>> \in Seq(Pid) /\ Len(<<rootPid, splitpid>>) = 2
    BY <1>1
  <2> DEFINE keys == <<splitkey>>
             pids == <<rootPid, splitpid>>
  <2>2. NewRoot(rootPid, splitkey, splitpid) = NonLeaf(keys, pids)
    BY DEF NewRoot
  <2>3. keys \in Seq(Key) /\ pids \in Seq(Pid) /\ Len(pids) = Len(keys) + 1
    BY <2>1
  <2> HIDE DEF keys, pids
  <2>4. NonLeaf(keys, pids) \in NonLeafPage
    BY <2>3 DEF NonLeaf, NonLeafPage
  <2> QED
    BY <2>2, <2>4 DEF Page
<1>3. disk' \in Seq(Page) /\ (disk' = <<>> <=> disk = <<>>)
    BY <1>2, WritePageTyped DEF WriteNewRoot, Typed, TypeOK
<1> QED
    BY <1>3 DEF WriteNewRoot, frame, scan, ghost, Typed, TypeOK, Running

LEMMA CommitRootTyped ==
    ASSUME Typed, CommitRoot
    PROVE  Typed'
<1>1. treeHeight' = treeHeight + 1 /\ treeHeight' \in Nat \ {0} /\ disk # <<>>
    BY DEF CommitRoot, Typed, TypeOK, Running
<1>2. Metadata(rootPid, treeHeight') \in Page
    BY <1>1 DEF Typed, TypeOK, Metadata, Page, MetaPage
<1>3. disk' \in Seq(Page) /\ (disk' = <<>> <=> disk = <<>>)
    BY <1>2, WritePageTyped DEF CommitRoot, Typed, TypeOK
<1> QED
    BY <1>1, <1>3, ReturnTyped DEF CommitRoot, Typed, TypeOK

LEMMA LocateTyped ==
    ASSUME Typed, NEW key \in Probes, Locate(key)
    PROVE  Typed'
<1> DEFINE leaf == LeafAt(FindLeaf(key))
           at   == {i \in 1 .. Len(leaf.entries) : leaf.entries[i].key >= key}
<1>1. FindLeaf(key) \in Pid
    BY FindLeafIsPid DEF Locate, Typed, TypeOK
<1>2. Len(leaf.entries) \in Nat
  <2>1. leaf \in LeafPage
    BY LeafAtTyped DEF Typed, TypeOK
  <2> HIDE DEF leaf
  <2> QED
    BY <2>1 DEF LeafPage
<1>3. Min(at \cup {Len(leaf.entries) + 1}) \in 1 .. Len(leaf.entries) + 1
  <2>1. at \in SUBSET (1 .. Len(leaf.entries))
    OBVIOUS
  <2> HIDE DEF at, leaf
  <2> QED
    BY <1>2, <2>1, FirstOrEnd
<1>4. LeafLocate(leaf, key) \in Nat
  <2>1. LeafLocate(leaf, key) = Min(at \cup {Len(leaf.entries) + 1}) - 1
    BY DEF LeafLocate
  <2> HIDE DEF at, leaf
  <2> QED
    BY <1>2, <1>3, <2>1
<1>5. cursor' \in [pid : Pid, eid : Nat]
    BY <1>1, <1>4 DEF Locate
<1>6. <<>> \in Seq(Entry)
    OBVIOUS
<1> QED
    BY <1>5, <1>6, ProbesAreIntegers
    DEF Locate, file, head, frame, ghost, Typed, TypeOK, Running

\* A readForward that goes on returns an entry of the leaf, or again the one it
\* returned last.
LEMMA ReadEntryTyped ==
    ASSUME Typed, NEW leaf \in LeafPage, NEW eid \in Nat,
           NEW e \in ReadEntry(leaf, eid), e.rid # NoRid
    PROVE  e \in Entry
<1>1. leaf.entries \in Seq(Entry)
    BY DEF LeafPage
<1>2. CASE eid >= MAX_LEAF_KEY_COUNT
  <2>1. e \in LeftOver
    BY <1>2 DEF ReadEntry
  <2>2. CASE scanned = <<>>
    BY <2>1, <2>2 DEF LeftOver, NoEntry, Typed, TypeOK
  <2>3. CASE scanned # <<>>
    <3>1. e = scanned[Len(scanned)]
      BY <2>1, <2>3 DEF LeftOver, Last
    <3>2. Len(scanned) \in 1 .. Len(scanned)
      BY <2>3, EmptySeq DEF Typed, TypeOK
    <3> QED
      BY <3>1, <3>2, ElementOfSeq DEF Typed, TypeOK
  <2> QED
    BY <2>2, <2>3
<1>3. CASE eid < MAX_LEAF_KEY_COUNT /\ eid < Len(leaf.entries)
  <2>1. e = leaf.entries[eid + 1]
    BY <1>3, LeafCapacity DEF ReadEntry
  <2>2. eid + 1 \in 1 .. Len(leaf.entries)
    BY <1>1, <1>3
  <2> QED
    BY <1>1, <2>1, <2>2, ElementOfSeq
<1>4. CASE eid < MAX_LEAF_KEY_COUNT /\ ~ (eid < Len(leaf.entries))
    BY <1>4, LeafCapacity DEF ReadEntry, NoEntry
<1> QED
    BY <1>2, <1>3, <1>4, LeafCapacity

LEMMA ReadForwardTyped ==
    ASSUME Typed, ReadForward
    PROVE  Typed'
<1> DEFINE leaf == LeafAt(cursor.pid)
<1>1. leaf \in LeafPage /\ cursor.eid \in Nat /\ cursor \in [pid : Pid, eid : Nat]
    BY LeafAtTyped DEF Typed, TypeOK
<1> HIDE DEF leaf
<1>2. NextCursor(leaf) \in [pid : Pid, eid : Nat]
    BY <1>1 DEF NextCursor, LeafPage
<1>3. scanned' \in Seq(Entry) /\ pc' \in {"scan", "scanEnd"}
  <2>1. PICK e \in ReadEntry(leaf, cursor.eid) :
            IF e.rid = NoRid
              THEN pc' = "scanEnd" /\ UNCHANGED scanned
              ELSE scanned' = Append(scanned, e) /\ UNCHANGED pc
    BY DEF ReadForward, leaf
  <2>2. CASE e.rid = NoRid
    BY <2>1, <2>2 DEF Typed, TypeOK
  <2>3. CASE e.rid # NoRid
    <3>1. e \in Entry
      BY <1>1, <2>3, ReadEntryTyped
    <3>2. Append(scanned, e) \in Seq(Entry)
      BY <3>1, AppendProperties DEF Typed, TypeOK
    <3> QED
      BY <2>1, <2>3, <3>2 DEF ReadForward
  <2> QED
    BY <2>2, <2>3
<1>4. cursor' \in [pid : Pid, eid : Nat]
    BY <1>2 DEF ReadForward, leaf
<1> QED
    BY <1>3, <1>4 DEF ReadForward, file, head, frame, ghost, Typed, TypeOK, Running

LEMMA InsertStepTyped ==
    ASSUME Typed, InsertStep
    PROVE  Typed'
<1>1. CASE OverflowInInsert
    BY <1>1, ForgetTyped DEF OverflowInInsert, ghost, Typed, TypeOK
<1> QED
    BY <1>1, FetchFirstRootTyped, CommitFirstTyped, DescendTyped, InsertInLeafTyped,
       FetchLeafSiblingTyped, WriteLeafSiblingTyped, WriteLeafTyped,
       InsertInNonLeafTyped, FetchNonLeafSiblingTyped, WriteNonLeafSiblingTyped,
       WriteNonLeafTyped, FetchNewRootTyped, WriteNewRootTyped, CommitRootTyped
    DEF InsertStep

LEMMA NextTyped ==
    ASSUME Typed, [Next]_vars
    PROVE  Typed'
<1>1. CASE Close
    BY <1>1, ForgetTyped DEF Close, ghost, Typed, TypeOK
<1>2. CASE Crash
  <2>1. crashes' \in 0 .. MaxCrashes
    BY <1>2, MaxCrashesIsNat DEF Crash, Typed, TypeOK
  <2> QED
    BY <1>2, <2>1, ForgetTyped DEF Crash
<1>3. CASE \E key \in Probes : Locate(key) \/ OverflowInLocate(key)
    BY <1>3, LocateTyped, ForgetTyped DEF OverflowInLocate, ghost, Typed, TypeOK
<1>4. CASE UNCHANGED vars
  <2>1. /\ disk' = disk /\ mode' = mode /\ rootPid' = rootPid
        /\ treeHeight' = treeHeight /\ pc' = pc /\ ins' = ins /\ path' = path
        /\ splitkey' = splitkey /\ splitpid' = splitpid /\ newPid' = newPid
        /\ cursor' = cursor /\ scanKey' = scanKey /\ scanned' = scanned
        /\ acked' = acked /\ tried' = tried /\ crashes' = crashes
    BY <1>4 DEF vars, file, head, frame, scan, ghost
  <2> QED
    BY <2>1 DEF Typed, TypeOK, Running, NodePid, NonLeafAt, PageAt, EndPid,
       NonLeafIsFull, NonLeafKeyCount
<1> QED
    BY <1>1, <1>2, <1>3, <1>4, OpenTyped, InsertTyped, InsertStepTyped,
       ReadForwardTyped DEF Next

\* Every page that any sequence of calls and crashes writes is a leaf, a
\* nonleaf node with a pid more than keys, or metadata, and the object's fields
\* and the cursor keep their types.
THEOREM BTreeIndexTypeOK == Spec => []TypeOK
<1>1. Typed => TypeOK
    BY DEF Typed
<1> QED
    BY <1>1, InitTyped, NextTyped, PTL DEF Spec

(***************************************************************************)
(* The metadata page                                                       *)
(***************************************************************************)

\* The steps before the two calls of commit_metadata; at every other point of
\* every call the metadata page holds what the object has.
CommitPending == pc \in {"firstRoot", "firstMetadata", "rootMetadata"}
MetadataKept  == (mode # "none" /\ treeHeight > 0 /\ ~ CommitPending) =>
                     disk[1] = Metadata(rootPid, treeHeight)

\* A node is never on page 0, so writing one leaves the metadata alone, and so
\* does a new page at the end of the file.
LEMMA WriteNodeKeepsMetadata ==
    ASSUME disk \in Seq(Page), NEW pid \in Pid, NEW page, WritePage(pid, page)
    PROVE  disk # <<>> => disk'[1] = disk[1]
<1>1. CASE pid \in 0 .. EndPid - 1
  <2>1. pid + 1 # 1 /\ disk' = [disk EXCEPT ![pid + 1] = page]
    BY <1>1 DEF WritePage, Pid, NoPid
  <2>2. disk # <<>> => 1 \in DOMAIN disk
    BY EmptySeq
  <2> QED
    BY <2>1, <2>2
<1>2. CASE pid \notin 0 .. EndPid - 1
    BY <1>2 DEF WritePage
<1> QED
    BY <1>1, <1>2

LEMMA FetchKeepsMetadata ==
    ASSUME disk \in Seq(Page), FetchNewPage
    PROVE  disk # <<>> => disk'[1] = disk[1]
<1>1. Blank \in Page
    BY DEF Page
<1>2. \A i \in 1 .. Len(disk) : disk'[i] = disk[i]
    BY <1>1, AppendProperties DEF FetchNewPage
<1>3. disk # <<>> => 1 \in 1 .. Len(disk)
    BY EmptySeq
<1> QED
    BY <1>2, <1>3

LEMMA NodePidTyped ==
    ASSUME path \in Seq(Pid), path # <<>>
    PROVE  NodePid \in Pid
<1>1. Len(path) \in 1 .. Len(path)
    BY EmptySeq
<1> QED
    BY <1>1, ElementOfSeq DEF NodePid, Last

\* A step that changes neither what the object has nor the metadata page.
LEMMA SameMetadata ==
    ASSUME MetadataKept, ~ CommitPending, mode' = mode, rootPid' = rootPid,
           treeHeight' = treeHeight,
           (mode # "none" /\ treeHeight > 0) => disk'[1] = disk[1]
    PROVE  MetadataKept'
BY DEF MetadataKept, Metadata

LEMMA InsertStepKeepsMetadata ==
    ASSUME Typed, MetadataKept, InsertStep
    PROVE  MetadataKept'
<1> USE DEF CommitPending
<1>1. /\ disk \in Seq(Page) /\ splitpid \in Pid /\ newPid \in Pid
      /\ mode # "none" /\ treeHeight > 0 => disk # <<>>
      /\ pc \in {"descend", "leafSibling", "leafNode", "nonleafSibling",
                 "nonleafNode"} => NodePid \in Pid
    BY NodePidTyped DEF Typed, TypeOK, Running
<1>2. CASE FetchFirstRoot
    BY <1>2 DEF FetchFirstRoot, MetadataKept
<1>3. CASE CommitFirst \/ CommitRoot
  <2>1. mode # "none" /\ disk # <<>>
    BY <1>3 DEF CommitFirst, CommitRoot, Typed, TypeOK, Running
  <2>2. 0 \in 0 .. EndPid - 1 /\ 1 \in DOMAIN disk
    BY <1>1, <2>1, EmptySeq DEF EndPid
  <2>3. CASE CommitFirst
    <3>1. disk' = [disk EXCEPT ![0 + 1] = Metadata(rootPid, treeHeight)]
      BY <2>2, <2>3 DEF CommitFirst, WritePage
    <3> QED
      BY <2>2, <2>3, <3>1 DEF CommitFirst, head, MetadataKept, Metadata
  <2>4. CASE CommitRoot
    <3>1. disk' = [disk EXCEPT ![0 + 1] = Metadata(rootPid, treeHeight')]
      BY <2>2, <2>4 DEF CommitRoot, WritePage
    <3> QED
      BY <2>2, <2>4, <3>1 DEF CommitRoot, MetadataKept, Metadata
  <2> QED
    BY <1>3, <2>3, <2>4
<1>4. CASE Descend
    BY <1>4, SameMetadata DEF Descend, file, head
<1>5. CASE OverflowInInsert
    BY <1>5 DEF OverflowInInsert, Forget, MetadataKept
<1>6. CASE InsertInLeaf
    BY <1>1, <1>6, WriteNodeKeepsMetadata, SameMetadata DEF InsertInLeaf, AtLeaf, head
<1>7. CASE FetchLeafSibling
    BY <1>1, <1>7, FetchKeepsMetadata, SameMetadata DEF FetchLeafSibling, AtLeaf, head
<1>8. CASE WriteLeafSibling
    BY <1>1, <1>8, WriteNodeKeepsMetadata, SameMetadata DEF WriteLeafSibling, head
<1>9. CASE WriteLeaf
  <2>1. pc = "leafNode" /\ mode' = mode /\ UNCHANGED head
        /\ \E page : WritePage(NodePid, page)
    BY <1>9 DEF WriteLeaf
  <2> QED
    BY <1>1, <2>1, WriteNodeKeepsMetadata, SameMetadata DEF head
<1>10. CASE InsertInNonLeaf
  <2>1. NodePid \in Pid
    BY <1>10, NodePidTyped DEF InsertInNonLeaf, Typed, TypeOK
  <2> QED
    BY <1>1, <1>10, <2>1, WriteNodeKeepsMetadata, SameMetadata DEF InsertInNonLeaf, head
<1>11. CASE FetchNonLeafSibling
    BY <1>1, <1>11, FetchKeepsMetadata, SameMetadata DEF FetchNonLeafSibling, head
<1>12. CASE WriteNonLeafSibling
    BY <1>1, <1>12, WriteNodeKeepsMetadata, SameMetadata DEF WriteNonLeafSibling, head
<1>13. CASE WriteNonLeaf
    BY <1>1, <1>13, WriteNodeKeepsMetadata, SameMetadata DEF WriteNonLeaf, head
<1>14. CASE FetchNewRoot
    BY <1>1, <1>14, FetchKeepsMetadata, SameMetadata DEF FetchNewRoot, head
<1>15. CASE WriteNewRoot
    BY <1>15 DEF WriteNewRoot, MetadataKept
<1> QED
    BY <1>2, <1>3, <1>4, <1>5, <1>6, <1>7, <1>8, <1>9, <1>10, <1>11, <1>12, <1>13,
       <1>14, <1>15 DEF InsertStep

\* What open finds: metadata with a height above 0, or no height to go down by.
LEMMA OpenReadsMetadata ==
    ASSUME Typed, NEW m \in {"r", "w"}, Open(m)
    PROVE  MetadataKept'
<1>1. CASE disk = <<>>
    BY <1>1 DEF Open, MetadataKept
<1>2. CASE disk # <<>>
  <2>1. disk[1] \in Page
    BY <1>2, ElementOfSeq, EmptySeq DEF Typed, TypeOK
  <2>2. disk[1].kind = "meta" => disk[1] = Metadata(disk[1].rootPid, disk[1].treeHeight)
    BY <2>1 DEF Page, LeafPage, NonLeafPage, MetaPage, Blank, Metadata
  <2> QED
    BY <1>2, <2>2 DEF Open, ReadRootPid, ReadTreeHeight, MetadataKept, Metadata
<1> QED
    BY <1>1, <1>2

LEMMA NextKeepsMetadata ==
    ASSUME Typed, MetadataKept, [Next]_vars
    PROVE  MetadataKept'
<1> USE DEF CommitPending
<1>1. CASE Close \/ Crash
    BY <1>1 DEF Close, Crash, Forget, MetadataKept
<1>2. ASSUME NEW e \in Entry, Insert(e) \/ FirstInsert(e) PROVE MetadataKept'
  <2>1. CASE Insert(e)
    BY <2>1, SameMetadata DEF Insert, MayInsert, file, head
  <2>2. CASE FirstInsert(e)
    BY <2>2 DEF FirstInsert, MetadataKept
  <2> QED
    BY <1>2, <2>1, <2>2
<1>3. ASSUME NEW key \in Probes, Locate(key) \/ OverflowInLocate(key)
      PROVE  MetadataKept'
  <2>1. CASE Locate(key)
    BY <2>1, SameMetadata DEF Locate, file, head
  <2>2. CASE OverflowInLocate(key)
    BY <2>2 DEF OverflowInLocate, Forget, MetadataKept
  <2> QED
    BY <1>3, <2>1, <2>2
<1>4. CASE ReadForward
    BY <1>4, SameMetadata DEF ReadForward, file, head
<1>5. CASE UNCHANGED vars
    BY <1>5 DEF vars, file, head, MetadataKept, Metadata
<1> QED
    BY <1>1, <1>2, <1>3, <1>4, <1>5, OpenReadsMetadata, InsertStepKeepsMetadata
    DEF Next

\* Whenever no insert is running, the metadata page holds the root and the
\* height of the object, whatever splits and crashes came before: a crash
\* leaves a root and a height that belong together, or none.
THEOREM BTreeIndexMetadataCommitted == Spec => []MetadataCommitted
<1>1. Init => MetadataKept
    BY DEF Init, MetadataKept
<1>2. Spec => []Typed
    BY InitTyped, NextTyped, PTL DEF Spec
<1>3. Spec => []MetadataKept
    BY <1>1, <1>2, NextKeepsMetadata, PTL DEF Spec
<1>4. MetadataKept => MetadataCommitted
    BY DEF MetadataKept, CommitPending, MetadataCommitted
<1> QED
    BY <1>3, <1>4, PTL

(***************************************************************************)
(* Nodes fit their pages                                                   *)
(***************************************************************************)

\* A full leaf is split into parts that fit; one that is not full stays one.
LEMMA LeafFits ==
    ASSUME NEW leaf \in LeafPage, NEW e \in Entry, NodeFits(leaf)
    PROVE  /\ ~ LeafIsFull(leaf) => NodeFits(LeafInsert(leaf, e))
           /\ NodeFits(UpperHalf(leaf, e))
           /\ NodeFits(LowerHalf(leaf, e))
<1>1. PICK all, n, h, m : /\ all = LeafPut(leaf.entries, e) /\ n = Len(all) /\ h = Half(all)
                          /\ m = MAX_LEAF_KEY_COUNT
    OBVIOUS
<1>2. leaf.entries \in Seq(Entry) /\ leaf.kind = "leaf"
    BY DEF LeafPage
<1>3. PICK l : l = Len(leaf.entries) /\ l \in Nat /\ l <= m
    BY <1>1, <1>2 DEF NodeFits
<1>4. all \in Seq(Entry) /\ n = l + 1 /\ m \in Nat /\ m >= 1
  <2>1. m \in Nat /\ m >= 1
    BY <1>1, LeafCapacity
  <2>2. all \in Seq(Entry) /\ Len(all) = Len(leaf.entries) + 1
    BY <1>1, <1>2, LeafPutEntries
  <2> QED
    BY <1>1, <1>3, <2>1, <2>2
<1>5. h \in 0 .. n /\ h <= m /\ n - h <= m
  <2>1. n \in Nat /\ h = n \div 2
    BY <1>1, <1>3, <1>4 DEF Half
  <2>2. h \in Nat /\ 2 * h <= n /\ n <= 2 * h + 1
    BY <2>1
  <2>3. m \in Nat /\ m >= 1 /\ n <= m + 1
    BY <1>3, <1>4
  <2>4. h \in 0 .. n
    BY <2>1, <2>2
  <2>5. h <= m
    BY <2>1, <2>2, <2>3
  <2>6. n - h <= m
    BY <2>1, <2>2, <2>3
  <2> QED
    BY <2>4, <2>5, <2>6
<1>6. \A i \in 1 .. n : all[i] \in Entry
    BY <1>1, <1>4, ElementOfSeq
<1>7. ASSUME ~ LeafIsFull(leaf) PROVE NodeFits(LeafInsert(leaf, e))
  <2>1. LeafInsert(leaf, e).entries = all /\ LeafInsert(leaf, e).kind = "leaf"
    BY <1>1 DEF LeafInsert, LeafPage
  <2>2. l # m
    BY <1>1, <1>3, <1>7 DEF LeafIsFull
  <2>3. n <= m
    BY <1>3, <1>4, <2>2
  <2> QED
    BY <1>1, <2>1, <2>3 DEF NodeFits
<1>8. NodeFits(LowerHalf(leaf, e))
  <2>1. LowerHalf(leaf, e).entries = SubSeq(all, 1, h) /\ LowerHalf(leaf, e).kind = "leaf"
    BY <1>1 DEF LowerHalf, Leaf
  <2>2. Len(SubSeq(all, 1, h)) = h
    BY <1>1, <1>4, <1>5, <1>6, SubSeqProperties
  <2> QED
    BY <1>1, <1>5, <2>1, <2>2 DEF NodeFits
<1>9. NodeFits(UpperHalf(leaf, e))
  <2>1. UpperHalf(leaf, e).entries = SubSeq(all, h + 1, n) /\ UpperHalf(leaf, e).kind = "leaf"
    BY <1>1 DEF UpperHalf, Leaf
  <2>2. Len(SubSeq(all, h + 1, n)) = n - h
    BY <1>1, <1>3, <1>4, <1>5, <1>6, SubSeqProperties
  <2> QED
    BY <1>1, <1>5, <2>1, <2>2 DEF NodeFits
<1> QED
    BY <1>7, <1>8, <1>9

LEMMA NonLeafFits ==
    ASSUME NEW node \in NonLeafNode, NEW key \in Key, NEW pid \in Pid, NodeFits(node)
    PROVE  /\ ~ NonLeafIsFull(node) => NodeFits(NonLeafPut(node, key, pid))
           /\ NodeFits(LowerNode(node, key, pid))
           /\ NonLeafIsFull(node) => NodeFits(UpperNode(node, key, pid))
<1>1. PICK all, n, h, m : /\ all = NonLeafPut(node, key, pid) /\ n = Len(all.keys)
                          /\ h = Half(all.keys) /\ m = MAX_NONLEAF_KEY_COUNT
    OBVIOUS
<1>2. /\ all.keys \in Seq(Key) /\ all.keys # <<>> /\ all.kind = "nonleaf"
      /\ node.keys \in Seq(Key) /\ node.kind = "nonleaf"
  <2>1. all \in NonLeafPage /\ all.keys # <<>>
    BY <1>1, NonLeafPutTyped
  <2>2. node.kind = "nonleaf"
    BY DEF NonLeafNode, NonLeafPage, EmptyNonLeaf, NonLeaf
  <2> QED
    BY <2>1, <2>2, NonLeafNodeParts DEF NonLeafPage
<1>3. PICK l : l = Len(node.keys) /\ l \in Nat /\ l <= m
    BY <1>1, <1>2 DEF NodeFits
<1>4. m \in Nat /\ m >= 2 /\ n \in Nat /\ n >= 1
    BY <1>1, <1>2, NonLeafCapacity, EmptySeq
<1>5. n = 1 \/ (NonLeafKeyCount(node) = l /\ n <= l + 1)
  <2>1. CASE NonLeafKeyCount(node) = 0
    <3>1. all = NonLeaf(<<key>>, <<pid>>)
      BY <1>1, <2>1 DEF NonLeafPut
    <3>2. all.keys = <<key>>
      BY <3>1 DEF NonLeaf
    <3> QED
      BY <1>1, <3>2
  <2>2. CASE NonLeafKeyCount(node) # 0
    <3>1. PICK i : i = NonLeafSlot(node.keys, key)
      OBVIOUS
    <3>2. i \in 1 .. l + 1 /\ NonLeafKeyCount(node) = l
      BY <1>2, <1>3, <2>2, <3>1, NonLeafSlotInRange, NonLeafNodeParts
    <3>3. CASE i <= Len(node.keys) /\ ~ (key < node.keys[i])
      <4>1. all = [node EXCEPT !.keys[i] = key, !.pids[i + 1] = pid]
        BY <1>1, <2>2, <3>1, <3>3 DEF NonLeafPut
      <4>2. node \in [kind : {"nonleaf"}, keys : Seq(Key), pids : Seq(Pid)]
        BY <2>2 DEF NonLeafNode, NonLeafPage, EmptyNonLeaf, NonLeaf, NonLeafKeyCount
      <4>3. all.keys = [node.keys EXCEPT ![i] = key]
        BY <4>1, <4>2
      <4>4. Len(all.keys) = l
        BY <1>2, <1>3, <3>2, <3>3, <4>3, ExceptSeq
      <4> QED
        BY <1>1, <1>3, <3>2, <4>4
    <3>4. CASE ~ (i <= Len(node.keys) /\ ~ (key < node.keys[i]))
      <4>1. all = [node EXCEPT !.keys = InsertAt(@, i, key), !.pids = InsertAt(@, i + 1, pid)]
        BY <1>1, <2>2, <3>1, <3>4 DEF NonLeafPut
      <4>2. node \in [kind : {"nonleaf"}, keys : Seq(Key), pids : Seq(Pid)]
        BY <2>2 DEF NonLeafNode, NonLeafPage, EmptyNonLeaf, NonLeaf, NonLeafKeyCount
      <4>3. all.keys = InsertAt(node.keys, i, key)
        BY <4>1, <4>2
      <4>4. Len(all.keys) = l + 1
        BY <1>2, <1>3, <3>2, <4>3, InsertAtProperties
      <4> QED
        BY <1>1, <1>3, <3>2, <4>4
    <3> QED
      BY <3>3, <3>4
  <2> QED
    BY <2>1, <2>2
<1>6. h \in 0 .. n - 1 /\ h <= m /\ n - h - 1 <= m
  <2>1. h = n \div 2
    BY <1>1 DEF Half
  <2> QED
    BY <1>3, <1>4, <1>5, <2>1
<1>7. \A i \in 1 .. n : all.keys[i] \in Key
    BY <1>1, <1>2, ElementOfSeq
<1>8. ASSUME ~ NonLeafIsFull(node) PROVE NodeFits(all)
  <2>1. NonLeafKeyCount(node) = l => l # m
    BY <1>1, <1>8 DEF NonLeafIsFull
  <2>2. n <= m
    BY <1>3, <1>4, <1>5, <2>1
  <2> QED
    BY <1>1, <1>2, <2>2 DEF NodeFits
<1>9. NodeFits(LowerNode(node, key, pid))
  <2>1. /\ LowerNode(node, key, pid).keys = SubSeq(all.keys, 1, h)
        /\ LowerNode(node, key, pid).kind = "nonleaf"
    BY <1>1 DEF LowerNode, NonLeaf
  <2>2. Len(SubSeq(all.keys, 1, h)) = h
    BY <1>1, <1>2, <1>4, <1>6, <1>7, SubSeqProperties
  <2> QED
    BY <1>1, <1>6, <2>1, <2>2 DEF NodeFits
<1>10. ASSUME NonLeafIsFull(node) PROVE NodeFits(UpperNode(node, key, pid))
  <2>1. /\ UpperNode(node, key, pid).keys = SubSeq(all.keys, h + 2, n)
        /\ UpperNode(node, key, pid).kind = "nonleaf"
    BY <1>1 DEF UpperNode, NonLeaf
  <2>2. h + 1 <= n
    BY <1>6, <1>4
  <2>3. Len(SubSeq(all.keys, h + 2, n)) = n - h - 1
    BY <1>1, <1>2, <1>4, <1>6, <1>7, <2>2, SubSeqProperties
  <2> QED
    BY <1>1, <1>6, <2>1, <2>3 DEF NodeFits
<1> QED
    BY <1>1, <1>8, <1>9, <1>10

LEMMA PageFits ==
    ASSUME NodesFit, disk \in Seq(Page), NEW pid
    PROVE  NodeFits(PageAt(pid)) /\ NodeFits(LeafAt(pid)) /\ NodeFits(NonLeafAt(pid))
<1>1. NodeFits(Blank) /\ NodeFits(EmptyLeaf) /\ NodeFits(EmptyNonLeaf)
    BY LeafCapacity, NonLeafCapacity DEF NodeFits, Blank, EmptyLeaf, EmptyNonLeaf, Leaf, NonLeaf
<1>2. ASSUME pid \in 0 .. EndPid - 1 PROVE NodeFits(disk[pid + 1])
  <2>1. PICK i : i = pid + 1
    OBVIOUS
  <2>2. i \in 1 .. EndPid
    BY <1>2, <2>1 DEF EndPid
  <2> QED
    BY <2>1, <2>2 DEF NodesFit
<1>3. NodeFits(PageAt(pid))
    BY <1>1, <1>2 DEF PageAt
<1> QED
    BY <1>1, <1>3 DEF LeafAt, NonLeafAt

LEMMA WriteFits ==
    ASSUME NodesFit, disk \in Seq(Page), NEW pid, NEW page \in Page, NodeFits(page),
           WritePage(pid, page)
    PROVE  NodesFit'
<1>1. Len(disk') = Len(disk)
    BY WritePageTyped
<1>2. \A i \in 1 .. Len(disk) : disk'[i] = disk[i] \/ disk'[i] = page
    BY DEF WritePage
<1>3. \A i \in 1 .. Len(disk) : NodeFits(disk'[i])
    BY <1>2 DEF NodesFit, EndPid
<1> QED
    BY <1>1, <1>3 DEF NodesFit, EndPid, NodeFits

LEMMA FetchFits ==
    ASSUME NodesFit, disk \in Seq(Page), FetchNewPage
    PROVE  NodesFit'
<1>1. PICK b : b = Blank
    OBVIOUS
<1>2. b \in Page /\ disk' = Append(disk, b) /\ NodeFits(b)
    BY <1>1 DEF Page, Blank, FetchNewPage, NodeFits
<1>3. /\ Len(disk') = Len(disk) + 1 /\ disk'[Len(disk) + 1] = b /\ Len(disk) \in Nat
      /\ \A i \in 1 .. Len(disk) : disk'[i] = disk[i]
    BY <1>2, AppendProperties
<1>4. \A i \in 1 .. EndPid' : (i \in 1 .. EndPid /\ disk'[i] = disk[i]) \/ disk'[i] = b
    BY <1>3 DEF EndPid
<1> QED
    BY <1>2, <1>4 DEF NodesFit, NodeFits

LEMMA InsertStepFits ==
    ASSUME Typed, NodesFit, InsertStep
    PROVE  NodesFit'
<1>1. disk \in Seq(Page) /\ (disk' = disk => NodesFit')
    BY DEF Typed, TypeOK, NodesFit, EndPid, NodeFits
<1>2. SUFFICES \/ disk' = disk \/ FetchNewPage
               \/ \E pid, page : page \in Page /\ NodeFits(page) /\ WritePage(pid, page)
    BY <1>1, FetchFits, WriteFits
<1>3. PICK leaf, node : leaf = LeafAt(NodePid) /\ node = NonLeafAt(NodePid)
    OBVIOUS
<1>4. leaf \in LeafPage /\ node \in NonLeafNode /\ NodeFits(leaf) /\ NodeFits(node)
    BY <1>1, <1>3, LeafAtTyped, NonLeafAtTyped, PageFits
<1>5. \A page : page \in LeafPage \cup NonLeafPage => page \in Page
    BY DEF Page
<1>6. CASE FetchFirstRoot \/ FetchLeafSibling \/ FetchNonLeafSibling \/ FetchNewRoot
    BY <1>6 DEF FetchFirstRoot, FetchLeafSibling, FetchNonLeafSibling, FetchNewRoot
<1>7. CASE Descend \/ OverflowInInsert
    BY <1>7 DEF Descend, OverflowInInsert, file
<1>8. CASE CommitFirst \/ CommitRoot
  <2>1. PICK height \in Nat \ {0} : rootPid \in Pid /\ WritePage(0, Metadata(rootPid, height))
    <3>1. /\ treeHeight \in Nat \ {0} /\ rootPid \in Pid
          /\ CommitFirst => WritePage(0, Metadata(rootPid, treeHeight))
          /\ CommitRoot => WritePage(0, Metadata(rootPid, treeHeight'))
                             /\ treeHeight' = treeHeight + 1
      BY <1>8 DEF CommitFirst, CommitRoot, Typed, TypeOK, Running
    <3>2. CommitRoot => treeHeight' \in Nat \ {0}
      BY <3>1
    <3> QED
      BY <1>8, <3>1, <3>2
  <2>2. Metadata(rootPid, height) \in Page /\ NodeFits(Metadata(rootPid, height))
    BY <2>1 DEF Metadata, Page, MetaPage, NodeFits
  <2> QED
    BY <2>1, <2>2
<1>9. CASE InsertInLeaf
  <2>1. ~ LeafIsFull(leaf) /\ WritePage(NodePid, LeafInsert(leaf, ins)) /\ ins \in Entry
    BY <1>3, <1>9 DEF InsertInLeaf, AtLeaf, Typed, Running
  <2> QED
    BY <1>4, <1>5, <2>1, LeafFits, LeafInsertTyped
<1>10. CASE WriteLeafSibling
  <2>1. WritePage(splitpid, UpperHalf(leaf, ins)) /\ ins \in Entry
    BY <1>3, <1>10 DEF WriteLeafSibling, Typed, Running
  <2> QED
    BY <1>4, <1>5, <2>1, LeafFits, LeafSplitTyped
<1>11. CASE WriteLeaf
  <2>1. /\ WritePage(NodePid, [LowerHalf(leaf, ins) EXCEPT !.next = splitpid])
        /\ ins \in Entry /\ splitpid \in Pid
    BY <1>3, <1>11 DEF WriteLeaf, Typed, TypeOK, Running
  <2>2. PICK lower : lower = LowerHalf(leaf, ins)
    OBVIOUS
  <2>3. lower \in LeafPage /\ NodeFits(lower)
    BY <1>4, <2>1, <2>2, LeafFits, LeafSplitTyped
  <2>4. /\ [lower EXCEPT !.next = splitpid] \in LeafPage
        /\ NodeFits([lower EXCEPT !.next = splitpid])
    BY <2>1, <2>3 DEF LeafPage, NodeFits
  <2> QED
    BY <1>5, <2>1, <2>2, <2>4
<1>12. CASE InsertInNonLeaf
  <2>1. /\ ~ NonLeafIsFull(node) /\ WritePage(NodePid, NonLeafPut(node, splitkey, splitpid))
        /\ splitkey \in Key /\ splitpid \in Pid
    BY <1>3, <1>12 DEF InsertInNonLeaf, Typed, TypeOK, Running
  <2> QED
    BY <1>4, <1>5, <2>1, NonLeafFits, NonLeafPutTyped
<1>13. CASE WriteNonLeafSibling
  <2>1. /\ NonLeafIsFull(node) /\ WritePage(newPid, UpperNode(node, splitkey, splitpid))
        /\ splitkey \in Key /\ splitpid \in Pid
    BY <1>3, <1>13 DEF WriteNonLeafSibling, Typed, TypeOK, Running
  <2> QED
    BY <1>4, <1>5, <2>1, NonLeafFits, NonLeafSplitTyped
<1>14. CASE WriteNonLeaf
  <2>1. /\ WritePage(NodePid, LowerNode(node, splitkey, splitpid))
        /\ splitkey \in Key /\ splitpid \in Pid
    BY <1>3, <1>14 DEF WriteNonLeaf, Typed, TypeOK, Running
  <2> QED
    BY <1>4, <1>5, <2>1, NonLeafFits, NonLeafSplitTyped
<1>15. CASE WriteNewRoot
  <2>1. /\ WritePage(newPid, NewRoot(rootPid, splitkey, splitpid))
        /\ splitkey \in Key /\ splitpid \in Pid /\ rootPid \in Pid
    BY <1>15 DEF WriteNewRoot, Typed, TypeOK, Running
  <2>2. PICK keys, pids : keys = <<splitkey>> /\ pids = <<rootPid, splitpid>>
    OBVIOUS
  <2>3. keys \in Seq(Key) /\ pids \in Seq(Pid) /\ Len(pids) = Len(keys) + 1 /\ Len(keys) = 1
    BY <2>1, <2>2
  <2>4. NonLeaf(keys, pids) \in NonLeafPage /\ NodeFits(NonLeaf(keys, pids))
    <3>1. 1 <= MAX_NONLEAF_KEY_COUNT
      BY NonLeafCapacity
    <3>2. NonLeaf(keys, pids) \in NonLeafPage
      BY <2>3 DEF NonLeaf, NonLeafPage
    <3>3. NodeFits(NonLeaf(keys, pids))
      BY <2>3, <3>1 DEF NonLeaf, NodeFits
    <3> QED
      BY <3>2, <3>3
  <2>5. NewRoot(rootPid, splitkey, splitpid) = NonLeaf(keys, pids)
    BY <2>2 DEF NewRoot
  <2> QED
    BY <1>5, <2>1, <2>4, <2>5
<1> QED
    BY <1>6, <1>7, <1>8, <1>9, <1>10, <1>11, <1>12, <1>13, <1>14, <1>15 DEF InsertStep

LEMMA NextFits ==
    ASSUME Typed, NodesFit, [Next]_vars
    PROVE  NodesFit'
<1>1. disk \in Seq(Page) /\ (disk' = disk => NodesFit')
    BY DEF Typed, TypeOK, NodesFit, EndPid, NodeFits
<1>2. ASSUME NEW e \in Entry, FirstInsert(e) PROVE NodesFit'
    BY <1>1, <1>2, FetchFits DEF FirstInsert
<1>3. ASSUME ~ InsertStep, ~ \E e \in Entry : FirstInsert(e) PROVE disk' = disk
    BY <1>3 DEF Next, Open, Close, Crash, Insert, Locate, OverflowInLocate, ReadForward, file, vars
<1> QED
    BY <1>1, <1>2, <1>3, InsertStepFits

\* Whatever sequence of inserts, splits, crashes and reopenings there was, no
\* node is larger than its page.
THEOREM BTreeIndexNodesFit == Spec => []NodesFit
<1>1. Init => NodesFit
  <2> SUFFICES ASSUME Init PROVE NodesFit
    OBVIOUS
  <2>1. EndPid = 0
    BY DEF Init, EndPid
  <2> QED
    BY <2>1 DEF NodesFit
<1> QED
    BY <1>1, InitTyped, NextTyped, NextFits, PTL DEF Spec

=============================================================================
