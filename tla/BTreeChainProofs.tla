--------------------------- MODULE BTreeChainProofs ---------------------------
(***************************************************************************)
(* Theorems about the leaf chain of BTreeIndex and the levels of its pages, *)
(* for any node capacities, keys and records, and any number of crashes.    *)
(***************************************************************************)
EXTENDS BTreeIndexProofs

(***************************************************************************)
(* The chain                                                               *)
(***************************************************************************)

\* c lists the leaves in the order of their next pointers.  A file without a
\* leaf has a chain of one page that reads as an empty leaf.
Chain(c) ==
    /\ c \in Seq(Nat \ {0}) /\ c # <<>> /\ c[1] = 1
    /\ \A i, j \in 1 .. Len(c) : c[i] = c[j] => i = j
    /\ \A i \in 1 .. Len(c) :
         LeafAt(c[i]).next = IF i = Len(c) THEN NoPid ELSE c[i + 1]
    /\ Len(c) <= EndPid \/ Len(c) = 1

\* The entries on the chain.
Occurs(e, s) == \E j \in 1 .. Len(s) : e = s[j]
Has(pid, e)  == Occurs(e, LeafAt(pid).entries)
Kept(c)      == {e \in Entry : \E i \in 1 .. Len(c) : Has(c[i], e)}

\* The function in LeafChain exists: it takes one step for each page.
LEMMA NextPointersExist ==
    ASSUME NEW n \in Nat
    PROVE  \E f : f = [k \in 1 .. n |->
                          IF k = 1 THEN 1 ELSE LeafAt(f[k - 1]).next]
<1> DEFINE Step(f, k) == IF k = 1 THEN 1 ELSE LeafAt(f[k - 1]).next
           Is(f, m)   == f = [k \in 1 .. m |-> Step(f, k)]
           bad        == {m \in Nat : \A f : ~ Is(f, m)}
<1>1. ASSUME NEW m \in Nat, m \notin bad PROVE \E f : Is(f, m)
  <2> HIDE DEF Is
  <2> QED
    BY <1>1
<1>2. SUFFICES bad = {}
  <2>1. \E f : Is(f, n)
    <3> HIDE DEF Is
    <3> QED
      BY <1>1, <1>2
  <2> QED
    BY <2>1
<1>3. SUFFICES ASSUME bad # {} PROVE FALSE
    OBVIOUS
<1> DEFINE m == Min(bad)
<1>4. m \in bad /\ \A other \in bad : m <= other
  <2>1. bad \in SUBSET Nat
      OBVIOUS
  <2> HIDE DEF bad
  <2> QED
    BY <1>3, <2>1, MinOfNaturals
<1> HIDE DEF m
<1>5. m \in Nat /\ \A f : ~ Is(f, m)
  <2> HIDE DEF Is
  <2> QED
    BY <1>4
<1>6. CASE m = 0
  <2>1. Is(<<>>, 0)
    OBVIOUS
  <2> QED
    BY <1>5, <1>6, <2>1
<1>7. CASE m # 0
  <2>1. m - 1 \in Nat /\ ~ (m <= m - 1)
    BY <1>5, <1>7
  <2>2. m - 1 \notin bad
    BY <1>4, <2>1
  <2>3. \E f : Is(f, m - 1)
    <3> HIDE DEF Is, bad
    <3> QED
      BY <1>1, <2>1, <2>2
  <2>4. PICK f : Is(f, m - 1)
    <3> HIDE DEF Is
    <3> QED
      BY <2>3
  <2> DEFINE g == [k \in 1 .. m |-> IF k = m THEN Step(f, m) ELSE f[k]]
  <2>5. \A k \in 1 .. m : k # 1 => g[k - 1] = f[k - 1]
    BY <1>5
  <2>6. \A k \in 1 .. m : g[k] = Step(f, k)
    BY <1>5, <2>4
  <2>7. \A k \in 1 .. m : Step(g, k) = Step(f, k)
    BY <2>5
  <2>8. Is(g, m)
    BY <2>6, <2>7
  <2> QED
    BY <1>5, <2>8
<1> QED
    BY <1>6, <1>7

\* What LeafChain computes is the chain.
LEMMA LeafChainIs ==
    ASSUME NEW c, Chain(c), EndPid \in Nat \ {0}
    PROVE  LeafChain = c
<1> DEFINE Is(f) == f = [k \in 1 .. EndPid |->
                            IF k = 1 THEN 1 ELSE LeafAt(f[k - 1]).next]
           pid   == CHOOSE f : Is(f)
           At(k) == IF k <= Len(c) THEN c[k] ELSE NoPid
           bad   == {k \in 1 .. EndPid : pid[k] # At(k)}
<1>1. Is(pid)
    BY NextPointersExist
<1>2. LeafChain = [n \in {k \in 1 .. EndPid : pid[k] # NoPid} |-> pid[n]]
    BY DEF LeafChain
<1> HIDE DEF pid
<1>3. \A k \in 1 .. EndPid : pid[k] = IF k = 1 THEN 1 ELSE LeafAt(pid[k - 1]).next
    BY <1>1
<1>4. /\ Len(c) \in Nat \ {0} /\ Len(c) <= EndPid /\ c \in Seq(Nat \ {0})
      /\ \A k \in 1 .. Len(c) : c[k] \in Nat \ {0}
    BY EmptySeq, ElementOfSeq DEF Chain
<1>5. LeafAt(NoPid).next = NoPid
    BY DEF LeafAt, PageAt, NoPid, Blank, EmptyLeaf, Leaf
<1>6. bad = {}
  <2> SUFFICES ASSUME bad # {} PROVE FALSE
    OBVIOUS
  <2> DEFINE k == Min(bad)
  <2>1. k \in bad /\ \A other \in bad : k <= other
    <3>1. bad \in SUBSET Nat
      OBVIOUS
    <3> HIDE DEF bad
    <3> QED
      BY <3>1, MinOfNaturals
  <2> HIDE DEF k
  <2>2. k \in 1 .. EndPid /\ pid[k] # At(k)
    BY <2>1
  <2>3. k # 1
    BY <1>3, <1>4, <2>2 DEF Chain
  <2>4. k - 1 \in 1 .. EndPid /\ ~ (k <= k - 1)
    BY <2>2, <2>3
  <2>5. pid[k - 1] = At(k - 1)
    BY <2>1, <2>4
  <2>6. pid[k] = LeafAt(At(k - 1)).next
    BY <1>3, <2>2, <2>3, <2>5
  <2>7. CASE k - 1 <= Len(c)
    <3>1. k - 1 \in 1 .. Len(c) /\ k - 1 + 1 = k
      <4> HIDE DEF bad, At
      <4> QED
        BY <1>4, <2>2, <2>4, <2>7
    <3>3. At(k - 1) = c[k - 1]
      BY <2>7
    <3>2. LeafAt(c[k - 1]).next = IF k - 1 = Len(c) THEN NoPid ELSE c[k - 1 + 1]
      BY <3>1 DEF Chain
    <3> QED
      BY <1>4, <2>2, <2>4, <2>6, <2>7, <3>1, <3>2, <3>3
  <2>8. CASE ~ (k - 1 <= Len(c))
    BY <1>4, <1>5, <2>2, <2>4, <2>6, <2>8
  <2> QED
    BY <2>7, <2>8
<1>7. \A k \in 1 .. EndPid : pid[k] = IF k <= Len(c) THEN c[k] ELSE NoPid
    BY <1>6
<1>8. {k \in 1 .. EndPid : pid[k] # NoPid} = 1 .. Len(c)
    BY <1>4, <1>7 DEF NoPid
<1>9. c = [n \in 1 .. Len(c) |-> c[n]]
    BY <1>4
<1> QED
    BY <1>2, <1>4, <1>7, <1>8, <1>9

LEMMA StoredIs ==
    ASSUME disk \in Seq(Page), NEW c, Chain(c)
    PROVE  Stored = Kept(c)
<1>1. \A pid : LeafAt(pid).entries \in Seq(Entry)
    BY LeafAtTyped DEF LeafPage
<1>2. \A pid : ToSet(LeafAt(pid).entries) =
                   {e \in Entry : \E j \in 1 .. Len(LeafAt(pid).entries) :
                                      e = LeafAt(pid).entries[j]}
  <2> SUFFICES ASSUME NEW pid
               PROVE  ToSet(LeafAt(pid).entries) =
                          {e \in Entry : \E j \in 1 .. Len(LeafAt(pid).entries) :
                                             e = LeafAt(pid).entries[j]}
    OBVIOUS
  <2> DEFINE s == LeafAt(pid).entries
  <2>1. s \in Seq(Entry)
    BY <1>1
  <2> HIDE DEF s
  <2>2. ToSet(s) = {e \in Entry : \E j \in 1 .. Len(s) : e = s[j]}
    BY <2>1, ElementOfSeq DEF ToSet
  <2> QED
    BY <2>2 DEF s
<1>3. EndPid \in Nat
    BY DEF EndPid
<1>4. CASE EndPid = 0
  <2>1. ToSet(LeafChain) = {}
    BY <1>4 DEF LeafChain, ToSet
  <2>2. \A pid : LeafAt(pid) = EmptyLeaf
    BY <1>4 DEF LeafAt, PageAt, Blank
  <2>3. Len(EmptyLeaf.entries) = 0
    BY DEF EmptyLeaf, Leaf
  <2> QED
    BY <2>1, <2>2, <2>3 DEF Stored, Kept, Has, Occurs
<1>5. CASE EndPid # 0
  <2>1. LeafChain = c
    BY <1>3, <1>5, LeafChainIs
  <2>2. ToSet(c) = {c[i] : i \in 1 .. Len(c)}
    BY DEF ToSet, Chain
  <2> QED
    BY <1>2, <2>1, <2>2 DEF Stored, Kept, Has, Occurs
<1> QED
    BY <1>4, <1>5

(***************************************************************************)
(* The levels of the pages                                                 *)
(***************************************************************************)

\* lev gives nodes of the file their distance from the leaf level.  The leaves
\* it knows are those of the chain; a page that a half-done split has fetched,
\* or that a crash has left without a pointer to it, need not have a level.
At(lev, p, l) == p \in DOMAIN lev /\ lev[p] = l

\* A nonleaf node that leads somewhere for every key.
Branches(page) == /\ page.kind = "nonleaf" /\ page.keys # <<>>
                  /\ Len(page.pids) = Len(page.keys) + 1

Levels(c, lev) ==
    /\ DOMAIN lev \subseteq (1 .. EndPid - 1) \cup {1}
    /\ \A p \in DOMAIN lev : lev[p] \in Nat
    /\ \A i \in 1 .. Len(c) : At(lev, c[i], 0)
    /\ \A p \in DOMAIN lev : lev[p] = 0 =>
         /\ \E i \in 1 .. Len(c) : p = c[i]
         /\ PageAt(p).kind = "leaf" \/ (p = 1 /\ PageAt(p).kind = "blank")
    /\ \A p \in DOMAIN lev : lev[p] # 0 =>
         /\ Branches(PageAt(p))
         /\ \A i \in DOMAIN PageAt(p).pids : At(lev, PageAt(p).pids[i], lev[p] - 1)

Tree(c, lev) == Chain(c) /\ Levels(c, lev)

\* p gets the level l; the other pages keep theirs.
Join(lev, p, l) == [q \in DOMAIN lev \cup {p} |-> IF q = p THEN l ELSE lev[q]]

\* The chain and the levels hang on the pages that have a level only.
LEMMA TreeUntouched ==
    ASSUME NEW c, NEW lev, Tree(c, lev), EndPid \in Nat, EndPid' \in Nat,
           EndPid' >= EndPid, \A p \in DOMAIN lev : PageAt(p)' = PageAt(p)
    PROVE  Tree(c, lev)' /\ Kept(c)' = Kept(c)
<1>1. \A i \in 1 .. Len(c) : c[i] \in DOMAIN lev
    BY DEF Tree, Levels, At
<1>2. \A i \in 1 .. Len(c) : LeafAt(c[i])' = LeafAt(c[i])
    BY <1>1 DEF LeafAt
<1>3. Len(c) <= EndPid' \/ Len(c) = 1
    BY EmptySeq DEF Tree, Chain
<1>4. Chain(c)'
    BY <1>2, <1>3 DEF Tree, Chain
<1>5. DOMAIN lev \subseteq (1 .. EndPid' - 1) \cup {1}
    BY DEF Tree, Levels
<1>6. Levels(c, lev)'
    BY <1>5 DEF Tree, Levels, Branches
<1>7. Kept(c)' = Kept(c)
    BY <1>2 DEF Kept, Has, Occurs
<1> QED
    BY <1>4, <1>6, <1>7 DEF Tree

\* What a page write leaves on the pages.
LEMMA WriteChanges ==
    ASSUME disk \in Seq(Page), NEW p \in 0 .. EndPid - 1, NEW page \in Page,
           WritePage(p, page)
    PROVE  /\ EndPid' = EndPid /\ EndPid \in Nat
           /\ PageAt(p)' = page
           /\ \A q : q # p => PageAt(q)' = PageAt(q)
<1>1. disk' = [disk EXCEPT ![p + 1] = page] /\ p + 1 \in 1 .. Len(disk)
    BY DEF WritePage, EndPid
<1>2. EndPid' = EndPid /\ EndPid \in Nat
    BY WritePageTyped DEF EndPid
<1>3. disk'[p + 1] = page
    BY <1>1
<1>4. \A q \in 0 .. EndPid - 1 : q # p => disk'[q + 1] = disk[q + 1]
    BY <1>1 DEF EndPid
<1> QED
    BY <1>2, <1>3, <1>4 DEF PageAt

\* A nonleaf node is written over one of the same level, or to a page that had
\* no level yet.
LEMMA NodeWritten ==
    ASSUME NEW c, NEW lev, Tree(c, lev), disk \in Seq(Page),
           NEW p \in 1 .. EndPid - 1, NEW l \in Nat \ {0}, p \in DOMAIN lev => lev[p] = l,
           NEW page \in Page, Branches(page),
           \A i \in DOMAIN page.pids : At(lev, page.pids[i], l - 1),
           WritePage(p, page)
    PROVE  /\ Tree(c, Join(lev, p, l))'
           /\ Kept(c)' = Kept(c)
<1> DEFINE new == Join(lev, p, l)
<1>1. /\ EndPid' = EndPid /\ EndPid \in Nat /\ PageAt(p)' = page
      /\ \A q : q # p => PageAt(q)' = PageAt(q)
    BY WriteChanges
<1>2. /\ DOMAIN new = DOMAIN lev \cup {p}
      /\ At(new, p, l)
      /\ \A q, m : At(lev, q, m) => At(new, q, m)
      /\ \A q \in DOMAIN lev : new[q] = lev[q]
    BY DEF Join, At
<1> HIDE DEF new
<1>3. \A i \in 1 .. Len(c) : At(lev, c[i], 0) /\ c[i] # p
    BY DEF Tree, Levels, At
<1>4. \A i \in 1 .. Len(c) : LeafAt(c[i])' = LeafAt(c[i])
    BY <1>1, <1>3 DEF LeafAt
<1>5. Chain(c)'
    BY <1>1, <1>4 DEF Tree, Chain
<1>6. Kept(c)' = Kept(c)
    BY <1>4 DEF Kept, Has, Occurs
<1>7. Levels(c, new)'
  <2>1. DOMAIN new \subseteq (1 .. EndPid' - 1) \cup {1}
    BY <1>1, <1>2 DEF Tree, Levels
  <2>2. \A q \in DOMAIN new : new[q] \in Nat
    BY <1>2 DEF Tree, Levels, At
  <2>3. \A i \in 1 .. Len(c) : At(new, c[i], 0)
    BY <1>2, <1>3
  <2>4. ASSUME NEW q \in DOMAIN new, new[q] = 0
        PROVE  /\ \E i \in 1 .. Len(c) : q = c[i]
               /\ PageAt(q)'.kind = "leaf" \/ (q = 1 /\ PageAt(q)'.kind = "blank")
    <3>1. q # p /\ q \in DOMAIN lev /\ lev[q] = 0
      BY <1>2, <2>4 DEF At
    <3> QED
      BY <1>1, <3>1 DEF Tree, Levels
  <2>5. ASSUME NEW q \in DOMAIN new, new[q] # 0
        PROVE  /\ Branches(PageAt(q)')
               /\ \A i \in DOMAIN PageAt(q)'.pids : At(new, PageAt(q)'.pids[i], new[q] - 1)
    <3>1. CASE q = p
      BY <1>1, <1>2, <3>1 DEF At
    <3>2. CASE q # p
      <4>1. q \in DOMAIN lev /\ lev[q] # 0 /\ new[q] = lev[q]
        BY <1>2, <2>5, <3>2
      <4> QED
        BY <1>1, <1>2, <3>2, <4>1 DEF Tree, Levels
    <3> QED
      BY <3>1, <3>2
  <2> QED
    BY <2>1, <2>2, <2>3, <2>4, <2>5 DEF Levels
<1> QED
    BY <1>5, <1>6, <1>7 DEF Tree, new

(***************************************************************************)
(* Leaf writes                                                             *)
(***************************************************************************)

\* An insertion adds its entry to those of the leaf, wherever it goes.
LEMMA LeafPutAdds ==
    ASSUME NEW entries \in Seq(Entry), NEW e \in Entry, NEW x
    PROVE  Occurs(x, LeafPut(entries, e)) <=> x = e \/ Occurs(x, entries)
<1> DEFINE put == LeafPut(entries, e)
           i   == LeafSlot(entries, e.key)
<1>1. i \in 1 .. Len(entries) + 1 /\ Len(entries) \in Nat
    BY LeafSlotInRange
<1>2. put = InsertAt(entries, i, e)
    BY DEF LeafPut
<1> HIDE DEF put, i
<1>3. /\ Len(put) = Len(entries) + 1
      /\ \A j \in 1 .. Len(entries) + 1 :
           put[j] = IF j < i THEN entries[j] ELSE IF j = i THEN e ELSE entries[j - 1]
    BY <1>1, <1>2, InsertAtProperties
<1>4. put[i] = e /\ i \in 1 .. Len(put)
    BY <1>1, <1>3
<1>5. ASSUME NEW j \in 1 .. Len(entries), x = entries[j]
      PROVE  \E k \in 1 .. Len(put) : x = put[k]
  <2>1. CASE j < i
    <3>1. j \in 1 .. Len(put) /\ put[j] = x
      BY <1>1, <1>3, <1>5, <2>1
    <3> QED
      BY <3>1
  <2>2. CASE j >= i
    <3>1. j + 1 \in 1 .. Len(put) /\ j + 1 - 1 = j /\ ~ (j + 1 < i) /\ j + 1 # i
      BY <1>1, <1>3, <2>2
    <3>2. put[j + 1] = x
      BY <1>3, <1>5, <3>1
    <3> QED
      BY <3>1, <3>2
  <2> QED
    BY <1>1, <2>1, <2>2
<1>6. ASSUME NEW k \in 1 .. Len(put), x = put[k]
      PROVE  x = e \/ \E j \in 1 .. Len(entries) : x = entries[j]
  <2>1. CASE k < i
    <3>1. k \in 1 .. Len(entries) /\ x = entries[k]
      BY <1>1, <1>3, <1>6, <2>1
    <3> QED
      BY <3>1
  <2>2. CASE k > i
    <3>1. k - 1 \in 1 .. Len(entries) /\ x = entries[k - 1]
      BY <1>1, <1>3, <1>6, <2>2
    <3> QED
      BY <3>1
  <2>3. CASE k = i
    BY <1>4, <1>6, <2>3
  <2> QED
    BY <1>1, <1>3, <2>1, <2>2, <2>3
<1> QED
    BY <1>4, <1>5, <1>6 DEF put, Occurs

\* The halves of a split, slot by slot.
LEMMA LeafSplitParts ==
    ASSUME NEW leaf \in LeafPage, NEW e \in Entry
    PROVE  LET all   == LeafPut(leaf.entries, e)
               h     == Half(all)
               lower == LowerHalf(leaf, e)
               upper == UpperHalf(leaf, e)
           IN  /\ all \in Seq(Entry) /\ Len(all) = Len(leaf.entries) + 1
               /\ h \in 0 .. Len(all) - 1
               /\ Len(lower.entries) = h
               /\ \A j \in 1 .. h : lower.entries[j] = all[j]
               /\ Len(upper.entries) = Len(all) - h
               /\ \A j \in 1 .. Len(all) - h : upper.entries[j] = all[h + j]
               /\ upper.next = leaf.next
<1> DEFINE all == LeafPut(leaf.entries, e)
           h   == Half(all)
           lower == SubSeq(all, 1, h)
           upper == SubSeq(all, h + 1, Len(all))
<1>1. leaf.entries \in Seq(Entry)
    BY DEF LeafPage
<1>2. all \in Seq(Entry) /\ Len(all) = Len(leaf.entries) + 1
    BY <1>1, LeafPutEntries
<1>3. Len(leaf.entries) \in Nat
    BY <1>1
<1>4. h \in 0 .. Len(all) - 1
    BY <1>2, <1>3, EmptySeq, HalfInRange
<1>5. \A i \in 1 .. Len(all) : all[i] \in Entry
    BY <1>2, ElementOfSeq
<1>6. LowerHalf(leaf, e).entries = lower
    BY DEF LowerHalf, Leaf
<1>7. UpperHalf(leaf, e).entries = upper /\ UpperHalf(leaf, e).next = leaf.next
    BY DEF UpperHalf, Leaf
<1> HIDE DEF all, h
<1>8. Len(lower) = h /\ \A j \in 1 .. h : lower[j] = all[j]
    BY <1>2, <1>3, <1>4, <1>5, SubSeqProperties
<1>9. Len(upper) = Len(all) - h /\ \A j \in 1 .. Len(all) - h : upper[j] = all[h + j]
  <2>1. /\ Len(upper) = Len(all) - (h + 1) + 1
        /\ \A j \in 1 .. Len(all) - (h + 1) + 1 : upper[j] = all[h + 1 + j - 1]
    BY <1>2, <1>3, <1>4, <1>5, SubSeqProperties
  <2>2. Len(all) - (h + 1) + 1 = Len(all) - h /\ \A j \in Nat : h + 1 + j - 1 = h + j
    BY <1>2, <1>3, <1>4
  <2> QED
    BY <1>2, <1>3, <1>4, <2>1, <2>2
<1> QED
    BY <1>2, <1>4, <1>6, <1>7, <1>8, <1>9 DEF all, h

\* An entry is put into a leaf of the chain.
LEMMA LeafInserted ==
    ASSUME NEW c, NEW lev, Tree(c, lev), disk \in Seq(Page), NEW e \in Entry,
           NEW p \in 1 .. EndPid - 1, At(lev, p, 0),
           WritePage(p, LeafInsert(LeafAt(p), e))
    PROVE  Tree(c, lev)' /\ Kept(c)' = Kept(c) \cup {e}
<1> DEFINE page == LeafInsert(LeafAt(p), e)
<1>1. LeafAt(p) \in LeafPage /\ page \in LeafPage /\ page \in Page
    BY LeafAtTyped, LeafInsertTyped DEF Page
<1>2. /\ page.kind = "leaf" /\ page.next = LeafAt(p).next
      /\ page.entries = LeafPut(LeafAt(p).entries, e)
      /\ LeafAt(p).entries \in Seq(Entry)
    BY <1>1 DEF LeafInsert, LeafPage
<1>3. /\ EndPid' = EndPid /\ EndPid \in Nat /\ PageAt(p)' = page
      /\ \A q : q # p => PageAt(q)' = PageAt(q)
  <2> HIDE DEF page
  <2>1. WritePage(p, page) /\ p \in 0 .. EndPid - 1
    BY DEF page
  <2> QED
    BY <1>1, <2>1, WriteChanges
<1> HIDE DEF page
<1>4. LeafAt(p)' = page /\ \A q : q # p => LeafAt(q)' = LeafAt(q)
    BY <1>2, <1>3 DEF LeafAt
<1>5. \A q : LeafAt(q)'.next = LeafAt(q).next
    BY <1>2, <1>4
<1>6. Chain(c)'
    BY <1>3, <1>5 DEF Tree, Chain
<1>7. Levels(c, lev)'
  <2>1. ASSUME NEW q \in DOMAIN lev, lev[q] = 0
        PROVE  PageAt(q)'.kind = "leaf" \/ (q = 1 /\ PageAt(q)'.kind = "blank")
    BY <1>2, <1>3, <2>1 DEF Tree, Levels
  <2>2. ASSUME NEW q \in DOMAIN lev, lev[q] # 0
        PROVE  PageAt(q)' = PageAt(q)
    BY <1>3, <2>2 DEF At
  <2> QED
    BY <1>3, <2>1, <2>2 DEF Tree, Levels
<1>8. \A x : Has(p, x)' <=> x = e \/ Has(p, x)
  <2> SUFFICES ASSUME NEW x PROVE Has(p, x)' <=> x = e \/ Has(p, x)
    OBVIOUS
  <2>1. Has(p, x)' <=> Occurs(x, page.entries)
    BY <1>4 DEF Has
  <2> QED
    BY <1>2, <2>1, LeafPutAdds DEF Has
<1>9. \A q, x : q # p => (Has(q, x)' <=> Has(q, x))
    BY <1>4 DEF Has
<1>10. PICK i \in 1 .. Len(c) : p = c[i]
    BY DEF Tree, Levels, At
<1>11. \A x \in Entry : x \in Kept(c)' <=> x \in Kept(c) \/ x = e
  <2> SUFFICES ASSUME NEW x \in Entry
               PROVE  x \in Kept(c)' <=> x \in Kept(c) \/ x = e
    OBVIOUS
  <2>1. x \in Kept(c)' <=> \E k \in 1 .. Len(c) : Has(c[k], x)'
    BY DEF Kept
  <2>2. x \in Kept(c) <=> \E k \in 1 .. Len(c) : Has(c[k], x)
    BY DEF Kept
  <2> QED
    BY <1>8, <1>9, <1>10, <2>1, <2>2
<1>12. Kept(c)' \subseteq Entry /\ Kept(c) \subseteq Entry
    BY DEF Kept
<1> QED
    BY <1>6, <1>7, <1>11, <1>12 DEF Tree

\* The halves hold what the leaf held, and the new entry.
LEMMA LeafHalvesHold ==
    ASSUME NEW leaf \in LeafPage, NEW e \in Entry, NEW x
    PROVE  LET lower == LowerHalf(leaf, e).entries
               upper == UpperHalf(leaf, e).entries
           IN  Occurs(x, lower) \/ Occurs(x, upper)
                   <=> x = e \/ Occurs(x, leaf.entries)
<1> DEFINE all   == LeafPut(leaf.entries, e)
           h     == Half(all)
           lower == LowerHalf(leaf, e).entries
           upper == UpperHalf(leaf, e).entries
<1>1. /\ all \in Seq(Entry)
      /\ h \in 0 .. Len(all) - 1
      /\ Len(lower) = h
      /\ \A j \in 1 .. h : lower[j] = all[j]
      /\ Len(upper) = Len(all) - h
      /\ \A j \in 1 .. Len(all) - h : upper[j] = all[h + j]
    BY LeafSplitParts
<1>2. Occurs(x, all) <=> x = e \/ Occurs(x, leaf.entries)
    BY LeafPutAdds DEF LeafPage
<1> HIDE DEF all, h, lower, upper
<1>3. Len(all) \in Nat
    BY <1>1
<1>4. ASSUME NEW j \in 1 .. Len(all), x = all[j]
      PROVE  (\E k \in 1 .. Len(lower) : x = lower[k])
                 \/ (\E k \in 1 .. Len(upper) : x = upper[k])
  <2>1. CASE j <= h
    <3>1. j \in 1 .. h
      BY <1>1, <2>1
    <3> QED
      BY <1>1, <1>4, <3>1
  <2>2. CASE j > h
    <3>1. j - h \in 1 .. Len(all) - h /\ h + (j - h) = j
      BY <1>1, <1>3, <2>2
    <3> QED
      BY <1>1, <1>4, <3>1
  <2> QED
    BY <1>1, <2>1, <2>2
<1>5. ASSUME NEW k \in 1 .. Len(lower), x = lower[k]
      PROVE  \E j \in 1 .. Len(all) : x = all[j]
  <2>1. k \in 1 .. Len(all) /\ k \in 1 .. h
    BY <1>1, <1>3
  <2> QED
    BY <1>1, <1>5, <2>1
<1>6. ASSUME NEW k \in 1 .. Len(upper), x = upper[k]
      PROVE  \E j \in 1 .. Len(all) : x = all[j]
  <2>1. h + k \in 1 .. Len(all) /\ k \in 1 .. Len(all) - h
    BY <1>1, <1>3
  <2> QED
    BY <1>1, <1>6, <2>1
<1> QED
    BY <1>2, <1>4, <1>5, <1>6 DEF lower, upper, Occurs

\* Something new is put behind the i-th of a sequence.
LEMMA InsertBehind ==
    ASSUME NEW S, NEW s \in Seq(S), NEW i \in 1 .. Len(s), NEW x \in S
    PROVE  LET long == InsertAt(s, i + 1, x)
           IN  /\ long \in Seq(S) /\ Len(long) = Len(s) + 1
               /\ \A k \in 1 .. i : long[k] = s[k]
               /\ long[i + 1] = x
               /\ \A k \in i + 1 .. Len(s) : long[k + 1] = s[k]
               /\ \A y : Occurs(y, long) <=> y = x \/ Occurs(y, s)
<1> DEFINE long == InsertAt(s, i + 1, x)
           n    == Len(s)
<1>1. n \in Nat /\ i \in 1 .. n /\ i + 1 \in 1 .. n + 1
    OBVIOUS
<1>2. /\ long \in Seq(S) /\ Len(long) = n + 1
      /\ \A k \in 1 .. n + 1 :
           long[k] = IF k < i + 1 THEN s[k] ELSE IF k = i + 1 THEN x ELSE s[k - 1]
  <2> DEFINE j == i + 1
  <2>1. j \in 1 .. Len(s) + 1
    BY <1>1
  <2> HIDE DEF j
  <2>2. /\ InsertAt(s, j, x) \in Seq(S) /\ Len(InsertAt(s, j, x)) = Len(s) + 1
        /\ \A k \in 1 .. Len(s) + 1 :
             InsertAt(s, j, x)[k] =
                 IF k < j THEN s[k] ELSE IF k = j THEN x ELSE s[k - 1]
    BY <2>1, InsertAtProperties, SMTT(30)
  <2> QED
    BY <2>2 DEF j
<1> HIDE DEF long, n
<1>3. ASSUME NEW k \in 1 .. i PROVE long[k] = s[k] /\ k \in 1 .. n
  <2>1. k \in 1 .. n + 1 /\ k < i + 1 /\ k \in 1 .. n
    BY <1>1
  <2> QED
    BY <1>2, <2>1
<1>4. long[i + 1] = x
    BY <1>1, <1>2
<1>5. ASSUME NEW k \in i + 1 .. n PROVE long[k + 1] = s[k] /\ k \in 1 .. n
  <2>1. k + 1 \in 1 .. n + 1 /\ ~ (k + 1 < i + 1) /\ k + 1 # i + 1 /\ k + 1 - 1 = k
        /\ k \in 1 .. n
    BY <1>1
  <2>2. long[k + 1] = s[k + 1 - 1]
    BY <1>2, <2>1
  <2> QED
    BY <2>1, <2>2
<1>6. ASSUME NEW y
      PROVE  (\E k \in 1 .. n + 1 : y = long[k]) <=> y = x \/ \E k \in 1 .. n : y = s[k]
  <2>1. ASSUME NEW k \in 1 .. n + 1, y = long[k]
        PROVE  y = x \/ \E j \in 1 .. n : y = s[j]
    <3>1. CASE k \in 1 .. i
      BY <1>3, <2>1, <3>1
    <3>2. CASE k = i + 1
      BY <1>4, <2>1, <3>2
    <3>3. CASE k > i + 1
      <4>1. k - 1 \in i + 1 .. n /\ k - 1 + 1 = k
        BY <1>1, <3>3
      <4>2. long[k - 1 + 1] = s[k - 1] /\ k - 1 \in 1 .. n
        BY <1>5, <4>1
      <4> QED
        BY <2>1, <4>1, <4>2
    <3>4. k \in 1 .. i \/ k = i + 1 \/ k > i + 1
      BY <1>1
    <3> QED
      BY <3>1, <3>2, <3>3, <3>4
  <2>2. ASSUME NEW k \in 1 .. n, y = s[k]
        PROVE  \E j \in 1 .. n + 1 : y = long[j]
    <3>1. CASE k \in 1 .. i
      <4>1. k \in 1 .. n + 1
        BY <1>1
      <4> QED
        BY <1>3, <2>2, <3>1, <4>1
    <3>2. CASE k \in i + 1 .. n
      <4>1. k + 1 \in 1 .. n + 1
        BY <1>1
      <4> QED
        BY <1>5, <2>2, <3>2, <4>1
    <3>3. k \in 1 .. i \/ k \in i + 1 .. n
      BY <1>1
    <3> QED
      BY <3>1, <3>2, <3>3
  <2> QED
    BY <1>1, <1>4, <2>1, <2>2
<1> QED
    BY <1>2, <1>3, <1>4, <1>5, <1>6, ZenonT(60) DEF long, n, Occurs

\* A leaf of the chain is split: its lower half is written with a next pointer
\* to the upper half, which is on its page already.  The upper half comes
\* behind the lower one, and nothing is lost.
LEMMA LeafSplit ==
    ASSUME NEW c, NEW lev, Tree(c, lev), disk \in Seq(Page), NEW e \in Entry,
           Len(c) < EndPid,
           NEW p \in 1 .. EndPid - 1, NEW i \in 1 .. Len(c), p = c[i],
           NEW q \in 1 .. EndPid - 1, q \notin DOMAIN lev,
           PageAt(q) = UpperHalf(LeafAt(p), e),
           WritePage(p, [LowerHalf(LeafAt(p), e) EXCEPT !.next = q])
    PROVE  /\ Tree(InsertAt(c, i + 1, q), Join(lev, q, 0))'
           /\ Kept(InsertAt(c, i + 1, q))' = Kept(c) \cup {e}
<1> DEFINE leaf  == LeafAt(p)
           lower == LowerHalf(leaf, e)
           page  == [lower EXCEPT !.next = q]
           n     == Len(c)
           long  == InsertAt(c, i + 1, q)
           new   == Join(lev, q, 0)
<1>1. leaf \in LeafPage /\ lower \in LeafPage /\ UpperHalf(leaf, e) \in LeafPage
    BY LeafAtTyped, LeafSplitTyped
<1>2. q \in Pid /\ EndPid \in Nat
    BY DEF Pid, EndPid
<1>3. page \in LeafPage /\ page \in Page
      /\ page.kind = "leaf" /\ page.next = q /\ page.entries = lower.entries
  <2> HIDE DEF lower
  <2> QED
    BY <1>1, <1>2 DEF LeafPage, Page
<1>4. /\ n \in Nat /\ c \in Seq(Nat \ {0}) /\ c[1] = 1
      /\ \A k \in 1 .. n : c[k] \in Nat \ {0} /\ c[k] # q
      /\ \A k \in 1 .. n : c[k] = p => k = i
    BY EmptySeq, ElementOfSeq DEF Tree, Chain, Levels, At
<1>5. p # q
    BY <1>4
<1>6. /\ EndPid' = EndPid /\ PageAt(p)' = page
      /\ \A r : r # p => PageAt(r)' = PageAt(r)
  <2>1. WritePage(p, page) /\ p \in 0 .. EndPid - 1
    OBVIOUS
  <2> HIDE DEF page
  <2> QED
    BY <1>3, <2>1, WriteChanges
<1>7. /\ LeafAt(p)' = page
      /\ \A r : r # p => LeafAt(r)' = LeafAt(r)
      /\ LeafAt(q)' = UpperHalf(leaf, e)
  <2> HIDE DEF page, leaf
  <2>1. LeafAt(p)' = page /\ \A r : r # p => LeafAt(r)' = LeafAt(r)
    BY <1>3, <1>6 DEF LeafAt
  <2>2. UpperHalf(leaf, e).kind = "leaf" /\ PageAt(q) = UpperHalf(leaf, e)
    BY <1>1 DEF LeafPage, leaf
  <2> QED
    BY <1>5, <2>1, <2>2 DEF LeafAt
<1>8. LeafAt(q)'.next = leaf.next
  <2> HIDE DEF leaf
  <2>1. UpperHalf(leaf, e).next = leaf.next
    BY <1>1, LeafSplitParts
  <2> QED
    BY <1>7, <2>1
<1>9. leaf.next = IF i = n THEN NoPid ELSE c[i + 1]
    BY DEF Tree, Chain
<1>10. /\ long \in Seq(Nat \ {0}) /\ Len(long) = n + 1
       /\ \A k \in 1 .. i : long[k] = c[k]
       /\ long[i + 1] = q
       /\ \A k \in i + 1 .. n : long[k + 1] = c[k]
       /\ \A r : (\E k \in 1 .. n + 1 : r = long[k])
                     <=> r = q \/ \E k \in 1 .. n : r = c[k]
  <2> DEFINE S == Nat \ {0}
  <2>1. q \in S /\ c \in Seq(S) /\ i \in 1 .. Len(c)
    BY <1>4
  <2> HIDE DEF S
  <2>2. /\ long \in Seq(S) /\ Len(long) = n + 1
        /\ \A k \in 1 .. i : long[k] = c[k]
        /\ long[i + 1] = q
        /\ \A k \in i + 1 .. n : long[k + 1] = c[k]
        /\ \A r : Occurs(r, long) <=> r = q \/ Occurs(r, c)
    BY <2>1, InsertBehind
  <2>3. \A r : (\E k \in 1 .. n + 1 : r = long[k])
                   <=> r = q \/ \E k \in 1 .. n : r = c[k]
    <3> HIDE DEF long
    <3> QED
      BY <2>2 DEF Occurs
  <2> QED
    BY <2>2, <2>3 DEF S
<1>11. /\ DOMAIN new = DOMAIN lev \cup {q} /\ new[q] = 0
       /\ \A r, m : At(lev, r, m) => At(new, r, m)
       /\ \A r \in DOMAIN lev : new[r] = lev[r]
    BY DEF Join, At
<1>12. n \in Nat /\ i \in 1 .. n /\ i + 1 \in 1 .. n + 1
    BY <1>4
<1> HIDE DEF leaf, lower, page, n, long, new
<1>13. Chain(long)'
  <2>1. long # <<>> /\ long[1] = 1
    <3>1. 1 \in 1 .. i /\ n + 1 # 0
      BY <1>4, <1>12
    <3> QED
      BY <1>4, <1>10, <3>1, EmptySeq
\* Where a page of the longer chain was in the old one.
  <2>2. ASSUME NEW k \in 1 .. n + 1
        PROVE  \/ k \in 1 .. i /\ k \in 1 .. n /\ long[k] = c[k]
               \/ k = i + 1 /\ long[k] = q
               \/ k - 1 \in i + 1 .. n /\ k - 1 \in 1 .. n /\ long[k] = c[k - 1]
    <3>1. CASE k \in 1 .. i
      <4>1. k \in 1 .. n
        BY <1>12, <3>1
      <4> QED
        BY <1>10, <3>1, <4>1
    <3>2. CASE k = i + 1
      BY <1>10, <3>2
    <3>3. CASE k > i + 1
      <4>1. k - 1 \in i + 1 .. n /\ k - 1 \in 1 .. n /\ k - 1 + 1 = k
        BY <1>12, <3>3
      <4>2. long[k - 1 + 1] = c[k - 1]
        BY <1>10, <4>1
      <4> QED
        BY <4>1, <4>2
    <3>4. k \in 1 .. i \/ k = i + 1 \/ k > i + 1
      BY <1>12
    <3> QED
      BY <3>1, <3>2, <3>3, <3>4
  <2>3. ASSUME NEW j \in 1 .. n + 1, NEW k \in 1 .. n + 1, long[j] = long[k]
        PROVE  j = k
    <3>1. \A a, b \in 1 .. n : c[a] = c[b] => a = b
      BY DEF Tree, Chain, n
    <3>2. \A a \in 1 .. n : c[a] # q
      BY <1>4
    <3>3. CASE j \in 1 .. i /\ j \in 1 .. n /\ long[j] = c[j]
      <4>1. CASE k \in 1 .. i /\ k \in 1 .. n /\ long[k] = c[k]
        BY <2>3, <3>1, <3>3, <4>1
      <4>2. CASE k - 1 \in i + 1 .. n /\ k - 1 \in 1 .. n /\ long[k] = c[k - 1]
        <5>1. j = k - 1
          BY <2>3, <3>1, <3>3, <4>2
        <5> QED
          BY <1>12, <3>3, <4>2, <5>1
      <4> QED
        BY <2>2, <2>3, <3>2, <3>3, <4>1, <4>2
    <3>4. CASE j - 1 \in i + 1 .. n /\ j - 1 \in 1 .. n /\ long[j] = c[j - 1]
      <4>1. CASE k \in 1 .. i /\ k \in 1 .. n /\ long[k] = c[k]
        <5>1. k = j - 1
          BY <2>3, <3>1, <3>4, <4>1
        <5> QED
          BY <1>12, <3>4, <4>1, <5>1
      <4>2. CASE k - 1 \in i + 1 .. n /\ k - 1 \in 1 .. n /\ long[k] = c[k - 1]
        <5>1. j - 1 = k - 1
          BY <2>3, <3>1, <3>4, <4>2
        <5> QED
          BY <5>1
      <4> QED
        BY <2>2, <2>3, <3>2, <3>4, <4>1, <4>2
    <3> QED
      BY <2>2, <2>3, <3>2, <3>3, <3>4
  <2>4. ASSUME NEW k \in 1 .. n + 1
        PROVE  LeafAt(long[k])'.next = IF k = n + 1 THEN NoPid ELSE long[k + 1]
    <3>1. CASE k = i
      <4>1. k # n + 1 /\ k \in 1 .. i
        BY <1>12, <3>1
      <4>2. long[k] = p /\ long[k + 1] = q
        BY <1>10, <3>1, <4>1
      <4> QED
        BY <1>3, <1>7, <4>1, <4>2
    <3>2. CASE k = i + 1
      <4>1. i # n => i + 1 \in i + 1 .. n /\ k + 1 = i + 1 + 1
        BY <1>12, <3>2
      <4>2. i # n => long[k + 1] = c[i + 1]
        BY <1>10, <4>1
      <4>3. k = n + 1 <=> i = n
        BY <1>12, <3>2
      <4> QED
        BY <1>8, <1>9, <1>10, <3>2, <4>2, <4>3
    <3>3. CASE k \in 1 .. i /\ k \in 1 .. n /\ long[k] = c[k] /\ k # i
      <4>1. k + 1 \in 1 .. i /\ k # n /\ k # n + 1
        BY <1>12, <3>3
      <4>2. LeafAt(c[k])' = LeafAt(c[k])
        BY <1>4, <1>7, <3>3
      <4>3. LeafAt(c[k]).next = c[k + 1]
        BY <3>3, <4>1 DEF Tree, Chain, n
      <4>4. long[k + 1] = c[k + 1]
        BY <1>10, <4>1
      <4> QED
        BY <3>3, <4>1, <4>2, <4>3, <4>4
    <3>4. CASE k - 1 \in i + 1 .. n /\ k - 1 \in 1 .. n /\ long[k] = c[k - 1]
      <4>1. k - 1 # i /\ k - 1 + 1 = k /\ (k - 1 = n <=> k = n + 1)
        BY <1>12, <3>4
      <4>2. LeafAt(c[k - 1])' = LeafAt(c[k - 1])
        BY <1>4, <1>7, <3>4, <4>1
      <4>3. LeafAt(c[k - 1]).next = IF k - 1 = n THEN NoPid ELSE c[k - 1 + 1]
        BY <3>4 DEF Tree, Chain, n
      <4>4. k # n + 1 => k \in i + 1 .. n
        BY <1>12, <3>4
      <4>5. k # n + 1 => long[k + 1] = c[k]
        BY <1>10, <4>4
      <4> QED
        BY <3>4, <4>1, <4>2, <4>3, <4>5
    <3> QED
      BY <2>2, <3>1, <3>2, <3>3, <3>4
  <2>5. n + 1 <= EndPid'
    BY <1>2, <1>4, <1>6 DEF n
  <2> QED
    BY <1>10, <2>1, <2>3, <2>4, <2>5 DEF Chain
<1>14. Levels(long, new)'
  <2>1. DOMAIN new \subseteq (1 .. EndPid' - 1) \cup {1}
    BY <1>6, <1>11 DEF Tree, Levels
  <2>2. \A r \in DOMAIN new : new[r] \in Nat
    BY <1>11 DEF Tree, Levels
  <2>3. \A k \in 1 .. Len(long) : At(new, long[k], 0)
    <3> SUFFICES ASSUME NEW k \in 1 .. n + 1 PROVE At(new, long[k], 0)
      BY <1>10
    <3>1. CASE long[k] = q
      BY <1>11, <3>1 DEF At
    <3>2. CASE \E j \in 1 .. n : long[k] = c[j]
      BY <1>11, <3>2 DEF Tree, Levels, n
    <3> QED
      BY <1>10, <3>1, <3>2
  <2>4. ASSUME NEW r \in DOMAIN new, new[r] = 0
        PROVE  /\ \E k \in 1 .. Len(long) : r = long[k]
               /\ PageAt(r)'.kind = "leaf" \/ (r = 1 /\ PageAt(r)'.kind = "blank")
    <3>1. r = q \/ (r \in DOMAIN lev /\ lev[r] = 0)
      BY <1>11, <2>4
    <3>2. r = q \/ ((\E k \in 1 .. n : r = c[k])
                     /\ (PageAt(r).kind = "leaf" \/ (r = 1 /\ PageAt(r).kind = "blank")))
      BY <3>1 DEF Tree, Levels, n
    <3>3. \E k \in 1 .. n + 1 : r = long[k]
      BY <1>10, <3>2
    <3>4. UpperHalf(leaf, e).kind = "leaf" /\ PageAt(q) = UpperHalf(leaf, e)
      BY <1>1 DEF LeafPage, leaf
    <3>5. PageAt(r)'.kind = "leaf" \/ (r = 1 /\ PageAt(r)'.kind = "blank")
      BY <1>3, <1>5, <1>6, <3>2, <3>4
    <3> QED
      BY <1>10, <3>3, <3>5
  <2>5. ASSUME NEW r \in DOMAIN new, new[r] # 0
        PROVE  /\ Branches(PageAt(r)')
               /\ \A k \in DOMAIN PageAt(r)'.pids : At(new, PageAt(r)'.pids[k], new[r] - 1)
    <3>1. r \in DOMAIN lev /\ lev[r] # 0 /\ new[r] = lev[r]
      BY <1>11, <2>5
    <3>2. r # p
      BY <3>1 DEF Tree, Levels, At
    <3>3. PageAt(r)' = PageAt(r)
      BY <1>6, <3>2
    <3> QED
      BY <1>11, <3>1, <3>3 DEF Tree, Levels
  <2> QED
    BY <2>1, <2>2, <2>3, <2>4, <2>5 DEF Levels
<1>15. ASSUME NEW x \in Entry
       PROVE  x \in Kept(long)' <=> x \in Kept(c) \/ x = e
  <2>1. x \in Kept(long)' <=> \E k \in 1 .. n + 1 : Has(long[k], x)'
    BY <1>10 DEF Kept
  <2>2. x \in Kept(c) <=> \E k \in 1 .. n : Has(c[k], x)
    BY DEF Kept, n
  <2>3. \A r : r # p /\ r # q => (Has(r, x)' <=> Has(r, x))
    BY <1>7 DEF Has
  <2>4. (Has(p, x)' \/ Has(q, x)') <=> x = e \/ Has(p, x)
    <3>1. Has(p, x)' <=> Occurs(x, lower.entries)
      BY <1>3, <1>7 DEF Has
    <3>2. Has(q, x)' <=> Occurs(x, UpperHalf(leaf, e).entries)
      BY <1>7 DEF Has
    <3>3. Has(p, x) <=> Occurs(x, leaf.entries)
      BY DEF Has, leaf
    <3> QED
      BY <1>1, <3>1, <3>2, <3>3, LeafHalvesHold DEF lower
  <2>5. (\E k \in 1 .. n + 1 : Has(long[k], x)') <=>
            Has(q, x)' \/ \E k \in 1 .. n : Has(c[k], x)'
    BY <1>10
  <2>6. \A k \in 1 .. n : c[k] # p => (Has(c[k], x)' <=> Has(c[k], x))
    BY <1>4, <2>3
  <2>7. i \in 1 .. n /\ p = c[i]
    BY <1>12
  <2> QED
    BY <2>1, <2>2, <2>4, <2>5, <2>6, <2>7
<1>16. Kept(long)' \subseteq Entry /\ Kept(c) \subseteq Entry
    BY DEF Kept
<1> QED
    BY <1>13, <1>14, <1>15, <1>16 DEF Tree, long, new

(***************************************************************************)
(* Nonleaf writes                                                          *)
(***************************************************************************)

\* Without a key that looks like the end, the scan of a node stops at a larger
\* key, and a pid is always put in, never over another.
LEMMA NonLeafPutIn ==
    ASSUME EndKey \notin Key, NEW node \in NonLeafPage, Branches(node),
           NEW key \in Key, NEW pid \in Pid
    PROVE  LET i   == NonLeafSlot(node.keys, key)
               put == NonLeafPut(node, key, pid)
           IN  /\ i \in 1 .. Len(node.keys) + 1
               /\ put \in NonLeafPage /\ Branches(put)
               /\ put.keys = InsertAt(node.keys, i, key)
               /\ put.pids = InsertAt(node.pids, i + 1, pid)
               /\ Len(put.keys) = Len(node.keys) + 1
<1> DEFINE i   == NonLeafSlot(node.keys, key)
           put == NonLeafPut(node, key, pid)
           stops == {j \in 1 .. Len(node.keys) : key < node.keys[j] \/ node.keys[j] = EndKey}
<1>1. /\ node \in [kind : {"nonleaf"}, keys : Seq(Key), pids : Seq(Pid)]
      /\ node.keys \in Seq(Key) /\ node.pids \in Seq(Pid) /\ Len(node.keys) \in Nat \ {0}
    BY EmptySeq DEF NonLeafPage, Branches
<1>2. i \in stops \cup {Len(node.keys) + 1} /\ i \in 1 .. Len(node.keys) + 1
  <2>1. i = Min(stops \cup {Len(node.keys) + 1})
    BY DEF NonLeafSlot
  <2>2. stops \in SUBSET (1 .. Len(node.keys)) /\ Len(node.keys) \in Nat
    BY <1>1
  <2> HIDE DEF i, stops
  <2> QED
    BY <2>1, <2>2, FirstOrEnd
<1>3. i <= Len(node.keys) => key < node.keys[i]
  <2>1. ASSUME i <= Len(node.keys) PROVE i \in stops
    BY <1>1, <1>2, <2>1
  <2>2. i \in stops => node.keys[i] \in Key /\ (key < node.keys[i] \/ node.keys[i] = EndKey)
    BY <1>1, ElementOfSeq
  <2> HIDE DEF i, stops
  <2> QED
    BY <2>1, <2>2
<1>4. NonLeafKeyCount(node) # 0
  <2>1. Len(node.pids) # 0 /\ Len(node.pids) - 1 # 0 /\ node.pids # <<>>
    BY <1>1, EmptySeq DEF Branches
  <2> QED
    BY <2>1 DEF NonLeafKeyCount
<1>5. put = [node EXCEPT !.keys = InsertAt(@, i, key), !.pids = InsertAt(@, i + 1, pid)]
    BY <1>3, <1>4 DEF NonLeafPut
<1>6. put.keys = InsertAt(node.keys, i, key) /\ put.pids = InsertAt(node.pids, i + 1, pid)
      /\ put.kind = "nonleaf"
  <2> HIDE DEF i, put
  <2> QED
    BY <1>1, <1>5
<1>7. Len(put.keys) = Len(node.keys) + 1 /\ put.keys \in Seq(Key)
  <2> HIDE DEF i, put
  <2> QED
    BY <1>1, <1>2, <1>6, InsertAtProperties
<1>8. put \in NonLeafPage /\ Len(put.pids) = Len(put.keys) + 1
  <2>1. node \in NonLeafNode
    BY DEF NonLeafNode
  <2> QED
    BY <1>4, <2>1, NonLeafPutTyped
<1>9. Branches(put)
  <2> HIDE DEF put
  <2> QED
    BY <1>1, <1>6, <1>7, <1>8, EmptySeq DEF Branches
<1> HIDE DEF put, i
<1> QED
    BY <1>2, <1>6, <1>7, <1>8, <1>9 DEF put, i

\* The pids of the node are those it had and the new one.
LEMMA NonLeafPutPids ==
    ASSUME EndKey \notin Key, NEW node \in NonLeafPage, Branches(node),
           NEW key \in Key, NEW pid \in Pid,
           NEW k \in DOMAIN NonLeafPut(node, key, pid).pids
    PROVE  \/ NonLeafPut(node, key, pid).pids[k] = pid
           \/ \E j \in DOMAIN node.pids :
                NonLeafPut(node, key, pid).pids[k] = node.pids[j]
<1> DEFINE i    == NonLeafSlot(node.keys, key)
           pids == NonLeafPut(node, key, pid).pids
<1>1. node.pids \in Seq(Pid)
    BY DEF NonLeafPage
<1>2. i \in 1 .. Len(node.pids) /\ pids = InsertAt(node.pids, i + 1, pid)
  <2>1. i \in 1 .. Len(node.keys) + 1 /\ pids = InsertAt(node.pids, i + 1, pid)
    BY NonLeafPutIn
  <2>2. Len(node.pids) = Len(node.keys) + 1
    BY DEF Branches
  <2> QED
    BY <2>1, <2>2
<1> HIDE DEF i, pids
<1>3. pids \in Seq(Pid) /\ \A x : Occurs(x, pids) <=> x = pid \/ Occurs(x, node.pids)
    BY <1>1, <1>2, InsertBehind
<1>4. Occurs(pids[k], pids)
    BY <1>3 DEF pids, Occurs
<1>5. pids[k] = pid \/ Occurs(pids[k], node.pids)
    BY <1>3, <1>4
<1> QED
    BY <1>1, <1>5 DEF pids, Occurs

\* The two nodes of a split, slot by slot; the key between them is in neither.
LEMMA NonLeafSplitParts ==
    ASSUME EndKey \notin Key, NEW node \in NonLeafPage, Branches(node),
           NEW key \in Key, NEW pid \in Pid
    PROVE  LET all   == NonLeafPut(node, key, pid)
               n     == Len(all.keys)
               h     == Half(all.keys)
               lower == LowerNode(node, key, pid)
               upper == UpperNode(node, key, pid)
           IN  /\ all.keys \in Seq(Key) /\ all.pids \in Seq(Pid)
               /\ n = Len(node.keys) + 1 /\ Len(all.pids) = n + 1
               /\ n \in Nat /\ h \in Nat /\ 1 <= h /\ h < n /\ 2 * h <= n /\ n <= 2 * h + 1
               /\ MidKey(node, key, pid) = all.keys[h + 1]
               /\ Branches(lower) /\ Len(lower.keys) = h
               /\ \A j \in 1 .. h : lower.keys[j] = all.keys[j]
               /\ \A j \in 1 .. h + 1 : lower.pids[j] = all.pids[j]
               /\ upper.kind = "nonleaf" /\ upper.keys \in Seq(Key) /\ upper.pids \in Seq(Pid)
               /\ Len(upper.keys) = n - h - 1 /\ Len(upper.pids) = n - h
               /\ \A j \in 1 .. n - h - 1 : upper.keys[j] = all.keys[h + 1 + j]
               /\ \A j \in 1 .. n - h : upper.pids[j] = all.pids[h + 1 + j]
               /\ n >= 3 => Branches(upper)
<1> DEFINE all == NonLeafPut(node, key, pid)
           ks  == all.keys
           ps  == all.pids
           n   == Len(ks)
           h   == Half(ks)
           lks == SubSeq(ks, 1, h)
           lps == SubSeq(ps, 1, h + 1)
           uks == SubSeq(ks, h + 2, n)
           ups == SubSeq(ps, h + 2, Len(ps))
<1>1. ks \in Seq(Key) /\ ps \in Seq(Pid) /\ Len(ps) = n + 1 /\ n = Len(node.keys) + 1
    BY NonLeafPutIn DEF NonLeafPage, Branches
<1>2. Len(node.keys) \in Nat \ {0}
    BY EmptySeq DEF NonLeafPage, Branches
<1>3. LowerNode(node, key, pid) = NonLeaf(lks, lps)
      /\ UpperNode(node, key, pid) = NonLeaf(uks, ups)
      /\ MidKey(node, key, pid) = ks[h + 1]
    BY DEF LowerNode, UpperNode, MidKey
<1>4. h = n \div 2
    BY DEF Half
<1>5. (\A i \in 1 .. n : ks[i] \in Key) /\ (\A i \in 1 .. Len(ps) : ps[i] \in Pid)
    BY <1>1, ElementOfSeq
<1> HIDE DEF all, ks, ps, n, h
<1>6. n \in Nat /\ h \in Nat /\ 1 <= h /\ h < n /\ 2 * h <= n /\ n <= 2 * h + 1
  <2>1. n \in Nat /\ n >= 2
    BY <1>1, <1>2
  <2>2. ASSUME NEW m \in Nat, m >= 2
        PROVE  /\ m \div 2 \in Nat /\ 1 <= m \div 2 /\ m \div 2 < m
               /\ 2 * (m \div 2) <= m /\ m <= 2 * (m \div 2) + 1
    BY <2>2
  <2> QED
    BY <1>4, <2>1, <2>2
<1>7. /\ lks \in Seq(Key) /\ Len(lks) = h
      /\ \A j \in 1 .. h : lks[j] = ks[j]
  <2>1. \A i \in 1 .. h : ks[i] \in Key
    BY <1>5, <1>6
  <2> QED
    BY <1>6, <2>1, SubSeqProperties
<1>8. /\ lps \in Seq(Pid) /\ Len(lps) = h + 1
      /\ \A j \in 1 .. h + 1 : lps[j] = ps[j]
  <2> DEFINE m == h + 1
  <2>1. m \in Nat /\ 1 <= m /\ \A i \in 1 .. m : ps[i] \in Pid
    BY <1>1, <1>5, <1>6
  <2> HIDE DEF m
  <2>2. /\ SubSeq(ps, 1, m) \in Seq(Pid) /\ Len(SubSeq(ps, 1, m)) = m
        /\ \A j \in 1 .. m : SubSeq(ps, 1, m)[j] = ps[j]
    BY <2>1, SubSeqProperties
  <2> QED
    BY <2>2 DEF m
<1>9. /\ uks \in Seq(Key) /\ Len(uks) = n - h - 1
      /\ \A j \in 1 .. n - h - 1 : uks[j] = ks[h + 1 + j]
  <2> DEFINE m == h + 2
  <2>1. m \in Nat /\ n - m + 1 = n - h - 1 /\ (m <= n \/ n - h - 1 = 0)
        /\ \A i \in m .. n : ks[i] \in Key
    BY <1>5, <1>6
  <2>2. \A j \in Nat : m + j - 1 = h + 1 + j
    BY <1>6
  <2> HIDE DEF m
  <2>3. /\ SubSeq(ks, m, n) \in Seq(Key)
        /\ Len(SubSeq(ks, m, n)) = IF m <= n THEN n - m + 1 ELSE 0
        /\ \A j \in 1 .. n - m + 1 : SubSeq(ks, m, n)[j] = ks[m + j - 1]
    BY <1>6, <2>1, SubSeqProperties
  <2>4. Len(SubSeq(ks, m, n)) = n - h - 1
    BY <1>6, <2>1, <2>3
  <2>5. \A j \in 1 .. n - h - 1 : SubSeq(ks, m, n)[j] = ks[h + 1 + j]
    BY <2>1, <2>2, <2>3
  <2> QED
    BY <2>3, <2>4, <2>5 DEF m
<1>10. /\ ups \in Seq(Pid) /\ Len(ups) = n - h
       /\ \A j \in 1 .. n - h : ups[j] = ps[h + 1 + j]
  <2> DEFINE m == h + 2
             l == Len(ps)
  <2>1. m \in Nat /\ l \in Nat /\ l - m + 1 = n - h /\ m <= l
        /\ \A i \in m .. l : ps[i] \in Pid
    BY <1>1, <1>5, <1>6
  <2>2. \A j \in Nat : m + j - 1 = h + 1 + j
    BY <1>6
  <2> HIDE DEF m, l
  <2>3. /\ SubSeq(ps, m, l) \in Seq(Pid) /\ Len(SubSeq(ps, m, l)) = l - m + 1
        /\ \A j \in 1 .. l - m + 1 : SubSeq(ps, m, l)[j] = ps[m + j - 1]
    BY <2>1, SubSeqProperties
  <2>4. \A j \in 1 .. n - h : SubSeq(ps, m, l)[j] = ps[h + 1 + j]
    BY <2>1, <2>2, <2>3
  <2> QED
    BY <2>1, <2>3, <2>4 DEF m, l
<1> HIDE DEF lks, lps, uks, ups
<1>11. Branches(NonLeaf(lks, lps))
    BY <1>6, <1>7, <1>8, EmptySeq DEF NonLeaf, Branches
<1>12. n >= 3 => Branches(NonLeaf(uks, ups))
  <2>1. n >= 3 => n - h - 1 # 0
    BY <1>6
  <2>2. n - h = n - h - 1 + 1
    BY <1>6
  <2> QED
    BY <1>9, <1>10, <2>1, <2>2, EmptySeq DEF NonLeaf, Branches
<1>13. /\ NonLeaf(lks, lps).keys = lks /\ NonLeaf(lks, lps).pids = lps
       /\ NonLeaf(uks, ups).keys = uks /\ NonLeaf(uks, ups).pids = ups
       /\ NonLeaf(uks, ups).kind = "nonleaf"
    BY DEF NonLeaf
<1> QED
    BY <1>1, <1>3, <1>6, <1>7, <1>8, <1>9, <1>10, <1>11, <1>12, <1>13 DEF all, ks, ps, n, h

(***************************************************************************)
(* The inductive invariant                                                 *)
(***************************************************************************)

\* What the file offers to the next open: a root whose level is its height.
MetaLevel(lev) ==
    (disk # <<>> /\ disk[1].kind = "meta") =>
        EndPid >= 2 /\ At(lev, disk[1].rootPid, disk[1].treeHeight - 1)

\* The same of the open index; a new root is one level above the old height
\* until its metadata is written.
RootLevel(lev) ==
    /\ pc = "firstRoot" => EndPid = 1 /\ treeHeight = 1
    /\ (mode # "none" /\ treeHeight > 0 /\ pc # "firstRoot") =>
         /\ EndPid >= 2
         /\ At(lev, rootPid, IF pc = "rootMetadata" THEN treeHeight ELSE treeHeight - 1)

\* The frames of _insert: each works one level below the one that called it,
\* and a split hands up a page of the level below.
Descending == {"descend", "leafSibling", "leafNode", "ascend", "nonleafSibling", "nonleafNode"}
Ascending  == {"ascend", "nonleafSibling", "nonleafNode", "rootNode"}
FrameLevels(c, lev) ==
    /\ (treeHeight > 0 /\ pc \in Descending) =>
         \A d \in 1 .. Len(path) : At(lev, path[d], treeHeight - d)
    /\ pc \in {"leafSibling", "leafNode"} =>
         /\ Len(path) = treeHeight /\ Len(c) < EndPid
         /\ splitpid \in 1 .. EndPid - 1 /\ splitpid \notin DOMAIN lev
    /\ pc = "leafNode" => PageAt(splitpid) = UpperHalf(LeafAt(NodePid), ins)
    /\ pc \in Ascending => At(lev, splitpid, treeHeight - Len(path) - 1)
    /\ pc \in {"nonleafSibling", "rootNode"} =>
         newPid \in 1 .. EndPid - 1 /\ newPid \notin DOMAIN lev
    /\ pc = "nonleafNode" => At(lev, newPid, treeHeight - Len(path))
    /\ pc = "rootNode" => path = <<>>

\* The entries: those acknowledged are on the chain, that of a running insert
\* is new before the write of its leaf, and on the chain after it.
Unwritten == {"firstRoot", "firstMetadata", "descend", "leafSibling", "leafNode"}
Accounted(c) ==
    /\ pc \in {"idle", "scan", "scanEnd"} => ins = NoEntry
    /\ acked \subseteq Kept(c)
    /\ \A e \in Kept(c) : e.key \in tried
    /\ pc \in Unwritten => ins.key \in tried /\ \A e \in Kept(c) : e.key # ins.key
    /\ pc \in Ascending \cup {"rootMetadata"} => ins \in Kept(c)

Linked(c, lev) ==
    /\ Tree(c, lev)
    /\ MetaLevel(lev)
    /\ RootLevel(lev)
    /\ FrameLevels(c, lev)
    /\ Accounted(c)
Chained == Typed /\ \E c, lev : Linked(c, lev)

LEMMA InitChained == Init => Chained
<1> SUFFICES ASSUME Init PROVE \E c, lev : Linked(c, lev)
    BY InitTyped DEF Chained
<1> DEFINE c   == <<1>>
           lev == [p \in {1} |-> 0]
<1>1. EndPid = 0 /\ \A p : PageAt(p) = Blank /\ LeafAt(p) = EmptyLeaf
    BY DEF Init, EndPid, PageAt, LeafAt, Blank
<1>2. c \in Seq(Nat \ {0}) /\ Len(c) = 1 /\ c # <<>> /\ c[1] = 1
    OBVIOUS
<1>3. DOMAIN lev = {1} /\ lev[1] = 0
    OBVIOUS
<1> HIDE DEF c, lev
<1>4. Chain(c)
    BY <1>1, <1>2 DEF Chain, EmptyLeaf, Leaf
<1>5. Levels(c, lev)
    BY <1>1, <1>2, <1>3 DEF Levels, At, Blank
<1>6. Kept(c) = {}
    BY <1>1, <1>2 DEF Kept, Has, Occurs, EmptyLeaf, Leaf
<1>7. MetaLevel(lev) /\ RootLevel(lev) /\ FrameLevels(c, lev)
    BY DEF Init, MetaLevel, RootLevel, FrameLevels, Descending, Ascending
<1>8. Accounted(c)
    BY <1>6 DEF Init, Accounted, Unwritten, Ascending
<1> QED
    BY <1>4, <1>5, <1>7, <1>8 DEF Linked, Tree

(***************************************************************************)
(* Steps that leave the file alone                                         *)
(***************************************************************************)

LEMMA SameFile ==
    ASSUME NEW c, NEW lev, Linked(c, lev), disk \in Seq(Page), disk' = disk
    PROVE  /\ Tree(c, lev)' /\ MetaLevel(lev)' /\ Kept(c)' = Kept(c)
           /\ EndPid' = EndPid /\ \A p : PageAt(p)' = PageAt(p) /\ LeafAt(p)' = LeafAt(p)
<1>1. EndPid' = EndPid /\ EndPid \in Nat
    BY DEF EndPid
<1>2. \A p : PageAt(p)' = PageAt(p)
    BY <1>1 DEF PageAt
<1>3. \A p : LeafAt(p)' = LeafAt(p)
    BY <1>2 DEF LeafAt
<1>4. MetaLevel(lev)'
    BY <1>1 DEF Linked, MetaLevel
<1> QED
    BY <1>1, <1>2, <1>3, <1>4, TreeUntouched DEF Linked

\* The object goes, at a close, at a crash, or by a stack that overflows.
LEMMA ForgetLinked ==
    ASSUME Typed, NEW c, NEW lev, Linked(c, lev), Forget, disk' = disk,
           acked' = acked, tried' = tried
    PROVE  Linked(c, lev)' /\ Kept(c)' = Kept(c)
<1>1. Tree(c, lev)' /\ MetaLevel(lev)' /\ Kept(c)' = Kept(c)
    BY SameFile DEF Typed, TypeOK
<1>2. RootLevel(lev)' /\ FrameLevels(c, lev)'
    BY DEF Forget, RootLevel, FrameLevels, Descending, Ascending
<1>3. Accounted(c)'
    BY <1>1 DEF Forget, NoFrame, Accounted, Unwritten, Ascending, Linked
<1> QED
    BY <1>1, <1>2, <1>3 DEF Linked

LEMMA OpenLinked ==
    ASSUME Typed, NEW c, NEW lev, Linked(c, lev), NEW m \in {"r", "w"}, Open(m)
    PROVE  Linked(c, lev)' /\ Kept(c)' = Kept(c)
<1>1. /\ Tree(c, lev)' /\ MetaLevel(lev)' /\ Kept(c)' = Kept(c) /\ EndPid' = EndPid
    BY SameFile DEF Open, Typed, TypeOK
<1>2. pc = "idle" /\ pc' = pc /\ ins' = ins /\ acked' = acked /\ tried' = tried
    BY DEF Open, frame, ghost, Typed, Running
<1>3. RootLevel(lev)'
  <2>1. CASE disk = <<>>
    BY <1>2, <2>1 DEF Open, RootLevel
  <2>2. CASE disk # <<>> /\ disk[1].kind = "meta"
    BY <1>1, <1>2, <2>2 DEF Open, RootLevel, ReadRootPid, ReadTreeHeight, Linked, MetaLevel
  <2>3. CASE disk # <<>> /\ disk[1].kind # "meta"
    BY <1>2, <2>3 DEF Open, RootLevel, ReadTreeHeight
  <2> QED
    BY <2>1, <2>2, <2>3
<1>4. FrameLevels(c, lev)'
    BY <1>2 DEF FrameLevels, Descending, Ascending
<1>5. Accounted(c)'
    BY <1>1, <1>2 DEF Accounted, Unwritten, Ascending, Linked
<1> QED
    BY <1>1, <1>3, <1>4, <1>5 DEF Linked

\* A scan changes nothing that the chain hangs on.
LEMMA ScanLinked ==
    ASSUME Typed, NEW c, NEW lev, Linked(c, lev), disk' = disk, mode' = mode,
           rootPid' = rootPid, treeHeight' = treeHeight, ins' = ins,
           acked' = acked, tried' = tried,
           pc \in {"idle", "scan", "scanEnd"}, pc' \in {"idle", "scan", "scanEnd"}
    PROVE  Linked(c, lev)' /\ Kept(c)' = Kept(c)
<1>1. /\ Tree(c, lev)' /\ MetaLevel(lev)' /\ Kept(c)' = Kept(c) /\ EndPid' = EndPid
    BY SameFile DEF Typed, TypeOK
<1>2. RootLevel(lev)'
    BY <1>1 DEF RootLevel, Linked
<1>3. FrameLevels(c, lev)'
    BY DEF FrameLevels, Descending, Ascending
<1>4. Accounted(c)'
    BY <1>1 DEF Accounted, Unwritten, Ascending, Linked
<1> QED
    BY <1>1, <1>2, <1>3, <1>4 DEF Linked

LEMMA InsertLinked ==
    ASSUME Typed, NEW c, NEW lev, Linked(c, lev), NEW e \in Entry, Insert(e)
    PROVE  Linked(c, lev)' /\ Kept(c)' = Kept(c)
<1>1. /\ Tree(c, lev)' /\ MetaLevel(lev)' /\ Kept(c)' = Kept(c) /\ EndPid' = EndPid
    BY SameFile DEF Insert, file, Typed, TypeOK
<1>2. /\ pc = "idle" /\ pc' = "descend" /\ mode' = mode /\ mode # "none"
      /\ rootPid' = rootPid /\ treeHeight' = treeHeight /\ path' = <<rootPid>>
      /\ ins' = e /\ e.key \notin tried /\ tried' = tried \cup {e.key} /\ acked' = acked
    BY DEF Insert, MayInsert, file, head
<1>3. RootLevel(lev)'
    BY <1>1, <1>2 DEF RootLevel, Linked
<1>4. FrameLevels(c, lev)'
  <2>1. treeHeight > 0 => At(lev, rootPid, treeHeight - 1)
    BY <1>2 DEF RootLevel, Linked
  <2>2. Len(path') = 1 /\ path'[1] = rootPid
    BY <1>2
  <2>3. \A d \in 1 .. Len(path') : d = 1
    BY <2>2
  <2> QED
    BY <1>2, <2>1, <2>2, <2>3 DEF FrameLevels, Ascending
<1>5. Accounted(c)'
    BY <1>1, <1>2 DEF Accounted, Unwritten, Ascending, Linked
<1> QED
    BY <1>1, <1>3, <1>4, <1>5 DEF Linked

LEMMA LevelIsNat ==
    ASSUME NEW c, NEW lev, Tree(c, lev), NEW p, NEW l, At(lev, p, l)
    PROVE  l \in Nat
BY DEF Tree, Levels, At

\* A nonleaf page that is above the leaf level leads on one level below.
LEMMA ChildLevel ==
    ASSUME NEW c, NEW lev, Tree(c, lev), disk \in Seq(Page),
           NEW p, NEW l \in Nat \ {0}, At(lev, p, l)
    PROVE  /\ NonLeafAt(p) = PageAt(p) /\ Branches(PageAt(p)) /\ PageAt(p) \in NonLeafPage
           /\ \A i \in DOMAIN PageAt(p).pids : At(lev, PageAt(p).pids[i], l - 1)
<1>1. Branches(PageAt(p)) /\ \A i \in DOMAIN PageAt(p).pids : At(lev, PageAt(p).pids[i], l - 1)
    BY DEF Tree, Levels, At
<1>2. PageAt(p) \in Page
    BY PageAtTyped
<1>3. PageAt(p) \in NonLeafPage
    BY <1>1, <1>2 DEF Branches, Page, LeafPage, MetaPage, Blank
<1> QED
    BY <1>1, <1>3 DEF NonLeafAt, Branches

LEMMA DescendLinked ==
    ASSUME Typed, NEW c, NEW lev, Linked(c, lev), Descend
    PROVE  Linked(c, lev)' /\ Kept(c)' = Kept(c)
<1>1. /\ Tree(c, lev)' /\ MetaLevel(lev)' /\ Kept(c)' = Kept(c) /\ EndPid' = EndPid
    BY SameFile DEF Descend, file, Typed, TypeOK
<1> DEFINE child == LocateChildPtr(NonLeafAt(NodePid), ins.key)
           n == Len(path)
<1>2. /\ pc = "descend" /\ pc' = pc /\ mode' = mode /\ rootPid' = rootPid
      /\ treeHeight' = treeHeight /\ path' = Append(path, child) /\ n # treeHeight
      /\ ins' = ins /\ tried' = tried /\ acked' = acked /\ disk \in Seq(Page)
      /\ path \in Seq(Pid) /\ path # <<>> /\ treeHeight \in Nat \cup {-1}
    BY DEF Descend, file, head, ghost, Depth, Typed, TypeOK, Running
<1>3. treeHeight > 0 => At(lev, child, treeHeight - (n + 1))
  <2> SUFFICES ASSUME treeHeight > 0 PROVE At(lev, child, treeHeight - (n + 1))
    OBVIOUS
  <2>1. n \in 1 .. n /\ n \in Nat
    BY <1>2, EmptySeq
  <2>2. At(lev, NodePid, treeHeight - n)
    BY <1>2, <2>1 DEF FrameLevels, Descending, Linked, NodePid, Last
  <2>3. treeHeight - n \in Nat \ {0}
    BY <1>2, <2>1, <2>2, LevelIsNat DEF Linked
  <2> DEFINE node == PageAt(NodePid)
  <2>4. /\ NonLeafAt(NodePid) = node /\ Branches(node) /\ node \in NonLeafPage
        /\ \A i \in DOMAIN node.pids : At(lev, node.pids[i], treeHeight - n - 1)
    BY <1>2, <2>2, <2>3, ChildLevel DEF Linked
  <2> HIDE DEF node
  <2>5. NonLeafSlot(node.keys, ins.key) \in DOMAIN node.pids
    <3>1. node.keys \in Seq(Key) /\ node.pids \in Seq(Pid) /\ Len(node.pids) = Len(node.keys) + 1
      BY <2>4 DEF NonLeafPage, Branches
    <3>2. NonLeafSlot(node.keys, ins.key) \in 1 .. Len(node.keys) + 1
      BY <3>1, NonLeafSlotInRange
    <3> QED
      BY <3>1, <3>2
  <2>6. \E i \in DOMAIN node.pids : child = node.pids[i]
    BY <2>4, <2>5 DEF LocateChildPtr
  <2>7. treeHeight - n - 1 = treeHeight - (n + 1)
    BY <1>2, <2>1
  <2> HIDE DEF child, n
  <2> QED
    BY <2>4, <2>6, <2>7
<1> HIDE DEF child
<1>4. Len(path') = n + 1 /\ path'[n + 1] = child /\ \A d \in 1 .. n : path'[d] = path[d]
    BY <1>2, ChildTyped, NonLeafAtTyped, AppendProperties DEF child
<1>5. FrameLevels(c, lev)'
  <2>1. ASSUME treeHeight > 0, NEW d \in 1 .. n + 1
        PROVE  At(lev, path'[d], treeHeight - d)
    <3>1. d \in 1 .. n \/ d = n + 1
      BY <1>2
    <3>2. \A k \in 1 .. n : At(lev, path[k], treeHeight - k)
      BY <1>2, <2>1 DEF FrameLevels, Descending, Linked
    <3> QED
      BY <1>3, <1>4, <2>1, <3>1, <3>2
  <2> QED
    BY <1>2, <1>4, <2>1 DEF FrameLevels, Ascending
<1>6. RootLevel(lev)'
    BY <1>1, <1>2 DEF RootLevel, Linked
<1>7. Accounted(c)'
    BY <1>1, <1>2 DEF Accounted, Unwritten, Ascending, Linked
<1> QED
    BY <1>1, <1>5, <1>6, <1>7 DEF Linked

(***************************************************************************)
(* Steps that write                                                        *)
(***************************************************************************)

\* A page joins the tree, or keeps its level; the levels of the others stay.
LEMMA JoinKeeps ==
    ASSUME NEW lev, NEW p, NEW l, p \in DOMAIN lev => lev[p] = l
    PROVE  /\ DOMAIN Join(lev, p, l) = DOMAIN lev \cup {p}
           /\ At(Join(lev, p, l), p, l)
           /\ \A q, m : At(lev, q, m) => At(Join(lev, p, l), q, m)
BY DEF Join, At

\* A new page reads as what a read past the end leaves in the buffer.
LEMMA FetchKeepsTree ==
    ASSUME NEW c, NEW lev, Linked(c, lev), disk \in Seq(Page), FetchNewPage
    PROVE  /\ Tree(c, lev)' /\ MetaLevel(lev)' /\ Kept(c)' = Kept(c)
           /\ EndPid' = EndPid + 1 /\ EndPid \in Nat
           /\ \A p : PageAt(p)' = PageAt(p)
<1>1. Blank \in Page /\ disk' = Append(disk, Blank)
    BY DEF Page, FetchNewPage
<1>2. /\ EndPid' = EndPid + 1 /\ EndPid \in Nat
      /\ \A i \in 1 .. EndPid : disk'[i] = disk[i]
      /\ disk'[EndPid + 1] = Blank
    BY <1>1, AppendProperties DEF EndPid
<1>3. \A p : PageAt(p)' = PageAt(p)
  <2> SUFFICES ASSUME NEW p PROVE PageAt(p)' = PageAt(p)
    OBVIOUS
  <2>1. CASE p \in 0 .. EndPid - 1
    BY <1>2, <2>1 DEF PageAt
  <2>2. CASE p = EndPid
    BY <1>2, <2>2 DEF PageAt
  <2>3. CASE p \notin 0 .. EndPid
    BY <1>2, <2>3 DEF PageAt
  <2> QED
    BY <1>2, <2>1, <2>2, <2>3
<1>4. EndPid' \in Nat /\ EndPid' >= EndPid
    BY <1>2
<1>5. Tree(c, lev)' /\ Kept(c)' = Kept(c)
    BY <1>2, <1>3, <1>4, TreeUntouched DEF Linked
<1>6. MetaLevel(lev)'
  <2>1. CASE disk = <<>>
    <3>1. EndPid = 0
      BY <2>1, EmptySeq DEF EndPid
    <3>2. disk'[1].kind # "meta"
      BY <1>2, <3>1 DEF Blank
    <3> QED
      BY <3>2 DEF MetaLevel
  <2>2. CASE disk # <<>>
    BY <1>2, <2>2, FetchKeepsMetadata DEF MetaLevel, Linked
  <2> QED
    BY <2>1, <2>2
<1> QED
    BY <1>2, <1>3, <1>5, <1>6

\* A node is written; what the metadata points to keeps its level.
LEMMA NodeKeepsMetaLevel ==
    ASSUME NEW lev, MetaLevel(lev), disk \in Seq(Page), NEW p \in Nat \ {0}, NEW page \in Page,
           WritePage(p, page), NEW new, \A q, m : At(lev, q, m) => At(new, q, m)
    PROVE  MetaLevel(new)'
<1>1. EndPid' = EndPid /\ (disk' = <<>> <=> disk = <<>>)
    BY WritePageTyped DEF EndPid
<1>2. disk # <<>> => disk'[1] = disk[1]
    BY WriteNodeKeepsMetadata DEF Pid
<1> QED
    BY <1>1, <1>2 DEF MetaLevel

\* commit_metadata of a root and a height that belong together.
LEMMA MetadataWritten ==
    ASSUME NEW c, NEW lev, Tree(c, lev), disk \in Seq(Page), EndPid >= 2,
           NEW root \in Pid, NEW height \in Nat \ {0}, At(lev, root, height - 1),
           WritePage(0, Metadata(root, height))
    PROVE  /\ Tree(c, lev)' /\ MetaLevel(lev)' /\ Kept(c)' = Kept(c)
           /\ EndPid' = EndPid
           /\ \A p : p # 0 => PageAt(p)' = PageAt(p)
<1> DEFINE page == Metadata(root, height)
<1>1. page \in Page /\ page.rootPid = root /\ page.treeHeight = height
    BY DEF Metadata, Page, MetaPage
<1>2. EndPid \in Nat /\ 0 \in 0 .. EndPid - 1
    BY DEF EndPid
<1>3. WritePage(0, page)
    OBVIOUS
<1> HIDE DEF page
<1>4. /\ EndPid' = EndPid /\ PageAt(0)' = page
      /\ \A p : p # 0 => PageAt(p)' = PageAt(p)
    BY <1>1, <1>2, <1>3, WriteChanges
<1>5. 0 \notin DOMAIN lev
    BY <1>2 DEF Tree, Levels
<1>6. Tree(c, lev)' /\ Kept(c)' = Kept(c)
    BY <1>2, <1>4, <1>5, TreeUntouched
<1>7. disk'[1] = page
    BY <1>2, <1>4 DEF PageAt
<1> QED
    BY <1>1, <1>4, <1>6, <1>7 DEF MetaLevel

\* A frame of _insert works on a page that has a level.
LEMMA NodeLevel ==
    ASSUME Typed, NEW c, NEW lev, Linked(c, lev), pc \in Descending, treeHeight > 0, path # <<>>
    PROVE  /\ Len(path) \in Nat \ {0} /\ treeHeight \in Nat
           /\ At(lev, NodePid, treeHeight - Len(path))
           /\ treeHeight - Len(path) \in Nat
           /\ EndPid >= 2 /\ EndPid \in Nat /\ NodePid \in 1 .. EndPid - 1
           /\ mode # "none" /\ At(lev, rootPid, treeHeight - 1)
<1>1. Len(path) \in Nat \ {0} /\ Len(path) \in 1 .. Len(path) /\ treeHeight \in Nat
    BY EmptySeq DEF Typed, TypeOK
<1>2. At(lev, NodePid, treeHeight - Len(path))
    BY <1>1 DEF FrameLevels, Linked, NodePid, Last
<1>3. treeHeight - Len(path) \in Nat
    BY <1>2, LevelIsNat DEF Linked
<1>4. mode # "none" /\ pc \notin {"firstRoot", "rootMetadata", "idle"}
    BY DEF Typed, Running, Descending
<1>5. EndPid >= 2 /\ EndPid \in Nat /\ At(lev, rootPid, treeHeight - 1)
    BY <1>4 DEF RootLevel, Linked, EndPid, Typed, TypeOK
<1>6. NodePid \in 1 .. EndPid - 1
    BY <1>2, <1>5 DEF Linked, Tree, Levels, At
<1> QED
    BY <1>1, <1>2, <1>3, <1>4, <1>5, <1>6

\* insert returns: its entry is on the chain, and becomes acknowledged.
LEMMA ReturnLinked ==
    ASSUME NEW c, NEW lev, Linked(c, lev), NEW c2, NEW lev2, Tree(c2, lev2)', MetaLevel(lev2)',
           Return, tried' = tried, EndPid' >= 2, At(lev2, rootPid', treeHeight' - 1),
           ins \in Kept(c2)', Kept(c) \subseteq Kept(c2)',
           \A e \in Kept(c2)' : e.key \in tried
    PROVE  Linked(c2, lev2)'
<1>1. pc' = "idle" /\ ins' = NoEntry /\ acked' = acked \cup {ins}
    BY DEF Return, NoFrame
<1>2. RootLevel(lev2)' /\ FrameLevels(c2, lev2)'
    BY <1>1 DEF RootLevel, FrameLevels, Descending, Ascending
<1>3. Accounted(c2)'
    BY <1>1 DEF Accounted, Unwritten, Ascending, Linked
<1> QED
    BY <1>2, <1>3 DEF Linked

\* The frames that are left when the last one returns.
LEMMA FrontIs ==
    ASSUME path \in Seq(Pid), path # <<>>, path' = Front(path)
    PROVE  /\ Len(path) \in Nat \ {0} /\ Len(path') = Len(path) - 1
           /\ \A d \in 1 .. Len(path') : path'[d] = path[d]
<1> DEFINE m == Len(path) - 1
<1>1. Len(path) \in Nat \ {0} /\ m \in Nat
    BY EmptySeq
<1>2. \A d \in 1 .. m : path[d] \in Pid
    BY <1>1, ElementOfSeq
<1>3. path' = SubSeq(path, 1, m)
    BY DEF Front
<1> HIDE DEF m
<1>4. Len(path') = m /\ \A d \in 1 .. m : path'[d] = path[d]
    BY <1>1, <1>2, <1>3, SubSeqProperties
<1> QED
    BY <1>1, <1>4 DEF m

LEMMA FirstInsertLinked ==
    ASSUME Typed, NEW c, NEW lev, Linked(c, lev), NEW e \in Entry, FirstInsert(e)
    PROVE  Linked(c, lev)' /\ Kept(c)' = Kept(c)
<1>1. /\ disk \in Seq(Page) /\ disk = <<>> /\ FetchNewPage
      /\ pc = "idle" /\ pc' = "firstRoot" /\ treeHeight' = 1 /\ ins' = e
      /\ e.key \notin tried /\ tried' = tried \cup {e.key} /\ acked' = acked
    BY DEF FirstInsert, MayInsert, Typed, TypeOK, Running
<1>2. Tree(c, lev)' /\ MetaLevel(lev)' /\ Kept(c)' = Kept(c) /\ EndPid' = 1
  <2>1. EndPid = 0
    BY <1>1 DEF EndPid
  <2> QED
    BY <1>1, <2>1, FetchKeepsTree
<1>3. RootLevel(lev)' /\ FrameLevels(c, lev)'
    BY <1>1, <1>2 DEF RootLevel, FrameLevels, Descending, Ascending
<1>4. Accounted(c)'
    BY <1>1, <1>2 DEF Accounted, Unwritten, Ascending, Linked
<1> QED
    BY <1>2, <1>3, <1>4 DEF Linked

LEMMA FetchFirstRootLinked ==
    ASSUME Typed, NEW c, NEW lev, Linked(c, lev), FetchFirstRoot
    PROVE  Linked(c, lev)' /\ Kept(c)' = Kept(c)
<1>1. /\ disk \in Seq(Page) /\ FetchNewPage /\ EndPid = 1 /\ treeHeight = 1
      /\ pc = "firstRoot" /\ pc' = "firstMetadata" /\ treeHeight' = 1 /\ rootPid' = 1
      /\ ins' = ins /\ tried' = tried /\ acked' = acked
    BY DEF FetchFirstRoot, frame, ghost, Linked, RootLevel, Typed, TypeOK
<1>2. Tree(c, lev)' /\ MetaLevel(lev)' /\ Kept(c)' = Kept(c) /\ EndPid' = 2
    BY <1>1, FetchKeepsTree
<1>3. At(lev, 1, 0)
  <2>1. c[1] = 1 /\ 1 \in 1 .. Len(c)
    BY EmptySeq DEF Linked, Tree, Chain
  <2> QED
    BY <2>1 DEF Linked, Tree, Levels
<1>4. RootLevel(lev)' /\ FrameLevels(c, lev)'
    BY <1>1, <1>2, <1>3 DEF RootLevel, FrameLevels, Descending, Ascending
<1>5. Accounted(c)'
    BY <1>1, <1>2 DEF Accounted, Unwritten, Ascending, Linked
<1> QED
    BY <1>2, <1>4, <1>5 DEF Linked

LEMMA CommitFirstLinked ==
    ASSUME Typed, NEW c, NEW lev, Linked(c, lev), CommitFirst
    PROVE  Linked(c, lev)' /\ Kept(c)' = Kept(c)
<1>1. /\ disk \in Seq(Page) /\ treeHeight \in Nat \ {0} /\ mode # "none" /\ rootPid \in Pid
      /\ pc = "firstMetadata" /\ pc' = "descend" /\ mode' = mode
      /\ treeHeight' = treeHeight /\ rootPid' = rootPid /\ path' = <<rootPid>>
      /\ ins' = ins /\ tried' = tried /\ acked' = acked
      /\ WritePage(0, Metadata(rootPid, treeHeight))
    BY DEF CommitFirst, head, ghost, Typed, TypeOK, Running
<1>2. EndPid >= 2 /\ At(lev, rootPid, treeHeight - 1)
    BY <1>1 DEF RootLevel, Linked
<1>3. Tree(c, lev)' /\ MetaLevel(lev)' /\ Kept(c)' = Kept(c) /\ EndPid' = EndPid
    BY <1>1, <1>2, MetadataWritten DEF Linked
<1>4. RootLevel(lev)'
    BY <1>1, <1>2, <1>3 DEF RootLevel
<1>5. FrameLevels(c, lev)'
  <2>1. path'[1] = rootPid /\ \A d \in 1 .. Len(path') : d = 1
    BY <1>1
  <2> QED
    BY <1>1, <1>2, <2>1 DEF FrameLevels, Ascending
<1>6. Accounted(c)'
    BY <1>1, <1>3 DEF Accounted, Unwritten, Ascending, Linked
<1> QED
    BY <1>3, <1>4, <1>5, <1>6 DEF Linked

\* The leaf an insert works on is on the chain.
LEMMA LeafOnChain ==
    ASSUME NEW c, NEW lev, Tree(c, lev), NEW p, At(lev, p, 0)
    PROVE  \E i \in 1 .. Len(c) : p = c[i]
BY DEF Tree, Levels, At

LEMMA InsertInLeafLinked ==
    ASSUME Typed, NEW c, NEW lev, Linked(c, lev), InsertInLeaf
    PROVE  Linked(c, lev)' /\ Kept(c)' = Kept(c) \cup {ins}
<1>1. /\ AtLeaf /\ WritePage(NodePid, LeafInsert(LeafAt(NodePid), ins)) /\ Return
      /\ pc = "descend" /\ Len(path) = treeHeight /\ disk \in Seq(Page) /\ ins \in Entry
      /\ rootPid' = rootPid /\ treeHeight' = treeHeight /\ tried' = tried /\ path # <<>>
    BY DEF InsertInLeaf, AtLeaf, Depth, head, Typed, TypeOK, Running
<1>2. treeHeight > 0
    BY <1>1, AtLeafHasHeight
<1>3. /\ EndPid >= 2 /\ EndPid \in Nat /\ NodePid \in 1 .. EndPid - 1 /\ treeHeight \in Nat
      /\ At(lev, NodePid, 0) /\ At(lev, rootPid, treeHeight - 1)
  <2>1. At(lev, NodePid, treeHeight - treeHeight) /\ treeHeight \in Nat
    BY <1>1, <1>2, NodeLevel DEF Descending
  <2> QED
    BY <1>1, <1>2, <2>1, NodeLevel DEF Descending
<1>4. PICK p : p = NodePid
    OBVIOUS
<1>5. PICK e : e = ins
    OBVIOUS
<1>6. Tree(c, lev)' /\ Kept(c)' = Kept(c) \cup {e}
    BY <1>1, <1>3, <1>4, <1>5, LeafInserted DEF Linked
<1>7. LeafInsert(LeafAt(p), e) \in Page
    BY <1>1, <1>5, LeafAtTyped, LeafInsertTyped DEF Page
<1>8. EndPid' = EndPid
    BY <1>1, <1>4, <1>5, <1>7, WritePageTyped DEF EndPid
<1>9. MetaLevel(lev)'
    BY <1>1, <1>3, <1>4, <1>5, <1>7, NodeKeepsMetaLevel DEF Linked
<1>10. \A x \in Kept(c)' : x.key \in tried
    BY <1>1, <1>5, <1>6 DEF Linked, Accounted, Unwritten
<1> QED
    BY <1>1, <1>3, <1>5, <1>6, <1>8, <1>9, <1>10, ReturnLinked

LEMMA FetchLeafSiblingLinked ==
    ASSUME Typed, NEW c, NEW lev, Linked(c, lev), FetchLeafSibling
    PROVE  Linked(c, lev)' /\ Kept(c)' = Kept(c)
<1>1. /\ AtLeaf /\ FetchNewPage /\ splitpid' = EndPid
      /\ pc = "descend" /\ pc' = "leafSibling" /\ Len(path) = treeHeight
      /\ disk \in Seq(Page) /\ path # <<>> /\ path' = path
      /\ rootPid' = rootPid /\ treeHeight' = treeHeight /\ mode' = mode
      /\ ins' = ins /\ tried' = tried /\ acked' = acked
    BY DEF FetchLeafSibling, AtLeaf, Depth, head, ghost, Typed, TypeOK, Running
<1>2. treeHeight > 0 /\ EndPid >= 2 /\ EndPid \in Nat
    BY <1>1, AtLeafHasHeight, NodeLevel DEF Descending
<1>3. Tree(c, lev)' /\ MetaLevel(lev)' /\ Kept(c)' = Kept(c) /\ EndPid' = EndPid + 1
    BY <1>1, FetchKeepsTree
<1>4. RootLevel(lev)'
    BY <1>1, <1>2, <1>3 DEF RootLevel, Linked
<1>5. Len(c) < EndPid' /\ EndPid \in 1 .. EndPid' - 1 /\ EndPid \notin DOMAIN lev
  <2>1. Len(c) \in Nat /\ (Len(c) <= EndPid \/ Len(c) = 1)
    BY EmptySeq DEF Linked, Tree, Chain
  <2>2. DOMAIN lev \subseteq (1 .. EndPid - 1) \cup {1}
    BY DEF Linked, Tree, Levels
  <2>3. EndPid \notin (1 .. EndPid - 1) \cup {1}
    BY <1>2
  <2>4. ASSUME NEW m \in Nat, m >= 2, NEW n \in Nat, n <= m \/ n = 1
        PROVE  n < m + 1 /\ m \in 1 .. m + 1 - 1
    BY <2>4
  <2>5. Len(c) < EndPid + 1 /\ EndPid \in 1 .. EndPid + 1 - 1
    BY <1>2, <2>1, <2>4
  <2> QED
    BY <1>3, <2>2, <2>3, <2>5
<1>6. FrameLevels(c, lev)'
    BY <1>1, <1>2, <1>5 DEF FrameLevels, Descending, Ascending, Linked
<1>7. Accounted(c)'
    BY <1>1, <1>3 DEF Accounted, Unwritten, Ascending, Linked
<1> QED
    BY <1>3, <1>4, <1>6, <1>7 DEF Linked

\* The upper half goes to a page that nothing points to yet.
LEMMA WriteLeafSiblingLinked ==
    ASSUME Typed, NEW c, NEW lev, Linked(c, lev), WriteLeafSibling
    PROVE  Linked(c, lev)' /\ Kept(c)' = Kept(c)
<1>1. /\ WritePage(splitpid, UpperHalf(LeafAt(NodePid), ins)) /\ splitpid' = splitpid
      /\ pc = "leafSibling" /\ pc' = "leafNode" /\ ins \in Entry
      /\ disk \in Seq(Page) /\ path # <<>> /\ path' = path
      /\ rootPid' = rootPid /\ treeHeight' = treeHeight /\ mode' = mode
      /\ ins' = ins /\ tried' = tried /\ acked' = acked /\ treeHeight > 0
    BY DEF WriteLeafSibling, head, ghost, Typed, TypeOK, Running
<1>2. /\ EndPid >= 2 /\ EndPid \in Nat /\ treeHeight \in Nat
      /\ At(lev, NodePid, treeHeight - Len(path))
      /\ Len(path) = treeHeight /\ Len(c) < EndPid
      /\ splitpid \in 1 .. EndPid - 1 /\ splitpid \notin DOMAIN lev
    BY <1>1, NodeLevel DEF Descending, Linked, FrameLevels
<1>3. PICK q : q = splitpid
    OBVIOUS
<1>4. PICK p : p = NodePid
    OBVIOUS
<1> DEFINE page == UpperHalf(LeafAt(NodePid), ins)
<1>5. page \in Page
    BY <1>1, LeafAtTyped, LeafSplitTyped DEF Page
<1>6. WritePage(q, page) /\ q \in 0 .. EndPid - 1 /\ q \in Nat \ {0} /\ q # p
    BY <1>1, <1>2, <1>3, <1>4 DEF At
<1> HIDE DEF page
<1>7. /\ EndPid' = EndPid /\ PageAt(q)' = page
      /\ \A r : r # q => PageAt(r)' = PageAt(r)
    BY <1>1, <1>5, <1>6, WriteChanges
<1>8. Tree(c, lev)' /\ Kept(c)' = Kept(c)
    BY <1>2, <1>3, <1>7, TreeUntouched DEF Linked
<1>9. MetaLevel(lev)'
    BY <1>1, <1>5, <1>6, NodeKeepsMetaLevel DEF Linked
<1>10. RootLevel(lev)'
    BY <1>1, <1>7 DEF RootLevel, Linked
<1>11. PageAt(splitpid)' = UpperHalf(LeafAt(NodePid), ins)'
  <2>1. NodePid' = p
    BY <1>1, <1>4 DEF NodePid
  <2>2. LeafAt(p)' = LeafAt(p)
    BY <1>6, <1>7 DEF LeafAt
  <2>3. LeafAt(NodePid)' = LeafAt(p)'
    BY <2>1 DEF LeafAt, PageAt
  <2>4. UpperHalf(LeafAt(NodePid), ins)' = page
    BY <1>1, <1>4, <2>2, <2>3 DEF page, UpperHalf, LeafPut, LeafSlot
  <2>5. PageAt(splitpid)' = PageAt(q)'
    BY <1>1, <1>3 DEF PageAt
  <2> QED
    BY <1>7, <2>4, <2>5
<1>12. FrameLevels(c, lev)'
    BY <1>1, <1>2, <1>7, <1>11 DEF FrameLevels, Descending, Ascending, Linked
<1>13. Accounted(c)'
    BY <1>1, <1>8 DEF Accounted, Unwritten, Ascending, Linked
<1> QED
    BY <1>8, <1>9, <1>10, <1>12, <1>13 DEF Linked

LEMMA WriteLeafLinked ==
    ASSUME Typed, NEW c, NEW lev, Linked(c, lev), WriteLeaf
    PROVE  \E c2, lev2 : Linked(c2, lev2)' /\ Kept(c2)' = Kept(c) \cup {ins}
<1>1. /\ WritePage(NodePid, [LowerHalf(LeafAt(NodePid), ins) EXCEPT !.next = splitpid])
      /\ pc = "leafNode" /\ pc' = "ascend" /\ ins \in Entry /\ splitpid' = splitpid
      /\ disk \in Seq(Page) /\ path # <<>> /\ path \in Seq(Pid) /\ path' = Front(path)
      /\ rootPid' = rootPid /\ treeHeight' = treeHeight /\ mode' = mode
      /\ ins' = ins /\ tried' = tried /\ acked' = acked /\ treeHeight > 0
    BY DEF WriteLeaf, head, ghost, Typed, TypeOK, Running
<1>2. /\ EndPid >= 2 /\ EndPid \in Nat /\ treeHeight \in Nat
      /\ NodePid \in 1 .. EndPid - 1 /\ At(lev, NodePid, treeHeight - Len(path))
      /\ At(lev, rootPid, treeHeight - 1)
    BY <1>1, NodeLevel DEF Descending
<1>3. /\ Len(path) = treeHeight /\ Len(c) < EndPid
      /\ splitpid \in 1 .. EndPid - 1 /\ splitpid \notin DOMAIN lev
      /\ PageAt(splitpid) = UpperHalf(LeafAt(NodePid), ins)
    BY <1>1 DEF Linked, FrameLevels
<1>4. PICK p : p = NodePid
    OBVIOUS
<1>5. PICK q : q = splitpid
    OBVIOUS
<1>6. PICK e : e = ins
    OBVIOUS
<1>7. At(lev, p, 0)
    BY <1>2, <1>3, <1>4
<1>8. PICK i \in 1 .. Len(c) : p = c[i]
    BY <1>7, LeafOnChain DEF Linked
<1> DEFINE c2   == InsertAt(c, i + 1, q)
           lev2 == Join(lev, q, 0)
<1>9. Tree(c2, lev2)' /\ Kept(c2)' = Kept(c) \cup {e}
    BY <1>1, <1>2, <1>3, <1>4, <1>5, <1>6, <1>8, LeafSplit DEF Linked
<1>10. At(lev2, q, 0) /\ \A r, m : At(lev, r, m) => At(lev2, r, m)
    BY <1>3, <1>5, JoinKeeps
<1> HIDE DEF c2, lev2
<1>11. EndPid' = EndPid /\ MetaLevel(lev2)'
  <2> DEFINE lower == LowerHalf(LeafAt(NodePid), ins)
             page  == [lower EXCEPT !.next = splitpid]
  <2>1. lower \in LeafPage
    BY <1>1, LeafAtTyped, LeafSplitTyped
  <2>2. page \in Page
    <3> HIDE DEF lower
    <3> QED
      BY <2>1 DEF Typed, TypeOK, LeafPage, Page
  <2>3. WritePage(p, page) /\ p \in Nat \ {0}
    BY <1>1, <1>2, <1>4
  <2> HIDE DEF page
  <2> QED
    BY <1>1, <1>10, <2>2, <2>3, WritePageTyped, NodeKeepsMetaLevel DEF Linked, EndPid
<1>12. RootLevel(lev2)'
    BY <1>1, <1>2, <1>10, <1>11 DEF RootLevel
<1>13. FrameLevels(c2, lev2)'
  <2>1. Len(path) \in Nat \ {0} /\ Len(path') = Len(path) - 1
        /\ \A d \in 1 .. Len(path') : path'[d] = path[d]
    BY <1>1, FrontIs
  <2>2. \A d \in 1 .. Len(path) : At(lev, path[d], treeHeight - d)
    BY <1>1 DEF Linked, FrameLevels, Descending
  <2>3. \A d \in 1 .. Len(path') : d \in 1 .. Len(path)
    BY <2>1
  <2>4. \A d \in 1 .. Len(path') : At(lev2, path'[d], treeHeight - d)
    BY <1>10, <2>1, <2>2, <2>3
  <2>5. treeHeight - Len(path') - 1 = 0
    BY <1>2, <1>3, <2>1
  <2> QED
    BY <1>1, <1>5, <1>10, <2>4, <2>5 DEF FrameLevels
<1>14. Accounted(c2)'
    BY <1>1, <1>6, <1>9 DEF Accounted, Unwritten, Linked
<1> QED
    BY <1>6, <1>9, <1>11, <1>12, <1>13, <1>14 DEF Linked

\* The frame above a split works on a node whose child was split.
LEMMA NodeAbove ==
    ASSUME Typed, NEW c, NEW lev, Linked(c, lev),
           pc \in {"ascend", "nonleafSibling", "nonleafNode"}, path # <<>>
    PROVE  /\ treeHeight - Len(path) \in Nat \ {0} /\ treeHeight \in Nat \ {0}
           /\ NonLeafAt(NodePid) = PageAt(NodePid)
           /\ Branches(NonLeafAt(NodePid)) /\ NonLeafAt(NodePid) \in NonLeafPage
           /\ \A i \in DOMAIN NonLeafAt(NodePid).pids :
                At(lev, NonLeafAt(NodePid).pids[i], treeHeight - Len(path) - 1)
           /\ At(lev, splitpid, treeHeight - Len(path) - 1)
<1>1. treeHeight \in Nat \ {0} /\ treeHeight > 0
    BY DEF Typed, TypeOK, Running
<1>2. Len(path) \in Nat \ {0} /\ At(lev, NodePid, treeHeight - Len(path))
    BY <1>1, NodeLevel DEF Descending
<1>3. At(lev, splitpid, treeHeight - Len(path) - 1)
    BY DEF Linked, FrameLevels, Ascending
<1>4. treeHeight - Len(path) - 1 \in Nat
    BY <1>3, LevelIsNat DEF Linked
<1>5. treeHeight - Len(path) \in Nat \ {0}
    BY <1>1, <1>2, <1>4
<1> DEFINE l == treeHeight - Len(path)
<1> HIDE DEF l
<1>6. l \in Nat \ {0} /\ At(lev, NodePid, l) /\ disk \in Seq(Page)
    BY <1>2, <1>5 DEF l, Typed, TypeOK
<1>7. /\ NonLeafAt(NodePid) = PageAt(NodePid) /\ Branches(PageAt(NodePid))
      /\ PageAt(NodePid) \in NonLeafPage
      /\ \A i \in DOMAIN PageAt(NodePid).pids : At(lev, PageAt(NodePid).pids[i], l - 1)
    BY <1>6, ChildLevel DEF Linked
<1> QED
    BY <1>1, <1>3, <1>5, <1>7 DEF l

LEMMA InsertInNonLeafLinked ==
    ASSUME EndKey \notin Key, Typed, NEW c, NEW lev, Linked(c, lev), InsertInNonLeaf
    PROVE  \E c2, lev2 : Linked(c2, lev2)' /\ Kept(c2)' = Kept(c)
<1>1. /\ WritePage(NodePid, NonLeafPut(NonLeafAt(NodePid), splitkey, splitpid)) /\ Return
      /\ pc = "ascend" /\ ins \in Entry /\ disk \in Seq(Page) /\ path # <<>>
      /\ rootPid' = rootPid /\ treeHeight' = treeHeight /\ tried' = tried
      /\ splitkey \in Key /\ splitpid \in Pid /\ treeHeight > 0
    BY DEF InsertInNonLeaf, head, Typed, TypeOK, Running
<1>2. /\ EndPid >= 2 /\ NodePid \in 1 .. EndPid - 1 /\ NodePid \in Nat \ {0}
      /\ At(lev, NodePid, treeHeight - Len(path)) /\ At(lev, rootPid, treeHeight - 1)
    BY <1>1, NodeLevel DEF Descending
<1>3. PICK p : p = NodePid
    OBVIOUS
<1>4. PICK l : l = treeHeight - Len(path)
    OBVIOUS
<1> DEFINE node == NonLeafAt(NodePid)
           page == NonLeafPut(node, splitkey, splitpid)
<1>5. /\ l \in Nat \ {0} /\ node \in NonLeafPage /\ Branches(node)
      /\ At(lev, splitpid, l - 1)
      /\ \A i \in DOMAIN node.pids : At(lev, node.pids[i], l - 1)
    BY <1>1, <1>4, NodeAbove
<1>6. page \in Page /\ Branches(page) /\ WritePage(p, page)
  <2> HIDE DEF node
  <2> QED
    BY <1>1, <1>3, <1>5, NonLeafPutIn DEF node, Page
<1>7. \A k \in DOMAIN page.pids : At(lev, page.pids[k], l - 1)
  <2> SUFFICES ASSUME NEW k \in DOMAIN page.pids PROVE At(lev, page.pids[k], l - 1)
    OBVIOUS
  <2> HIDE DEF node
  <2>1. page.pids[k] = splitpid \/ \E j \in DOMAIN node.pids : page.pids[k] = node.pids[j]
    BY <1>1, <1>5, NonLeafPutPids
  <2> QED
    BY <1>5, <2>1
<1> HIDE DEF page, node
<1>8. p \in 1 .. EndPid - 1 /\ At(lev, p, l) /\ (p \in DOMAIN lev => lev[p] = l)
    BY <1>2, <1>3, <1>4 DEF At
<1> DEFINE lev2 == Join(lev, p, l)
<1>9. Tree(c, lev2)' /\ Kept(c)' = Kept(c)
    BY <1>1, <1>5, <1>6, <1>7, <1>8, NodeWritten DEF Linked
<1>10. \A r, m : At(lev, r, m) => At(lev2, r, m)
    BY <1>8, JoinKeeps
<1> HIDE DEF lev2
<1>11. EndPid' = EndPid /\ MetaLevel(lev2)'
    BY <1>1, <1>2, <1>3, <1>6, <1>10, WritePageTyped, NodeKeepsMetaLevel DEF Linked, EndPid
<1>12. ins \in Kept(c) /\ \A x \in Kept(c) : x.key \in tried
    BY <1>1 DEF Linked, Accounted, Ascending
<1>13. Linked(c, lev2)'
    BY <1>1, <1>2, <1>9, <1>10, <1>11, <1>12, ReturnLinked
<1> QED
    BY <1>9, <1>13

\* The page after the last has no level.
LEMMA FreshPage ==
    ASSUME NEW c, NEW lev, Tree(c, lev), EndPid >= 2, EndPid \in Nat, EndPid' = EndPid + 1
    PROVE  EndPid \notin DOMAIN lev /\ EndPid \in 1 .. EndPid' - 1
<1>1. DOMAIN lev \subseteq (1 .. EndPid - 1) \cup {1}
    BY DEF Tree, Levels
<1>2. EndPid \notin (1 .. EndPid - 1) \cup {1} /\ EndPid \in 1 .. EndPid + 1 - 1
    BY ONLY EndPid >= 2, EndPid \in Nat
<1> QED
    BY <1>1, <1>2

LEMMA FetchNonLeafSiblingLinked ==
    ASSUME Typed, NEW c, NEW lev, Linked(c, lev), FetchNonLeafSibling
    PROVE  Linked(c, lev)' /\ Kept(c)' = Kept(c)
<1>1. /\ FetchNewPage /\ newPid' = EndPid /\ splitpid' = splitpid
      /\ pc = "ascend" /\ pc' = "nonleafSibling"
      /\ disk \in Seq(Page) /\ path # <<>> /\ path' = path
      /\ rootPid' = rootPid /\ treeHeight' = treeHeight /\ mode' = mode
      /\ ins' = ins /\ tried' = tried /\ acked' = acked /\ treeHeight > 0
    BY DEF FetchNonLeafSibling, head, ghost, Typed, TypeOK, Running
<1>2. EndPid >= 2 /\ EndPid \in Nat
    BY <1>1, NodeLevel DEF Descending
<1>3. Tree(c, lev)' /\ MetaLevel(lev)' /\ Kept(c)' = Kept(c) /\ EndPid' = EndPid + 1
    BY <1>1, FetchKeepsTree
<1>4. RootLevel(lev)'
    BY <1>1, <1>2, <1>3 DEF RootLevel, Linked
<1>5. newPid' \in 1 .. EndPid' - 1 /\ newPid' \notin DOMAIN lev
    BY <1>1, <1>2, <1>3, FreshPage DEF Linked
<1>6. FrameLevels(c, lev)'
    BY <1>1, <1>5 DEF FrameLevels, Descending, Ascending, Linked
<1>7. Accounted(c)'
    BY <1>1, <1>3 DEF Accounted, Unwritten, Ascending, Linked
<1> QED
    BY <1>3, <1>4, <1>6, <1>7 DEF Linked

\* The pids of the two nodes of a split are those of the node and the new one.
LEMMA NonLeafSplitPids ==
    ASSUME EndKey \notin Key, NEW node \in NonLeafPage, Branches(node),
           NEW key \in Key, NEW pid \in Pid
    PROVE  LET lower == LowerNode(node, key, pid)
               upper == UpperNode(node, key, pid)
           IN  /\ \A k \in DOMAIN lower.pids :
                    \/ lower.pids[k] = pid
                    \/ \E j \in DOMAIN node.pids : lower.pids[k] = node.pids[j]
               /\ \A k \in DOMAIN upper.pids :
                    \/ upper.pids[k] = pid
                    \/ \E j \in DOMAIN node.pids : upper.pids[k] = node.pids[j]
<1> DEFINE all   == NonLeafPut(node, key, pid)
           n     == Len(all.keys)
           h     == Half(all.keys)
           lower == LowerNode(node, key, pid)
           upper == UpperNode(node, key, pid)
<1>1. /\ all.pids \in Seq(Pid) /\ Len(all.pids) = n + 1 /\ n \in Nat /\ h \in Nat /\ h < n
      /\ Branches(lower) /\ Len(lower.keys) = h
      /\ \A j \in 1 .. h + 1 : lower.pids[j] = all.pids[j]
      /\ Len(upper.pids) = n - h
      /\ \A j \in 1 .. n - h : upper.pids[j] = all.pids[h + 1 + j]
    BY NonLeafSplitParts
<1>2. lower \in NonLeafPage /\ upper.pids \in Seq(Pid)
  <2>1. node \in NonLeafNode
    BY DEF NonLeafNode
  <2> QED
    BY <2>1, NonLeafSplitTyped, NonLeafSplitParts
<1>3. \A k \in DOMAIN all.pids :
         all.pids[k] = pid \/ \E j \in DOMAIN node.pids : all.pids[k] = node.pids[j]
    BY NonLeafPutPids
<1> HIDE DEF all, n, h, lower, upper
<1>4. lower.pids \in Seq(Pid) /\ Len(lower.pids) = h + 1
    BY <1>1, <1>2 DEF NonLeafPage, Branches
<1>5. upper.pids \in Seq(Pid)
    BY <1>2
<1>6. ASSUME NEW k \in DOMAIN lower.pids
      PROVE  lower.pids[k] = pid \/ \E j \in DOMAIN node.pids : lower.pids[k] = node.pids[j]
  <2>1. k \in 1 .. h + 1 /\ k \in DOMAIN all.pids
    BY <1>1, <1>4
  <2> QED
    BY <1>1, <1>3, <2>1
<1>7. ASSUME NEW k \in DOMAIN upper.pids
      PROVE  upper.pids[k] = pid \/ \E j \in DOMAIN node.pids : upper.pids[k] = node.pids[j]
  <2>1. k \in 1 .. n - h /\ h + 1 + k \in DOMAIN all.pids
    BY <1>1, <1>5, SMTT(30)
  <2> QED
    BY <1>1, <1>3, <2>1, ZenonT(60)
<1> QED
    BY <1>6, <1>7 DEF lower, upper

\* The upper node of a split is on its level as soon as it is written, though
\* nothing leads to it yet.
LEMMA WriteNonLeafSiblingLinked ==
    ASSUME EndKey \notin Key, Typed, NEW c, NEW lev, Linked(c, lev), WriteNonLeafSibling
    PROVE  \E c2, lev2 : Linked(c2, lev2)' /\ Kept(c2)' = Kept(c)
<1>1. /\ WritePage(newPid, UpperNode(NonLeafAt(NodePid), splitkey, splitpid))
      /\ pc = "nonleafSibling" /\ pc' = "nonleafNode"
      /\ disk \in Seq(Page) /\ path # <<>> /\ path' = path /\ mode' = mode
      /\ rootPid' = rootPid /\ treeHeight' = treeHeight /\ newPid' = newPid
      /\ ins' = ins /\ tried' = tried /\ acked' = acked /\ splitpid' = splitpid
      /\ splitkey \in Key /\ splitpid \in Pid /\ treeHeight > 0
      /\ NonLeafIsFull(NonLeafAt(NodePid))
    BY DEF WriteNonLeafSibling, head, frame, ghost, Typed, TypeOK, Running
<1>2. EndPid >= 2 /\ At(lev, rootPid, treeHeight - 1)
    BY <1>1, NodeLevel DEF Descending
<1>3. newPid \in 1 .. EndPid - 1 /\ newPid \notin DOMAIN lev
    BY <1>1 DEF Linked, FrameLevels
<1>4. PICK q : q = newPid
    OBVIOUS
<1>5. PICK l : l = treeHeight - Len(path)
    OBVIOUS
<1> DEFINE node == NonLeafAt(NodePid)
           page == UpperNode(node, splitkey, splitpid)
<1>6. /\ l \in Nat \ {0} /\ node \in NonLeafPage /\ Branches(node)
      /\ At(lev, splitpid, l - 1)
      /\ \A i \in DOMAIN node.pids : At(lev, node.pids[i], l - 1)
    BY <1>1, <1>5, NodeAbove
<1>7. page \in Page /\ WritePage(q, page)
  <2>1. node \in NonLeafNode
    BY <1>6 DEF NonLeafNode
  <2> QED
    BY <1>1, <1>4, <2>1, NonLeafSplitTyped DEF Page
<1>8. Branches(page)
  <2>1. Len(node.keys) + 1 >= 3
    <3>1. Len(node.pids) - 1 = MAX_NONLEAF_KEY_COUNT \/ MAX_NONLEAF_KEY_COUNT = 0
      BY <1>1 DEF NonLeafIsFull, NonLeafKeyCount
    <3>2. Len(node.pids) = Len(node.keys) + 1 /\ Len(node.keys) \in Nat
      BY <1>6 DEF Branches, NonLeafPage
    <3> QED
      BY <3>1, <3>2, NonLeafCapacity
  <2> HIDE DEF node
  <2> QED
    BY <1>1, <1>6, <2>1, NonLeafSplitParts
<1>9. \A k \in DOMAIN page.pids : At(lev, page.pids[k], l - 1)
  <2> SUFFICES ASSUME NEW k \in DOMAIN page.pids PROVE At(lev, page.pids[k], l - 1)
    OBVIOUS
  <2> HIDE DEF node
  <2>1. page.pids[k] = splitpid \/ \E j \in DOMAIN node.pids : page.pids[k] = node.pids[j]
    BY <1>1, <1>6, NonLeafSplitPids
  <2> QED
    BY <1>6, <2>1
<1> HIDE DEF page, node
<1>10. q \in 1 .. EndPid - 1 /\ q \in Nat \ {0} /\ q \notin DOMAIN lev
    BY <1>3, <1>4
<1> DEFINE lev2 == Join(lev, q, l)
<1>11. Tree(c, lev2)' /\ Kept(c)' = Kept(c)
    BY <1>1, <1>6, <1>7, <1>8, <1>9, <1>10, NodeWritten DEF Linked
<1>12. At(lev2, q, l) /\ \A r, m : At(lev, r, m) => At(lev2, r, m)
    BY <1>10, JoinKeeps
<1> HIDE DEF lev2
<1>13. EndPid' = EndPid /\ MetaLevel(lev2)'
    BY <1>1, <1>7, <1>10, <1>12, WritePageTyped, NodeKeepsMetaLevel DEF Linked, EndPid
<1>14. RootLevel(lev2)'
    BY <1>1, <1>2, <1>12, <1>13 DEF RootLevel
<1>15. FrameLevels(c, lev2)'
    BY <1>1, <1>4, <1>5, <1>12, <1>13 DEF FrameLevels, Descending, Ascending, Linked
<1>16. Accounted(c)'
    BY <1>1, <1>11 DEF Accounted, Unwritten, Ascending, Linked
<1>17. Linked(c, lev2)'
    BY <1>11, <1>13, <1>14, <1>15, <1>16 DEF Linked
<1> QED
    BY <1>11, <1>17

\* The lower node takes the page of the node, and the upper one is handed up.
LEMMA WriteNonLeafLinked ==
    ASSUME EndKey \notin Key, Typed, NEW c, NEW lev, Linked(c, lev), WriteNonLeaf
    PROVE  \E c2, lev2 : Linked(c2, lev2)' /\ Kept(c2)' = Kept(c)
<1>1. /\ WritePage(NodePid, LowerNode(NonLeafAt(NodePid), splitkey, splitpid))
      /\ pc = "nonleafNode" /\ pc' = "ascend"
      /\ disk \in Seq(Page) /\ path \in Seq(Pid) /\ path # <<>> /\ path' = Front(path)
      /\ rootPid' = rootPid /\ treeHeight' = treeHeight /\ mode' = mode
      /\ ins' = ins /\ tried' = tried /\ acked' = acked /\ splitpid' = newPid
      /\ splitkey \in Key /\ splitpid \in Pid /\ treeHeight > 0
    BY DEF WriteNonLeaf, head, ghost, Typed, TypeOK, Running
<1>2. /\ EndPid >= 2 /\ NodePid \in 1 .. EndPid - 1 /\ NodePid \in Nat \ {0}
      /\ At(lev, NodePid, treeHeight - Len(path)) /\ At(lev, rootPid, treeHeight - 1)
    BY <1>1, NodeLevel DEF Descending
<1>3. PICK p : p = NodePid
    OBVIOUS
<1>4. PICK l : l = treeHeight - Len(path)
    OBVIOUS
<1> DEFINE node == NonLeafAt(NodePid)
           page == LowerNode(node, splitkey, splitpid)
<1>5. /\ l \in Nat \ {0} /\ node \in NonLeafPage /\ Branches(node)
      /\ At(lev, splitpid, l - 1) /\ treeHeight \in Nat
      /\ \A i \in DOMAIN node.pids : At(lev, node.pids[i], l - 1)
    BY <1>1, <1>4, NodeAbove
<1>6. page \in Page /\ Branches(page) /\ WritePage(p, page)
  <2>1. node \in NonLeafNode
    BY <1>5 DEF NonLeafNode
  <2>2. page \in Page /\ WritePage(p, page)
    BY <1>1, <1>3, <2>1, NonLeafSplitTyped DEF Page
  <2> HIDE DEF node
  <2>3. Branches(page)
    BY <1>1, <1>5, NonLeafSplitParts
  <2> QED
    BY <2>2, <2>3
<1>7. \A k \in DOMAIN page.pids : At(lev, page.pids[k], l - 1)
  <2> SUFFICES ASSUME NEW k \in DOMAIN page.pids PROVE At(lev, page.pids[k], l - 1)
    OBVIOUS
  <2> HIDE DEF node
  <2>1. page.pids[k] = splitpid \/ \E j \in DOMAIN node.pids : page.pids[k] = node.pids[j]
    BY <1>1, <1>5, NonLeafSplitPids
  <2> QED
    BY <1>5, <2>1
<1> HIDE DEF page, node
<1>8. p \in 1 .. EndPid - 1 /\ At(lev, p, l) /\ (p \in DOMAIN lev => lev[p] = l)
    BY <1>2, <1>3, <1>4 DEF At
<1> DEFINE lev2 == Join(lev, p, l)
<1>9. Tree(c, lev2)' /\ Kept(c)' = Kept(c)
    BY <1>1, <1>5, <1>6, <1>7, <1>8, NodeWritten DEF Linked
<1>10. \A r, m : At(lev, r, m) => At(lev2, r, m)
    BY <1>8, JoinKeeps
<1> HIDE DEF lev2
<1>11. EndPid' = EndPid /\ MetaLevel(lev2)'
    BY <1>1, <1>2, <1>3, <1>6, <1>10, WritePageTyped, NodeKeepsMetaLevel DEF Linked, EndPid
<1>12. RootLevel(lev2)'
    BY <1>1, <1>2, <1>10, <1>11 DEF RootLevel
<1>13. FrameLevels(c, lev2)'
  <2>1. Len(path) \in Nat \ {0} /\ Len(path') = Len(path) - 1
        /\ \A d \in 1 .. Len(path') : path'[d] = path[d]
    BY <1>1, FrontIs
  <2>2. \A d \in 1 .. Len(path) : At(lev, path[d], treeHeight - d)
    BY <1>1 DEF Linked, FrameLevels, Descending
  <2>3. \A d \in 1 .. Len(path') : d \in 1 .. Len(path)
    BY <2>1
  <2>4. \A d \in 1 .. Len(path') : At(lev2, path'[d], treeHeight - d)
    BY <1>10, <2>1, <2>2, <2>3
  <2>5. treeHeight - Len(path') - 1 = treeHeight - Len(path)
    BY <1>5, <2>1
  <2>6. At(lev2, newPid, treeHeight - Len(path))
    BY <1>1, <1>10 DEF Linked, FrameLevels
  <2> QED
    BY <1>1, <2>4, <2>5, <2>6 DEF FrameLevels
<1>14. Accounted(c)'
    BY <1>1, <1>9 DEF Accounted, Unwritten, Ascending, Linked
<1>15. Linked(c, lev2)'
    BY <1>9, <1>11, <1>12, <1>13, <1>14 DEF Linked
<1> QED
    BY <1>9, <1>15

LEMMA FetchNewRootLinked ==
    ASSUME Typed, NEW c, NEW lev, Linked(c, lev), FetchNewRoot
    PROVE  Linked(c, lev)' /\ Kept(c)' = Kept(c)
<1>1. /\ FetchNewPage /\ newPid' = EndPid /\ splitpid' = splitpid
      /\ pc = "ascend" /\ pc' = "rootNode" /\ mode # "none"
      /\ disk \in Seq(Page) /\ path = <<>> /\ path' = path
      /\ rootPid' = rootPid /\ treeHeight' = treeHeight /\ mode' = mode
      /\ ins' = ins /\ tried' = tried /\ acked' = acked /\ treeHeight > 0
    BY DEF FetchNewRoot, head, ghost, Typed, TypeOK, Running
<1>2. EndPid >= 2 /\ EndPid \in Nat
    BY <1>1 DEF EndPid, RootLevel, Linked
<1>3. Tree(c, lev)' /\ MetaLevel(lev)' /\ Kept(c)' = Kept(c) /\ EndPid' = EndPid + 1
    BY <1>1, FetchKeepsTree
<1>4. RootLevel(lev)'
    BY <1>1, <1>2, <1>3 DEF RootLevel, Linked
<1>5. newPid' \in 1 .. EndPid' - 1 /\ newPid' \notin DOMAIN lev
    BY <1>1, <1>2, <1>3, FreshPage DEF Linked
<1>6. FrameLevels(c, lev)'
    BY <1>1, <1>5 DEF FrameLevels, Descending, Ascending, Linked
<1>7. Accounted(c)'
    BY <1>1, <1>3 DEF Accounted, Unwritten, Ascending, Linked
<1> QED
    BY <1>3, <1>4, <1>6, <1>7 DEF Linked

\* The new root leads to the two halves of the old one.
LEMMA WriteNewRootLinked ==
    ASSUME Typed, NEW c, NEW lev, Linked(c, lev), WriteNewRoot
    PROVE  \E c2, lev2 : Linked(c2, lev2)' /\ Kept(c2)' = Kept(c)
<1>1. /\ WritePage(newPid, NewRoot(rootPid, splitkey, splitpid))
      /\ pc = "rootNode" /\ pc' = "rootMetadata" /\ mode # "none"
      /\ disk \in Seq(Page) /\ rootPid' = newPid /\ mode' = mode
      /\ treeHeight' = treeHeight /\ ins' = ins /\ tried' = tried /\ acked' = acked
      /\ rootPid \in Pid /\ splitkey \in Key /\ splitpid \in Pid /\ treeHeight \in Nat \ {0}
    BY DEF WriteNewRoot, frame, ghost, Typed, TypeOK, Running
<1>2. EndPid >= 2 /\ EndPid \in Nat /\ At(lev, rootPid, treeHeight - 1)
    BY <1>1 DEF EndPid, RootLevel, Linked
<1>3. newPid \in 1 .. EndPid - 1 /\ newPid \notin DOMAIN lev
    BY <1>1 DEF Linked, FrameLevels
<1>4. At(lev, splitpid, treeHeight - 1)
  <2>1. path = <<>> /\ At(lev, splitpid, treeHeight - Len(path) - 1)
    BY <1>1 DEF Linked, FrameLevels, Ascending
  <2>2. treeHeight - Len(path) - 1 = treeHeight - 1
    BY <1>1, <2>1, EmptySeq
  <2> QED
    BY <2>1, <2>2
<1>5. PICK q : q = newPid
    OBVIOUS
<1>6. PICK l : l = treeHeight
    OBVIOUS
<1> DEFINE keys == <<splitkey>>
           pids == <<rootPid, splitpid>>
           page == NonLeaf(keys, pids)
<1>7. /\ keys \in Seq(Key) /\ Len(keys) = 1 /\ keys # <<>>
      /\ pids \in Seq(Pid) /\ Len(pids) = 2
      /\ \A i \in DOMAIN pids : At(lev, pids[i], l - 1)
    BY <1>1, <1>2, <1>4, <1>6
<1>8. WritePage(q, page)
    BY <1>1, <1>5 DEF NewRoot
<1> HIDE DEF keys, pids
<1>9. /\ page \in Page /\ Branches(page) /\ page.pids = pids
  <2>1. keys \in Seq(Key) /\ pids \in Seq(Pid) /\ Len(pids) = Len(keys) + 1 /\ keys # <<>>
    BY <1>7
  <2>2. page = [kind |-> "nonleaf", keys |-> keys, pids |-> pids]
    BY DEF NonLeaf
  <2> HIDE DEF page
  <2>3. page \in NonLeafPage
    BY <2>1, <2>2 DEF NonLeafPage
  <2> QED
    BY <2>1, <2>2, <2>3 DEF Branches, Page
<1> HIDE DEF page
<1>10. q \in 1 .. EndPid - 1 /\ q \in Nat \ {0} /\ q \notin DOMAIN lev /\ l \in Nat \ {0}
    BY <1>1, <1>3, <1>5, <1>6
<1> DEFINE lev2 == Join(lev, q, l)
<1>11. Tree(c, lev2)' /\ Kept(c)' = Kept(c)
    BY <1>1, <1>7, <1>8, <1>9, <1>10, NodeWritten DEF Linked
<1>12. At(lev2, q, l) /\ \A r, m : At(lev, r, m) => At(lev2, r, m)
    BY <1>10, JoinKeeps
<1> HIDE DEF lev2
<1>13. EndPid' = EndPid /\ MetaLevel(lev2)'
    BY <1>1, <1>8, <1>9, <1>10, <1>12, WritePageTyped, NodeKeepsMetaLevel DEF Linked, EndPid
<1>14. RootLevel(lev2)' /\ FrameLevels(c, lev2)'
    BY <1>1, <1>2, <1>5, <1>6, <1>12, <1>13 DEF RootLevel, FrameLevels, Descending, Ascending
<1>15. Accounted(c)'
    BY <1>1, <1>11 DEF Accounted, Unwritten, Ascending, Linked
<1>16. Linked(c, lev2)'
    BY <1>11, <1>13, <1>14, <1>15 DEF Linked
<1> QED
    BY <1>11, <1>16

LEMMA CommitRootLinked ==
    ASSUME Typed, NEW c, NEW lev, Linked(c, lev), CommitRoot
    PROVE  Linked(c, lev)' /\ Kept(c)' = Kept(c)
<1>1. /\ WritePage(0, Metadata(rootPid, treeHeight')) /\ Return
      /\ pc = "rootMetadata" /\ mode # "none" /\ ins \in Entry
      /\ disk \in Seq(Page) /\ rootPid' = rootPid /\ rootPid \in Pid
      /\ treeHeight' = treeHeight + 1 /\ tried' = tried /\ treeHeight \in Nat \ {0}
    BY DEF CommitRoot, Typed, TypeOK, Running
<1>2. EndPid >= 2 /\ At(lev, rootPid, treeHeight)
    BY <1>1 DEF RootLevel, Linked
<1>3. PICK root : root = rootPid
    OBVIOUS
<1>4. PICK height : height = treeHeight'
    OBVIOUS
<1>5. height \in Nat \ {0} /\ height - 1 = treeHeight
    BY <1>1, <1>4
<1>6. root \in Pid /\ At(lev, root, height - 1) /\ WritePage(0, Metadata(root, height))
    BY <1>1, <1>2, <1>3, <1>4, <1>5
<1>7. Tree(c, lev)' /\ MetaLevel(lev)' /\ Kept(c)' = Kept(c) /\ EndPid' = EndPid
    BY <1>1, <1>2, <1>5, <1>6, MetadataWritten DEF Linked
<1>8. ins \in Kept(c) /\ \A x \in Kept(c) : x.key \in tried
    BY <1>1 DEF Linked, Accounted, Ascending
<1> QED
    BY <1>1, <1>2, <1>3, <1>4, <1>6, <1>7, <1>8, ReturnLinked


\* A step adds the entry of the running insert to the chain, if it is one of
\* the two that write a leaf, and nothing else.
Kin(c, c2) == \/ Kept(c2)' = Kept(c)
              \/ (InsertInLeaf \/ WriteLeaf) /\ Kept(c2)' = Kept(c) \cup {ins}

LEMMA InsertStepChained ==
    ASSUME EndKey \notin Key, Typed, NEW c, NEW lev, Linked(c, lev), InsertStep
    PROVE  \E c2, lev2 : Linked(c2, lev2)' /\ Kin(c, c2)
<1>1. CASE OverflowInInsert
  <2>1. Linked(c, lev)' /\ Kept(c)' = Kept(c)
    BY <1>1, ForgetLinked DEF OverflowInInsert, ghost
  <2> QED
    BY <2>1 DEF Kin
<1>2. CASE FetchFirstRoot \/ CommitFirst \/ Descend \/ FetchLeafSibling \/ WriteLeafSibling
             \/ FetchNonLeafSibling \/ FetchNewRoot \/ CommitRoot
  <2>1. Linked(c, lev)' /\ Kept(c)' = Kept(c)
    BY <1>2, FetchFirstRootLinked, CommitFirstLinked, DescendLinked, FetchLeafSiblingLinked,
       WriteLeafSiblingLinked, FetchNonLeafSiblingLinked, FetchNewRootLinked, CommitRootLinked
  <2> QED
    BY <2>1 DEF Kin
<1>3. CASE InsertInLeaf
  <2>1. Linked(c, lev)' /\ Kin(c, c)
    BY <1>3, InsertInLeafLinked DEF Kin
  <2> QED
    BY <2>1
<1>4. CASE WriteLeaf
  <2>1. PICK c2, lev2 : Linked(c2, lev2)' /\ Kept(c2)' = Kept(c) \cup {ins}
    BY <1>4, WriteLeafLinked
  <2> QED
    BY <1>4, <2>1 DEF Kin
<1>5. CASE InsertInNonLeaf \/ WriteNonLeafSibling \/ WriteNonLeaf \/ WriteNewRoot
  <2>1. PICK c2, lev2 : Linked(c2, lev2)' /\ Kept(c2)' = Kept(c)
    BY <1>5, InsertInNonLeafLinked, WriteNonLeafSiblingLinked, WriteNonLeafLinked,
       WriteNewRootLinked
  <2> QED
    BY <2>1 DEF Kin
<1> QED
    BY <1>1, <1>2, <1>3, <1>4, <1>5 DEF InsertStep

LEMMA NextLinked ==
    ASSUME EndKey \notin Key, Typed, NEW c, NEW lev, Linked(c, lev), [Next]_vars
    PROVE  \E c2, lev2 : Linked(c2, lev2)' /\ Kin(c, c2)
<1>1. SUFFICES ASSUME ~ InsertStep PROVE Linked(c, lev)' /\ Kept(c)' = Kept(c)
    BY InsertStepChained DEF Kin
<1>2. ASSUME NEW m \in {"r", "w"}, Open(m) PROVE Linked(c, lev)' /\ Kept(c)' = Kept(c)
    BY <1>2, OpenLinked
<1>3. CASE Close \/ Crash
    BY <1>3, ForgetLinked DEF Close, Crash, ghost
<1>4. ASSUME NEW e \in Entry, Insert(e) \/ FirstInsert(e)
      PROVE  Linked(c, lev)' /\ Kept(c)' = Kept(c)
    BY <1>4, InsertLinked, FirstInsertLinked
<1>5. ASSUME NEW key \in Probes, Locate(key) \/ OverflowInLocate(key)
      PROVE  Linked(c, lev)' /\ Kept(c)' = Kept(c)
  <2>1. CASE Locate(key)
    BY <2>1, ScanLinked DEF Locate, file, head, frame, ghost
  <2>2. CASE OverflowInLocate(key)
    BY <2>2, ForgetLinked DEF OverflowInLocate, ghost
  <2> QED
    BY <1>5, <2>1, <2>2
<1>6. CASE ReadForward
  <2>1. pc \in {"idle", "scan", "scanEnd"} /\ pc' \in {"idle", "scan", "scanEnd"}
    BY <1>6 DEF ReadForward
  <2> QED
    BY <1>6, <2>1, ScanLinked DEF ReadForward, file, head, frame, ghost
<1>7. CASE UNCHANGED vars
  <2>1. /\ Tree(c, lev)' /\ MetaLevel(lev)' /\ Kept(c)' = Kept(c) /\ EndPid' = EndPid
    BY <1>7, SameFile DEF vars, file, Typed, TypeOK
  <2>2. /\ mode' = mode /\ pc' = pc /\ rootPid' = rootPid /\ treeHeight' = treeHeight
        /\ path' = path /\ splitpid' = splitpid /\ newPid' = newPid /\ ins' = ins
        /\ tried' = tried /\ acked' = acked /\ disk' = disk
    BY <1>7 DEF vars, file, head, frame, ghost
  <2>3. RootLevel(lev)'
    BY <2>1, <2>2 DEF RootLevel, Linked
  <2>4. UpperHalf(LeafAt(NodePid), ins)' = UpperHalf(LeafAt(NodePid), ins)
        /\ PageAt(splitpid)' = PageAt(splitpid)
    BY <2>2 DEF UpperHalf, LeafPut, LeafSlot, LeafAt, PageAt, EndPid, NodePid
  <2>5. FrameLevels(c, lev)'
    BY <2>1, <2>2, <2>4 DEF FrameLevels, Linked
  <2>6. Accounted(c)'
    BY <2>1, <2>2 DEF Accounted, Linked
  <2> QED
    BY <2>1, <2>3, <2>5, <2>6 DEF Linked
<1> QED
    BY <1>1, <1>2, <1>3, <1>4, <1>5, <1>6, <1>7 DEF Next

LEMMA NextChained ==
    ASSUME EndKey \notin Key, Chained, [Next]_vars
    PROVE  Chained'
<1>1. Typed /\ Typed'
    BY NextTyped DEF Chained
<1>2. PICK c, lev : Linked(c, lev)
    BY DEF Chained
<1> QED
    BY <1>1, <1>2, NextLinked DEF Chained

LEMMA ChainInvariant ==
    ASSUME EndKey \notin Key
    PROVE  Spec => []Chained
BY InitChained, NextChained, PTL DEF Spec

(***************************************************************************)
(* Theorems                                                                *)
(***************************************************************************)

\* No split and no crash takes an entry off the chain once its insert
\* returned, at any capacity of the nodes.  The key -1, which looks like the
\* end of a node, is left out: with it a nonleaf write can replace a pid.
THEOREM BTreeIndexAckedOnChain ==
    ASSUME EndKey \notin Key
    PROVE  Spec => []AckedOnChain
<1>1. Chained => AckedOnChain
    BY StoredIs DEF Chained, Linked, Tree, Accounted, AckedOnChain, Typed, TypeOK
<1> QED
    BY <1>1, ChainInvariant, PTL

\* A descent reads a page as the kind of node it holds, also in a file that
\* crashes left half-written, as long as the keys leave out -1.  The one page
\* it may read as a leaf that is none is the blank page of an index without an
\* entry.
THEOREM BTreeIndexDescentReadsRightKind ==
    ASSUME EndKey \notin Key
    PROVE  Spec => []DescentReadsRightKind
<1>1. ASSUME Chained, pc = "descend", treeHeight > 0
      PROVE  /\ Depth <= treeHeight
             /\ Depth < treeHeight => PageAt(NodePid).kind = "nonleaf"
             /\ Depth = treeHeight =>
                  \/ PageAt(NodePid).kind = "leaf"
                  \/ PageAt(NodePid).kind = "blank" /\ Stored = {}
  <2>1. PICK c, lev : Linked(c, lev)
    BY <1>1 DEF Chained
  <2>2. Typed /\ Tree(c, lev) /\ path # <<>> /\ disk \in Seq(Page)
    BY <1>1, <2>1 DEF Chained, Linked, Typed, TypeOK, Running
  <2>3. /\ Depth \in Nat /\ treeHeight \in Nat /\ treeHeight - Depth \in Nat
        /\ At(lev, NodePid, treeHeight - Depth)
    BY <1>1, <2>1, <2>2, NodeLevel DEF Descending, Depth
  <2>4. Depth <= treeHeight
    BY <2>3
  <2>5. ASSUME Depth < treeHeight PROVE PageAt(NodePid).kind = "nonleaf"
    <3>1. treeHeight - Depth # 0
      BY <2>3, <2>5
    <3> QED
      BY <2>2, <2>3, <3>1 DEF Tree, Levels, At, Branches
  <2>6. ASSUME Depth = treeHeight
        PROVE  \/ PageAt(NodePid).kind = "leaf"
               \/ PageAt(NodePid).kind = "blank" /\ Stored = {}
    <3>1. treeHeight - Depth = 0
      BY <2>3, <2>6
    <3>2. \/ PageAt(NodePid).kind = "leaf"
          \/ NodePid = 1 /\ PageAt(NodePid).kind = "blank"
      BY <2>2, <2>3, <3>1 DEF Tree, Levels, At
    <3>3. ASSUME PageAt(1).kind = "blank" PROVE Stored = {}
      <4>1. LeafAt(1) = EmptyLeaf
        BY <3>3 DEF LeafAt
      <4>2. /\ c[1] = 1 /\ Len(c) \in Nat \ {0} /\ c \in Seq(Nat \ {0})
            /\ \A i \in 1 .. Len(c) :
                 LeafAt(c[i]).next = IF i = Len(c) THEN NoPid ELSE c[i + 1]
        BY <2>2, EmptySeq DEF Tree, Chain
      <4>3. Len(c) = 1
        <5> SUFFICES ASSUME Len(c) # 1 PROVE FALSE
          OBVIOUS
        <5> DEFINE n == Len(c)
        <5> HIDE DEF n
        <5>0. n \in Nat \ {0} /\ n # 1
          BY <4>2 DEF n
        <5>1. 1 \in 1 .. Len(c) /\ 1 + 1 \in 1 .. Len(c)
          <6>1. 1 \in 1 .. n /\ 1 + 1 \in 1 .. n
            BY <5>0
          <6> QED
            BY <6>1 DEF n
        <5>2. LeafAt(c[1]).next = c[1 + 1]
          BY <4>2, <5>1
        <5>3. c[1 + 1] \in Nat
          BY <4>2, <5>1, ElementOfSeq
        <5> QED
          BY <4>1, <4>2, <5>2, <5>3 DEF NoPid, EmptyLeaf, Leaf
      <4>4. Kept(c) = {}
        BY <4>1, <4>2, <4>3 DEF Kept, Has, Occurs, EmptyLeaf, Leaf
      <4> QED
        BY <2>2, <4>4, StoredIs DEF Tree
    <3> QED
      BY <3>2, <3>3
  <2> QED
    BY <2>4, <2>5, <2>6
<1>2. Chained => DescentReadsRightKind
    BY <1>1 DEF DescentReadsRightKind
<1> QED
    BY <1>2, ChainInvariant, PTL

(***************************************************************************)
(* The refinement                                                          *)
(***************************************************************************)

\* What the ordered index is told to hold is what the chain holds.
StoredIsKept == \A c : Chain(c) => Stored = Kept(c)

LEMMA ChainedStored == Chained => StoredIsKept
BY StoredIs DEF Chained, Typed, TypeOK, StoredIsKept

LEMMA ChainedStoredNext == Chained' => StoredIsKept'
BY ChainedStored, PTL

\* A step keeps the entries and the running insert, or ends the call.
LEMMA RefineQuiet ==
    ASSUME Stored' = Stored, ins' = ins \/ ins' = NoEntry
    PROVE  [Abstract!Next]_(Abstract!vars)
<1> DEFINE Pending == IF ins \in Stored THEN NoEntry ELSE ins
<1>1. Pending' = Pending \/ Pending' = NoEntry
    BY DEF NoEntry
<1>2. Pending' = Pending => UNCHANGED Abstract!vars
    BY DEF Abstract!vars
<1>3. (Pending' = NoEntry /\ Pending # NoEntry) => Abstract!Abandon
    BY DEF Abstract!Abandon
<1> QED
    BY <1>1, <1>2, <1>3 DEF Abstract!Next

\* insert returns, or the object goes, or the call goes on.
LEMMA CallGoesOn ==
    ASSUME [Next]_vars, \A e \in Entry : ~ Insert(e) /\ ~ FirstInsert(e)
    PROVE  ins' = ins \/ ins' = NoEntry
<1>1. CASE InsertStep
    BY <1>1 DEF InsertStep, FetchFirstRoot, CommitFirst, Descend, OverflowInInsert,
       InsertInLeaf, FetchLeafSibling, WriteLeafSibling, WriteLeaf, InsertInNonLeaf,
       FetchNonLeafSibling, WriteNonLeafSibling, WriteNonLeaf, FetchNewRoot, WriteNewRoot,
       CommitRoot, Return, Forget, NoFrame, frame
<1>2. ASSUME NEW key \in Probes, Locate(key) \/ OverflowInLocate(key)
      PROVE  ins' = ins \/ ins' = NoEntry
    BY <1>2 DEF Locate, OverflowInLocate, Forget, NoFrame, frame
<1>3. ASSUME NEW m \in {"r", "w"}, Open(m) PROVE ins' = ins
    BY <1>3 DEF Open, frame
<1>4. CASE Close \/ Crash
    BY <1>4 DEF Close, Crash, Forget, NoFrame
<1>5. CASE ReadForward \/ UNCHANGED vars
    BY <1>5 DEF ReadForward, vars, frame
<1> QED
    BY <1>1, <1>2, <1>3, <1>4, <1>5 DEF Next

LEMMA RefineStep ==
    ASSUME EndKey \notin Key, Chained, StoredIsKept, StoredIsKept', [Next]_vars
    PROVE  [Abstract!Next]_(Abstract!vars)
<1>1. PICK c, lev : Linked(c, lev)
    BY DEF Chained
<1>2. PICK c2, lev2 : Linked(c2, lev2)' /\ Kin(c, c2)
    BY <1>1, NextLinked DEF Chained
<1>3. Stored = Kept(c)
    BY <1>1 DEF StoredIsKept, Linked, Tree
<1>4. Stored' = Kept(c2)'
    BY <1>2 DEF StoredIsKept, Linked, Tree
<1>5. NoEntry \notin Entry /\ Kept(c) \subseteq Entry
    BY NoRidIsNoRecord DEF NoEntry, Entry, Kept
<1>6. \A e \in Stored : e.key \in tried
    BY <1>1, <1>3 DEF Linked, Accounted
<1>7. ASSUME NEW e \in Entry, Insert(e) \/ FirstInsert(e)
      PROVE  [Abstract!Next]_(Abstract!vars)
  <2>1. pc = "idle" /\ ins' = e /\ e.key \notin tried
    BY <1>7 DEF Insert, FirstInsert, MayInsert
  <2>2. ins = NoEntry
    BY <1>1, <2>1 DEF Linked, Accounted
  <2>3. Stored' = Stored
    BY <1>2, <1>3, <1>4, <2>1 DEF Kin, InsertInLeaf, AtLeaf, WriteLeaf
  <2>4. \A stored \in Stored : stored.key # e.key
    BY <1>6, <2>1
  <2>5. Abstract!Call(e)
    BY <1>3, <1>5, <2>1, <2>2, <2>3, <2>4 DEF Abstract!Call
  <2> QED
    BY <2>5 DEF Abstract!Next
<1>8. CASE \A e \in Entry : ~ Insert(e) /\ ~ FirstInsert(e)
  <2>1. CASE Kept(c2)' = Kept(c)
    BY <1>3, <1>4, <1>8, <2>1, CallGoesOn, RefineQuiet
  <2>2. CASE (InsertInLeaf \/ WriteLeaf) /\ Kept(c2)' = Kept(c) \cup {ins}
    <3>1. pc \in {"descend", "leafNode"} /\ (ins' = NoEntry \/ ins' = ins)
      BY <2>2 DEF InsertInLeaf, AtLeaf, Return, NoFrame, WriteLeaf
    <3>2. ins \in Entry /\ \A e \in Kept(c) : e.key # ins.key
      BY <1>1, <3>1 DEF Chained, Typed, Running, Linked, Accounted, Unwritten
    <3>3. ins \notin Stored /\ ins # NoEntry
      BY <1>3, <1>5, <3>2
    <3>4. Stored' = Stored \cup {ins}
      BY <1>3, <1>4, <2>2
    <3>5. (IF ins \in Stored THEN NoEntry ELSE ins)' = NoEntry
      BY <3>1, <3>4 DEF NoEntry
    <3>6. Abstract!Store
      BY <3>3, <3>4, <3>5 DEF Abstract!Store
    <3> QED
      BY <3>6 DEF Abstract!Next
  <2> QED
    BY <1>2, <2>1, <2>2 DEF Kin
<1> QED
    BY <1>7, <1>8

LEMMA RefineInit ==
    ASSUME Init
    PROVE  Abstract!Init
<1>1. EndPid = 0 /\ ins = NoEntry
    BY DEF Init, EndPid
<1>2. ToSet(LeafChain) = {}
    BY <1>1 DEF LeafChain, ToSet
<1>3. Stored = {}
    BY <1>2 DEF Stored
<1> QED
    BY <1>1, <1>3 DEF Abstract!Init

\* The chain of leaves is, for its callers, a set of entries: an insert, with
\* all its page writes, adds its entry in one step, at one write of a leaf,
\* and no step of any call or crash does anything else to the set.  The key -1
\* is left out as above.
THEOREM BTreeIndexImplementsOrderedIndex ==
    ASSUME EndKey \notin Key
    PROVE  Spec => ImplementsOrderedIndex
<1>1. Init => Abstract!Init
    BY RefineInit
<1>2. Chained => StoredIsKept
    BY ChainedStored
<1>3. Chained /\ StoredIsKept /\ StoredIsKept' /\ [Next]_vars =>
          [Abstract!Next]_(Abstract!vars)
    BY RefineStep
<1> QED
    BY <1>1, <1>2, <1>3, ChainInvariant, PTL DEF Spec, ImplementsOrderedIndex, Abstract!Spec

=============================================================================
