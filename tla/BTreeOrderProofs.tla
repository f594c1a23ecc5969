--------------------------- MODULE BTreeOrderProofs ---------------------------
(***************************************************************************)
(* Theorems about the order of the keys in BTreeIndex, for any node         *)
(* capacities, keys and records, as long as the process is not killed.      *)
(***************************************************************************)
EXTENDS BTreeChainProofs, FiniteSetTheorems

(***************************************************************************)
(* Sorted nodes                                                            *)
(***************************************************************************)

Rising(keys) ==
    \A j, k \in 1 .. Len(keys) : j < k => keys[j] < keys[k]
RisingEntries(entries) ==
    \A j, k \in 1 .. Len(entries) : j < k => entries[j].key < entries[k].key
Sorted(page) == /\ page.kind = "leaf" => RisingEntries(page.entries)
                /\ page.kind = "nonleaf" => Rising(page.keys)

\* Keys are integers, and none is the end key.
LEMMA KeysOfNode ==
    ASSUME NEW keys \in Seq(Key)
    PROVE  /\ Len(keys) \in Nat
           /\ \A m \in 1 .. Len(keys) : keys[m] \in Key /\ keys[m] \in Int
<1>1. Len(keys) \in Nat /\ \A m \in 1 .. Len(keys) : keys[m] \in Key
    OBVIOUS
<1> QED
    BY <1>1, KeysAreIntegers

\* Where the scan over the keys of a nonleaf stops.
LEMMA SlotIs ==
    ASSUME EndKey \notin Key, NEW keys \in Seq(Key), NEW k \in Int
    PROVE  LET i == NonLeafSlot(keys, k)
           IN  /\ i \in 1 .. Len(keys) + 1
               /\ i <= Len(keys) => k < keys[i]
               /\ \A m \in 1 .. Len(keys) : m < i => keys[m] <= k
<1> DEFINE stops == {i \in 1 .. Len(keys) : k < keys[i] \/ keys[i] = EndKey}
           i     == NonLeafSlot(keys, k)
<1>1. Len(keys) \in Nat /\ \A m \in 1 .. Len(keys) : keys[m] \in Int /\ keys[m] # EndKey
    BY KeysOfNode
<1>2. i = Min(stops \cup {Len(keys) + 1})
    BY DEF NonLeafSlot
<1>3. /\ i \in 1 .. Len(keys) + 1 /\ i \in stops \cup {Len(keys) + 1}
      /\ \A m \in stops : i <= m
  <2>1. stops \in SUBSET (1 .. Len(keys))
    OBVIOUS
  <2> HIDE DEF stops, i
  <2> QED
    BY <1>1, <1>2, <2>1, FirstOrEnd
<1>4. i <= Len(keys) => k < keys[i]
    BY <1>1, <1>3
<1>5. ASSUME NEW m \in 1 .. Len(keys), m < i PROVE keys[m] <= k
  <2>1. m \notin stops
    BY <1>1, <1>3, <1>5
  <2>2. ~ (k < keys[m])
    BY <2>1
  <2> QED
    BY <1>1, <2>2
<1> QED
    BY <1>3, <1>4, <1>5

\* In a sorted node it is the only place with that property.
LEMMA SlotUnique ==
    ASSUME EndKey \notin Key, NEW keys \in Seq(Key), Rising(keys), NEW k \in Int,
           NEW j \in 1 .. Len(keys) + 1,
           j <= Len(keys) => k < keys[j], j > 1 => keys[j - 1] <= k
    PROVE  NonLeafSlot(keys, k) = j
<1>1. PICK i : i = NonLeafSlot(keys, k)
    OBVIOUS
<1>2. /\ i \in 1 .. Len(keys) + 1
      /\ i <= Len(keys) => k < keys[i]
      /\ \A m \in 1 .. Len(keys) : m < i => keys[m] <= k
    BY <1>1, SlotIs
<1>3. Len(keys) \in Nat /\ \A m \in 1 .. Len(keys) : keys[m] \in Int
    BY KeysOfNode
<1>4. CASE i < j
  <2>1. i \in 1 .. Len(keys) /\ j - 1 \in 1 .. Len(keys) /\ j > 1
    BY <1>2, <1>3, <1>4
  <2>2. keys[i] <= keys[j - 1]
    BY <1>2, <1>3, <1>4, <2>1 DEF Rising
  <2> QED
    BY <1>2, <1>3, <2>1, <2>2
<1>5. CASE j < i
  <2>1. j \in 1 .. Len(keys)
    BY <1>2, <1>3, <1>5
  <2> QED
    BY <1>2, <1>3, <1>5, <2>1
<1> QED
    BY <1>1, <1>2, <1>4, <1>5

\* A key that goes between two of a node's keys, strictly above the lower one,
\* keeps the node sorted; what is at or above the new key and had its slot
\* moves one slot on, and so does all that is to the right.
LEMMA PutSlots ==
    ASSUME EndKey \notin Key, NEW node \in NonLeafPage, Branches(node), Rising(node.keys),
           NEW key \in Key, NEW pid \in Pid, NEW low \in Int, low < key,
           NonLeafSlot(node.keys, low) = NonLeafSlot(node.keys, key)
    PROVE  /\ Rising(NonLeafPut(node, key, pid).keys)
           /\ \A k \in Int :
                NonLeafSlot(NonLeafPut(node, key, pid).keys, k) =
                    IF \/ NonLeafSlot(node.keys, k) < NonLeafSlot(node.keys, key)
                       \/ NonLeafSlot(node.keys, k) = NonLeafSlot(node.keys, key) /\ k < key
                      THEN NonLeafSlot(node.keys, k)
                      ELSE NonLeafSlot(node.keys, k) + 1
<1>1. PICK i : i = NonLeafSlot(node.keys, key)
    OBVIOUS
<1>2. PICK keys : keys = node.keys
    OBVIOUS
<1>3. PICK all : all = NonLeafPut(node, key, pid).keys
    OBVIOUS
<1>4. PICK n : n = Len(keys)
    OBVIOUS
<1>5. /\ keys \in Seq(Key) /\ i \in 1 .. n + 1 /\ all = InsertAt(keys, i, key)
      /\ NonLeafPut(node, key, pid) \in NonLeafPage
    BY <1>1, <1>2, <1>3, <1>4, NonLeafPutIn DEF NonLeafPage
<1>6. /\ n \in Nat /\ key \in Int
      /\ \A m \in 1 .. n : keys[m] \in Int
    BY <1>4, <1>5, KeysOfNode, KeysAreIntegers
<1>7. /\ all \in Seq(Key) /\ Len(all) = n + 1
      /\ \A j \in 1 .. n + 1 : all[j] = IF j < i THEN keys[j] ELSE IF j = i THEN key ELSE keys[j - 1]
  <2>1. i \in 1 .. Len(keys) + 1
    BY <1>4, <1>5
  <2>2. /\ InsertAt(keys, i, key) \in Seq(Key) /\ Len(InsertAt(keys, i, key)) = Len(keys) + 1
        /\ \A j \in 1 .. Len(keys) + 1 :
             InsertAt(keys, i, key)[j] =
                 IF j < i THEN keys[j] ELSE IF j = i THEN key ELSE keys[j - 1]
    BY <1>5, <2>1, InsertAtProperties, SMTT(30)
  <2> QED
    BY <1>4, <1>5, <2>2
<1>8. /\ i <= n => key < keys[i]
      /\ \A m \in 1 .. n : m < i => keys[m] <= low
  <2>1. i <= n => key < keys[i]
    BY <1>1, <1>2, <1>4, <1>5, <1>6, SlotIs
  <2>2. \A m \in 1 .. n : m < i => keys[m] <= low
    BY <1>1, <1>2, <1>4, <1>5, SlotIs
  <2> QED
    BY <2>1, <2>2
<1>9. \A j, k \in 1 .. n : j < k => keys[j] < keys[k]
    BY <1>2, <1>4 DEF Rising
<1>10. \A m \in 1 .. n : /\ m < i => keys[m] < key
                         /\ m >= i => key < keys[m]
  <2> TAKE m \in 1 .. n
  <2>1. m < i => keys[m] < key
    BY <1>6, <1>8
  <2>2. CASE m >= i
    <3>1. i \in 1 .. n /\ key < keys[i]
      BY <1>5, <1>6, <1>8, <2>2
    <3>2. m = i \/ keys[i] < keys[m]
      BY <1>5, <1>6, <1>9, <2>2, <3>1
    <3> QED
      BY <1>5, <1>6, <2>2, <3>1, <3>2
  <2> QED
    BY <1>5, <1>6, <2>1, <2>2
<1>11. Rising(all)
  <2> SUFFICES ASSUME NEW j \in 1 .. n + 1, NEW k \in 1 .. n + 1, j < k
               PROVE  all[j] < all[k]
    BY <1>7 DEF Rising
  <2>1. CASE k < i
    <3>1. j \in 1 .. n /\ k \in 1 .. n /\ j < i
      BY <1>5, <1>6, <2>1
    <3> QED
      BY <1>7, <1>9, <2>1, <3>1
  <2>2. CASE k = i
    <3>1. j \in 1 .. n /\ j < i
      BY <1>5, <1>6, <2>2
    <3> QED
      BY <1>7, <1>10, <2>2, <3>1
  <2>3. CASE k > i /\ j < i
    <3>1. j \in 1 .. n /\ k - 1 \in 1 .. n /\ k - 1 >= i /\ j < k - 1
      BY <1>5, <1>6, <2>3
    <3> QED
      BY <1>5, <1>7, <1>9, <2>3, <3>1
  <2>4. CASE k > i /\ j = i
    <3>1. k - 1 \in 1 .. n /\ k - 1 >= i
      BY <1>5, <1>6, <2>4
    <3> QED
      BY <1>5, <1>7, <1>10, <2>4, <3>1
  <2>5. CASE k > i /\ j > i
    <3>1. j - 1 \in 1 .. n /\ k - 1 \in 1 .. n /\ j - 1 < k - 1
      BY <1>5, <1>6, <2>5
    <3> QED
      BY <1>5, <1>7, <1>9, <2>5, <3>1
  <2> QED
    BY <1>5, <1>6, <2>1, <2>2, <2>3, <2>4, <2>5
<1>12. ASSUME NEW k \in Int
       PROVE  NonLeafSlot(all, k) =
                IF NonLeafSlot(keys, k) < i \/ (NonLeafSlot(keys, k) = i /\ k < key)
                  THEN NonLeafSlot(keys, k) ELSE NonLeafSlot(keys, k) + 1
  <2>1. PICK t : t = NonLeafSlot(keys, k)
    OBVIOUS
  <2>2. /\ t \in 1 .. n + 1
        /\ t <= n => k < keys[t]
        /\ \A m \in 1 .. n : m < t => keys[m] <= k
    BY <1>4, <1>5, <2>1, SlotIs
  <2>3. CASE t < i
    <3>1. t \in 1 .. n /\ all[t] = keys[t] /\ (t > 1 => t - 1 \in 1 .. n /\ all[t - 1] = keys[t - 1])
      BY <1>5, <1>6, <1>7, <2>2, <2>3
    <3>3. t \in 1 .. Len(all) + 1 /\ (t <= Len(all) => k < all[t]) /\ (t > 1 => all[t - 1] <= k)
      BY <1>5, <1>6, <1>7, <2>2, <2>3, <3>1
    <3>2. NonLeafSlot(all, k) = t
      BY <1>7, <1>11, <3>3, SlotUnique
    <3> QED
      BY <2>1, <2>3, <3>2
  <2>4. CASE t = i /\ k < key
    <3>1. t \in 1 .. n + 1 /\ all[t] = key /\ (t > 1 => t - 1 \in 1 .. n /\ all[t - 1] = keys[t - 1])
      BY <1>5, <1>6, <1>7, <2>2, <2>4
    <3>3. t \in 1 .. Len(all) + 1 /\ (t <= Len(all) => k < all[t]) /\ (t > 1 => all[t - 1] <= k)
      BY <1>5, <1>6, <1>7, <2>2, <2>4, <3>1
    <3>2. NonLeafSlot(all, k) = t
      BY <1>7, <1>11, <3>3, SlotUnique
    <3> QED
      BY <2>1, <2>4, <3>2
  <2>5. CASE t = i /\ ~ (k < key)
    <3>1. t + 1 \in 1 .. n + 2 /\ all[t] = key /\ (t + 1 <= n + 1 => t \in 1 .. n /\ all[t + 1] = keys[t])
      BY <1>5, <1>6, <1>7, <2>2, <2>5
    <3>2. t + 1 <= n + 1 => k < all[t + 1]
      BY <2>2, <3>1
    <3>3. key <= k
      BY <1>6, <2>5
    <3>4. PICK t1 : t1 = t + 1 /\ t1 - 1 = t
      BY <1>6, <2>2
    <3>7. t1 \in 1 .. n + 2 /\ (t1 <= n + 1 => k < all[t1]) /\ all[t1 - 1] <= k
      BY <1>6, <2>2, <3>1, <3>2, <3>3, <3>4
    <3>5. t1 \in 1 .. Len(all) + 1 /\ (t1 <= Len(all) => k < all[t1]) /\ all[t1 - 1] <= k
      BY <1>6, <1>7, <3>7
    <3>6. NonLeafSlot(all, k) = t1
      BY <1>7, <1>11, <3>5, SlotUnique
    <3> QED
      BY <1>5, <2>1, <2>5, <3>4, <3>6
  <2>6. CASE t > i
    <3>1. t + 1 \in 1 .. n + 2 /\ t - 1 \in 1 .. n /\ all[t] = keys[t - 1]
          /\ (t + 1 <= n + 1 => t \in 1 .. n /\ all[t + 1] = keys[t])
      BY <1>5, <1>6, <1>7, <2>2, <2>6
    <3>2. (t + 1 <= n + 1 => k < all[t + 1]) /\ keys[t - 1] <= k
      BY <2>2, <3>1
    <3>4. PICK t1 : t1 = t + 1 /\ t1 - 1 = t
      BY <1>6, <2>2
    <3>7. t1 \in 1 .. n + 2 /\ (t1 <= n + 1 => k < all[t1]) /\ all[t1 - 1] <= k
      BY <1>6, <2>2, <3>1, <3>2, <3>4
    <3>5. t1 \in 1 .. Len(all) + 1 /\ (t1 <= Len(all) => k < all[t1]) /\ all[t1 - 1] <= k
      BY <1>6, <1>7, <3>7
    <3>6. NonLeafSlot(all, k) = t1
      BY <1>7, <1>11, <3>5, SlotUnique
    <3> QED
      BY <1>5, <2>1, <2>2, <2>6, <3>4, <3>6
  <2> QED
    BY <1>5, <2>2, <2>3, <2>4, <2>5, <2>6
<1> QED
    BY <1>1, <1>2, <1>3, <1>11, <1>12

\* A split at the key after the first h: what is below it finds its slot in the
\* lower half, the rest in the upper one.
LEMMA SplitSlots ==
    ASSUME EndKey \notin Key, NEW all \in Seq(Key), Rising(all),
           NEW h \in Nat, h < Len(all),
           NEW lower \in Seq(Key), Len(lower) = h,
           \A j \in 1 .. h : lower[j] = all[j],
           NEW upper \in Seq(Key), Len(upper) = Len(all) - h - 1,
           \A j \in 1 .. Len(all) - h - 1 : upper[j] = all[h + 1 + j]
    PROVE  /\ all[h + 1] \in Key /\ Rising(lower) /\ Rising(upper)
           /\ \A j \in 1 .. h : lower[j] < all[h + 1]
           /\ \A j \in 1 .. Len(all) - h - 1 : all[h + 1] < upper[j]
           /\ \A k \in Int : k < all[h + 1] =>
                /\ NonLeafSlot(all, k) = NonLeafSlot(lower, k)
                /\ NonLeafSlot(all, k) \in 1 .. h + 1
           /\ \A k \in Int : all[h + 1] <= k =>
                /\ NonLeafSlot(all, k) = h + 1 + NonLeafSlot(upper, k)
                /\ NonLeafSlot(upper, k) \in 1 .. Len(all) - h
<1>1. PICK n : n = Len(all)
    OBVIOUS
<1>2. n \in Nat /\ \A m \in 1 .. n : all[m] \in Key /\ all[m] \in Int
    BY <1>1, KeysOfNode
<1>3. h + 1 \in 1 .. n
    BY <1>1, <1>2
<1>4. PICK mid : mid = all[h + 1]
    OBVIOUS
<1>5. mid \in Key /\ mid \in Int
    BY <1>2, <1>3, <1>4
<1>6. \A j, k \in 1 .. n : j < k => all[j] < all[k]
    BY <1>1 DEF Rising
<1>7. ASSUME NEW j \in 1 .. h PROVE lower[j] < mid
  <2>1. j \in 1 .. n /\ j < h + 1
    BY <1>2, <1>3
  <2> QED
    BY <1>3, <1>4, <1>6, <2>1
<1>8. ASSUME NEW j \in 1 .. n - h - 1 PROVE mid < upper[j]
  <2>1. h + 1 + j \in 1 .. n /\ h + 1 < h + 1 + j
    BY <1>2, <1>3
  <2> QED
    BY <1>1, <1>3, <1>4, <1>6, <2>1
<1>9. Rising(lower)
  <2> SUFFICES ASSUME NEW j \in 1 .. h, NEW k \in 1 .. h, j < k PROVE lower[j] < lower[k]
    BY DEF Rising
  <2>1. j \in 1 .. n /\ k \in 1 .. n
    BY <1>2, <1>3
  <2> QED
    BY <1>6, <2>1
<1>10. Rising(upper)
  <2> SUFFICES ASSUME NEW j \in 1 .. n - h - 1, NEW k \in 1 .. n - h - 1, j < k
               PROVE  upper[j] < upper[k]
    BY <1>1 DEF Rising
  <2>1. h + 1 + j \in 1 .. n /\ h + 1 + k \in 1 .. n /\ h + 1 + j < h + 1 + k
    BY <1>2, <1>3
  <2> QED
    BY <1>1, <1>6, <2>1
<1>11. ASSUME NEW k \in Int, k < mid
       PROVE  NonLeafSlot(all, k) = NonLeafSlot(lower, k) /\ NonLeafSlot(all, k) \in 1 .. h + 1
  <2>1. PICK t : t = NonLeafSlot(lower, k)
    OBVIOUS
  <2>2. /\ t \in 1 .. h + 1
        /\ t <= h => k < lower[t]
        /\ \A m \in 1 .. h : m < t => lower[m] <= k
    BY <2>1, SlotIs
  <2>3. t \in 1 .. n /\ (t > 1 => t - 1 \in 1 .. h /\ t - 1 < t)
    BY <1>2, <1>3, <2>2
  <2>4. k < all[t]
    <3>1. t = h + 1 \/ t \in 1 .. h
      BY <2>2
    <3> QED
      BY <1>4, <1>11, <2>2, <3>1
  <2>5. t > 1 => all[t - 1] <= k
    BY <2>2, <2>3
  <2>6. t \in 1 .. Len(all) + 1
    BY <1>1, <1>2, <2>3
  <2>7. NonLeafSlot(all, k) = t
    BY <2>4, <2>5, <2>6, SlotUnique
  <2> QED
    BY <2>1, <2>2, <2>7
<1>12. ASSUME NEW k \in Int, mid <= k
       PROVE  /\ NonLeafSlot(all, k) = h + 1 + NonLeafSlot(upper, k)
              /\ NonLeafSlot(upper, k) \in 1 .. n - h
  <2>1. PICK t : t = NonLeafSlot(upper, k)
    OBVIOUS
  <2>2. PICK u : u = n - h - 1
    OBVIOUS
  <2>3. u \in Nat /\ Len(upper) = u /\ u + 1 = n - h
    BY <1>1, <1>3, <2>2
  <2>4. /\ t \in 1 .. u + 1
        /\ t <= u => k < upper[t]
        /\ \A m \in 1 .. u : m < t => upper[m] <= k
    BY <2>1, <2>3, SlotIs
  <2>5. \A m \in 1 .. u : upper[m] = all[h + 1 + m]
    BY <1>1, <2>2
  <2>6. PICK s : s = h + 1 + t /\ s - 1 = h + t
    BY <2>4
  <2>7. s \in 1 .. n + 1 /\ (s <= n => t <= u) /\ s - 1 \in 1 .. n
    BY <1>2, <1>3, <2>3, <2>4, <2>6
  <2>8. s <= n => k < all[s]
    BY <2>4, <2>5, <2>6, <2>7
  <2>9. all[s - 1] <= k
    <3>1. CASE t = 1
      <4>1. s - 1 = h + 1
        BY <2>6, <3>1
      <4> QED
        BY <1>4, <1>12, <4>1
    <3>2. CASE t # 1
      <4>1. t - 1 \in 1 .. u /\ t - 1 < t /\ h + 1 + (t - 1) = s - 1
        BY <2>3, <2>4, <2>6, <3>2
      <4> QED
        BY <2>4, <2>5, <4>1
    <3> QED
      BY <3>1, <3>2
  <2>10. s \in 1 .. Len(all) + 1 /\ (s <= Len(all) => k < all[s])
    BY <1>1, <2>7, <2>8
  <2>11. NonLeafSlot(all, k) = s
    BY <2>9, <2>10, SlotUnique
  <2> QED
    BY <2>1, <2>3, <2>4, <2>6, <2>11
<1> QED
    BY <1>1, <1>4, <1>5, <1>7, <1>8, <1>9, <1>10, <1>11, <1>12

\* An entry with a key that no other entry has leaves the entries sorted.
LEMMA LeafPutRises ==
    ASSUME EndKey \notin Key, NEW entries \in Seq(Entry), RisingEntries(entries),
           NEW e \in Entry, \A j \in 1 .. Len(entries) : entries[j].key # e.key
    PROVE  RisingEntries(LeafPut(entries, e))
<1>1. PICK n : n = Len(entries)
    OBVIOUS
<1>2. PICK i : i = LeafSlot(entries, e.key)
    OBVIOUS
<1>3. PICK all : all = LeafPut(entries, e)
    OBVIOUS
<1>4. n \in Nat /\ e.key \in Int
      /\ \A m \in 1 .. n : entries[m].key \in Int /\ entries[m].key # EndKey
  <2>1. n \in Nat /\ \A m \in 1 .. n : entries[m] \in Entry
    BY <1>1
  <2> QED
    BY <2>1, KeysAreIntegers DEF Entry
<1> DEFINE stops == {m \in 1 .. n : e.key < entries[m].key \/ entries[m].key = EndKey}
<1>5. i \in 1 .. n + 1 /\ i \in stops \cup {n + 1} /\ \A m \in stops : i <= m
  <2>1. stops \in SUBSET (1 .. n)
    OBVIOUS
  <2>2. i = Min(stops \cup {n + 1})
    BY <1>1, <1>2 DEF LeafSlot
  <2> HIDE DEF stops
  <2> QED
    BY <1>4, <2>1, <2>2, FirstOrEnd
<1>6. Len(all) = n + 1
      /\ \A j \in 1 .. n + 1 : all[j] = IF j < i THEN entries[j] ELSE IF j = i THEN e ELSE entries[j - 1]
  <2>1. i \in 1 .. Len(entries) + 1
    BY <1>1, <1>5
  <2>2. all = InsertAt(entries, i, e)
    BY <1>2, <1>3 DEF LeafPut
  <2>3. /\ Len(InsertAt(entries, i, e)) = Len(entries) + 1
        /\ \A j \in 1 .. Len(entries) + 1 :
             InsertAt(entries, i, e)[j] =
                 IF j < i THEN entries[j] ELSE IF j = i THEN e ELSE entries[j - 1]
    BY <2>1, InsertAtProperties
  <2> QED
    BY <1>1, <2>2, <2>3
<1>7. \A j, k \in 1 .. n : j < k => entries[j].key < entries[k].key
    BY <1>1 DEF RisingEntries
<1>8. ASSUME NEW m \in 1 .. n, m < i PROVE entries[m].key < e.key
  <2>1. m \notin stops
    BY <1>4, <1>5, <1>8
  <2>2. ~ (e.key < entries[m].key) /\ entries[m].key # e.key
    BY <1>1, <2>1
  <2> QED
    BY <1>4, <2>2
<1>9. ASSUME NEW m \in 1 .. n, m >= i PROVE e.key < entries[m].key
  <2>1. i \in 1 .. n /\ i \in stops
    BY <1>4, <1>5, <1>9
  <2>2. e.key < entries[i].key
    BY <1>4, <2>1
  <2>3. m = i \/ entries[i].key < entries[m].key
    BY <1>5, <1>7, <1>9, <2>1
  <2> QED
    BY <1>4, <2>1, <2>2, <2>3
<1> SUFFICES ASSUME NEW j \in 1 .. n + 1, NEW k \in 1 .. n + 1, j < k
             PROVE  all[j].key < all[k].key
    BY <1>3, <1>6 DEF RisingEntries
<1>11. CASE k < i
  <2>1. j \in 1 .. n /\ k \in 1 .. n /\ j < i
    BY <1>4, <1>5, <1>11
  <2> QED
    BY <1>6, <1>7, <1>11, <2>1
<1>12. CASE k = i
  <2>1. j \in 1 .. n /\ j < i
    BY <1>4, <1>5, <1>12
  <2> QED
    BY <1>6, <1>8, <1>12, <2>1
<1>13. CASE k > i /\ j < i
  <2>1. j \in 1 .. n /\ k - 1 \in 1 .. n /\ j < k - 1
    BY <1>4, <1>5, <1>13
  <2> QED
    BY <1>5, <1>6, <1>7, <1>13, <2>1
<1>14. CASE k > i /\ j = i
  <2>1. k - 1 \in 1 .. n /\ k - 1 >= i
    BY <1>4, <1>5, <1>14
  <2> QED
    BY <1>5, <1>6, <1>9, <1>14, <2>1
<1>15. CASE k > i /\ j > i
  <2>1. j - 1 \in 1 .. n /\ k - 1 \in 1 .. n /\ j - 1 < k - 1
    BY <1>4, <1>5, <1>15
  <2> QED
    BY <1>5, <1>6, <1>7, <1>15, <2>1
<1> QED
    BY <1>4, <1>5, <1>11, <1>12, <1>13, <1>14, <1>15

\* Both halves of a split leaf are sorted; the first key of the upper half is
\* above all of the lower half, which is not empty, and at most any of its own.
LEMMA LeafHalvesRise ==
    ASSUME EndKey \notin Key, NEW leaf \in LeafPage, RisingEntries(leaf.entries),
           leaf.entries # <<>>,
           NEW e \in Entry, \A j \in 1 .. Len(leaf.entries) : leaf.entries[j].key # e.key
    PROVE  LET lower == LowerHalf(leaf, e).entries
               upper == UpperHalf(leaf, e).entries
               s     == SiblingKey(leaf, e)
           IN  /\ RisingEntries(lower) /\ RisingEntries(upper)
               /\ \A j \in 1 .. Len(lower) : lower[j].key < s
               /\ \A j \in 1 .. Len(upper) : s <= upper[j].key
               /\ \E j \in 1 .. Len(upper) : s = upper[j].key
               /\ 1 \in 1 .. Len(lower)
<1>1. PICK all : all = LeafPut(leaf.entries, e)
    OBVIOUS
<1>2. PICK h : h = Half(all)
    OBVIOUS
<1>3. PICK n : n = Len(all)
    OBVIOUS
<1>4. PICK lower, upper : lower = LowerHalf(leaf, e).entries /\ upper = UpperHalf(leaf, e).entries
    OBVIOUS
<1>5. /\ all \in Seq(Entry) /\ n = Len(leaf.entries) + 1
      /\ h \in 0 .. n - 1
      /\ Len(lower) = h
      /\ \A j \in 1 .. h : lower[j] = all[j]
      /\ Len(upper) = n - h
      /\ \A j \in 1 .. n - h : upper[j] = all[h + j]
    BY <1>1, <1>2, <1>3, <1>4, LeafSplitParts
<1>6. leaf.entries \in Seq(Entry) /\ Len(leaf.entries) \in Nat \ {0}
    BY EmptySeq DEF LeafPage
<1>7. n \in Nat /\ n >= 2 /\ h \in Nat /\ h >= 1 /\ h < n
  <2>1. n \in Nat /\ n >= 2
    BY <1>5, <1>6
  <2>2. h = n \div 2
    BY <1>2, <1>3 DEF Half
  <2>3. ASSUME NEW m \in Nat, m >= 2 PROVE m \div 2 \in Nat /\ m \div 2 >= 1 /\ m \div 2 < m
    BY <2>3
  <2> QED
    BY <2>1, <2>2, <2>3
<1>8. \A j, k \in 1 .. n : j < k => all[j].key < all[k].key
    BY <1>1, <1>3, <1>6, LeafPutRises DEF RisingEntries
<1>9. \A j \in 1 .. n : all[j].key \in Int
  <2>1. \A j \in 1 .. n : all[j] \in Entry
    BY <1>3, <1>5, ElementOfSeq
  <2> QED
    BY <2>1, KeysAreIntegers DEF Entry
<1>10. SiblingKey(leaf, e) = all[h + 1].key
  <2>1. 1 \in 1 .. n - h
    BY <1>7
  <2>2. upper[1] = all[h + 1]
    BY <1>5, <2>1
  <2> QED
    BY <1>4, <2>2 DEF SiblingKey
<1>11. h + 1 \in 1 .. n /\ 1 \in 1 .. n - h /\ 1 \in 1 .. h
    BY <1>7
<1>12. \A j \in 1 .. h : j \in 1 .. n /\ j < h + 1
    BY <1>7
<1>13. \A j \in 1 .. n - h : h + j \in 1 .. n /\ (h + 1 = h + j \/ h + 1 < h + j)
    BY <1>7
<1>14. RisingEntries(lower)
    BY <1>5, <1>8, <1>12 DEF RisingEntries
<1>15. RisingEntries(upper)
  <2> SUFFICES ASSUME NEW j \in 1 .. n - h, NEW k \in 1 .. n - h, j < k
               PROVE  upper[j].key < upper[k].key
    BY <1>5 DEF RisingEntries
  <2>1. h + j < h + k
    BY <1>7
  <2> QED
    BY <1>5, <1>8, <1>13, <2>1
<1>16. \A j \in 1 .. h : lower[j].key < all[h + 1].key
    BY <1>5, <1>8, <1>11, <1>12
<1>17. \A j \in 1 .. n - h : all[h + 1].key <= upper[j].key
  <2> TAKE j \in 1 .. n - h
  <2>1. all[h + 1].key = all[h + j].key \/ all[h + 1].key < all[h + j].key
    BY <1>8, <1>11, <1>13
  <2> QED
    BY <1>5, <1>9, <1>11, <1>13, <2>1
<1>18. upper[1].key = all[h + 1].key
    BY <1>5, <1>11
<1> QED
    BY <1>4, <1>5, <1>10, <1>11, <1>14, <1>15, <1>16, <1>17, <1>18

(***************************************************************************)
(* The inductive invariant: the range of keys of each page                 *)
(***************************************************************************)

\* rng[p] are the integers that the root leads to p, on the level lvl[p].  Pages
\* that are not in the tree yet have neither.

\* The pointer that a descent for k takes from the nonleaf p.
Turn(p, k) == NonLeafSlot(PageAt(p).keys, k)

\* On the way up a split page has its range, but its parent has no pointer to
\* it: keys of that range still go to the page that was split.
SplitLevel         == treeHeight - Len(path) - 1
IsLate(rng, k, l)  == pc \in Ascending /\ l = SplitLevel /\ k \in rng[splitpid]

Places(lvl, rng) ==
    /\ DOMAIN rng = DOMAIN lvl
    /\ \A p \in DOMAIN lvl :
         /\ p \in 1 .. EndPid - 1 /\ lvl[p] \in Nat
         /\ rng[p] \subseteq Int /\ rng[p] # {}
    /\ \A p, q \in DOMAIN lvl : lvl[p] = lvl[q] /\ p # q => rng[p] \cap rng[q] = {}
    /\ EndPid >= 2 => At(lvl, 1, 0)

\* A leaf has keys of its range, and the next leaf has larger ones; only the
\* first leaf of the file may be blank.
LeafRange(lvl, rng, p) ==
    /\ PageAt(p).kind = "leaf" \/ (PageAt(p).kind = "blank" /\ DOMAIN lvl = {p})
    /\ \A j \in 1 .. Len(LeafAt(p).entries) : LeafAt(p).entries[j].key \in rng[p]
    /\ LeafAt(p).next # NoPid =>
         /\ At(lvl, LeafAt(p).next, 0)
         /\ \A k \in rng[p], m \in rng[LeafAt(p).next] : k < m

\* The pointers of a nonleaf divide its range at its keys.
NodeRange(lvl, rng, p) ==
    /\ Branches(PageAt(p))
    /\ \A j \in 1 .. Len(PageAt(p).keys) : PageAt(p).keys[j] \in rng[p]
    /\ \A i \in 1 .. Len(PageAt(p).pids) :
         /\ At(lvl, PageAt(p).pids[i], lvl[p] - 1)
         /\ \A k \in Int :
              k \in rng[PageAt(p).pids[i]]
                  <=> k \in rng[p] /\ Turn(p, k) = i /\ ~ IsLate(rng, k, lvl[p] - 1)

PageRange(lvl, rng, p) ==
    /\ lvl[p] = 0 => LeafRange(lvl, rng, p)
    /\ lvl[p] # 0 => NodeRange(lvl, rng, p)

\* The root has all keys, and no page is above it.
RootRange(lvl, rng, root, height) ==
    /\ height \in Nat \ {0}
    /\ At(lvl, root, height - 1) /\ \A p \in DOMAIN lvl : lvl[p] < height
    /\ \A k \in Int : k \in rng[root] <=> ~ IsLate(rng, k, height - 1)
Rooted(lvl, rng) ==
    /\ (mode = "none" /\ disk # <<>>) =>
         /\ disk[1].kind = "meta"
         /\ RootRange(lvl, rng, disk[1].rootPid, disk[1].treeHeight)
    /\ (mode # "none" /\ treeHeight # 0 /\ pc # "firstRoot") =>
         RootRange(lvl, rng, rootPid,
                   IF pc = "rootMetadata" THEN treeHeight + 1 ELSE treeHeight)

\* The frames of _insert: the key they work for is in the range of each.
Sought == IF pc \in Ascending THEN splitkey ELSE ins.key
OnPath(lvl, rng) ==
    pc \in Descending =>
      /\ \A d \in 1 .. Len(path) : At(lvl, path[d], treeHeight - d)
      /\ \A d, e \in 1 .. Len(path) : d <= e => rng[path[e]] \subseteq rng[path[d]]
      /\ path # <<>> => Sought \in rng[NodePid]

\* What the page that was split had before: the range that the parent gives it.
InHome(rng, k) ==
    path # <<>> => k \in rng[NodePid] /\ Turn(NodePid, k) = Turn(NodePid, splitkey)
SplitOff(lvl, rng) ==
    /\ pc \in {"leafSibling", "leafNode"} =>
         splitpid \notin DOMAIN lvl /\ LeafIsFull(LeafAt(NodePid))
    /\ pc = "leafNode" => splitkey = SiblingKey(LeafAt(NodePid), ins)
    /\ pc \in Ascending =>
         /\ At(lvl, splitpid, SplitLevel)
         /\ \A k \in Int : k \in rng[splitpid] <=> InHome(rng, k) /\ splitkey <= k
         /\ \E k \in Int : InHome(rng, k) /\ k < splitkey
    /\ pc \in {"nonleafSibling", "nonleafNode", "rootNode"} =>
         newPid \in 1 .. EndPid - 1 /\ newPid \notin DOMAIN lvl
    /\ pc \in {"nonleafSibling", "nonleafNode"} => NonLeafIsFull(NonLeafAt(NodePid))
    /\ pc = "nonleafNode" =>
         PageAt(newPid) = UpperNode(NonLeafAt(NodePid), splitkey, splitpid)

\* Every page but the first is in the tree or the one that a split has fetched.
Splitting == {"leafSibling", "leafNode", "nonleafSibling", "nonleafNode", "rootNode"}
Fetched   == IF pc \in {"leafSibling", "leafNode"} THEN {splitpid}
             ELSE IF pc \in Splitting THEN {newPid} ELSE {}
Covered(lvl) == 1 .. EndPid - 1 \subseteq DOMAIN lvl \cup Fetched

Ranged(lvl, rng) ==
    /\ Covered(lvl)
    /\ Places(lvl, rng)
    /\ \A p \in DOMAIN lvl : PageRange(lvl, rng, p)
    /\ Rooted(lvl, rng)
    /\ OnPath(lvl, rng)
    /\ SplitOff(lvl, rng)

\* A crash loses a split page that has no pointer yet, and with it the order of
\* the leaves.
Ordered == crashes = 0 => NodesSorted /\ \E lvl, rng : Ranged(lvl, rng)

(***************************************************************************)
(* What stays                                                              *)
(***************************************************************************)

\* Pages that are not written keep their ranges.
LEMMA PageRangeStays ==
    ASSUME NEW lvl, NEW rng, NEW p, PageRange(lvl, rng, p), PageAt(p)' = PageAt(p),
           \A k \in Int : k \in rng[p] =>
               (IsLate(rng, k, lvl[p] - 1)' <=> IsLate(rng, k, lvl[p] - 1))
    PROVE  PageRange(lvl, rng, p)'
<1>1. LeafAt(p)' = LeafAt(p)
    BY DEF LeafAt
<1>2. \A k : Turn(p, k)' = Turn(p, k)
    BY DEF Turn
<1>3. lvl[p] = 0 => LeafRange(lvl, rng, p)'
    BY <1>1 DEF PageRange, LeafRange
<1>4. lvl[p] # 0 => NodeRange(lvl, rng, p)'
  <2> HAVE lvl[p] # 0
  <2>1. NodeRange(lvl, rng, p)
    BY DEF PageRange
  <2> HIDE DEF IsLate, Turn
  <2> QED
    BY <1>2, <2>1 DEF NodeRange
<1> QED
    BY <1>3, <1>4 DEF PageRange

\* So does the whole tree, if nothing is or becomes late.
LEMMA TreeStays ==
    ASSUME NEW lvl, NEW rng, Ranged(lvl, rng),
           \A p \in DOMAIN lvl : PageAt(p)' = PageAt(p),
           EndPid' >= EndPid, EndPid \in Nat, EndPid' \in Nat, EndPid' >= 2 => EndPid >= 2,
           \A l, k : IsLate(rng, k, l)' <=> IsLate(rng, k, l)
    PROVE  /\ Places(lvl, rng)'
           /\ \A p \in DOMAIN lvl : PageRange(lvl, rng, p)'
           /\ \A root, height : RootRange(lvl, rng, root, height)
                => RootRange(lvl, rng, root, height)'
<1>1. Places(lvl, rng)'
    BY DEF Ranged, Places
<1>2. \A p \in DOMAIN lvl : PageRange(lvl, rng, p)'
  <2> TAKE p \in DOMAIN lvl
  <2>1. PageRange(lvl, rng, p)
    BY DEF Ranged
  <2> QED
    BY <2>1, PageRangeStays
<1>3. ASSUME NEW root, NEW height, RootRange(lvl, rng, root, height)
      PROVE  RootRange(lvl, rng, root, height)'
    BY <1>3 DEF RootRange
<1> QED
    BY <1>1, <1>2, <1>3

\* The pages that are in the tree cover the file as long as it does not grow.
LEMMA CoveredStays ==
    ASSUME NEW lvl, NEW rng, Ranged(lvl, rng), EndPid' = EndPid,
           \/ pc \notin Splitting
           \/ splitpid' = splitpid /\ pc \in {"leafSibling", "leafNode"}
                /\ pc' \in {"leafSibling", "leafNode"}
           \/ newPid' = newPid /\ pc \in {"nonleafSibling", "nonleafNode", "rootNode"}
                /\ pc' \in {"nonleafSibling", "nonleafNode", "rootNode"}
    PROVE  Covered(lvl)'
<1>1. Fetched \subseteq Fetched'
    BY DEF Fetched, Splitting
<1> QED
    BY <1>1 DEF Ranged, Covered

\* When it grows, the new page is the one that a split fetches.
LEMMA CoveredGrows ==
    ASSUME NEW lvl, NEW rng, Ranged(lvl, rng), disk \in Seq(Page), FetchNewPage,
           pc \notin Splitting,
           \/ pc' = "leafSibling" /\ splitpid' = EndPid
           \/ pc' \in {"nonleafSibling", "rootNode"} /\ newPid' = EndPid
    PROVE  Covered(lvl)'
<1>1. EndPid \in Nat /\ EndPid' = EndPid + 1
    BY FetchTyped DEF EndPid
<1>2. Fetched = {} /\ EndPid \in Fetched'
    BY DEF Fetched, Splitting
<1>3. 1 .. EndPid' - 1 \subseteq 1 .. EndPid - 1 \cup {EndPid}
    BY <1>1
<1> QED
    BY <1>2, <1>3 DEF Ranged, Covered

\* Outside of the way up nothing is late.
LEMMA NothingLate ==
    ASSUME pc \notin Ascending, pc' \notin Ascending, NEW rng
    PROVE  \A l, k : ~ IsLate(rng, k, l) /\ ~ IsLate(rng, k, l)'
BY DEF IsLate

\* A step that leaves the frames and the file alone.
LEMMA SameFileRanges ==
    ASSUME NEW lvl, NEW rng, Ranged(lvl, rng), disk \in Seq(Page), disk' = disk,
           \A l, k : IsLate(rng, k, l)' <=> IsLate(rng, k, l)
    PROVE  /\ Places(lvl, rng)'
           /\ \A p \in DOMAIN lvl : PageRange(lvl, rng, p)'
           /\ \A root, height : RootRange(lvl, rng, root, height)
                => RootRange(lvl, rng, root, height)'
<1>1. EndPid \in Nat /\ EndPid' = EndPid /\ \A p : PageAt(p)' = PageAt(p)
    BY DEF EndPid, PageAt
<1> QED
    BY <1>1, TreeStays

(***************************************************************************)
(* Steps that write no node                                                *)
(***************************************************************************)

LEMMA ForgetRanged ==
    ASSUME Typed, MetadataKept, NEW lvl, NEW rng, Ranged(lvl, rng),
           pc \notin Ascending, pc \notin Splitting, ~ CommitPending, Forget, disk' = disk
    PROVE  Ranged(lvl, rng)'
<1>1. pc' = "idle" /\ mode' = "none" /\ disk \in Seq(Page)
    BY DEF Forget, Typed, TypeOK
<1>2. pc' \notin Ascending /\ pc' \notin Descending
    BY <1>1 DEF Ascending, Descending
<1>3. /\ Places(lvl, rng)' /\ \A p \in DOMAIN lvl : PageRange(lvl, rng, p)'
      /\ \A root, height : RootRange(lvl, rng, root, height)
           => RootRange(lvl, rng, root, height)'
    BY <1>1, <1>2, NothingLate, SameFileRanges
<1>4. Rooted(lvl, rng)'
  <2>1. CASE disk = <<>>
    BY <1>1, <2>1 DEF Rooted
  <2>2. CASE disk # <<>> /\ mode = "none"
    <3>1. disk[1].kind = "meta" /\ RootRange(lvl, rng, disk[1].rootPid, disk[1].treeHeight)
      BY <2>2 DEF Ranged, Rooted
    <3>2. PICK root, height : root = disk[1].rootPid /\ height = disk[1].treeHeight
      OBVIOUS
    <3>3. RootRange(lvl, rng, root, height)'
      BY <1>3, <3>1, <3>2
    <3> QED
      BY <1>1, <3>1, <3>2, <3>3 DEF Rooted
  <2>3. CASE disk # <<>> /\ mode # "none"
    <3>1. RootRange(lvl, rng, rootPid, treeHeight)
      BY <2>3 DEF Typed, Running, CommitPending, Ranged, Rooted
    <3>2. treeHeight > 0
      BY <3>1 DEF RootRange
    <3>3. disk[1] = Metadata(rootPid, treeHeight)
      BY <2>3, <3>2 DEF MetadataKept
    <3>4. disk[1].kind = "meta" /\ disk[1].rootPid = rootPid /\ disk[1].treeHeight = treeHeight
      BY <3>3 DEF Metadata
    <3>5. PICK root, height : root = rootPid /\ height = treeHeight
      OBVIOUS
    <3>6. /\ disk'[1].kind = "meta" /\ disk'[1].rootPid = root /\ disk'[1].treeHeight = height
      BY <3>4, <3>5
    <3>7. RootRange(lvl, rng, root, height)'
      BY <1>3, <3>1, <3>5
    <3> QED
      BY <1>1, <3>6, <3>7 DEF Rooted
  <2> QED
    BY <2>1, <2>2, <2>3
<1>5. OnPath(lvl, rng)' /\ SplitOff(lvl, rng)'
    BY <1>1, <1>2 DEF OnPath, SplitOff
<1>6. Covered(lvl)'
  <2>1. EndPid' = EndPid
    BY DEF EndPid
  <2> QED
    BY <2>1, CoveredStays
<1> QED
    BY <1>3, <1>4, <1>5, <1>6 DEF Ranged

LEMMA OpenRanged ==
    ASSUME Typed, NEW lvl, NEW rng, Ranged(lvl, rng), NEW m \in {"r", "w"}, Open(m)
    PROVE  Ranged(lvl, rng)'
<1>1. /\ pc = "idle" /\ pc' = pc /\ mode = "none" /\ mode' = m /\ m # "none"
      /\ disk' = disk /\ disk \in Seq(Page)
    BY DEF Open, Typed, TypeOK, Running
<1>2. pc \notin Ascending /\ pc' \notin Ascending /\ pc' \notin Descending
    BY <1>1 DEF Ascending, Descending
<1>3. /\ Places(lvl, rng)' /\ \A p \in DOMAIN lvl : PageRange(lvl, rng, p)'
      /\ \A root, height : RootRange(lvl, rng, root, height)
           => RootRange(lvl, rng, root, height)'
    BY <1>1, <1>2, NothingLate, SameFileRanges
<1>4. Rooted(lvl, rng)'
  <2>1. CASE disk = <<>>
    BY <1>1, <2>1 DEF Rooted, Open
  <2>2. CASE disk # <<>>
    <3>1. disk[1].kind = "meta" /\ RootRange(lvl, rng, disk[1].rootPid, disk[1].treeHeight)
      BY <1>1, <2>2 DEF Ranged, Rooted
    <3>2. rootPid' = disk[1].rootPid /\ treeHeight' = disk[1].treeHeight
      BY <2>2, <3>1 DEF Open, ReadRootPid, ReadTreeHeight
    <3>3. PICK root, height : root = disk[1].rootPid /\ height = disk[1].treeHeight
      OBVIOUS
    <3>4. RootRange(lvl, rng, root, height)'
      BY <1>3, <3>1, <3>3
    <3> QED
      BY <1>1, <3>2, <3>3, <3>4 DEF Rooted
  <2> QED
    BY <2>1, <2>2
<1>5. OnPath(lvl, rng)' /\ SplitOff(lvl, rng)'
    BY <1>1, <1>2 DEF OnPath, SplitOff
<1>6. Covered(lvl)'
  <2>1. EndPid' = EndPid /\ pc \notin Splitting
    BY <1>1 DEF EndPid, Splitting
  <2> QED
    BY <2>1, CoveredStays
<1> QED
    BY <1>3, <1>4, <1>5, <1>6 DEF Ranged

\* The object keeps its root and height.
LEMMA SameRoot ==
    ASSUME NEW lvl, NEW rng, Rooted(lvl, rng), mode # "none", mode' = mode,
           treeHeight \in Int,
           rootPid' = rootPid, treeHeight' = treeHeight, pc # "firstRoot",
           pc # "rootMetadata", pc' # "rootMetadata",
           \A root, height : RootRange(lvl, rng, root, height)
                => RootRange(lvl, rng, root, height)'
    PROVE  Rooted(lvl, rng)'
<1>1. treeHeight # 0 => RootRange(lvl, rng, rootPid, treeHeight)
    BY DEF Rooted
<1>2. PICK root, height : root = rootPid /\ height = treeHeight
    OBVIOUS
<1>3. treeHeight # 0 => RootRange(lvl, rng, root, height)'
    BY <1>1, <1>2
<1>4. rootPid' = root /\ treeHeight' = height /\ mode' # "none"
    BY <1>2
<1> QED
    BY <1>2, <1>3, <1>4 DEF Rooted

LEMMA ScanRanged ==
    ASSUME Typed, NEW lvl, NEW rng, Ranged(lvl, rng), disk' = disk, mode # "none",
           mode' = mode, rootPid' = rootPid, treeHeight' = treeHeight,
           pc \in {"idle", "scan", "scanEnd"}, pc' \in {"idle", "scan", "scanEnd"}
    PROVE  Ranged(lvl, rng)'
<1>1. disk \in Seq(Page) /\ treeHeight \in Int
    BY DEF Typed, TypeOK
<1>2. pc \notin Ascending /\ pc' \notin Ascending /\ pc' \notin Descending
    BY DEF Ascending, Descending
<1>3. /\ Places(lvl, rng)' /\ \A p \in DOMAIN lvl : PageRange(lvl, rng, p)'
      /\ \A root, height : RootRange(lvl, rng, root, height)
           => RootRange(lvl, rng, root, height)'
    BY <1>1, <1>2, NothingLate, SameFileRanges
<1>4. Rooted(lvl, rng)'
    BY <1>1, <1>3, SameRoot DEF Ranged
<1>5. OnPath(lvl, rng)' /\ SplitOff(lvl, rng)'
    BY <1>2 DEF OnPath, SplitOff
<1>6. Covered(lvl)'
  <2>1. EndPid' = EndPid /\ pc \notin Splitting
    BY DEF EndPid, Splitting
  <2> QED
    BY <2>1, CoveredStays
<1> QED
    BY <1>3, <1>4, <1>5, <1>6 DEF Ranged

\* The call of _insert on the root.
LEMMA EnterRanged ==
    ASSUME Typed, NEW lvl, NEW rng, Ranged(lvl, rng),
           pc \notin Ascending, pc \notin Splitting, pc # "firstRoot", pc # "rootMetadata", pc' = "descend",
           mode # "none", mode' = mode, treeHeight # 0, treeHeight' = treeHeight,
           rootPid' = rootPid, path' = <<rootPid>>, ins' \in Entry,
           EndPid' = EndPid, \A p : p # 0 => PageAt(p)' = PageAt(p)
    PROVE  Ranged(lvl, rng)'
<1>1. treeHeight \in Int /\ EndPid \in Nat /\ ins'.key \in Int
  <2>1. ins'.key \in Key
    BY DEF Entry
  <2>2. ins'.key \in Int
    BY <2>1, KeysAreIntegers
  <2>3. treeHeight \in Int /\ disk \in Seq(Page)
    BY DEF Typed, TypeOK
  <2> QED
    BY <2>2, <2>3 DEF EndPid
<1>2. pc' \notin Ascending
    BY DEF Ascending
<1>3. \A p \in DOMAIN lvl : PageAt(p)' = PageAt(p)
  <2>1. \A p \in DOMAIN lvl : p # 0
    BY <1>1 DEF Ranged, Places
  <2> QED
    BY <2>1
<1>4. \A l, k : ~ IsLate(rng, k, l) /\ ~ IsLate(rng, k, l)'
    BY <1>2, NothingLate
<1>5. /\ Places(lvl, rng)' /\ \A p \in DOMAIN lvl : PageRange(lvl, rng, p)'
      /\ \A root, height : RootRange(lvl, rng, root, height)
           => RootRange(lvl, rng, root, height)'
    BY <1>1, <1>3, <1>4, TreeStays
<1>6. Rooted(lvl, rng)'
    BY <1>1, <1>5, SameRoot DEF Ranged
<1>7. RootRange(lvl, rng, rootPid, treeHeight)
    BY DEF Ranged, Rooted
<1>8. PICK root : root = rootPid
    OBVIOUS
<1>9. path' = <<root>> /\ Sought' = ins'.key /\ NodePid' = root
    BY <1>2, <1>8 DEF Sought, NodePid, Last
<1>10. At(lvl, root, treeHeight' - 1) /\ Sought' \in rng[root]
    BY <1>1, <1>4, <1>7, <1>8, <1>9 DEF RootRange
<1>11. OnPath(lvl, rng)'
  <2>1. Len(path') = 1 /\ path'[1] = root /\ \A d \in 1 .. 1 : d = 1
    BY <1>9
  <2> QED
    BY <1>9, <1>10, <2>1 DEF OnPath
<1>12. SplitOff(lvl, rng)'
    BY <1>2 DEF SplitOff
<1>13. Covered(lvl)'
    BY CoveredStays
<1> QED
    BY <1>5, <1>6, <1>11, <1>12, <1>13 DEF Ranged

LEMMA InsertRanged ==
    ASSUME Typed, NEW lvl, NEW rng, Ranged(lvl, rng), NEW e \in Entry, Insert(e)
    PROVE  Ranged(lvl, rng)'
<1>1. /\ pc = "idle" /\ pc' = "descend" /\ mode # "none" /\ mode' = mode
      /\ treeHeight # 0 /\ treeHeight' = treeHeight /\ rootPid' = rootPid
      /\ path' = <<rootPid>> /\ ins' \in Entry /\ disk' = disk
    BY DEF Insert, MayInsert, file, head
<1>2. EndPid' = EndPid /\ \A p : PageAt(p)' = PageAt(p)
    BY <1>1 DEF EndPid, PageAt
<1>3. pc \notin Ascending /\ pc \notin Splitting /\ pc # "firstRoot" /\ pc # "rootMetadata"
    BY <1>1 DEF Ascending, Splitting
<1> QED
    BY <1>1, <1>2, <1>3, EnterRanged

LEMMA CommitFirstRanged ==
    ASSUME Typed, NEW lvl, NEW rng, Ranged(lvl, rng), NEW c, NEW lev, Linked(c, lev),
           CommitFirst
    PROVE  Ranged(lvl, rng)'
<1>1. /\ pc = "firstMetadata" /\ pc' = "descend" /\ mode # "none" /\ mode' = mode
      /\ treeHeight \in Nat \ {0} /\ treeHeight' = treeHeight /\ rootPid' = rootPid
      /\ path' = <<rootPid>> /\ ins' \in Entry /\ disk \in Seq(Page) /\ rootPid \in Pid
      /\ WritePage(0, Metadata(rootPid, treeHeight))
    BY DEF CommitFirst, head, Typed, TypeOK, Running
<1>2. EndPid >= 2 /\ At(lev, rootPid, treeHeight - 1)
    BY <1>1 DEF Linked, RootLevel
<1>3. EndPid' = EndPid /\ \A p : p # 0 => PageAt(p)' = PageAt(p)
    BY <1>1, <1>2, MetadataWritten DEF Linked
<1>4. pc \notin Ascending /\ pc \notin Splitting /\ pc # "firstRoot" /\ pc # "rootMetadata"
    BY <1>1 DEF Ascending, Splitting
<1> QED
    BY <1>1, <1>3, <1>4, EnterRanged

LEMMA FirstInsertRanged ==
    ASSUME Typed, NEW lvl, NEW rng, Ranged(lvl, rng), NEW e \in Entry, FirstInsert(e)
    PROVE  Ranged(lvl, rng)'
<1>1. /\ disk \in Seq(Page) /\ disk = <<>> /\ FetchNewPage /\ pc' = "firstRoot"
      /\ mode # "none" /\ mode' = mode /\ pc = "idle"
    BY DEF FirstInsert, MayInsert, Typed, TypeOK, Running
<1>2. EndPid = 0 /\ EndPid' = 1
    BY <1>1 DEF EndPid, FetchNewPage
<1>3. \A p : p \notin DOMAIN lvl
    BY <1>2 DEF Ranged, Places
<1>4. pc' \notin Ascending /\ pc' \notin Descending
    BY <1>1 DEF Ascending, Descending
<1>5. Places(lvl, rng)'
    BY <1>2, <1>3 DEF Ranged, Places
<1>6. Rooted(lvl, rng)' /\ OnPath(lvl, rng)' /\ SplitOff(lvl, rng)'
    BY <1>1, <1>4 DEF Rooted, OnPath, SplitOff
<1>7. Covered(lvl)'
  <2>1. 1 .. EndPid' - 1 = {}
    BY <1>2
  <2> QED
    BY <2>1 DEF Covered
<1> QED
    BY <1>3, <1>5, <1>6, <1>7 DEF Ranged

\* The first leaf has all keys.
LEMMA FetchFirstRootRanged ==
    ASSUME Typed, NEW lvl, NEW rng, Ranged(lvl, rng), NEW c, NEW lev, Linked(c, lev),
           FetchFirstRoot
    PROVE  \E lvl2, rng2 : Ranged(lvl2, rng2)'
<1>1. /\ disk \in Seq(Page) /\ FetchNewPage /\ EndPid = 1 /\ treeHeight = 1
      /\ pc = "firstRoot" /\ pc' = "firstMetadata" /\ treeHeight' = 1 /\ rootPid' = 1
      /\ mode # "none" /\ mode' = mode
    BY DEF FetchFirstRoot, Linked, RootLevel, Typed, TypeOK, Running
<1>2. EndPid' = 2 /\ PageAt(1)' = Blank
  <2>1. PICK b : b = Blank
    OBVIOUS
  <2>2. Len(disk) = 1 /\ disk' = Append(disk, b) /\ b \in Page
    BY <1>1, <2>1 DEF EndPid, FetchNewPage, Page
  <2>3. Len(disk') = Len(disk) + 1 /\ disk'[Len(disk) + 1] = b
    BY <1>1, <2>2, AppendProperties
  <2>4. Len(disk') = 2 /\ disk'[2] = b
    BY <2>2, <2>3
  <2> QED
    BY <2>1, <2>4 DEF EndPid, PageAt
<1>3. PICK lvl2, rng2 : lvl2 = [p \in {1} |-> 0] /\ rng2 = [p \in {1} |-> Int]
    OBVIOUS
<1>4. /\ DOMAIN lvl2 = {1} /\ DOMAIN rng2 = {1} /\ lvl2[1] = 0 /\ rng2[1] = Int
      /\ At(lvl2, 1, 0)
    BY <1>3 DEF At
<1>5. pc' \notin Ascending /\ pc' \notin Descending
    BY <1>1 DEF Ascending, Descending
<1>6. Places(lvl2, rng2)'
    BY <1>2, <1>4 DEF Places
<1>7. LeafRange(lvl2, rng2, 1)'
    BY <1>2, <1>4 DEF LeafRange, LeafAt, Blank, EmptyLeaf, Leaf
<1>8. \A p \in DOMAIN lvl2 : PageRange(lvl2, rng2, p)'
    BY <1>4, <1>7 DEF PageRange
<1>9. Rooted(lvl2, rng2)'
  <2>1. RootRange(lvl2, rng2, 1, 1)'
    BY <1>4, <1>5 DEF RootRange, IsLate
  <2> QED
    BY <1>1, <2>1 DEF Rooted
<1>10. OnPath(lvl2, rng2)' /\ SplitOff(lvl2, rng2)'
    BY <1>1, <1>5 DEF OnPath, SplitOff
<1>11. Covered(lvl2)'
  <2>1. 1 .. EndPid' - 1 = {1}
    BY <1>2
  <2> QED
    BY <1>4, <2>1 DEF Covered
<1>12. Ranged(lvl2, rng2)'
    BY <1>6, <1>8, <1>9, <1>10, <1>11 DEF Ranged
<1> QED
    BY <1>12

\* The node at hand on the way down or up, and the root.
LEMMA NodePlace ==
    ASSUME Typed, NEW lvl, NEW rng, Ranged(lvl, rng), pc \in Descending, path # <<>>
    PROVE  /\ Len(path) \in Nat \ {0} /\ NodePid = path[Len(path)]
           /\ treeHeight \in Nat \ {0} /\ treeHeight - Len(path) \in Nat
           /\ At(lvl, NodePid, treeHeight - Len(path)) /\ NodePid \in DOMAIN lvl
           /\ NodePid \in 1 .. EndPid - 1 /\ EndPid \in Nat /\ EndPid >= 2
           /\ Sought \in rng[NodePid] /\ Sought \in Int
           /\ mode # "none" /\ pc # "firstRoot" /\ pc # "rootMetadata"
           /\ RootRange(lvl, rng, rootPid, treeHeight)
<1>1. /\ disk \in Seq(Page) /\ path \in Seq(Pid) /\ treeHeight \in Int
    BY DEF Typed, TypeOK
<1>2. EndPid \in Nat /\ Len(path) \in Nat \ {0} /\ NodePid = path[Len(path)]
    BY <1>1, EmptySeq DEF EndPid, NodePid, Last
<1>3. At(lvl, NodePid, treeHeight - Len(path)) /\ Sought \in rng[NodePid]
    BY <1>2 DEF Ranged, OnPath
<1>4. /\ NodePid \in DOMAIN lvl /\ treeHeight - Len(path) \in Nat
      /\ NodePid \in 1 .. EndPid - 1 /\ Sought \in Int
    BY <1>3 DEF At, Ranged, Places
<1>5. mode # "none" /\ pc # "firstRoot" /\ pc # "rootMetadata"
    BY DEF Typed, Running, Descending
<1>6. treeHeight \in Nat \ {0}
    BY <1>1, <1>2, <1>4
<1>7. RootRange(lvl, rng, rootPid, treeHeight)
    BY <1>5, <1>6 DEF Ranged, Rooted
<1> QED
    BY <1>2, <1>3, <1>4, <1>5, <1>6, <1>7

\* The child that the scan over the keys finds has the key in its range.
LEMMA ChildRange ==
    ASSUME disk \in Seq(Page), NEW lvl, NEW rng, Places(lvl, rng),
           NEW p \in DOMAIN lvl, lvl[p] # 0, PageRange(lvl, rng, p), NEW k \in rng[p],
           ~ IsLate(rng, k, lvl[p] - 1)
    PROVE  LET child == LocateChildPtr(NonLeafAt(p), k)
           IN  /\ At(lvl, child, lvl[p] - 1) /\ k \in rng[child]
               /\ rng[child] \subseteq rng[p]
               /\ \E i \in 1 .. Len(PageAt(p).pids) : i = Turn(p, k) /\ child = PageAt(p).pids[i]
<1>1. NodeRange(lvl, rng, p)
    BY DEF PageRange
<1> DEFINE node == PageAt(p)
           i    == NonLeafSlot(node.keys, k)
<1>2. /\ node.kind = "nonleaf" /\ node \in Page
      /\ Len(node.pids) = Len(node.keys) + 1
    BY <1>1, PageAtTyped DEF NodeRange, Branches
<1>3. node \in NonLeafPage /\ NonLeafAt(p) = node
    BY <1>2 DEF Page, LeafPage, MetaPage, Blank, NonLeafAt
<1>4. node.keys \in Seq(Key) /\ node.pids \in Seq(Pid)
    BY <1>3 DEF NonLeafPage
<1> HIDE DEF node
<1>5. i \in 1 .. Len(node.pids) /\ i \in DOMAIN node.pids
  <2>1. i \in 1 .. Len(node.keys) + 1
    BY <1>4, NonLeafSlotInRange
  <2> QED
    BY <1>2, <1>4, <2>1
<1> DEFINE child == LocateChildPtr(NonLeafAt(p), k)
<1>6. child = node.pids[i]
    BY <1>3, <1>5 DEF LocateChildPtr
<1>7. i = Turn(p, k)
    BY DEF Turn, node
<1> HIDE DEF i, child
<1>8. /\ At(lvl, child, lvl[p] - 1)
      /\ \A m \in Int : m \in rng[child] <=> m \in rng[p] /\ Turn(p, m) = i /\ ~ IsLate(rng, m, lvl[p] - 1)
    BY <1>1, <1>5, <1>6 DEF NodeRange, node
<1>9. rng[child] \subseteq Int /\ k \in Int
    BY <1>8 DEF Places, At
<1>10. k \in rng[child] /\ rng[child] \subseteq rng[p]
    BY <1>7, <1>8, <1>9
<1> QED
    BY <1>5, <1>6, <1>7, <1>8, <1>10 DEF child, node

LEMMA DescendRanged ==
    ASSUME Typed, NEW lvl, NEW rng, Ranged(lvl, rng), Descend
    PROVE  Ranged(lvl, rng)'
<1>1. /\ pc = "descend" /\ pc' = pc /\ mode' = mode /\ rootPid' = rootPid
      /\ treeHeight' = treeHeight /\ Len(path) # treeHeight /\ disk' = disk
      /\ ins' = ins /\ disk \in Seq(Page) /\ path \in Seq(Pid) /\ path # <<>>
    BY DEF Descend, file, head, Depth, Typed, TypeOK, Running
<1>2. pc \in Descending /\ pc \notin Ascending /\ pc' \notin Ascending
    BY <1>1 DEF Descending, Ascending
<1>3. PICK n, p, height : n = Len(path) /\ p = NodePid /\ height = treeHeight
    OBVIOUS
<1>4. /\ n \in Nat \ {0} /\ height \in Nat \ {0} /\ height - n \in Nat \ {0}
      /\ p \in DOMAIN lvl /\ lvl[p] = height - n /\ p = path[n]
      /\ ins.key \in rng[p] /\ mode # "none"
    BY <1>1, <1>2, <1>3, NodePlace DEF At, Sought
<1>5. \A l, k : ~ IsLate(rng, k, l) /\ ~ IsLate(rng, k, l)'
    BY <1>2, NothingLate
<1>6. PICK child : child = LocateChildPtr(NonLeafAt(p), ins.key)
    OBVIOUS
<1>7. At(lvl, child, height - n - 1) /\ ins.key \in rng[child] /\ rng[child] \subseteq rng[p]
    BY <1>1, <1>4, <1>5, <1>6, ChildRange DEF Ranged
<1>8. child \in Pid
    BY <1>1, <1>6, ChildTyped, NonLeafAtTyped
<1>9. path' = Append(path, child)
    BY <1>3, <1>6 DEF Descend
<1>10. Len(path') = n + 1 /\ path'[n + 1] = child /\ \A d \in 1 .. n : path'[d] = path[d]
    BY <1>1, <1>3, <1>8, <1>9, AppendProperties
<1>11. path' # <<>> /\ NodePid' = child
    BY <1>4, <1>9, <1>10 DEF NodePid, Last
<1>12. /\ Places(lvl, rng)' /\ \A q \in DOMAIN lvl : PageRange(lvl, rng, q)'
       /\ \A root, h : RootRange(lvl, rng, root, h) => RootRange(lvl, rng, root, h)'
    BY <1>1, <1>5, SameFileRanges
<1>13. Rooted(lvl, rng)'
    BY <1>1, <1>3, <1>4, <1>12, SameRoot DEF Ranged
<1>14. OnPath(lvl, rng)'
  <2>1. /\ \A d \in 1 .. n : At(lvl, path[d], height - d)
        /\ \A d, e \in 1 .. n : d <= e => rng[path[e]] \subseteq rng[path[d]]
    BY <1>2, <1>3 DEF Ranged, OnPath
  <2>2. \A d \in 1 .. n + 1 : d \in 1 .. n \/ d = n + 1
    BY <1>4
  <2>3. height - n - 1 = height - (n + 1)
    BY <1>4
  <2>4. \A d \in 1 .. n + 1 : At(lvl, path'[d], height - d)
    BY <1>7, <1>10, <2>1, <2>2, <2>3
  <2>5. ASSUME NEW d \in 1 .. n + 1, NEW e \in 1 .. n + 1, d <= e
        PROVE  rng[path'[e]] \subseteq rng[path'[d]]
    <3>1. CASE e = n + 1 /\ d = n + 1
      BY <3>1
    <3>2. CASE e = n + 1 /\ d # n + 1
      <4>1. d \in 1 .. n /\ n \in 1 .. n /\ d <= n
        BY <1>4, <2>2, <3>2
      <4> QED
        BY <1>4, <1>7, <1>10, <2>1, <3>2, <4>1
    <3>3. CASE e # n + 1
      <4>1. e \in 1 .. n /\ d \in 1 .. n
        BY <1>4, <2>2, <2>5, <3>3
      <4> QED
        BY <1>10, <2>1, <2>5, <4>1
    <3> QED
      BY <3>1, <3>2, <3>3
  <2>6. Sought' \in rng[child]
    BY <1>1, <1>2, <1>7 DEF Sought
  <2> QED
    BY <1>1, <1>3, <1>10, <1>11, <2>4, <2>5, <2>6 DEF OnPath
<1>15. SplitOff(lvl, rng)'
    BY <1>1, <1>2 DEF SplitOff
<1>16. Covered(lvl)'
  <2>1. EndPid' = EndPid /\ pc \notin Splitting
    BY <1>1 DEF EndPid, Splitting
  <2> QED
    BY <2>1, CoveredStays
<1> QED
    BY <1>12, <1>13, <1>14, <1>15, <1>16 DEF Ranged

(***************************************************************************)
(* Steps that fetch a page, or write one that is not in the tree yet        *)
(***************************************************************************)

\* A new page is behind all others.
LEMMA FetchRanges ==
    ASSUME disk \in Seq(Page), FetchNewPage, EndPid >= 2,
           NEW lvl, NEW rng, Ranged(lvl, rng),
           \A l, k : IsLate(rng, k, l)' <=> IsLate(rng, k, l)
    PROVE  /\ Places(lvl, rng)'
           /\ \A p \in DOMAIN lvl : PageRange(lvl, rng, p)'
           /\ \A root, height : RootRange(lvl, rng, root, height)
                => RootRange(lvl, rng, root, height)'
           /\ EndPid \notin DOMAIN lvl /\ EndPid \in 1 .. EndPid' - 1
           /\ \A p \in DOMAIN lvl : PageAt(p)' = PageAt(p)
<1>1. /\ EndPid \in Nat /\ EndPid' = EndPid + 1
      /\ \A p \in 0 .. EndPid - 1 : PageAt(p)' = PageAt(p)
    BY FetchTyped DEF EndPid
<1>2. \A p \in DOMAIN lvl : p \in 1 .. EndPid - 1
    BY DEF Ranged, Places
<1>3. \A p \in DOMAIN lvl : PageAt(p)' = PageAt(p)
  <2>1. \A p \in DOMAIN lvl : p \in 0 .. EndPid - 1
    BY <1>1, <1>2
  <2> QED
    BY <1>1, <2>1
<1>4. EndPid \notin DOMAIN lvl
  <2>1. EndPid \notin 1 .. EndPid - 1
    BY <1>1
  <2> QED
    BY <1>2, <2>1
<1>5. EndPid' >= EndPid /\ EndPid' \in Nat /\ EndPid \in 1 .. EndPid' - 1
    BY <1>1
<1> QED
    BY <1>1, <1>3, <1>4, <1>5, TreeStays

\* A page that is not in the tree is written.
LEMMA WriteOutside ==
    ASSUME disk \in Seq(Page), NEW lvl, NEW rng, Ranged(lvl, rng),
           NEW q \in 1 .. EndPid - 1, q \notin DOMAIN lvl, NEW page \in Page, WritePage(q, page),
           \A l, k : IsLate(rng, k, l)' <=> IsLate(rng, k, l)
    PROVE  /\ Places(lvl, rng)'
           /\ \A p \in DOMAIN lvl : PageRange(lvl, rng, p)'
           /\ \A root, height : RootRange(lvl, rng, root, height)
                => RootRange(lvl, rng, root, height)'
           /\ \A p \in DOMAIN lvl : PageAt(p)' = PageAt(p)
           /\ EndPid' = EndPid /\ PageAt(q)' = page
<1>1. EndPid \in Nat
    BY DEF EndPid
<1>2. q \in 0 .. EndPid - 1
    BY <1>1
<1>3. EndPid' = EndPid /\ PageAt(q)' = page /\ \A p : p # q => PageAt(p)' = PageAt(p)
    BY <1>2, WriteChanges
<1>4. \A p \in DOMAIN lvl : PageAt(p)' = PageAt(p)
    BY <1>3
<1>5. EndPid' >= EndPid
    BY <1>1, <1>3
<1> QED
    BY <1>1, <1>3, <1>4, <1>5, TreeStays

\* What is late stays so while the frames do.
LEMMA LateStays ==
    ASSUME pc \in Ascending <=> pc' \in Ascending, path' = path, treeHeight' = treeHeight,
           pc \in Ascending => splitpid' = splitpid, NEW rng
    PROVE  \A l, k : IsLate(rng, k, l)' <=> IsLate(rng, k, l)
BY DEF IsLate, SplitLevel

\* The frames stay, and the key they work for.
LEMMA OnPathStays ==
    ASSUME NEW lvl, NEW rng, OnPath(lvl, rng), pc \in Descending, path' = path,
           treeHeight' = treeHeight, Sought' = Sought
    PROVE  OnPath(lvl, rng)'
<1>1. NodePid' = NodePid
    BY DEF NodePid
<1> QED
    BY <1>1 DEF OnPath

\* So does what was split off, while the node above it is not written.
LEMMA SplitStays ==
    ASSUME NEW lvl, NEW rng, SplitOff(lvl, rng), pc \in Ascending, pc' \in Ascending,
           path' = path, treeHeight' = treeHeight, splitkey' = splitkey, splitpid' = splitpid,
           path # <<>> => PageAt(NodePid)' = PageAt(NodePid)
    PROVE  /\ At(lvl, splitpid', SplitLevel')
           /\ \A k \in Int : k \in rng[splitpid'] <=> InHome(rng, k)' /\ splitkey' <= k
           /\ \E k \in Int : InHome(rng, k)' /\ k < splitkey'
<1>1. SplitLevel' = SplitLevel /\ NodePid' = NodePid
    BY DEF SplitLevel, NodePid
<1>2. ASSUME NEW k PROVE InHome(rng, k)' <=> InHome(rng, k)
  <2>1. CASE path = <<>>
    BY <2>1 DEF InHome
  <2>2. CASE path # <<>>
    <3>1. PICK p : p = NodePid
      OBVIOUS
    <3>2. PageAt(p)' = PageAt(p) /\ NodePid' = p
      BY <1>1, <2>2, <3>1
    <3>3. \A m : Turn(p, m)' = Turn(p, m)
      BY <3>2 DEF Turn
    <3>4. Turn(NodePid, k)' = Turn(p, k)' /\ Turn(NodePid, splitkey)' = Turn(p, splitkey)
      BY <3>2, <3>3 DEF Turn
    <3> QED
      BY <2>2, <3>1, <3>2, <3>3, <3>4 DEF InHome
  <2> QED
    BY <2>1, <2>2
<1> HIDE DEF InHome
<1> QED
    BY <1>1, <1>2 DEF SplitOff

LEMMA FetchLeafSiblingRanged ==
    ASSUME Typed, NEW lvl, NEW rng, Ranged(lvl, rng), FetchLeafSibling
    PROVE  Ranged(lvl, rng)'
<1>1. /\ disk \in Seq(Page) /\ FetchNewPage /\ splitpid' = EndPid
      /\ pc = "descend" /\ pc' = "leafSibling" /\ mode' = mode /\ rootPid' = rootPid
      /\ treeHeight' = treeHeight /\ ins' = ins /\ path' = path /\ path # <<>>
      /\ LeafIsFull(LeafAt(NodePid))
    BY DEF FetchLeafSibling, AtLeaf, head, Typed, TypeOK, Running
<1>2. pc \in Descending /\ pc \notin Ascending /\ pc' \notin Ascending
    BY <1>1 DEF Descending, Ascending
<1>3. PICK p : p = NodePid
    OBVIOUS
<1>4. /\ p \in DOMAIN lvl /\ EndPid >= 2 /\ treeHeight \in Nat \ {0} /\ mode # "none"
    BY <1>1, <1>2, <1>3, NodePlace
<1>5. \A l, k : IsLate(rng, k, l)' <=> IsLate(rng, k, l)
    BY <1>2, NothingLate
<1>6. /\ Places(lvl, rng)' /\ \A q \in DOMAIN lvl : PageRange(lvl, rng, q)'
      /\ \A root, h : RootRange(lvl, rng, root, h) => RootRange(lvl, rng, root, h)'
      /\ EndPid \notin DOMAIN lvl /\ PageAt(p)' = PageAt(p)
    BY <1>1, <1>4, <1>5, FetchRanges
<1>7. Rooted(lvl, rng)'
    BY <1>1, <1>4, <1>6, SameRoot DEF Ranged
<1>8. OnPath(lvl, rng)'
    BY <1>1, <1>2, OnPathStays DEF Ranged, Sought
<1>9. SplitOff(lvl, rng)'
  <2>1. NodePid' = p /\ LeafAt(p)' = LeafAt(p)
    BY <1>1, <1>3, <1>6 DEF NodePid, LeafAt
  <2>2. LeafAt(NodePid)' = LeafAt(p)'
    BY <2>1 DEF LeafAt
  <2> QED
    BY <1>1, <1>2, <1>3, <1>6, <2>1, <2>2 DEF SplitOff
<1>10. Covered(lvl)'
  <2>1. pc \notin Splitting
    BY <1>1 DEF Splitting
  <2> QED
    BY <1>1, <2>1, CoveredGrows
<1> QED
    BY <1>6, <1>7, <1>8, <1>9, <1>10 DEF Ranged

LEMMA WriteLeafSiblingRanged ==
    ASSUME Typed, NEW lvl, NEW rng, Ranged(lvl, rng), NEW c, NEW lev, Linked(c, lev),
           WriteLeafSibling
    PROVE  Ranged(lvl, rng)'
<1>1. /\ disk \in Seq(Page) /\ splitpid' = splitpid /\ ins \in Entry
      /\ WritePage(splitpid, UpperHalf(LeafAt(NodePid), ins))
      /\ splitkey' = SiblingKey(LeafAt(NodePid), ins)
      /\ pc = "leafSibling" /\ pc' = "leafNode" /\ mode' = mode /\ rootPid' = rootPid
      /\ treeHeight' = treeHeight /\ ins' = ins /\ path' = path /\ path # <<>>
    BY DEF WriteLeafSibling, head, Typed, TypeOK, Running
<1>2. pc \in Descending /\ pc \notin Ascending /\ pc' \notin Ascending
    BY <1>1 DEF Descending, Ascending
<1>3. PICK p, q : p = NodePid /\ q = splitpid
    OBVIOUS
<1>4. p \in DOMAIN lvl /\ treeHeight \in Nat \ {0} /\ mode # "none"
    BY <1>1, <1>2, <1>3, NodePlace
<1>5. \A l, k : IsLate(rng, k, l)' <=> IsLate(rng, k, l)
    BY <1>2, NothingLate
<1>6. q \in 1 .. EndPid - 1 /\ q \notin DOMAIN lvl /\ LeafIsFull(LeafAt(p))
    BY <1>1, <1>3 DEF Linked, FrameLevels, Ranged, SplitOff
<1>7. UpperHalf(LeafAt(p), ins) \in Page
    BY <1>1, LeafAtTyped, LeafSplitTyped DEF Page
<1>8. /\ Places(lvl, rng)' /\ \A r \in DOMAIN lvl : PageRange(lvl, rng, r)'
      /\ \A root, h : RootRange(lvl, rng, root, h) => RootRange(lvl, rng, root, h)'
      /\ PageAt(p)' = PageAt(p) /\ EndPid' = EndPid
  <2>1. PICK page : page = UpperHalf(LeafAt(p), ins)
    OBVIOUS
  <2>2. page \in Page /\ WritePage(q, page)
    BY <1>1, <1>3, <1>7, <2>1
  <2> QED
    BY <1>1, <1>4, <1>5, <1>6, <2>2, WriteOutside
<1>9. Rooted(lvl, rng)'
    BY <1>1, <1>4, <1>8, SameRoot DEF Ranged
<1>10. OnPath(lvl, rng)'
    BY <1>1, <1>2, OnPathStays DEF Ranged, Sought
<1>11. SplitOff(lvl, rng)'
  <2>1. NodePid' = p /\ LeafAt(p)' = LeafAt(p)
    BY <1>1, <1>3, <1>8 DEF NodePid, LeafAt
  <2>2. LeafAt(NodePid)' = LeafAt(p)'
    BY <2>1 DEF LeafAt
  <2> QED
    BY <1>1, <1>2, <1>3, <1>6, <2>1, <2>2 DEF SplitOff
<1>12. Covered(lvl)'
    BY <1>1, <1>8, CoveredStays
<1> QED
    BY <1>8, <1>9, <1>10, <1>11, <1>12 DEF Ranged

LEMMA FetchNonLeafSiblingRanged ==
    ASSUME Typed, NEW lvl, NEW rng, Ranged(lvl, rng), FetchNonLeafSibling
    PROVE  Ranged(lvl, rng)'
<1>1. /\ disk \in Seq(Page) /\ FetchNewPage /\ newPid' = EndPid /\ splitpid' = splitpid
      /\ splitkey' = splitkey
      /\ pc = "ascend" /\ pc' = "nonleafSibling" /\ mode' = mode /\ rootPid' = rootPid
      /\ treeHeight' = treeHeight /\ ins' = ins /\ path' = path /\ path # <<>>
      /\ NonLeafIsFull(NonLeafAt(NodePid))
    BY DEF FetchNonLeafSibling, head, Typed, TypeOK
<1>2. pc \in Descending /\ pc \in Ascending /\ pc' \in Ascending
    BY <1>1 DEF Descending, Ascending
<1>3. PICK p : p = NodePid
    OBVIOUS
<1>4. p \in DOMAIN lvl /\ EndPid >= 2 /\ treeHeight \in Nat \ {0} /\ mode # "none"
    BY <1>1, <1>2, <1>3, NodePlace
<1>5. \A l, k : IsLate(rng, k, l)' <=> IsLate(rng, k, l)
    BY <1>1, <1>2, LateStays
<1>6. /\ Places(lvl, rng)' /\ \A q \in DOMAIN lvl : PageRange(lvl, rng, q)'
      /\ \A root, h : RootRange(lvl, rng, root, h) => RootRange(lvl, rng, root, h)'
      /\ EndPid \notin DOMAIN lvl /\ EndPid \in 1 .. EndPid' - 1 /\ PageAt(p)' = PageAt(p)
    BY <1>1, <1>4, <1>5, FetchRanges
<1>7. Rooted(lvl, rng)'
    BY <1>1, <1>4, <1>6, SameRoot DEF Ranged
<1>8. OnPath(lvl, rng)'
    BY <1>1, <1>2, OnPathStays DEF Ranged, Sought
<1>9. SplitOff(lvl, rng)'
  <2>1. NodePid' = p /\ NonLeafAt(p)' = NonLeafAt(p)
    BY <1>1, <1>3, <1>6 DEF NodePid, NonLeafAt
  <2>2. NonLeafAt(NodePid)' = NonLeafAt(p)'
    BY <2>1 DEF NonLeafAt
  <2>3. /\ At(lvl, splitpid', SplitLevel')
        /\ \A k \in Int : k \in rng[splitpid'] <=> InHome(rng, k)' /\ splitkey' <= k
        /\ \E k \in Int : InHome(rng, k)' /\ k < splitkey'
    <3>1. PageAt(NodePid)' = PageAt(NodePid)
      BY <1>3, <1>6, <2>1 DEF PageAt
    <3>2. SplitOff(lvl, rng)
      BY DEF Ranged
    <3> QED
      BY <1>1, <1>2, <3>1, <3>2, SplitStays
  <2> QED
    BY <1>1, <1>3, <1>6, <2>1, <2>2, <2>3 DEF SplitOff
<1>10. Covered(lvl)'
  <2>1. pc \notin Splitting
    BY <1>1 DEF Splitting
  <2> QED
    BY <1>1, <2>1, CoveredGrows
<1> QED
    BY <1>6, <1>7, <1>8, <1>9, <1>10 DEF Ranged

LEMMA WriteNonLeafSiblingRanged ==
    ASSUME Typed, NEW lvl, NEW rng, Ranged(lvl, rng), WriteNonLeafSibling
    PROVE  Ranged(lvl, rng)'
<1>1. /\ disk \in Seq(Page) /\ splitkey' = splitkey /\ splitpid' = splitpid /\ newPid' = newPid
      /\ WritePage(newPid, UpperNode(NonLeafAt(NodePid), splitkey, splitpid))
      /\ pc = "nonleafSibling" /\ pc' = "nonleafNode" /\ mode' = mode /\ rootPid' = rootPid
      /\ treeHeight' = treeHeight /\ ins' = ins /\ path' = path /\ path # <<>>
      /\ splitkey \in Key /\ splitpid \in Pid
    BY DEF WriteNonLeafSibling, head, frame, Typed, TypeOK, Running
<1>2. pc \in Descending /\ pc \in Ascending /\ pc' \in Ascending
    BY <1>1 DEF Descending, Ascending
<1>3. PICK p, q : p = NodePid /\ q = newPid
    OBVIOUS
<1>4. p \in DOMAIN lvl /\ treeHeight \in Nat \ {0} /\ mode # "none"
    BY <1>1, <1>2, <1>3, NodePlace
<1>5. \A l, k : IsLate(rng, k, l)' <=> IsLate(rng, k, l)
    BY <1>1, <1>2, LateStays
<1>6. q \in 1 .. EndPid - 1 /\ q \notin DOMAIN lvl /\ NonLeafIsFull(NonLeafAt(p))
    BY <1>1, <1>3 DEF Ranged, SplitOff
<1>7. PICK page : page = UpperNode(NonLeafAt(p), splitkey, splitpid)
    OBVIOUS
<1>8. page \in Page /\ WritePage(q, page)
    BY <1>1, <1>3, <1>6, <1>7, NonLeafAtTyped, NonLeafSplitTyped DEF Page
<1>9. /\ Places(lvl, rng)' /\ \A r \in DOMAIN lvl : PageRange(lvl, rng, r)'
      /\ \A root, h : RootRange(lvl, rng, root, h) => RootRange(lvl, rng, root, h)'
      /\ PageAt(p)' = PageAt(p) /\ PageAt(q)' = page /\ EndPid' = EndPid
    BY <1>1, <1>4, <1>5, <1>6, <1>8, WriteOutside
<1>10. Rooted(lvl, rng)'
    BY <1>1, <1>4, <1>9, SameRoot DEF Ranged
<1>11. OnPath(lvl, rng)'
    BY <1>1, <1>2, OnPathStays DEF Ranged, Sought
<1>12. SplitOff(lvl, rng)'
  <2>1. NodePid' = p /\ NonLeafAt(p)' = NonLeafAt(p)
    BY <1>1, <1>3, <1>9 DEF NodePid, NonLeafAt
  <2>2. NonLeafAt(NodePid)' = NonLeafAt(p)' /\ PageAt(newPid)' = PageAt(q)'
    BY <1>1, <1>3, <2>1 DEF NonLeafAt, PageAt
  <2>3. /\ At(lvl, splitpid', SplitLevel')
        /\ \A k \in Int : k \in rng[splitpid'] <=> InHome(rng, k)' /\ splitkey' <= k
        /\ \E k \in Int : InHome(rng, k)' /\ k < splitkey'
    <3>1. PageAt(NodePid)' = PageAt(NodePid)
      BY <1>3, <1>9, <2>1 DEF PageAt
    <3>2. SplitOff(lvl, rng)
      BY DEF Ranged
    <3> QED
      BY <1>1, <1>2, <3>1, <3>2, SplitStays
  <2> QED
    BY <1>1, <1>3, <1>6, <1>7, <1>9, <2>1, <2>2, <2>3 DEF SplitOff
<1>13. Covered(lvl)'
    BY <1>1, <1>9, CoveredStays
<1> QED
    BY <1>9, <1>10, <1>11, <1>12, <1>13 DEF Ranged

\* The way up has reached the caller of the root's frame.
LEMMA AtTop ==
    ASSUME Typed, NEW lvl, NEW rng, Ranged(lvl, rng), pc \in {"ascend", "rootNode"},
           path = <<>>
    PROVE  /\ pc \in Ascending /\ mode # "none" /\ disk \in Seq(Page)
           /\ treeHeight \in Nat \ {0} /\ splitkey \in Key /\ splitkey \in Int
           /\ EndPid \in Nat /\ EndPid >= 2
           /\ SplitLevel = treeHeight - 1 /\ At(lvl, splitpid, treeHeight - 1)
           /\ RootRange(lvl, rng, rootPid, treeHeight)
           /\ \A k \in Int : k \in rng[splitpid] <=> splitkey <= k
           /\ \A k \in Int : k \in rng[rootPid] <=> k < splitkey
<1>1. /\ pc \in Ascending /\ mode # "none" /\ disk \in Seq(Page) /\ splitkey \in Key
      /\ treeHeight \in Nat \ {0}
    BY DEF Ascending, Typed, TypeOK, Running
<1>2. EndPid \in Nat /\ splitkey \in Int
    BY <1>1, KeysAreIntegers DEF EndPid
<1>3. SplitLevel = treeHeight - 1
  <2>1. Len(path) = 0
    OBVIOUS
  <2> QED
    BY <1>1, <2>1 DEF SplitLevel
<1>4. /\ At(lvl, splitpid, treeHeight - 1)
      /\ \A k \in Int : k \in rng[splitpid] <=> splitkey <= k
    BY <1>1, <1>3 DEF Ranged, SplitOff, InHome
<1>5. EndPid >= 2
  <2>1. splitpid \in 1 .. EndPid - 1
    BY <1>4 DEF At, Ranged, Places
  <2> QED
    BY <1>2, <2>1
<1>6. RootRange(lvl, rng, rootPid, treeHeight)
    BY <1>1 DEF Ranged, Rooted
<1>7. \A k \in Int : k \in rng[rootPid] <=> ~ (splitkey <= k)
    BY <1>1, <1>3, <1>4, <1>6 DEF RootRange, IsLate
<1> QED
    BY <1>1, <1>2, <1>3, <1>4, <1>5, <1>6, <1>7

LEMMA FetchNewRootRanged ==
    ASSUME Typed, NEW lvl, NEW rng, Ranged(lvl, rng), FetchNewRoot
    PROVE  Ranged(lvl, rng)'
<1>1. /\ FetchNewPage /\ newPid' = EndPid /\ splitpid' = splitpid /\ splitkey' = splitkey
      /\ pc = "ascend" /\ pc' = "rootNode" /\ mode' = mode /\ rootPid' = rootPid
      /\ treeHeight' = treeHeight /\ path' = path /\ path = <<>>
    BY DEF FetchNewRoot, head
<1>2. pc \in Ascending /\ pc' \in Ascending /\ pc' \notin Descending
    BY <1>1 DEF Descending, Ascending
<1>3. EndPid >= 2 /\ treeHeight \in Nat \ {0} /\ mode # "none" /\ disk \in Seq(Page)
    BY <1>1, AtTop
<1>4. \A l, k : IsLate(rng, k, l)' <=> IsLate(rng, k, l)
    BY <1>1, <1>2, LateStays
<1>5. /\ Places(lvl, rng)' /\ \A q \in DOMAIN lvl : PageRange(lvl, rng, q)'
      /\ \A root, h : RootRange(lvl, rng, root, h) => RootRange(lvl, rng, root, h)'
      /\ EndPid \notin DOMAIN lvl /\ EndPid \in 1 .. EndPid' - 1
    BY <1>1, <1>3, <1>4, FetchRanges
<1>6. Rooted(lvl, rng)'
    BY <1>1, <1>3, <1>5, SameRoot DEF Ranged
<1>7. OnPath(lvl, rng)'
    BY <1>2 DEF OnPath
<1>8. SplitOff(lvl, rng)'
  <2>1. SplitOff(lvl, rng)
    BY DEF Ranged
  <2>2. /\ At(lvl, splitpid', SplitLevel')
        /\ \A k \in Int : k \in rng[splitpid'] <=> InHome(rng, k)' /\ splitkey' <= k
        /\ \E k \in Int : InHome(rng, k)' /\ k < splitkey'
    BY <1>1, <1>2, <2>1, SplitStays
  <2> QED
    BY <1>1, <1>5, <2>2 DEF SplitOff
<1>9. Covered(lvl)'
  <2>1. pc \notin Splitting
    BY <1>1 DEF Splitting
  <2> QED
    BY <1>1, <1>3, <2>1, CoveredGrows
<1> QED
    BY <1>5, <1>6, <1>7, <1>8, <1>9 DEF Ranged

\* Of one key: the slots left and right of it.
LEMMA OneKeySlots ==
    ASSUME EndKey \notin Key, NEW s \in Key, NEW k \in Int
    PROVE  NonLeafSlot(<<s>>, k) = IF k < s THEN 1 ELSE 2
<1>1. PICK keys : keys = <<s>>
    OBVIOUS
<1>2. keys \in Seq(Key) /\ Len(keys) = 1 /\ keys[1] = s
    BY <1>1
<1>3. s \in Int
    BY KeysAreIntegers
<1>4. Rising(keys)
    BY <1>2 DEF Rising
<1>5. CASE k < s
  <2>1. NonLeafSlot(keys, k) = 1
    BY <1>2, <1>4, <1>5, SlotUnique
  <2> QED
    BY <1>1, <1>5, <2>1
<1>6. CASE ~ (k < s)
  <2>1. PICK j : j = 2
    OBVIOUS
  <2>2. j \in 1 .. Len(keys) + 1 /\ ~ (j <= Len(keys)) /\ keys[j - 1] <= k
    BY <1>2, <1>3, <1>6, <2>1
  <2>3. NonLeafSlot(keys, k) = j
    BY <1>2, <1>4, <2>2, SlotUnique
  <2> QED
    BY <1>1, <1>6, <2>1, <2>3
<1> QED
    BY <1>5, <1>6

\* The new root has all keys and divides them between the two halves of the
\* old one.
LEMMA WriteNewRootRanged ==
    ASSUME EndKey \notin Key, Typed, NEW lvl, NEW rng, Ranged(lvl, rng),
           NEW c, NEW lev, Linked(c, lev), WriteNewRoot
    PROVE  \E lvl2, rng2 : Ranged(lvl2, rng2)'
<1>1. /\ pc = "rootNode" /\ pc' = "rootMetadata" /\ mode' = mode /\ rootPid' = newPid
      /\ treeHeight' = treeHeight /\ WritePage(newPid, NewRoot(rootPid, splitkey, splitpid))
      /\ path = <<>> /\ rootPid \in Pid /\ splitpid \in Pid
    BY DEF WriteNewRoot, Typed, TypeOK, Linked, FrameLevels
<1>2. PICK q, r, s, sp, h : q = newPid /\ r = rootPid /\ s = splitkey /\ sp = splitpid /\ h = treeHeight
    OBVIOUS
<1>3. /\ pc \in Ascending /\ mode # "none" /\ disk \in Seq(Page)
      /\ h \in Nat \ {0} /\ s \in Key /\ s \in Int /\ EndPid \in Nat
      /\ SplitLevel = h - 1 /\ At(lvl, sp, h - 1)
      /\ RootRange(lvl, rng, r, h)
      /\ \A k \in Int : k \in rng[sp] <=> s <= k
      /\ \A k \in Int : k \in rng[r] <=> k < s
    BY <1>1, <1>2, AtTop
<1>4. pc' \notin Ascending /\ pc' \notin Descending
    BY <1>1 DEF Ascending, Descending
<1>5. q \in 1 .. EndPid - 1 /\ q \notin DOMAIN lvl
    BY <1>1, <1>2 DEF Ranged, SplitOff
<1>6. At(lvl, r, h - 1) /\ \A p \in DOMAIN lvl : lvl[p] < h
    BY <1>3 DEF RootRange
<1>7. PICK page : page = NonLeaf(<<s>>, <<r, sp>>)
    OBVIOUS
<1>8. /\ page.kind = "nonleaf" /\ page.keys = <<s>> /\ page.pids = <<r, sp>> /\ page \in Page
  <2>1. /\ <<s>> \in Seq(Key) /\ <<r, sp>> \in Seq(Pid)
        /\ Len(<<s>>) = 1 /\ Len(<<r, sp>>) = 2
    BY <1>1, <1>2, <1>3
  <2>2. page \in NonLeafPage
    <3>1. PICK keys, pids : keys = <<s>> /\ pids = <<r, sp>>
      OBVIOUS
    <3>2. /\ page = NonLeaf(keys, pids) /\ keys \in Seq(Key) /\ pids \in Seq(Pid)
          /\ Len(pids) = Len(keys) + 1
      BY <1>7, <2>1, <3>1
    <3> QED
      BY <3>2 DEF NonLeaf, NonLeafPage
  <2> QED
    BY <1>7, <2>2 DEF NonLeaf, Page
<1>9. Branches(page) /\ Len(page.keys) = 1 /\ page.keys[1] = s
      /\ Len(page.pids) = 2 /\ page.pids[1] = r /\ page.pids[2] = sp
    BY <1>8 DEF Branches
<1>10. WritePage(q, page)
    BY <1>1, <1>2, <1>7 DEF NewRoot
<1>11. EndPid' = EndPid /\ PageAt(q)' = page /\ \A p : p # q => PageAt(p)' = PageAt(p)
  <2>1. q \in 0 .. EndPid - 1
    BY <1>3, <1>5
  <2> QED
    BY <1>3, <1>8, <1>10, <2>1, WriteChanges
<1>12. PICK lvl2, rng2 : lvl2 = Join(lvl, q, h) /\ rng2 = Join(rng, q, Int)
    OBVIOUS
<1>13. DOMAIN rng = DOMAIN lvl
    BY DEF Ranged, Places
<1>14. /\ DOMAIN lvl2 = DOMAIN lvl \cup {q} /\ DOMAIN rng2 = DOMAIN lvl2
       /\ lvl2[q] = h /\ rng2[q] = Int
       /\ \A p \in DOMAIN lvl : lvl2[p] = lvl[p] /\ rng2[p] = rng[p]
    BY <1>5, <1>12, <1>13 DEF Join
<1>15. \A p, l : At(lvl, p, l) => At(lvl2, p, l)
    BY <1>14 DEF At
<1>16. Places(lvl2, rng2)'
  <2>1. \A p \in DOMAIN lvl2 : /\ p \in 1 .. EndPid' - 1 /\ lvl2[p] \in Nat
                               /\ rng2[p] \subseteq Int /\ rng2[p] # {}
    BY <1>3, <1>5, <1>11, <1>14 DEF Ranged, Places
  <2>2. \A p, t \in DOMAIN lvl2 : lvl2[p] = lvl2[t] /\ p # t => rng2[p] \cap rng2[t] = {}
    <3>1. \A p \in DOMAIN lvl : lvl[p] # h
      BY <1>3, <1>6 DEF Ranged, Places
    <3> QED
      BY <1>14, <3>1 DEF Ranged, Places
  <2>3. EndPid' >= 2 => At(lvl2, 1, 0)
    BY <1>11, <1>15 DEF Ranged, Places
  <2> QED
    BY <1>14, <2>1, <2>2, <2>3 DEF Places
<1>17. \A any, k, l : ~ IsLate(any, k, l)'
    BY <1>4 DEF IsLate
<1>18. ASSUME NEW p \in DOMAIN lvl PROVE PageRange(lvl2, rng2, p)'
  <2>1. PageRange(lvl, rng, p) /\ lvl[p] \in Nat /\ lvl[p] < h
    BY <1>6 DEF Ranged, Places
  <2>2. \A k : ~ IsLate(rng, k, lvl[p] - 1)
    BY <1>3, <2>1 DEF IsLate
  <2>3. PageAt(p)' = PageAt(p)
    BY <1>5, <1>11
  <2>4. PageRange(lvl, rng, p)'
    BY <1>17, <2>1, <2>2, <2>3, PageRangeStays
  <2>5. LeafRange(lvl, rng, p)' => LeafRange(lvl2, rng2, p)'
    <3>1. DOMAIN lvl # {p}
      <4>1. r \in DOMAIN lvl /\ sp \in DOMAIN lvl
        BY <1>3, <1>6 DEF At
      <4>2. s \in rng[sp] /\ s \notin rng[r]
        BY <1>3
      <4> QED
        BY <4>1, <4>2
    <3> HAVE LeafRange(lvl, rng, p)'
    <3>2. LeafAt(p)'.next # NoPid => At(lvl, LeafAt(p)'.next, 0)
      BY DEF LeafRange
    <3>3. LeafAt(p)'.next # NoPid => /\ At(lvl2, LeafAt(p)'.next, 0)
                                     /\ rng2[LeafAt(p)'.next] = rng[LeafAt(p)'.next]
      BY <1>14, <1>15, <3>2 DEF At
    <3> QED
      BY <1>14, <3>1, <3>3 DEF LeafRange
  <2>6. NodeRange(lvl, rng, p)' => NodeRange(lvl2, rng2, p)'
    BY <1>14, <1>15, <1>17 DEF NodeRange, At
  <2> QED
    BY <1>14, <2>4, <2>5, <2>6 DEF PageRange
<1>19. PageRange(lvl2, rng2, q)'
  <2>1. \A k \in Int : Turn(q, k)' = IF k < s THEN 1 ELSE 2
    BY <1>3, <1>8, <1>11, OneKeySlots DEF Turn
  <2>2. NodeRange(lvl2, rng2, q)'
    BY <1>3, <1>6, <1>9, <1>11, <1>14, <1>15, <1>17, <2>1 DEF NodeRange, At
  <2> QED
    BY <1>3, <1>14, <2>2 DEF PageRange
<1>20. Rooted(lvl2, rng2)'
  <2>1. RootRange(lvl2, rng2, q, h + 1)'
    <3>1. \A p \in DOMAIN lvl2 : lvl2[p] < h + 1
      BY <1>3, <1>6, <1>14 DEF Ranged, Places
    <3> QED
      BY <1>3, <1>14, <1>17, <3>1 DEF RootRange, At
  <2> QED
    BY <1>1, <1>2, <1>3, <2>1 DEF Rooted
<1>21. OnPath(lvl2, rng2)' /\ SplitOff(lvl2, rng2)'
    BY <1>1, <1>4 DEF OnPath, SplitOff
<1>22. Covered(lvl2)'
  <2>1. Fetched = {q}
    BY <1>1, <1>2 DEF Fetched, Splitting
  <2> QED
    BY <1>11, <1>14, <2>1 DEF Ranged, Covered
<1>23. Ranged(lvl2, rng2)'
    BY <1>14, <1>16, <1>18, <1>19, <1>20, <1>21, <1>22 DEF Ranged
<1> QED
    BY <1>23

LEMMA CommitRootRanged ==
    ASSUME Typed, NEW lvl, NEW rng, Ranged(lvl, rng), NEW c, NEW lev, Linked(c, lev),
           CommitRoot
    PROVE  Ranged(lvl, rng)'
<1>1. /\ disk \in Seq(Page) /\ pc = "rootMetadata" /\ pc' = "idle" /\ mode # "none"
      /\ mode' = mode /\ treeHeight \in Nat \ {0} /\ treeHeight' = treeHeight + 1
      /\ rootPid' = rootPid /\ rootPid \in Pid
      /\ WritePage(0, Metadata(rootPid, treeHeight'))
    BY DEF CommitRoot, Return, Typed, TypeOK, Running
<1>2. EndPid >= 2 /\ EndPid \in Nat /\ treeHeight' \in Nat \ {0}
    BY <1>1 DEF Linked, RootLevel, EndPid
<1>3. Metadata(rootPid, treeHeight') \in Page
    BY <1>1, <1>2 DEF Metadata, Page, MetaPage
<1>4. EndPid' = EndPid /\ \A p : p # 0 => PageAt(p)' = PageAt(p)
  <2>1. PICK page : page = Metadata(rootPid, treeHeight')
    OBVIOUS
  <2>2. page \in Page /\ WritePage(0, page) /\ 0 \in 0 .. EndPid - 1
    BY <1>1, <1>2, <1>3, <2>1
  <2> QED
    BY <1>1, <2>2, WriteChanges
<1>5. pc \notin Ascending /\ pc' \notin Ascending /\ pc' \notin Descending
    BY <1>1 DEF Ascending, Descending
<1>6. \A l, k : IsLate(rng, k, l)' <=> IsLate(rng, k, l)
    BY <1>5, NothingLate
<1>7. \A p \in DOMAIN lvl : PageAt(p)' = PageAt(p)
  <2>1. \A p \in DOMAIN lvl : p # 0
    BY <1>2 DEF Ranged, Places
  <2> QED
    BY <1>4, <2>1
<1>8. /\ Places(lvl, rng)' /\ \A q \in DOMAIN lvl : PageRange(lvl, rng, q)'
      /\ \A root, h : RootRange(lvl, rng, root, h) => RootRange(lvl, rng, root, h)'
    BY <1>2, <1>4, <1>6, <1>7, TreeStays
<1>9. Rooted(lvl, rng)'
  <2>1. RootRange(lvl, rng, rootPid, treeHeight + 1)
    BY <1>1 DEF Ranged, Rooted
  <2>2. PICK root, height : root = rootPid /\ height = treeHeight + 1
    OBVIOUS
  <2>3. RootRange(lvl, rng, root, height)'
    BY <1>8, <2>1, <2>2
  <2> QED
    BY <1>1, <2>2, <2>3 DEF Rooted
<1>10. OnPath(lvl, rng)' /\ SplitOff(lvl, rng)'
    BY <1>1, <1>5 DEF OnPath, SplitOff
<1>11. Covered(lvl)'
  <2>1. pc \notin Splitting
    BY <1>1 DEF Splitting
  <2> QED
    BY <1>4, <2>1, CoveredStays
<1> QED
    BY <1>8, <1>9, <1>10, <1>11 DEF Ranged

(***************************************************************************)
(* Steps that write a page of the tree                                     *)
(***************************************************************************)

LEMMA PagesSorted ==
    ASSUME EndPid' \in Nat, \A q : Sorted(PageAt(q))'
    PROVE  NodesSorted'
<1> SUFFICES ASSUME NEW i \in 1 .. EndPid'
             PROVE  Sorted(disk'[i])
    BY DEF NodesSorted, Sorted, RisingEntries, Rising
<1>1. PICK q : q = i - 1
    OBVIOUS
<1>2. PICK n : n = EndPid'
    OBVIOUS
<1>3. n \in Nat /\ i \in 1 .. n
    BY <1>2
<1>4. q \in 0 .. n - 1 /\ q + 1 = i
    BY <1>1, <1>3
<1>5. PageAt(q)' = disk'[i]
    BY <1>2, <1>4 DEF PageAt
<1> QED
    BY <1>5 DEF Sorted

LEMMA SortedPages ==
    ASSUME NodesSorted, disk \in Seq(Page), NEW p
    PROVE  Sorted(PageAt(p))
<1>1. CASE p \in 0 .. EndPid - 1
  <2>1. EndPid \in Nat
    BY DEF EndPid
  <2>2. p + 1 \in 1 .. EndPid /\ PageAt(p) = disk[p + 1]
    BY <1>1, <2>1 DEF PageAt
  <2>3. PICK i : i = p + 1
    OBVIOUS
  <2>4. i \in 1 .. EndPid /\ PageAt(p) = disk[i]
    BY <2>2, <2>3
  <2> QED
    BY <2>4 DEF NodesSorted, Sorted, RisingEntries, Rising
<1>2. CASE p \notin 0 .. EndPid - 1
  <2>1. PageAt(p).kind = "blank"
    BY <1>2 DEF PageAt, Blank
  <2> QED
    BY <2>1 DEF Sorted
<1> QED
    BY <1>1, <1>2

\* A sorted page in place of another, or a fresh one behind them.
LEMMA WriteSorted ==
    ASSUME NodesSorted, disk \in Seq(Page), NEW p, NEW page \in Page,
           WritePage(p, page), Sorted(page)
    PROVE  NodesSorted'
<1>1. EndPid \in Nat
    BY DEF EndPid
<1>2. CASE p \in 0 .. EndPid - 1
  <2>1. /\ EndPid' = EndPid /\ PageAt(p)' = page /\ \A q : q # p => PageAt(q)' = PageAt(q)
    BY <1>2, WriteChanges
  <2>2. \A q : Sorted(PageAt(q))'
    <3> TAKE q
    <3>1. PageAt(q)' = page \/ PageAt(q)' = PageAt(q)
      BY <2>1
    <3> QED
      BY <3>1, SortedPages DEF Sorted
  <2> QED
    BY <1>1, <2>1, <2>2, PagesSorted
<1>3. CASE p \notin 0 .. EndPid - 1
  <2>1. disk' = disk
    BY <1>3 DEF WritePage
  <2> QED
    BY <2>1 DEF NodesSorted, EndPid
<1> QED
    BY <1>2, <1>3

LEMMA FetchSorted ==
    ASSUME NodesSorted, disk \in Seq(Page), FetchNewPage
    PROVE  NodesSorted'
<1>1. PICK b : b = Blank
    OBVIOUS
<1>2. b \in Page /\ b.kind = "blank" /\ disk' = Append(disk, b)
    BY <1>1 DEF Page, Blank, FetchNewPage
<1>3. /\ Len(disk') = Len(disk) + 1 /\ disk'[Len(disk) + 1] = b /\ Len(disk) \in Nat
      /\ \A i \in 1 .. Len(disk) : disk'[i] = disk[i]
    BY <1>2, AppendProperties
<1>4. \A i \in 1 .. EndPid' : (i \in 1 .. EndPid /\ disk'[i] = disk[i]) \/ disk'[i] = b
    BY <1>3 DEF EndPid
<1> QED
    BY <1>2, <1>4 DEF NodesSorted

\* A leaf that has been written reads as it is.
LEMMA LeafPageIs ==
    ASSUME NEW page \in LeafPage
    PROVE  page.kind = "leaf" /\ page \in Page /\ page.entries \in Seq(Entry)
BY DEF LeafPage, Page

\* The leaf at hand has no entry with the key that is being inserted.
LEMMA LeafFresh ==
    ASSUME Typed, NEW c, NEW lev, Linked(c, lev), pc \in {"descend", "leafSibling", "leafNode"},
           path # <<>>, Len(path) = treeHeight, treeHeight > 0
    PROVE  \A j \in 1 .. Len(LeafAt(NodePid).entries) : LeafAt(NodePid).entries[j].key # ins.key
<1>1. pc \in Descending /\ pc \in Unwritten /\ disk \in Seq(Page)
    BY DEF Descending, Unwritten, Typed, TypeOK
<1>2. At(lev, NodePid, treeHeight - Len(path)) /\ Len(path) \in Nat
    BY <1>1, NodeLevel
<1>3. treeHeight - Len(path) = 0
    BY <1>2
<1>4. PICK p : p = NodePid
    OBVIOUS
<1>5. At(lev, p, 0)
    BY <1>2, <1>3, <1>4
<1>6. PICK i \in 1 .. Len(c) : p = c[i]
    BY <1>5, LeafOnChain DEF Linked
<1>7. PICK leaf : leaf = LeafAt(p)
    OBVIOUS
<1>8. leaf.entries \in Seq(Entry)
    BY <1>1, <1>7, LeafAtTyped, LeafPageIs
<1> SUFFICES ASSUME NEW j \in 1 .. Len(leaf.entries) PROVE leaf.entries[j].key # ins.key
    BY <1>4, <1>7
<1>9. leaf.entries[j] \in Entry
    BY <1>8, ElementOfSeq
<1>10. leaf.entries[j] \in Kept(c)
    BY <1>6, <1>7, <1>9 DEF Kept, Has, Occurs
<1> QED
    BY <1>1, <1>10 DEF Linked, Accounted

\* Only the node that gets the new pointer has keys in the range of the split
\* page.
LEMMA LateHere ==
    ASSUME Typed, NEW lvl, NEW rng, Ranged(lvl, rng), pc \in Ascending, pc \in Descending,
           path # <<>>
    PROVE  /\ SplitLevel = lvl[NodePid] - 1
           /\ \A k \in rng[splitpid] : k \in rng[NodePid]
           /\ \A q \in DOMAIN lvl : q # NodePid =>
                \A k \in rng[q] : ~ IsLate(rng, k, lvl[q] - 1)
           /\ \A root, height, k : RootRange(lvl, rng, root, height) => ~ IsLate(rng, k, height - 1)
<1>1. PICK p, sp, n, h : p = NodePid /\ sp = splitpid /\ n = Len(path) /\ h = treeHeight
    OBVIOUS
<1>2. p \in DOMAIN lvl /\ lvl[p] = h - n /\ h \in Nat /\ n \in Nat /\ h - n \in Nat
    BY <1>1, NodePlace DEF At
<1>3. SplitLevel = lvl[p] - 1
    BY <1>1, <1>2 DEF SplitLevel
<1>4. \A k \in rng[sp] : k \in rng[p]
  <2>1. sp \in DOMAIN lvl
    BY <1>1 DEF Ranged, SplitOff, At
  <2>2. rng[sp] \subseteq Int
    BY <2>1 DEF Ranged, Places
  <2> QED
    BY <1>1, <2>2 DEF Ranged, SplitOff, InHome
<1>5. ASSUME NEW q \in DOMAIN lvl, q # p, NEW k \in rng[q] PROVE ~ IsLate(rng, k, lvl[q] - 1)
  <2>1. lvl[q] \in Nat /\ lvl[p] \in Nat
    BY <1>2 DEF Ranged, Places
  <2> SUFFICES ASSUME k \in rng[sp], lvl[q] - 1 = lvl[p] - 1 PROVE FALSE
    BY <1>1, <1>3 DEF IsLate
  <2>2. lvl[q] = lvl[p]
    BY <2>1
  <2> QED
    BY <1>2, <1>4, <1>5, <2>2 DEF Ranged, Places
<1>6. ASSUME NEW root, NEW height, NEW k, RootRange(lvl, rng, root, height)
      PROVE  ~ IsLate(rng, k, height - 1)
  <2>1. lvl[p] < height /\ height \in Nat
    BY <1>2, <1>6 DEF RootRange
  <2> QED
    BY <1>2, <1>3, <2>1 DEF IsLate
<1> QED
    BY <1>1, <1>3, <1>4, <1>5, <1>6

\* A write of the node at hand that ends the insert leaves the rest as it is.
LEMMA OthersStay ==
    ASSUME Typed, NEW lvl, NEW rng, Ranged(lvl, rng), pc \in Descending, path # <<>>,
           pc' = "idle", NEW page \in Page, WritePage(NodePid, page)
    PROVE  /\ Places(lvl, rng)'
           /\ \A q \in DOMAIN lvl : q # NodePid => PageRange(lvl, rng, q)'
           /\ \A root, height : RootRange(lvl, rng, root, height)
                => RootRange(lvl, rng, root, height)'
           /\ NodePid \in DOMAIN lvl
           /\ EndPid' = EndPid /\ \A k, l : ~ IsLate(rng, k, l)'
<1>1. PICK p : p = NodePid
    OBVIOUS
<1>2. /\ p \in DOMAIN lvl /\ p \in 1 .. EndPid - 1 /\ disk \in Seq(Page) /\ EndPid \in Nat
      /\ lvl[p] \in Nat
    BY <1>1, NodePlace DEF Typed, TypeOK, Ranged, Places
<1>3. pc' \notin Ascending
    BY DEF Ascending
<1>4. \A k, l : ~ IsLate(rng, k, l)'
    BY <1>3 DEF IsLate
<1>5. EndPid' = EndPid /\ \A q : q # p => PageAt(q)' = PageAt(q)
  <2>1. p \in 0 .. EndPid - 1 /\ WritePage(p, page)
    BY <1>1, <1>2
  <2> QED
    BY <1>2, <2>1, WriteChanges
<1>6. Places(lvl, rng)'
    BY <1>5 DEF Ranged, Places
<1>7. ASSUME NEW q \in DOMAIN lvl, q # p PROVE PageRange(lvl, rng, q)'
  <2>1. \A k \in rng[q] : ~ IsLate(rng, k, lvl[q] - 1)
    <3>1. CASE pc \in Ascending
      BY <1>1, <1>7, <3>1, LateHere
    <3>2. CASE pc \notin Ascending
      BY <3>2 DEF IsLate
    <3> QED
      BY <3>1, <3>2
  <2>2. PageRange(lvl, rng, q) /\ PageAt(q)' = PageAt(q)
    BY <1>5, <1>7 DEF Ranged
  <2> QED
    BY <1>4, <2>1, <2>2, PageRangeStays
<1>8. ASSUME NEW root, NEW height, RootRange(lvl, rng, root, height)
      PROVE  RootRange(lvl, rng, root, height)'
  <2>1. \A k : ~ IsLate(rng, k, height - 1)
    <3>1. CASE pc \in Ascending
      BY <1>8, <3>1, LateHere
    <3>2. CASE pc \notin Ascending
      BY <3>2 DEF IsLate
    <3> QED
      BY <3>1, <3>2
  <2> QED
    BY <1>4, <1>8, <2>1 DEF RootRange
<1> QED
    BY <1>1, <1>2, <1>4, <1>5, <1>6, <1>7, <1>8

LEMMA InsertInLeafRanged ==
    ASSUME EndKey \notin Key, Typed, NEW lvl, NEW rng, Ranged(lvl, rng),
           NEW c, NEW lev, Linked(c, lev), NodesSorted, InsertInLeaf
    PROVE  Ranged(lvl, rng)' /\ NodesSorted'
<1>1. /\ pc = "descend" /\ Len(path) = treeHeight /\ path # <<>> /\ pc' = "idle"
      /\ mode' = mode /\ rootPid' = rootPid /\ treeHeight' = treeHeight
      /\ disk \in Seq(Page) /\ ins \in Entry
      /\ WritePage(NodePid, LeafInsert(LeafAt(NodePid), ins))
    BY DEF InsertInLeaf, AtLeaf, Depth, Return, head, Typed, TypeOK, Running
<1>2. PICK p : p = NodePid
    OBVIOUS
<1>3. pc \in Descending /\ pc \notin Ascending /\ pc' \notin Descending /\ pc' \notin Ascending
    BY <1>1 DEF Descending, Ascending
<1>4. /\ p \in DOMAIN lvl /\ lvl[p] = 0 /\ p \in 1 .. EndPid - 1 /\ EndPid \in Nat
      /\ treeHeight \in Nat \ {0} /\ mode # "none" /\ ins.key \in rng[p]
    BY <1>1, <1>2, <1>3, NodePlace DEF At, Sought
<1>5. PICK leaf, page : leaf = LeafAt(p) /\ page = LeafInsert(LeafAt(p), ins)
    OBVIOUS
<1>6. /\ leaf \in LeafPage /\ leaf.entries \in Seq(Entry) /\ page \in LeafPage /\ page \in Page
      /\ page.kind = "leaf" /\ page.next = leaf.next /\ page.entries = LeafPut(leaf.entries, ins)
  <2>1. leaf \in LeafPage /\ page \in LeafPage
    BY <1>1, <1>5, LeafAtTyped, LeafInsertTyped
  <2> QED
    BY <1>5, <2>1, LeafPageIs DEF LeafInsert, LeafPage
<1>7. WritePage(p, page) /\ WritePage(NodePid, page)
    BY <1>1, <1>2, <1>5
<1>8. PageAt(p)' = page /\ EndPid' = EndPid
  <2>1. p \in 0 .. EndPid - 1
    BY <1>4
  <2> QED
    BY <1>1, <1>6, <1>7, <2>1, WriteChanges
<1>9. LeafAt(p)' = page
    BY <1>6, <1>8 DEF LeafAt
<1>10. /\ Places(lvl, rng)' /\ \A q \in DOMAIN lvl : q # p => PageRange(lvl, rng, q)'
       /\ \A root, height : RootRange(lvl, rng, root, height)
            => RootRange(lvl, rng, root, height)'
    BY <1>1, <1>2, <1>3, <1>6, <1>7, OthersStay
<1>11. PageRange(lvl, rng, p)'
  <2>1. LeafRange(lvl, rng, p)
    BY <1>4 DEF Ranged, PageRange
  <2>2. \A j \in 1 .. Len(page.entries) : page.entries[j].key \in rng[p]
    <3> TAKE j \in 1 .. Len(page.entries)
    <3>1. PICK e : e = page.entries[j]
      OBVIOUS
    <3>2. Occurs(e, LeafPut(leaf.entries, ins))
      BY <1>6, <3>1 DEF Occurs
    <3>3. e = ins \/ Occurs(e, leaf.entries)
      BY <1>1, <1>6, <3>2, LeafPutAdds
    <3> QED
      BY <1>4, <1>5, <2>1, <3>1, <3>3 DEF Occurs, LeafRange
  <2>3. LeafRange(lvl, rng, p)'
    BY <1>5, <1>6, <1>8, <1>9, <2>1, <2>2 DEF LeafRange
  <2> QED
    BY <1>4, <2>3 DEF PageRange
<1>12. Rooted(lvl, rng)'
    BY <1>1, <1>4, <1>10, SameRoot DEF Ranged
<1>13. OnPath(lvl, rng)' /\ SplitOff(lvl, rng)'
    BY <1>1, <1>3 DEF OnPath, SplitOff
<1>14. Sorted(page)
  <2>1. RisingEntries(leaf.entries)
    <3>1. Sorted(PageAt(p))
      BY <1>1, SortedPages
    <3>2. \/ LeafAt(p) = PageAt(p) /\ PageAt(p).kind = "leaf"
          \/ Len(LeafAt(p).entries) = 0
      BY DEF LeafAt, EmptyLeaf, Leaf
    <3>3. Len(leaf.entries) = 0 => RisingEntries(leaf.entries)
      BY DEF RisingEntries
    <3> QED
      BY <1>5, <1>6, <3>1, <3>2, <3>3 DEF Sorted
  <2>2. \A j \in 1 .. Len(leaf.entries) : leaf.entries[j].key # ins.key
    BY <1>1, <1>2, <1>4, <1>5, LeafFresh
  <2>3. RisingEntries(page.entries)
    BY <1>1, <1>6, <2>1, <2>2, LeafPutRises
  <2> QED
    BY <1>6, <2>3 DEF Sorted
<1>15. NodesSorted'
    BY <1>1, <1>4, <1>6, <1>7, <1>14, WriteSorted
<1>16. Covered(lvl)'
  <2>1. pc \notin Splitting
    BY <1>1 DEF Splitting
  <2> QED
    BY <1>8, <2>1, CoveredStays
<1> QED
    BY <1>2, <1>10, <1>11, <1>12, <1>13, <1>15, <1>16 DEF Ranged

\* The node that is to get the pointer to a split page is a nonleaf.
LEMMA NodeToFill ==
    ASSUME Typed, NEW lvl, NEW rng, Ranged(lvl, rng),
           pc \in {"ascend", "nonleafSibling", "nonleafNode"}, path # <<>>
    PROVE  /\ NonLeafAt(NodePid) = PageAt(NodePid) /\ NodeRange(lvl, rng, NodePid)
           /\ NonLeafAt(NodePid) \in NonLeafPage /\ Branches(NonLeafAt(NodePid))
           /\ NodePid \in DOMAIN lvl /\ lvl[NodePid] \in Nat \ {0}
           /\ splitkey \in Key /\ splitpid \in Pid /\ splitkey \in rng[NodePid]
<1>1. /\ pc \in Descending /\ pc \in Ascending /\ disk \in Seq(Page) /\ splitkey \in Key
      /\ splitpid \in Pid
    BY DEF Descending, Ascending, Typed, TypeOK, Running
<1>2. PICK p : p = NodePid
    OBVIOUS
<1>3. p \in DOMAIN lvl /\ lvl[p] \in Nat /\ splitkey \in rng[p]
    BY <1>1, <1>2, NodePlace DEF Ranged, Places, Sought
<1>4. lvl[p] # 0
  <2>1. At(lvl, splitpid, lvl[p] - 1)
    BY <1>1, <1>2, LateHere DEF Ranged, SplitOff
  <2>2. lvl[p] - 1 \in Nat
    BY <2>1 DEF At, Ranged, Places
  <2> QED
    BY <1>3, <2>2
<1>5. NodeRange(lvl, rng, p)
    BY <1>3, <1>4 DEF Ranged, PageRange
<1>6. Branches(PageAt(p)) /\ PageAt(p) \in Page
    BY <1>1, <1>5, PageAtTyped DEF NodeRange
<1>7. PageAt(p) \in NonLeafPage /\ NonLeafAt(p) = PageAt(p)
    BY <1>6 DEF Branches, Page, LeafPage, MetaPage, Blank, NonLeafAt
<1> QED
    BY <1>1, <1>2, <1>3, <1>4, <1>5, <1>6, <1>7

\* With the pointer to the split page, nothing is missing from the range.
LEMMA PutRange ==
    ASSUME EndKey \notin Key, Typed, NEW lvl, NEW rng, Ranged(lvl, rng), NodesSorted,
           pc \in {"ascend", "nonleafSibling", "nonleafNode"}, path # <<>>
    PROVE  LET all == NonLeafPut(NonLeafAt(NodePid), splitkey, splitpid)
           IN  /\ all \in NonLeafPage /\ Branches(all) /\ Rising(all.keys)
               /\ \A j \in 1 .. Len(all.keys) : all.keys[j] \in rng[NodePid]
               /\ \A j \in 1 .. Len(all.pids) :
                    /\ At(lvl, all.pids[j], lvl[NodePid] - 1)
                    /\ \A k \in Int : k \in rng[all.pids[j]] <=>
                         k \in rng[NodePid] /\ NonLeafSlot(all.keys, k) = j
<1>1. pc \in Descending /\ pc \in Ascending /\ disk \in Seq(Page)
    BY DEF Descending, Ascending, Typed, TypeOK
<1>2. PICK p, s, sp, l : p = NodePid /\ s = splitkey /\ sp = splitpid /\ l = lvl[NodePid] - 1
    OBVIOUS
<1>3. PICK node : node = PageAt(p)
    OBVIOUS
<1>4. /\ NonLeafAt(p) = node /\ NodeRange(lvl, rng, p) /\ node \in NonLeafPage /\ Branches(node)
      /\ p \in DOMAIN lvl /\ s \in Key /\ sp \in Pid /\ s \in rng[p] /\ s \in Int
    BY <1>2, <1>3, NodeToFill, KeysAreIntegers
<1>5. SplitLevel = l /\ l = lvl[p] - 1
    BY <1>1, <1>2, LateHere
<1>6. PICK keys, pids : keys = node.keys /\ pids = node.pids
    OBVIOUS
<1>7. PICK n : n = Len(keys)
    OBVIOUS
<1>8. /\ keys \in Seq(Key) /\ pids \in Seq(Pid) /\ n \in Nat /\ Len(pids) = n + 1
      /\ Rising(keys)
  <2>1. Sorted(node)
    BY <1>1, <1>3, SortedPages
  <2>2. keys \in Seq(Key) /\ pids \in Seq(Pid) /\ node.kind = "nonleaf" /\ Len(pids) = Len(keys) + 1
    BY <1>4, <1>6 DEF NonLeafPage, Branches
  <2> QED
    BY <1>6, <1>7, <2>1, <2>2 DEF Sorted
<1>9. PICK i : i = NonLeafSlot(keys, s)
    OBVIOUS
<1> DEFINE slot(k) == NonLeafSlot(keys, k)
<1>10. \A k : Turn(p, k) = slot(k)
    BY <1>3, <1>6 DEF Turn
<1>11. \A k : InHome(rng, k) <=> k \in rng[p] /\ slot(k) = i
    BY <1>2, <1>9, <1>10 DEF InHome
<1>12. /\ At(lvl, sp, l)
       /\ \A k \in Int : k \in rng[sp] <=> k \in rng[p] /\ slot(k) = i /\ s <= k
       /\ \E k \in Int : slot(k) = i /\ k < s
  <2>1. SplitOff(lvl, rng)
    BY DEF Ranged
  <2> HIDE DEF slot
  <2> QED
    BY <1>1, <1>2, <1>5, <1>11, <2>1 DEF SplitOff
<1>13. \A j \in 1 .. n + 1 :
          /\ At(lvl, pids[j], l)
          /\ \A k \in Int : k \in rng[pids[j]] <=> k \in rng[p] /\ slot(k) = j /\ k \notin rng[sp]
  <2>1. \A k : IsLate(rng, k, l) <=> k \in rng[sp]
    BY <1>1, <1>2, <1>5 DEF IsLate
  <2> HIDE DEF slot
  <2> QED
    BY <1>3, <1>4, <1>5, <1>6, <1>8, <1>10, <2>1 DEF NodeRange
<1>14. PICK all : all = NonLeafPut(NonLeafAt(NodePid), splitkey, splitpid)
    OBVIOUS
<1>15. all = NonLeafPut(node, s, sp)
    BY <1>2, <1>4, <1>14
<1>16. /\ i \in 1 .. n + 1 /\ all \in NonLeafPage /\ Branches(all)
       /\ all.keys = InsertAt(keys, i, s) /\ all.pids = InsertAt(pids, i + 1, sp)
       /\ Len(all.keys) = n + 1
    BY <1>4, <1>6, <1>7, <1>9, <1>15, NonLeafPutIn
<1>17. /\ Rising(all.keys)
       /\ \A k \in Int : NonLeafSlot(all.keys, k) =
            IF slot(k) < i \/ (slot(k) = i /\ k < s) THEN slot(k) ELSE slot(k) + 1
  <2>1. PICK low \in Int : low < s /\ slot(low) = i
    BY <1>12
  <2>2. NonLeafSlot(node.keys, low) = NonLeafSlot(node.keys, s)
    BY <1>6, <1>9, <2>1
  <2> QED
    BY <1>4, <1>6, <1>8, <1>9, <1>15, <2>1, <2>2, PutSlots
<1>18. /\ Len(all.pids) = n + 2
       /\ \A j \in 1 .. n + 2 : all.pids[j] =
            IF j < i + 1 THEN pids[j] ELSE IF j = i + 1 THEN sp ELSE pids[j - 1]
  <2>1. PICK i1 : i1 = i + 1
    OBVIOUS
  <2>2. i1 \in 1 .. Len(pids) + 1 /\ Len(pids) + 1 = n + 2
    BY <1>8, <1>16, <2>1
  <2>3. pids \in Seq(Pid) /\ sp \in Pid
    BY <1>4, <1>8
  <2>4. /\ InsertAt(pids, i1, sp) \in Seq(Pid)
        /\ Len(InsertAt(pids, i1, sp)) = Len(pids) + 1
        /\ \A j \in 1 .. Len(pids) + 1 : InsertAt(pids, i1, sp)[j] =
             IF j < i1 THEN pids[j] ELSE IF j = i1 THEN sp ELSE pids[j - 1]
    BY <2>2, <2>3, InsertAtProperties
  <2>5. all.pids = InsertAt(pids, i1, sp)
    BY <1>16, <2>1
  <2> QED
    BY <2>1, <2>2, <2>4, <2>5
<1>19. \A j \in 1 .. Len(all.keys) : all.keys[j] \in rng[p]
  <2> TAKE j \in 1 .. Len(all.keys)
  <2>1. \A m \in 1 .. n : keys[m] \in rng[p]
    BY <1>3, <1>4, <1>6, <1>7 DEF NodeRange
  <2>5. i \in 1 .. Len(keys) + 1 /\ j \in 1 .. Len(keys) + 1
    BY <1>7, <1>16
  <2>2. all.keys[j] = IF j < i THEN keys[j] ELSE IF j = i THEN s ELSE keys[j - 1]
    <3>1. keys \in Seq(Key) /\ s \in Key
      BY <1>4, <1>8
    <3>2. InsertAt(keys, i, s)[j] = IF j < i THEN keys[j] ELSE IF j = i THEN s ELSE keys[j - 1]
      BY <2>5, <3>1, InsertAtProperties
    <3> QED
      BY <1>16, <3>2
  <2>3. j < i => j \in 1 .. n
    BY <1>8, <1>16
  <2>4. j > i => j - 1 \in 1 .. n
    BY <1>8, <1>16
  <2> QED
    BY <1>4, <1>8, <1>16, <2>1, <2>2, <2>3, <2>4
<1> HIDE DEF slot
<1>20. \A k \in Int : slot(k) \in 1 .. n + 1
    BY <1>7, <1>8, SlotIs DEF slot
<1>22. ASSUME NEW k \in Int, NEW j \in 1 .. n + 2
       PROVE  /\ j < i => (slot(k) = j <=> NonLeafSlot(all.keys, k) = j)
              /\ j = i => ((slot(k) = i /\ k < s) <=> NonLeafSlot(all.keys, k) = j)
              /\ j = i + 1 => ((slot(k) = i /\ s <= k) <=> NonLeafSlot(all.keys, k) = j)
              /\ j > i + 1 => (slot(k) = j - 1 <=> NonLeafSlot(all.keys, k) = j)
  <2>1. PICK t, u : t = slot(k) /\ u = NonLeafSlot(all.keys, k)
    OBVIOUS
  <2>2. t \in 1 .. n + 1 /\ u = IF t < i \/ (t = i /\ k < s) THEN t ELSE t + 1
    BY <1>17, <1>20, <2>1
  <2>3. s <= k <=> ~ (k < s)
    BY <1>4
  <2>4. /\ j < i => (t = j <=> u = j)
        /\ j = i => ((t = i /\ k < s) <=> u = j)
        /\ j = i + 1 => ((t = i /\ ~ (k < s)) <=> u = j)
        /\ j > i + 1 => (t = j - 1 <=> u = j)
    BY <1>8, <1>16, <2>2
  <2> QED
    BY <2>1, <2>3, <2>4
<1>21. ASSUME NEW j \in 1 .. n + 2
       PROVE  /\ At(lvl, all.pids[j], l)
              /\ \A k \in Int : k \in rng[all.pids[j]] <=>
                   k \in rng[p] /\ NonLeafSlot(all.keys, k) = j
  <2>1. CASE j < i
    <3>1. j \in 1 .. n + 1 /\ all.pids[j] = pids[j]
      BY <1>8, <1>16, <1>18, <2>1
    <3>2. \A k \in Int : slot(k) = j <=> NonLeafSlot(all.keys, k) = j
      BY <1>22, <2>1
    <3>3. \A k \in Int : slot(k) = j => k \notin rng[sp]
      BY <1>12, <1>16, <2>1
    <3> QED
      BY <1>13, <3>1, <3>2, <3>3
  <2>2. CASE j = i
    <3>1. j \in 1 .. n + 1 /\ all.pids[j] = pids[j]
      BY <1>8, <1>16, <1>18, <2>2
    <3>2. \A k \in Int : (slot(k) = i /\ k < s) <=> NonLeafSlot(all.keys, k) = j
      BY <1>22, <2>2
    <3>3. \A k \in Int : k < s <=> ~ (s <= k)
      BY <1>4
    <3> QED
      BY <1>12, <1>13, <2>2, <3>1, <3>2, <3>3
  <2>3. CASE j = i + 1
    <3>1. all.pids[j] = sp
      BY <1>8, <1>16, <1>18, <2>3
    <3>2. \A k \in Int : (slot(k) = i /\ s <= k) <=> NonLeafSlot(all.keys, k) = j
      BY <1>22, <2>3
    <3> QED
      BY <1>12, <3>1, <3>2
  <2>4. CASE j > i + 1
    <3>1. j - 1 \in 1 .. n + 1 /\ all.pids[j] = pids[j - 1] /\ j - 1 # i
      BY <1>8, <1>16, <1>18, <2>4
    <3>2. \A k \in Int : slot(k) = j - 1 <=> NonLeafSlot(all.keys, k) = j
      BY <1>22, <2>4
    <3>3. \A k \in Int : slot(k) = j - 1 => k \notin rng[sp]
      BY <1>12, <3>1
    <3> QED
      BY <1>13, <3>1, <3>2, <3>3
  <2> QED
    BY <1>16, <2>1, <2>2, <2>3, <2>4
<1> QED
    BY <1>2, <1>14, <1>16, <1>17, <1>18, <1>19, <1>21

LEMMA InsertInNonLeafRanged ==
    ASSUME EndKey \notin Key, Typed, NEW lvl, NEW rng, Ranged(lvl, rng), NodesSorted,
           InsertInNonLeaf
    PROVE  Ranged(lvl, rng)' /\ NodesSorted'
<1>1. /\ pc = "ascend" /\ path # <<>> /\ pc' = "idle"
      /\ mode' = mode /\ rootPid' = rootPid /\ treeHeight' = treeHeight
      /\ disk \in Seq(Page)
      /\ WritePage(NodePid, NonLeafPut(NonLeafAt(NodePid), splitkey, splitpid))
    BY DEF InsertInNonLeaf, Return, head, Typed, TypeOK
<1>2. PICK p, all : p = NodePid /\ all = NonLeafPut(NonLeafAt(NodePid), splitkey, splitpid)
    OBVIOUS
<1>3. pc \in Descending /\ pc \in Ascending /\ pc' \notin Descending /\ pc' \notin Ascending
    BY <1>1 DEF Descending, Ascending
<1>4. /\ p \in DOMAIN lvl /\ lvl[p] \in Nat \ {0} /\ p \in 1 .. EndPid - 1 /\ EndPid \in Nat
      /\ treeHeight \in Nat \ {0} /\ mode # "none"
    BY <1>1, <1>2, <1>3, NodePlace, NodeToFill
<1>5. /\ all \in NonLeafPage /\ Branches(all) /\ Rising(all.keys)
      /\ \A j \in 1 .. Len(all.keys) : all.keys[j] \in rng[p]
      /\ \A j \in 1 .. Len(all.pids) :
           /\ At(lvl, all.pids[j], lvl[p] - 1)
           /\ \A k \in Int : k \in rng[all.pids[j]] <=>
                k \in rng[p] /\ NonLeafSlot(all.keys, k) = j
    BY <1>1, <1>2, PutRange
<1>6. all \in Page /\ Sorted(all)
    BY <1>5 DEF Page, Branches, Sorted
<1>7. WritePage(p, all) /\ WritePage(NodePid, all)
    BY <1>1, <1>2
<1>8. PageAt(p)' = all /\ EndPid' = EndPid
  <2>1. p \in 0 .. EndPid - 1
    BY <1>4
  <2> QED
    BY <1>1, <1>6, <1>7, <2>1, WriteChanges
<1>9. /\ Places(lvl, rng)' /\ \A q \in DOMAIN lvl : q # p => PageRange(lvl, rng, q)'
      /\ \A root, height : RootRange(lvl, rng, root, height)
           => RootRange(lvl, rng, root, height)'
      /\ \A k, l : ~ IsLate(rng, k, l)'
    BY <1>1, <1>2, <1>3, <1>6, <1>7, OthersStay
<1>10. PageRange(lvl, rng, p)'
  <2>1. \A k : Turn(p, k)' = NonLeafSlot(all.keys, k)
    BY <1>8 DEF Turn
  <2>2. NodeRange(lvl, rng, p)'
    BY <1>5, <1>8, <1>9, <2>1 DEF NodeRange
  <2> QED
    BY <1>4, <2>2 DEF PageRange
<1>11. Rooted(lvl, rng)'
    BY <1>1, <1>4, <1>9, SameRoot DEF Ranged
<1>12. OnPath(lvl, rng)' /\ SplitOff(lvl, rng)'
    BY <1>1, <1>3 DEF OnPath, SplitOff
<1>13. NodesSorted'
    BY <1>1, <1>4, <1>6, <1>7, WriteSorted
<1>14. Covered(lvl)'
  <2>1. pc \notin Splitting
    BY <1>1 DEF Splitting
  <2> QED
    BY <1>8, <2>1, CoveredStays
<1> QED
    BY <1>9, <1>10, <1>11, <1>12, <1>13, <1>14 DEF Ranged

(***************************************************************************)
(* The steps that cut a page in two                                        *)
(***************************************************************************)

\* The new page q takes the keys of p from s on.
Cut(rng, p, q, s) ==
    [r \in DOMAIN rng \cup {q} |-> IF r = q THEN {k \in rng[p] : s <= k}
                                   ELSE IF r = p THEN {k \in rng[p] : k < s} ELSE rng[r]]

\* The node at hand is written, and the frame above is handed q.
Cuts(lvl, rng, q, s, page) ==
    /\ pc \in Descending /\ path # <<>>
    /\ q \in 1 .. EndPid - 1 /\ q \notin DOMAIN lvl /\ Fetched = {q}
    /\ s \in rng[NodePid] /\ \E k \in rng[NodePid] : k < s
    /\ page \in Page /\ WritePage(NodePid, page)
    /\ pc' = "ascend" /\ path' = Front(path) /\ splitkey' = s /\ splitpid' = q
    /\ mode' = mode /\ rootPid' = rootPid /\ treeHeight' = treeHeight

\* Before the cut the root has all keys, and only it is on its level.
LEMMA RootAlone ==
    ASSUME Typed, NEW lvl, NEW rng, Ranged(lvl, rng), pc \in Descending, path # <<>>
    PROVE  /\ At(lvl, rootPid, treeHeight - 1) /\ \A k \in Int : k \in rng[rootPid]
           /\ \A p \in DOMAIN lvl : lvl[p] < treeHeight
           /\ \A p \in DOMAIN lvl : lvl[p] = treeHeight - 1 => p = rootPid
<1>1. RootRange(lvl, rng, rootPid, treeHeight)
    BY NodePlace
<1>2. \A k : ~ IsLate(rng, k, treeHeight - 1)
  <2>1. CASE pc \in Ascending
    BY <1>1, <2>1, LateHere
  <2>2. CASE pc \notin Ascending
    BY <2>2 DEF IsLate
  <2> QED
    BY <2>1, <2>2
<1>3. At(lvl, rootPid, treeHeight - 1) /\ \A k \in Int : k \in rng[rootPid]
    BY <1>1, <1>2 DEF RootRange
<1>4. ASSUME NEW p \in DOMAIN lvl, lvl[p] = treeHeight - 1, p # rootPid PROVE FALSE
  <2>1. rng[p] \subseteq Int /\ rng[p] # {}
    BY DEF Ranged, Places
  <2>2. PICK k \in rng[p] : k \in Int
    BY <2>1
  <2>3. rootPid \in DOMAIN lvl /\ lvl[rootPid] = lvl[p]
    BY <1>3, <1>4 DEF At
  <2>4. rng[p] \cap rng[rootPid] = {}
    BY <1>4, <2>3 DEF Ranged, Places
  <2> QED
    BY <1>3, <2>2, <2>4
<1> QED
    BY <1>1, <1>3, <1>4 DEF RootRange

LEMMA CutPlaces ==
    ASSUME Typed, NEW lvl, NEW rng, Ranged(lvl, rng), NEW q, NEW s, NEW page,
           Cuts(lvl, rng, q, s, page), NEW p, p = NodePid,
           NEW lvl2, NEW rng2, lvl2 = Join(lvl, q, lvl[p]), rng2 = Cut(rng, p, q, s)
    PROVE  /\ p \in DOMAIN lvl /\ p # q /\ lvl[p] \in Nat /\ EndPid \in Nat
           /\ s \in Int /\ rng[p] \subseteq Int
           /\ \A r : r \in DOMAIN lvl2 <=> r \in DOMAIN lvl \/ r = q
           /\ At(lvl2, q, lvl[p])
           /\ \A k : k \in rng2[q] <=> k \in rng[p] /\ s <= k
           /\ \A k : k \in rng2[p] <=> k \in rng[p] /\ k < s
           /\ \A r \in DOMAIN lvl : r # q /\ lvl2[r] = lvl[r] /\ (r # p => rng2[r] = rng[r])
           /\ \A r, l : At(lvl, r, l) => At(lvl2, r, l)
           /\ EndPid' = EndPid /\ PageAt(p)' = page /\ \A r : r # p => PageAt(r)' = PageAt(r)
           /\ \A k, l : IsLate(rng2, k, l)' <=> l = lvl[p] /\ k \in rng2[q]
           /\ Places(lvl2, rng2)'
<1>1. /\ p \in DOMAIN lvl /\ lvl[p] \in Nat /\ EndPid \in Nat /\ disk \in Seq(Page)
      /\ p \in 1 .. EndPid - 1 /\ lvl[p] = treeHeight - Len(path)
      /\ Len(path) \in Nat \ {0} /\ treeHeight \in Nat \ {0}
    BY NodePlace DEF Cuts, Typed, TypeOK, Ranged, Places, At
<1>2. q \notin DOMAIN lvl /\ p # q /\ q \in 1 .. EndPid - 1
    BY <1>1 DEF Cuts
<1>3. DOMAIN rng = DOMAIN lvl /\ rng[p] \subseteq Int
    BY <1>1 DEF Ranged, Places
<1>4. s \in rng[p] /\ s \in Int
    BY <1>3 DEF Cuts
<1>5. PICK low \in rng[p] : low < s
    BY DEF Cuts
<1>6. /\ DOMAIN lvl2 = DOMAIN lvl \cup {q} /\ DOMAIN rng2 = DOMAIN lvl2
      /\ lvl2[q] = lvl[p]
      /\ \A k : k \in rng2[q] <=> k \in rng[p] /\ s <= k
      /\ \A k : k \in rng2[p] <=> k \in rng[p] /\ k < s
      /\ \A r \in DOMAIN lvl : r # q /\ lvl2[r] = lvl[r] /\ (r # p => rng2[r] = rng[r])
    BY <1>1, <1>2, <1>3 DEF Join, Cut
<1>7. \A r, l : At(lvl, r, l) => At(lvl2, r, l)
    BY <1>6 DEF At
<1>8. EndPid' = EndPid /\ PageAt(p)' = page /\ \A r : r # p => PageAt(r)' = PageAt(r)
  <2>1. p \in 0 .. EndPid - 1 /\ WritePage(p, page) /\ page \in Page
    BY <1>1 DEF Cuts
  <2> QED
    BY <1>1, <2>1, WriteChanges
<1>9. \A k, l : IsLate(rng2, k, l)' <=> l = lvl[p] /\ k \in rng2[q]
  <2>1. Len(path') = Len(path) - 1
    BY FrontIs DEF Cuts, Typed, TypeOK
  <2>2. SplitLevel' = lvl[p]
    <3>1. SplitLevel' = treeHeight' - Len(path') - 1
      BY DEF SplitLevel
    <3>2. treeHeight' = treeHeight
      BY DEF Cuts
    <3> QED
      BY <1>1, <2>1, <3>1, <3>2
  <2>3. pc' \in Ascending /\ splitpid' = q
    BY DEF Cuts, Ascending
  <2> QED
    BY <2>2, <2>3 DEF IsLate
<1>10. Places(lvl2, rng2)'
  <2>1. \A r \in DOMAIN lvl2 : r \in 1 .. EndPid' - 1 /\ lvl2[r] \in Nat
    BY <1>1, <1>2, <1>6, <1>8 DEF Ranged, Places
  <2>2. \A r \in DOMAIN lvl2 : rng2[r] \subseteq Int /\ rng2[r] # {}
    <3> TAKE r \in DOMAIN lvl2
    <3>1. CASE r = q
      <4>1. s \in rng2[q]
        BY <1>4, <1>6
      <4> QED
        BY <1>3, <1>6, <3>1, <4>1
    <3>2. CASE r = p
      BY <1>3, <1>5, <1>6, <3>2
    <3>3. CASE r # q /\ r # p
      BY <1>6, <3>3 DEF Ranged, Places
    <3> QED
      BY <3>1, <3>2, <3>3
  <2>3. \A r, t \in DOMAIN lvl : lvl[r] = lvl[t] /\ r # t => rng[r] \cap rng[t] = {}
    BY DEF Ranged, Places
  <2>4. \A r \in DOMAIN lvl : rng2[r] \subseteq rng[r]
    BY <1>6
  <2>5. \A r \in DOMAIN lvl : lvl[r] = lvl[p] => rng2[q] \cap rng2[r] = {}
    <3> TAKE r \in DOMAIN lvl
    <3>1. CASE r = p
      <4>1. \A k \in Int : ~ (s <= k /\ k < s)
        BY <1>4
      <4> QED
        BY <1>3, <1>6, <3>1, <4>1
    <3>2. CASE r # p
      BY <1>1, <1>6, <2>3, <3>2
    <3> QED
      BY <3>1, <3>2
  <2>6. \A r, t \in DOMAIN lvl2 : lvl2[r] = lvl2[t] /\ r # t => rng2[r] \cap rng2[t] = {}
    <3> TAKE r, t \in DOMAIN lvl2
    <3>1. CASE r = q
      BY <1>6, <2>5, <3>1
    <3>2. CASE t = q
      BY <1>6, <2>5, <3>2
    <3>3. CASE r # q /\ t # q
      BY <1>6, <2>3, <2>4, <3>3
    <3> QED
      BY <3>1, <3>2, <3>3
  <2>7. EndPid' >= 2 => At(lvl2, 1, 0)
    BY <1>7, <1>8 DEF Ranged, Places
  <2> QED
    BY <1>6, <2>1, <2>2, <2>6, <2>7 DEF Places
<1> QED
    BY <1>1, <1>2, <1>3, <1>4, <1>6, <1>7, <1>8, <1>9, <1>10 DEF At

\* The other pages of the tree: a parent loses nothing but what is late now.
LEMMA CutOthers ==
    ASSUME Typed, NEW lvl, NEW rng, Ranged(lvl, rng), NEW q, NEW s, NEW page,
           Cuts(lvl, rng, q, s, page), NEW p, p = NodePid,
           NEW lvl2, NEW rng2, lvl2 = Join(lvl, q, lvl[p]), rng2 = Cut(rng, p, q, s),
           NEW r \in DOMAIN lvl, r # p
    PROVE  PageRange(lvl2, rng2, r)'
<1>1. /\ p \in DOMAIN lvl /\ lvl[p] \in Nat /\ s \in Int /\ rng[p] \subseteq Int
      /\ \A k : k \in rng2[q] <=> k \in rng[p] /\ s <= k
      /\ \A k : k \in rng2[p] <=> k \in rng[p] /\ k < s
      /\ \A t \in DOMAIN lvl : lvl2[t] = lvl[t] /\ (t # p => rng2[t] = rng[t])
      /\ \A t, l : At(lvl, t, l) => At(lvl2, t, l)
      /\ \A t : t # p => PageAt(t)' = PageAt(t)
      /\ \A k, l : IsLate(rng2, k, l)' <=> l = lvl[p] /\ k \in rng2[q]
    BY CutPlaces
<1>2. lvl2[r] = lvl[r] /\ rng2[r] = rng[r] /\ PageAt(r)' = PageAt(r) /\ lvl[r] \in Nat
      /\ rng[r] \subseteq Int
    BY <1>1 DEF Ranged, Places
<1>3. PageRange(lvl, rng, r)
    BY DEF Ranged
<1>4. CASE lvl[r] = 0
  <2>1. LeafAt(r)' = LeafAt(r)
    BY <1>2 DEF LeafAt
  <2>2. LeafRange(lvl, rng, r)
    BY <1>3, <1>4 DEF PageRange
  <2>3. PICK next : next = LeafAt(r).next
    OBVIOUS
  <2>4. next # NoPid => /\ At(lvl, next, 0) /\ At(lvl2, next, 0)
                        /\ \A k \in rng[r], m \in rng[next] : k < m
    BY <1>1, <2>2, <2>3 DEF LeafRange
  <2>5. next # NoPid => rng2[next] \subseteq rng[next]
    BY <1>1, <2>4 DEF At
  <2>6. LeafRange(lvl2, rng2, r)'
    <3>1. PageAt(r)'.kind = "leaf"
      BY <1>1, <1>2, <2>2 DEF LeafRange
    <3>2. \A j \in 1 .. Len(LeafAt(r)'.entries) : LeafAt(r)'.entries[j].key \in rng2[r]
      BY <1>2, <2>1, <2>2 DEF LeafRange
    <3>3. LeafAt(r)'.next = next
      BY <2>1, <2>3
    <3>4. next # NoPid => \A k \in rng2[r], m \in rng2[next] : k < m
      BY <1>2, <2>4, <2>5
    <3> QED
      BY <2>4, <3>1, <3>2, <3>3, <3>4 DEF LeafRange
  <2> QED
    BY <1>2, <1>4, <2>6 DEF PageRange
<1>5. CASE lvl[r] # 0
  <2>1. NodeRange(lvl, rng, r)
    BY <1>3, <1>5 DEF PageRange
  <2>2. \A k \in rng[r] : ~ IsLate(rng, k, lvl[r] - 1)
    <3>1. CASE pc \in Ascending
      BY <3>1, LateHere DEF Cuts
    <3>2. CASE pc \notin Ascending
      BY <3>2 DEF IsLate
    <3> QED
      BY <3>1, <3>2
  <2>3. \A k : Turn(r, k)' = Turn(r, k)
    BY <1>2 DEF Turn
  <2>4. ASSUME NEW i \in 1 .. Len(PageAt(r).pids), NEW child, child = PageAt(r).pids[i]
        PROVE  /\ At(lvl2, child, lvl[r] - 1)
               /\ \A k \in Int : k \in rng2[child]
                    <=> k \in rng[r] /\ Turn(r, k) = i /\ ~ IsLate(rng2, k, lvl[r] - 1)'
    <3>1. /\ At(lvl, child, lvl[r] - 1)
          /\ \A k \in Int : k \in rng[child] <=> k \in rng[r] /\ Turn(r, k) = i
      BY <2>1, <2>2, <2>4 DEF NodeRange
    <3>2. child \in DOMAIN lvl /\ lvl[child] = lvl[r] - 1
      BY <3>1 DEF At
    <3>3. CASE child = p
      <4>1. \A k \in rng[p] : k < s <=> ~ (s <= k)
        BY <1>1
      <4>2. \A k : IsLate(rng2, k, lvl[r] - 1)' <=> k \in rng[p] /\ s <= k
        BY <1>1, <3>2, <3>3
      <4> QED
        BY <1>1, <3>1, <3>3, <4>1, <4>2
    <3>4. CASE child # p
      <4>1. ASSUME NEW k \in rng[child] PROVE ~ IsLate(rng2, k, lvl[r] - 1)'
        <5>1. lvl[r] - 1 = lvl[p] => k \notin rng[p]
          BY <1>1, <3>2, <3>4 DEF Ranged, Places
        <5> QED
          BY <1>1, <5>1
      <4>2. rng2[child] = rng[child]
        BY <1>1, <3>2, <3>4
      <4> QED
        BY <1>1, <3>1, <4>1, <4>2
    <3> QED
      BY <3>3, <3>4
  <2>5. NodeRange(lvl2, rng2, r)'
    <3>1. Branches(PageAt(r)) /\ \A j \in 1 .. Len(PageAt(r).keys) : PageAt(r).keys[j] \in rng[r]
      BY <2>1 DEF NodeRange
    <3> HIDE DEF IsLate, Turn
    <3> QED
      BY <1>2, <2>3, <2>4, <3>1 DEF NodeRange
  <2> QED
    BY <1>2, <1>5, <2>5 DEF PageRange
<1> QED
    BY <1>4, <1>5

\* The root still has all keys but those that are late now.
LEMMA CutRoot ==
    ASSUME Typed, NEW lvl, NEW rng, Ranged(lvl, rng), NEW q, NEW s, NEW page,
           Cuts(lvl, rng, q, s, page), NEW p, p = NodePid,
           NEW lvl2, NEW rng2, lvl2 = Join(lvl, q, lvl[p]), rng2 = Cut(rng, p, q, s)
    PROVE  Rooted(lvl2, rng2)'
<1>1. PICK root, h : root = rootPid /\ h = treeHeight
    OBVIOUS
<1>2. /\ p \in DOMAIN lvl /\ lvl[p] \in Nat /\ s \in Int /\ rng[p] \subseteq Int
      /\ \A k : k \in rng2[q] <=> k \in rng[p] /\ s <= k
      /\ \A k : k \in rng2[p] <=> k \in rng[p] /\ k < s
      /\ \A r : r \in DOMAIN lvl2 <=> r \in DOMAIN lvl \/ r = q
      /\ At(lvl2, q, lvl[p])
      /\ \A r \in DOMAIN lvl : lvl2[r] = lvl[r] /\ (r # p => rng2[r] = rng[r])
      /\ \A r, l : At(lvl, r, l) => At(lvl2, r, l)
      /\ \A k, l : IsLate(rng2, k, l)' <=> l = lvl[p] /\ k \in rng2[q]
    BY CutPlaces
<1>3. /\ At(lvl, root, h - 1) /\ \A k \in Int : k \in rng[root]
      /\ \A r \in DOMAIN lvl : lvl[r] < h
      /\ \A r \in DOMAIN lvl : lvl[r] = h - 1 => r = root
      /\ h \in Nat \ {0} /\ mode # "none"
    BY <1>1, RootAlone, NodePlace DEF Cuts
<1>4. \A r \in DOMAIN lvl2 : lvl2[r] < h
    BY <1>2, <1>3 DEF At
<1>5. ASSUME NEW k \in Int PROVE k \in rng2[root] <=> ~ IsLate(rng2, k, h - 1)'
  <2>1. CASE root = p
    <3>1. lvl[p] = h - 1 /\ k \in rng[p]
      BY <1>3, <2>1 DEF At
    <3>2. k < s <=> ~ (s <= k)
      BY <1>2
    <3> QED
      BY <1>2, <2>1, <3>1, <3>2
  <2>2. CASE root # p
    <3>1. lvl[p] # h - 1
      BY <1>2, <1>3, <2>2
    <3>2. rng2[root] = rng[root]
      BY <1>2, <1>3, <2>2 DEF At
    <3> QED
      BY <1>2, <1>3, <3>1, <3>2
  <2> QED
    BY <2>1, <2>2
<1>6. RootRange(lvl2, rng2, root, h)'
    BY <1>2, <1>3, <1>4, <1>5 DEF RootRange
<1>7. rootPid' = root /\ treeHeight' = h /\ mode' # "none" /\ pc' = "ascend"
    BY <1>1, <1>3 DEF Cuts
<1> QED
    BY <1>6, <1>7 DEF Rooted

\* The frames above go on for the key of q.
LEMMA CutPath ==
    ASSUME Typed, NEW lvl, NEW rng, Ranged(lvl, rng), NEW q, NEW s, NEW page,
           Cuts(lvl, rng, q, s, page), NEW p, p = NodePid,
           NEW lvl2, NEW rng2, lvl2 = Join(lvl, q, lvl[p]), rng2 = Cut(rng, p, q, s)
    PROVE  OnPath(lvl2, rng2)'
<1>1. PICK n, h : n = Len(path) /\ h = treeHeight
    OBVIOUS
<1>2. /\ \A r \in DOMAIN lvl : lvl2[r] = lvl[r] /\ (r # p => rng2[r] = rng[r])
      /\ \A r, l : At(lvl, r, l) => At(lvl2, r, l)
    BY CutPlaces
<1>3. n \in Nat \ {0} /\ h \in Nat /\ p = path[n] /\ lvl[p] = h - n
    BY <1>1, NodePlace DEF Cuts, At
<1>4. /\ \A d \in 1 .. n : At(lvl, path[d], h - d)
      /\ \A d, e \in 1 .. n : d <= e => rng[path[e]] \subseteq rng[path[d]]
    BY <1>1 DEF Cuts, Ranged, OnPath
<1>5. n - 1 \in Nat /\ Len(path') = n - 1 /\ \A d \in 1 .. n - 1 : path'[d] = path[d]
    BY <1>1, <1>3, FrontIs DEF Cuts, Typed, TypeOK
<1>6. \A d \in 1 .. n - 1 : /\ d \in 1 .. n /\ At(lvl2, path[d], h - d)
                            /\ path[d] # p /\ rng2[path[d]] = rng[path[d]]
  <2> TAKE d \in 1 .. n - 1
  <2>1. d \in 1 .. n /\ h - d # h - n
    BY <1>3
  <2> QED
    BY <1>2, <1>3, <1>4, <2>1 DEF At
<1>7. path' # <<>> => splitkey' \in rng2[NodePid']
  <2> HAVE path' # <<>>
  <2>1. path' \in Seq(Pid)
    BY FrontTyped DEF Cuts, Typed, TypeOK
  <2>2. n - 1 # 0
    BY <1>5, <2>1, EmptySeq
  <2>3. n - 1 \in 1 .. n - 1 /\ n \in 1 .. n /\ n - 1 <= n /\ n - 1 \in 1 .. n
    BY <1>3, <2>2
  <2>4. NodePid' = path[n - 1]
    BY <1>5, <2>3 DEF NodePid, Last
  <2>5. s \in rng[path[n - 1]]
    BY <1>3, <1>4, <2>3 DEF Cuts
  <2>6. rng2[path[n - 1]] = rng[path[n - 1]]
    BY <1>6, <2>3
  <2> QED
    BY <2>4, <2>5, <2>6 DEF Cuts
<1>8. \A d \in 1 .. n - 1 : At(lvl2, path'[d], h - d)
    BY <1>5, <1>6
<1>9. \A d, e \in 1 .. n - 1 : d <= e => rng2[path'[e]] \subseteq rng2[path'[d]]
    BY <1>4, <1>5, <1>6
<1>10. treeHeight' = h /\ Sought' = splitkey'
    BY <1>1 DEF Cuts, Sought, Ascending
<1> QED
    BY <1>5, <1>7, <1>8, <1>9, <1>10 DEF OnPath

\* What p had is what the frame above gives it.
LEMMA CutHome ==
    ASSUME Typed, NEW lvl, NEW rng, Ranged(lvl, rng), NEW q, NEW s, NEW page,
           Cuts(lvl, rng, q, s, page), NEW p, p = NodePid,
           NEW lvl2, NEW rng2, lvl2 = Join(lvl, q, lvl[p]), rng2 = Cut(rng, p, q, s)
    PROVE  SplitOff(lvl2, rng2)'
<1>1. PICK n, h : n = Len(path) /\ h = treeHeight
    OBVIOUS
<1>2. /\ p \in DOMAIN lvl /\ lvl[p] \in Nat /\ s \in Int /\ rng[p] \subseteq Int
      /\ \A k : k \in rng2[q] <=> k \in rng[p] /\ s <= k
      /\ At(lvl2, q, lvl[p])
      /\ \A r \in DOMAIN lvl : lvl2[r] = lvl[r] /\ (r # p => rng2[r] = rng[r])
      /\ \A r : r # p => PageAt(r)' = PageAt(r)
    BY CutPlaces
<1>3. n \in Nat \ {0} /\ h \in Nat /\ p = path[n] /\ lvl[p] = h - n /\ disk \in Seq(Page)
    BY <1>1, NodePlace DEF Cuts, At, Typed, TypeOK
<1>4. n - 1 \in Nat /\ Len(path') = n - 1 /\ \A d \in 1 .. n - 1 : path'[d] = path[d]
    BY <1>1, <1>3, FrontIs DEF Cuts, Typed, TypeOK
<1>5. s \in rng[p] /\ \E low \in rng[p] : low < s
    BY DEF Cuts
<1>6. SplitLevel' = lvl[p]
  <2>1. SplitLevel' = treeHeight' - Len(path') - 1 /\ treeHeight' = h
    BY <1>1 DEF SplitLevel, Cuts
  <2> QED
    BY <1>3, <1>4, <2>1
<1>7. \A k \in Int : InHome(rng2, k)' <=> k \in rng[p]
  <2>1. CASE n = 1
    <3>1. lvl[p] = treeHeight - 1
      BY <1>1, <1>3, <2>1
    <3>2. \A k \in Int : k \in rng[p]
      BY <1>2, <3>1, RootAlone DEF Cuts
    <3>3. path' = <<>>
      <4>1. path' \in Seq(Pid) /\ Len(path') = 0
        BY <1>4, <2>1, FrontTyped DEF Cuts, Typed, TypeOK
      <4> QED
        BY <4>1, EmptySeq
    <3> QED
      BY <3>2, <3>3 DEF InHome
  <2>2. CASE n # 1
    <3>1. PICK r : r = path[n - 1]
      OBVIOUS
    <3>2. n - 1 \in 1 .. n /\ n \in 1 .. n /\ n - 1 <= n /\ n - 1 \in 1 .. n - 1
      BY <1>3, <2>2
    <3>3. At(lvl, r, h - (n - 1)) /\ rng[p] \subseteq rng[r]
      BY <1>1, <1>3, <3>1, <3>2 DEF Cuts, Ranged, OnPath
    <3>4. r \in DOMAIN lvl /\ lvl[r] = lvl[p] + 1 /\ lvl[r] # 0 /\ r # p /\ lvl[r] - 1 = lvl[p]
      BY <1>2, <1>3, <3>3 DEF At
    <3>5. NodePid' = r /\ path' # <<>>
      BY <1>4, <3>1, <3>2 DEF NodePid, Last
    <3>6. PageAt(r)' = PageAt(r) /\ rng2[r] = rng[r]
      BY <1>2, <3>4
    <3>7. \A k \in rng[r] : ~ IsLate(rng, k, lvl[r] - 1)
      <4>1. CASE pc \in Ascending
        BY <3>4, <4>1, LateHere DEF Cuts
      <4>2. CASE pc \notin Ascending
        BY <4>2 DEF IsLate
      <4> QED
        BY <4>1, <4>2
    <3>8. s \in rng[r]
      BY <1>5, <3>3
    <3>9. PICK child : child = LocateChildPtr(NonLeafAt(r), s)
      OBVIOUS
    <3>10. /\ At(lvl, child, lvl[p]) /\ s \in rng[child]
           /\ \E i \in 1 .. Len(PageAt(r).pids) : i = Turn(r, s) /\ child = PageAt(r).pids[i]
      <4>1. Places(lvl, rng) /\ PageRange(lvl, rng, r)
        BY <3>4 DEF Ranged
      <4> QED
        BY <1>3, <3>4, <3>7, <3>8, <3>9, <4>1, ChildRange
    <3>11. child = p
      BY <1>2, <1>5, <3>10 DEF At, Ranged, Places
    <3>12. \A k \in Int : k \in rng[p] <=> k \in rng[r] /\ Turn(r, k) = Turn(r, s)
      <4>1. NodeRange(lvl, rng, r)
        BY <3>4 DEF Ranged, PageRange
      <4> HIDE DEF Turn
      <4> QED
        BY <3>7, <3>10, <3>11, <4>1 DEF NodeRange
    <3>13. \A k : Turn(r, k)' = Turn(r, k)
      BY <3>6 DEF Turn
    <3>14. ASSUME NEW k PROVE InHome(rng2, k)' <=> k \in rng[r] /\ Turn(r, k) = Turn(r, s)
      <4>1. splitkey' = s
        BY DEF Cuts
      <4>2. Turn(NodePid, k)' = Turn(r, k)' /\ Turn(NodePid, splitkey)' = Turn(r, s)'
        BY <3>5, <4>1 DEF Turn, PageAt
      <4> QED
        BY <3>5, <3>6, <3>13, <4>2 DEF InHome
    <3> QED
      BY <3>12, <3>14
  <2> QED
    BY <2>1, <2>2
<1>8. splitkey' = s /\ splitpid' = q /\ pc' = "ascend"
    BY DEF Cuts
<1>9. \A k \in Int : k \in rng2[q] <=> InHome(rng2, k)' /\ s <= k
    BY <1>2, <1>7
<1>10. \E k \in Int : InHome(rng2, k)' /\ k < s
    BY <1>2, <1>5, <1>7
<1> QED
    BY <1>2, <1>6, <1>8, <1>9, <1>10 DEF SplitOff

\* All that is left to show of a cut is its two pages.
LEMMA CutRanged ==
    ASSUME Typed, NEW lvl, NEW rng, Ranged(lvl, rng), NEW q, NEW s, NEW page,
           Cuts(lvl, rng, q, s, page), NEW p, p = NodePid,
           NEW lvl2, NEW rng2, lvl2 = Join(lvl, q, lvl[p]), rng2 = Cut(rng, p, q, s),
           PageRange(lvl2, rng2, p)', PageRange(lvl2, rng2, q)'
    PROVE  Ranged(lvl2, rng2)'
<1>1. \A r : r \in DOMAIN lvl2 <=> r \in DOMAIN lvl \/ r = q
    BY CutPlaces
<1>2. ASSUME NEW r \in DOMAIN lvl2 PROVE PageRange(lvl2, rng2, r)'
  <2>1. CASE r = p \/ r = q
    BY <2>1
  <2>2. CASE r # p /\ r # q
    BY <1>1, <2>2, CutOthers
  <2> QED
    BY <2>1, <2>2
<1>3. Places(lvl2, rng2)'
    BY CutPlaces
<1>4. Rooted(lvl2, rng2)' /\ OnPath(lvl2, rng2)' /\ SplitOff(lvl2, rng2)'
    BY CutRoot, CutPath, CutHome
<1>5. Covered(lvl2)'
  <2>1. EndPid' = EndPid /\ Fetched = {q} /\ Covered(lvl)
    BY CutPlaces DEF Cuts, Ranged
  <2> QED
    BY <1>1, <2>1 DEF Covered
<1> QED
    BY <1>2, <1>3, <1>4, <1>5 DEF Ranged

(***************************************************************************)
(* The split of a leaf                                                     *)
(***************************************************************************)

\* The leaf at hand, full, and the halves of it and the new entry.
LEMMA LeafToSplit ==
    ASSUME EndKey \notin Key, Typed, NEW lvl, NEW rng, Ranged(lvl, rng), NodesSorted,
           NEW c, NEW lev, Linked(c, lev), pc \in {"leafSibling", "leafNode"}
    PROVE  LET leaf  == LeafAt(NodePid)
               lower == LowerHalf(leaf, ins).entries
               upper == UpperHalf(leaf, ins).entries
               s     == SiblingKey(leaf, ins)
           IN  /\ path # <<>> /\ pc \in Descending /\ pc \notin Ascending
               /\ NodePid \in DOMAIN lvl /\ lvl[NodePid] = 0 /\ NodePid \in 1 .. EndPid - 1
               /\ splitpid \in 1 .. EndPid - 1 /\ splitpid \notin DOMAIN lvl
               /\ leaf \in LeafPage /\ ins \in Entry
               /\ LeafRange(lvl, rng, NodePid)
               /\ LowerHalf(leaf, ins) \in LeafPage /\ UpperHalf(leaf, ins) \in LeafPage
               /\ RisingEntries(lower) /\ RisingEntries(upper)
               /\ \A j \in 1 .. Len(lower) : lower[j].key < s /\ lower[j].key \in rng[NodePid]
               /\ \A j \in 1 .. Len(upper) : s <= upper[j].key /\ upper[j].key \in rng[NodePid]
               /\ s \in rng[NodePid] /\ s \in Key
               /\ 1 \in 1 .. Len(lower)
<1>1. /\ path # <<>> /\ pc \in Descending /\ pc \notin Ascending /\ disk \in Seq(Page)
      /\ ins \in Entry
    BY DEF Descending, Ascending, Typed, TypeOK, Running
<1>2. PICK p, leaf : p = NodePid /\ leaf = LeafAt(p)
    OBVIOUS
<1>3. /\ Len(path) = treeHeight /\ splitpid \in 1 .. EndPid - 1 /\ splitpid \notin DOMAIN lvl
      /\ LeafIsFull(leaf)
    BY <1>2 DEF Linked, FrameLevels, Ranged, SplitOff
<1>4. /\ p \in DOMAIN lvl /\ lvl[p] = 0 /\ p \in 1 .. EndPid - 1 /\ ins.key \in rng[p]
      /\ treeHeight \in Nat \ {0}
    BY <1>1, <1>2, <1>3, NodePlace DEF At, Sought
<1>5. leaf \in LeafPage /\ leaf.entries \in Seq(Entry)
    BY <1>1, <1>2, LeafAtTyped, LeafPageIs
<1>6. leaf.entries # <<>>
  <2>1. Len(leaf.entries) = MAX_LEAF_KEY_COUNT
    BY <1>3 DEF LeafIsFull
  <2> QED
    BY <1>5, <2>1, EmptySeq, LeafCapacity
<1>7. \A j \in 1 .. Len(leaf.entries) : leaf.entries[j].key # ins.key
    BY <1>1, <1>2, <1>3, <1>4, LeafFresh
<1>8. RisingEntries(leaf.entries)
  <2>1. Sorted(PageAt(p))
    BY <1>1, SortedPages
  <2>2. PageAt(p).kind = "leaf" /\ leaf = PageAt(p)
    <3>1. PageAt(p).kind # "leaf" => leaf.entries = <<>>
      BY <1>2 DEF LeafAt, EmptyLeaf, Leaf
    <3> QED
      BY <1>2, <1>6, <3>1 DEF LeafAt
  <2> QED
    BY <2>1, <2>2 DEF Sorted
<1>9. LeafRange(lvl, rng, p)
    BY <1>4 DEF Ranged, PageRange
<1>10. PICK lower, upper, s : /\ lower = LowerHalf(leaf, ins).entries
                              /\ upper = UpperHalf(leaf, ins).entries
                              /\ s = SiblingKey(leaf, ins)
    OBVIOUS
<1>11. /\ RisingEntries(lower) /\ RisingEntries(upper)
       /\ \A j \in 1 .. Len(lower) : lower[j].key < s
       /\ \A j \in 1 .. Len(upper) : s <= upper[j].key
       /\ \E j \in 1 .. Len(upper) : s = upper[j].key
       /\ 1 \in 1 .. Len(lower)
    BY <1>1, <1>5, <1>6, <1>7, <1>8, <1>10, LeafHalvesRise
<1>12. \A x : Occurs(x, lower) \/ Occurs(x, upper) => x.key \in rng[p]
  <2> TAKE x
  <2>1. Occurs(x, lower) \/ Occurs(x, upper) => x = ins \/ Occurs(x, leaf.entries)
    BY <1>1, <1>5, <1>10, LeafHalvesHold
  <2> QED
    BY <1>2, <1>4, <1>9, <2>1 DEF Occurs, LeafRange
<1>13. /\ \A j \in 1 .. Len(lower) : lower[j].key \in rng[p]
       /\ \A j \in 1 .. Len(upper) : upper[j].key \in rng[p]
    BY <1>12 DEF Occurs
<1>14. s \in rng[p]
    BY <1>11, <1>13
<1>15. LowerHalf(leaf, ins) \in LeafPage /\ UpperHalf(leaf, ins) \in LeafPage /\ s \in Key
    BY <1>1, <1>5, <1>10, LeafSplitTyped
<1> QED
    BY <1>1, <1>2, <1>3, <1>4, <1>5, <1>9, <1>10, <1>11, <1>13, <1>14, <1>15

LEMMA WriteLeafRanged ==
    ASSUME EndKey \notin Key, Typed, NEW lvl, NEW rng, Ranged(lvl, rng), NodesSorted,
           NEW c, NEW lev, Linked(c, lev), WriteLeaf
    PROVE  (\E lvl2, rng2 : Ranged(lvl2, rng2)') /\ NodesSorted'
<1>1. /\ pc = "leafNode" /\ pc' = "ascend" /\ path' = Front(path) /\ mode' = mode
      /\ rootPid' = rootPid /\ treeHeight' = treeHeight /\ splitkey' = splitkey
      /\ splitpid' = splitpid /\ disk \in Seq(Page)
      /\ WritePage(NodePid, [LowerHalf(LeafAt(NodePid), ins) EXCEPT !.next = splitpid])
    BY DEF WriteLeaf, head, Typed, TypeOK
<1>2. PICK p, q, s, leaf : p = NodePid /\ q = splitpid /\ s = splitkey /\ leaf = LeafAt(p)
    OBVIOUS
<1>3. s = SiblingKey(leaf, ins) /\ PageAt(q) = UpperHalf(leaf, ins)
    BY <1>1, <1>2 DEF Ranged, SplitOff, Linked, FrameLevels
<1>4. PICK lower, upper : lower = LowerHalf(leaf, ins) /\ upper = UpperHalf(leaf, ins)
    OBVIOUS
<1>5. /\ path # <<>> /\ pc \in Descending
      /\ p \in DOMAIN lvl /\ lvl[p] = 0 /\ p \in 1 .. EndPid - 1
      /\ q \in 1 .. EndPid - 1 /\ q \notin DOMAIN lvl
      /\ leaf \in LeafPage /\ ins \in Entry
      /\ LeafRange(lvl, rng, p)
      /\ lower \in LeafPage /\ upper \in LeafPage
      /\ RisingEntries(lower.entries)
      /\ \A j \in 1 .. Len(lower.entries) : lower.entries[j].key < s /\ lower.entries[j].key \in rng[p]
      /\ \A j \in 1 .. Len(upper.entries) : s <= upper.entries[j].key /\ upper.entries[j].key \in rng[p]
      /\ s \in rng[p] /\ 1 \in 1 .. Len(lower.entries)
    BY <1>1, <1>2, <1>3, <1>4, LeafToSplit
<1>6. PICK page : page = [lower EXCEPT !.next = q]
    OBVIOUS
<1>7. /\ page \in LeafPage /\ page \in Page /\ page.kind = "leaf" /\ page.next = q
      /\ page.entries = lower.entries
  <2>1. q \in Pid
    BY <1>1, <1>2 DEF Typed, TypeOK
  <2>2. page \in LeafPage /\ page.next = q /\ page.entries = lower.entries
    BY <1>5, <1>6, <2>1 DEF LeafPage
  <2> QED
    BY <2>2, LeafPageIs
<1>8. Cuts(lvl, rng, q, s, page)
  <2>1. \E k \in rng[p] : k < s
    BY <1>5
  <2>2. WritePage(NodePid, page)
    BY <1>1, <1>2, <1>4, <1>6
  <2>3. Fetched = {q}
    BY <1>1, <1>2 DEF Fetched
  <2> QED
    BY <1>1, <1>2, <1>5, <1>7, <2>1, <2>2, <2>3 DEF Cuts
<1>9. PICK lvl2, rng2 : lvl2 = Join(lvl, q, lvl[p]) /\ rng2 = Cut(rng, p, q, s)
    OBVIOUS
<1>10. /\ p # q /\ s \in Int /\ rng[p] \subseteq Int
       /\ \A r : r \in DOMAIN lvl2 <=> r \in DOMAIN lvl \/ r = q
       /\ At(lvl2, q, lvl[p])
       /\ \A k : k \in rng2[q] <=> k \in rng[p] /\ s <= k
       /\ \A k : k \in rng2[p] <=> k \in rng[p] /\ k < s
       /\ \A r \in DOMAIN lvl : lvl2[r] = lvl[r] /\ (r # p => rng2[r] = rng[r])
       /\ \A r, l : At(lvl, r, l) => At(lvl2, r, l)
       /\ PageAt(p)' = page /\ \A r : r # p => PageAt(r)' = PageAt(r)
    BY <1>2, <1>8, <1>9, CutPlaces
<1>11. LeafRange(lvl2, rng2, p)'
  <2>1. LeafAt(p)' = page
    BY <1>7, <1>10 DEF LeafAt
  <2>2. \A j \in 1 .. Len(page.entries) : page.entries[j].key \in rng2[p]
    BY <1>5, <1>7, <1>10
  <2>3. At(lvl2, q, 0)
    BY <1>5, <1>10
  <2>4. \A k \in rng2[p], m \in rng2[q] : k < m
    <3> TAKE k \in rng2[p], m \in rng2[q]
    <3>1. k \in Int /\ m \in Int /\ k < s /\ s <= m
      BY <1>10
    <3> QED
      BY <1>10, <3>1
  <2> QED
    BY <1>7, <1>10, <2>1, <2>2, <2>3, <2>4 DEF LeafRange
<1>12. LeafRange(lvl2, rng2, q)'
  <2>1. PageAt(q)' = upper /\ upper.kind = "leaf" /\ upper.next = leaf.next
    BY <1>3, <1>4, <1>5, <1>10, LeafPageIs, LeafSplitParts
  <2>2. LeafAt(q)' = upper
    BY <2>1 DEF LeafAt
  <2>3. \A j \in 1 .. Len(upper.entries) : upper.entries[j].key \in rng2[q]
    BY <1>5, <1>10
  <2>4. PICK next : next = leaf.next
    OBVIOUS
  <2>5. next # NoPid => /\ At(lvl, next, 0) /\ \A k \in rng[p], m \in rng[next] : k < m
    BY <1>2, <1>5, <2>4 DEF LeafRange
  <2>6. next # NoPid => rng2[next] \subseteq rng[next]
    BY <1>10, <2>5 DEF At
  <2>7. next # NoPid => /\ At(lvl2, next, 0) /\ \A k \in rng2[q], m \in rng2[next] : k < m
    BY <1>10, <2>5, <2>6
  <2> QED
    BY <2>1, <2>2, <2>3, <2>4, <2>7 DEF LeafRange
<1>13. PageRange(lvl2, rng2, p)' /\ PageRange(lvl2, rng2, q)'
    BY <1>5, <1>10, <1>11, <1>12 DEF PageRange, At
<1>14. Ranged(lvl2, rng2)'
    BY <1>2, <1>8, <1>9, <1>13, CutRanged
<1>15. NodesSorted'
  <2>1. Sorted(page)
    BY <1>5, <1>7 DEF Sorted
  <2>2. WritePage(p, page)
    BY <1>2, <1>8 DEF Cuts
  <2> QED
    BY <1>1, <1>5, <1>7, <2>1, <2>2, WriteSorted
<1> QED
    BY <1>14, <1>15

(***************************************************************************)
(* The split of a nonleaf                                                  *)
(***************************************************************************)

\* The halves of a full nonleaf and the new pointer: each finds the children
\* of its part of the range.
LEMMA NodeToSplit ==
    ASSUME EndKey \notin Key, Typed, NEW lvl, NEW rng, Ranged(lvl, rng), NodesSorted,
           pc \in {"nonleafSibling", "nonleafNode"}
    PROVE  LET node  == NonLeafAt(NodePid)
               lower == LowerNode(node, splitkey, splitpid)
               upper == UpperNode(node, splitkey, splitpid)
               mid   == MidKey(node, splitkey, splitpid)
           IN  /\ mid \in rng[NodePid] /\ mid \in Int
               /\ lower \in Page /\ upper \in Page /\ Branches(lower) /\ Branches(upper)
               /\ Rising(lower.keys) /\ Rising(upper.keys)
               /\ 1 \in 1 .. Len(lower.keys)
               /\ \A j \in 1 .. Len(lower.keys) : lower.keys[j] \in rng[NodePid] /\ lower.keys[j] < mid
               /\ \A j \in 1 .. Len(upper.keys) : upper.keys[j] \in rng[NodePid] /\ mid < upper.keys[j]
               /\ \A j \in 1 .. Len(lower.pids) :
                    /\ At(lvl, lower.pids[j], lvl[NodePid] - 1)
                    /\ \A k \in Int : k \in rng[lower.pids[j]] <=>
                         k \in rng[NodePid] /\ k < mid /\ NonLeafSlot(lower.keys, k) = j
               /\ \A j \in 1 .. Len(upper.pids) :
                    /\ At(lvl, upper.pids[j], lvl[NodePid] - 1)
                    /\ \A k \in Int : k \in rng[upper.pids[j]] <=>
                         k \in rng[NodePid] /\ mid <= k /\ NonLeafSlot(upper.keys, k) = j
<1>1. path # <<>> /\ pc \in {"ascend", "nonleafSibling", "nonleafNode"}
    BY DEF Typed, Running
<1>2. PICK p, node, s, sp : p = NodePid /\ node = NonLeafAt(NodePid) /\ s = splitkey /\ sp = splitpid
    OBVIOUS
<1>3. PICK all : all = NonLeafPut(node, s, sp)
    OBVIOUS
<1>4. PICK lower, upper, mid : /\ lower = LowerNode(node, s, sp)
                               /\ upper = UpperNode(node, s, sp)
                               /\ mid = MidKey(node, s, sp)
    OBVIOUS
<1>5. PICK ks, ps, n, h : ks = all.keys /\ ps = all.pids /\ n = Len(all.keys) /\ h = Half(all.keys)
    OBVIOUS
<1>6. node \in NonLeafPage /\ Branches(node) /\ s \in Key /\ sp \in Pid
    BY <1>1, <1>2, NodeToFill
<1>7. /\ Rising(ks) /\ n = Len(ks)
      /\ \A j \in 1 .. n : ks[j] \in rng[p]
      /\ \A j \in 1 .. Len(ps) :
           /\ At(lvl, ps[j], lvl[p] - 1)
           /\ \A k \in Int : k \in rng[ps[j]] <=> k \in rng[p] /\ NonLeafSlot(ks, k) = j
    BY <1>1, <1>2, <1>3, <1>5, PutRange
<1>8. /\ ks \in Seq(Key) /\ ps \in Seq(Pid)
      /\ n = Len(node.keys) + 1 /\ Len(ps) = n + 1
      /\ n \in Nat /\ h \in Nat /\ 1 <= h /\ h < n
      /\ mid = ks[h + 1]
      /\ Branches(lower) /\ Len(lower.keys) = h
      /\ \A j \in 1 .. h : lower.keys[j] = ks[j]
      /\ \A j \in 1 .. h + 1 : lower.pids[j] = ps[j]
      /\ upper.keys \in Seq(Key)
      /\ Len(upper.keys) = n - h - 1 /\ Len(upper.pids) = n - h
      /\ \A j \in 1 .. n - h - 1 : upper.keys[j] = ks[h + 1 + j]
      /\ \A j \in 1 .. n - h : upper.pids[j] = ps[h + 1 + j]
      /\ n >= 3 => Branches(upper)
  <2>1. /\ all.keys \in Seq(Key) /\ all.pids \in Seq(Pid)
        /\ n = Len(node.keys) + 1 /\ Len(all.pids) = n + 1
        /\ n \in Nat /\ h \in Nat /\ 1 <= h /\ h < n
        /\ mid = all.keys[h + 1]
    BY <1>3, <1>4, <1>5, <1>6, NonLeafSplitParts
  <2>2. /\ Branches(lower) /\ Len(lower.keys) = h
        /\ \A j \in 1 .. h : lower.keys[j] = all.keys[j]
        /\ \A j \in 1 .. h + 1 : lower.pids[j] = all.pids[j]
    BY <1>3, <1>4, <1>5, <1>6, NonLeafSplitParts, ZenonT(60)
  <2>3. /\ upper.keys \in Seq(Key)
        /\ Len(upper.keys) = n - h - 1
        /\ \A j \in 1 .. n - h - 1 : upper.keys[j] = all.keys[h + 1 + j]
    BY <1>3, <1>4, <1>5, <1>6, NonLeafSplitParts, ZenonT(60)
  <2>4. /\ Len(upper.pids) = n - h
        /\ \A j \in 1 .. n - h : upper.pids[j] = all.pids[h + 1 + j]
    BY <1>3, <1>4, <1>5, <1>6, NonLeafSplitParts, ZenonT(60)
  <2>5. n >= 3 => Branches(upper)
    BY <1>3, <1>4, <1>5, <1>6, NonLeafSplitParts
  <2> QED
    BY <1>5, <2>1, <2>2, <2>3, <2>4, <2>5
<1>9. NonLeafIsFull(node)
    BY <1>2 DEF Ranged, SplitOff
<1>10. n >= 3
  <2>1. NonLeafKeyCount(node) = Len(node.keys)
    <3>1. Len(node.keys) \in Nat /\ Len(node.pids) = Len(node.keys) + 1 /\ node.pids # <<>>
      BY <1>6, EmptySeq DEF Branches, NonLeafPage
    <3> QED
      BY <3>1 DEF NonLeafKeyCount
  <2>2. Len(node.keys) = MAX_NONLEAF_KEY_COUNT
    BY <1>9, <2>1 DEF NonLeafIsFull
  <2>3. n = MAX_NONLEAF_KEY_COUNT + 1
    BY <1>8, <2>2
  <2>4. \A m \in Nat \ {0, 1} : m + 1 >= 3
    OBVIOUS
  <2> QED
    BY <2>3, <2>4, NonLeafCapacity
<1>11. lower \in NonLeafPage /\ upper \in NonLeafPage
  <2>1. node \in NonLeafNode
    BY <1>6 DEF NonLeafNode
  <2> QED
    BY <1>4, <1>6, <1>9, <2>1, NonLeafSplitTyped
<1>12. lower \in Page /\ upper \in Page /\ lower.keys \in Seq(Key) /\ Len(lower.pids) = h + 1
    BY <1>8, <1>11 DEF Page, NonLeafPage, Branches
<1>13. /\ mid \in Key /\ Rising(lower.keys) /\ Rising(upper.keys)
       /\ \A j \in 1 .. h : lower.keys[j] < mid
       /\ \A j \in 1 .. n - h - 1 : mid < upper.keys[j]
       /\ \A k \in Int : k < mid =>
            /\ NonLeafSlot(ks, k) = NonLeafSlot(lower.keys, k)
            /\ NonLeafSlot(ks, k) \in 1 .. h + 1
       /\ \A k \in Int : mid <= k =>
            /\ NonLeafSlot(ks, k) = h + 1 + NonLeafSlot(upper.keys, k)
            /\ NonLeafSlot(upper.keys, k) \in 1 .. n - h
  <2>1. Len(ks) = n /\ h < Len(ks) /\ Len(upper.keys) = Len(ks) - h - 1 /\ mid = ks[h + 1]
    BY <1>7, <1>8
  <2>2. \A j \in 1 .. Len(ks) - h - 1 : upper.keys[j] = ks[h + 1 + j]
    BY <1>7, <1>8
  <2>3. PICK lks, uks : lks = lower.keys /\ uks = upper.keys
    OBVIOUS
  <2>4. /\ ks \in Seq(Key) /\ Rising(ks) /\ h \in Nat /\ h < Len(ks)
        /\ lks \in Seq(Key) /\ Len(lks) = h /\ \A j \in 1 .. h : lks[j] = ks[j]
        /\ uks \in Seq(Key) /\ Len(uks) = Len(ks) - h - 1
        /\ \A j \in 1 .. Len(ks) - h - 1 : uks[j] = ks[h + 1 + j]
    BY <1>7, <1>8, <1>12, <2>1, <2>2, <2>3
  <2>5. /\ ks[h + 1] \in Key /\ Rising(lks) /\ Rising(uks)
        /\ \A j \in 1 .. h : lks[j] < ks[h + 1]
        /\ \A j \in 1 .. Len(ks) - h - 1 : ks[h + 1] < uks[j]
        /\ \A k \in Int : k < ks[h + 1] =>
             /\ NonLeafSlot(ks, k) = NonLeafSlot(lks, k)
             /\ NonLeafSlot(ks, k) \in 1 .. h + 1
        /\ \A k \in Int : ks[h + 1] <= k =>
             /\ NonLeafSlot(ks, k) = h + 1 + NonLeafSlot(uks, k)
             /\ NonLeafSlot(uks, k) \in 1 .. Len(ks) - h
    BY <2>4, SplitSlots
  <2> QED
    BY <2>1, <2>3, <2>5
<1>14. mid \in Int
    BY <1>13, KeysAreIntegers
<1>15. \A k \in Int : mid <= k <=> ~ (k < mid)
    BY <1>14
<1>16. mid \in rng[p] /\ 1 \in 1 .. h
  <2>1. h + 1 \in 1 .. n /\ 1 \in 1 .. h
    BY <1>8
  <2> QED
    BY <1>7, <1>8, <2>1
<1>17. /\ \A j \in 1 .. h : lower.keys[j] \in rng[p]
       /\ \A j \in 1 .. n - h - 1 : upper.keys[j] \in rng[p]
  <2>1. \A j \in 1 .. h : j \in 1 .. n
    BY <1>8
  <2>2. \A j \in 1 .. n - h - 1 : h + 1 + j \in 1 .. n
    BY <1>8
  <2> QED
    BY <1>7, <1>8, <2>1, <2>2
<1>18. ASSUME NEW j \in 1 .. h + 1
       PROVE  /\ At(lvl, lower.pids[j], lvl[p] - 1)
              /\ \A k \in Int : k \in rng[lower.pids[j]] <=>
                   k \in rng[p] /\ k < mid /\ NonLeafSlot(lower.keys, k) = j
  <2>1. j \in 1 .. Len(ps) /\ lower.pids[j] = ps[j]
    BY <1>8
  <2>2. ASSUME NEW k \in Int
        PROVE  NonLeafSlot(ks, k) = j <=> k < mid /\ NonLeafSlot(lower.keys, k) = j
    <3>1. CASE k < mid
      BY <1>13, <3>1
    <3>2. CASE mid <= k
      <4>1. PICK t : t = NonLeafSlot(upper.keys, k)
        OBVIOUS
      <4>2. NonLeafSlot(ks, k) = h + 1 + t /\ t \in 1 .. n - h
        BY <1>13, <3>2, <4>1
      <4>3. h + 1 + t # j
        BY <1>8, <4>2
      <4> QED
        BY <1>15, <3>2, <4>2, <4>3
    <3> QED
      BY <1>15, <3>1, <3>2
  <2> QED
    BY <1>7, <2>1, <2>2
<1>19. ASSUME NEW j \in 1 .. n - h
       PROVE  /\ At(lvl, upper.pids[j], lvl[p] - 1)
              /\ \A k \in Int : k \in rng[upper.pids[j]] <=>
                   k \in rng[p] /\ mid <= k /\ NonLeafSlot(upper.keys, k) = j
  <2>1. PICK i : i = h + 1 + j
    OBVIOUS
  <2>2. i \in 1 .. Len(ps) /\ upper.pids[j] = ps[i]
    BY <1>8, <2>1
  <2>3. ASSUME NEW k \in Int
        PROVE  NonLeafSlot(ks, k) = i <=> mid <= k /\ NonLeafSlot(upper.keys, k) = j
    <3>1. CASE k < mid
      <4>1. PICK t : t = NonLeafSlot(ks, k)
        OBVIOUS
      <4>2. t \in 1 .. h + 1
        BY <1>13, <3>1, <4>1
      <4>3. t # i
        BY <1>8, <2>1, <4>2
      <4> QED
        BY <1>15, <3>1, <4>1, <4>3
    <3>2. CASE mid <= k
      <4>1. PICK t : t = NonLeafSlot(upper.keys, k)
        OBVIOUS
      <4>2. NonLeafSlot(ks, k) = h + 1 + t /\ t \in 1 .. n - h
        BY <1>13, <3>2, <4>1
      <4>3. h + 1 + t = i <=> t = j
        BY <1>8, <2>1, <4>2
      <4> QED
        BY <3>2, <4>1, <4>2, <4>3
    <3> QED
      BY <1>15, <3>1, <3>2
  <2> QED
    BY <1>7, <2>2, <2>3
<1>20. Branches(lower) /\ Branches(upper)
    BY <1>8, <1>10
<1>21. /\ \A j \in 1 .. Len(lower.pids) :
            /\ At(lvl, lower.pids[j], lvl[p] - 1)
            /\ \A k \in Int : k \in rng[lower.pids[j]] <=>
                 k \in rng[p] /\ k < mid /\ NonLeafSlot(lower.keys, k) = j
       /\ \A j \in 1 .. Len(upper.pids) :
            /\ At(lvl, upper.pids[j], lvl[p] - 1)
            /\ \A k \in Int : k \in rng[upper.pids[j]] <=>
                 k \in rng[p] /\ mid <= k /\ NonLeafSlot(upper.keys, k) = j
    BY <1>8, <1>12, <1>18, <1>19
<1>22. /\ 1 \in 1 .. Len(lower.keys)
       /\ \A j \in 1 .. Len(lower.keys) : lower.keys[j] \in rng[p] /\ lower.keys[j] < mid
       /\ \A j \in 1 .. Len(upper.keys) : upper.keys[j] \in rng[p] /\ mid < upper.keys[j]
    BY <1>8, <1>13, <1>16, <1>17
<1> QED
    BY <1>2, <1>4, <1>12, <1>13, <1>14, <1>16, <1>20, <1>21, <1>22

LEMMA WriteNonLeafRanged ==
    ASSUME EndKey \notin Key, Typed, NEW lvl, NEW rng, Ranged(lvl, rng), NodesSorted,
           WriteNonLeaf
    PROVE  (\E lvl2, rng2 : Ranged(lvl2, rng2)') /\ NodesSorted'
<1>1. /\ pc = "nonleafNode" /\ pc' = "ascend" /\ path' = Front(path) /\ mode' = mode
      /\ rootPid' = rootPid /\ treeHeight' = treeHeight
      /\ splitkey' = MidKey(NonLeafAt(NodePid), splitkey, splitpid)
      /\ splitpid' = newPid /\ disk \in Seq(Page) /\ path # <<>>
      /\ WritePage(NodePid, LowerNode(NonLeafAt(NodePid), splitkey, splitpid))
    BY DEF WriteNonLeaf, head, Typed, TypeOK, Running
<1>2. pc \in Descending /\ pc \in Ascending
    BY <1>1 DEF Descending, Ascending
<1>3. PICK p, q, s : p = NodePid /\ q = newPid /\ s = MidKey(NonLeafAt(NodePid), splitkey, splitpid)
    OBVIOUS
<1>4. PICK lower, upper : /\ lower = LowerNode(NonLeafAt(NodePid), splitkey, splitpid)
                          /\ upper = UpperNode(NonLeafAt(NodePid), splitkey, splitpid)
    OBVIOUS
<1>5. q \in 1 .. EndPid - 1 /\ q \notin DOMAIN lvl /\ PageAt(q) = upper
    BY <1>1, <1>3, <1>4 DEF Ranged, SplitOff
<1>6. p \in DOMAIN lvl /\ lvl[p] \in Nat \ {0} /\ p \in 1 .. EndPid - 1
    BY <1>1, <1>2, <1>3, NodePlace, NodeToFill
<1>7. /\ s \in rng[p] /\ s \in Int
      /\ lower \in Page /\ Branches(lower) /\ Branches(upper) /\ Rising(lower.keys)
      /\ 1 \in 1 .. Len(lower.keys)
      /\ \A j \in 1 .. Len(lower.keys) : lower.keys[j] \in rng[p] /\ lower.keys[j] < s
      /\ \A j \in 1 .. Len(upper.keys) : upper.keys[j] \in rng[p] /\ s < upper.keys[j]
      /\ \A j \in 1 .. Len(lower.pids) :
           /\ At(lvl, lower.pids[j], lvl[p] - 1)
           /\ \A k \in Int : k \in rng[lower.pids[j]] <=>
                k \in rng[p] /\ k < s /\ NonLeafSlot(lower.keys, k) = j
      /\ \A j \in 1 .. Len(upper.pids) :
           /\ At(lvl, upper.pids[j], lvl[p] - 1)
           /\ \A k \in Int : k \in rng[upper.pids[j]] <=>
                k \in rng[p] /\ s <= k /\ NonLeafSlot(upper.keys, k) = j
    BY <1>1, <1>3, <1>4, NodeToSplit
<1>8. Cuts(lvl, rng, q, s, lower)
  <2>1. Fetched = {q}
    BY <1>1, <1>3 DEF Fetched, Splitting
  <2> QED
    BY <1>1, <1>2, <1>3, <1>4, <1>5, <1>7, <2>1 DEF Cuts
<1>9. PICK lvl2, rng2 : lvl2 = Join(lvl, q, lvl[p]) /\ rng2 = Cut(rng, p, q, s)
    OBVIOUS
<1>10. /\ p # q /\ rng[p] \subseteq Int /\ At(lvl2, q, lvl[p])
       /\ \A k : k \in rng2[q] <=> k \in rng[p] /\ s <= k
       /\ \A k : k \in rng2[p] <=> k \in rng[p] /\ k < s
       /\ \A r \in DOMAIN lvl : lvl2[r] = lvl[r] /\ (r # p => rng2[r] = rng[r])
       /\ \A r, l : At(lvl, r, l) => At(lvl2, r, l)
       /\ PageAt(p)' = lower /\ \A r : r # p => PageAt(r)' = PageAt(r)
       /\ \A k, l : IsLate(rng2, k, l)' <=> l = lvl[p] /\ k \in rng2[q]
    BY <1>3, <1>8, <1>9, CutPlaces
<1>11. \A k : ~ IsLate(rng2, k, lvl[p] - 1)'
  <2>1. lvl[p] - 1 # lvl[p]
    BY <1>6
  <2> QED
    BY <1>10, <2>1
<1>12. \A r : At(lvl, r, lvl[p] - 1) => At(lvl2, r, lvl[p] - 1) /\ rng2[r] = rng[r]
  <2>1. lvl[p] - 1 # lvl[p]
    BY <1>6
  <2> QED
    BY <1>10, <2>1 DEF At
<1>13. NodeRange(lvl2, rng2, p)'
  <2>1. \A k : Turn(p, k)' = NonLeafSlot(lower.keys, k)
    BY <1>10 DEF Turn
  <2>2. lvl2[p] = lvl[p]
    BY <1>6, <1>10
  <2>3. \A j \in 1 .. Len(lower.keys) : lower.keys[j] \in rng2[p]
    BY <1>7, <1>10
  <2>4. \A i \in 1 .. Len(lower.pids) :
           /\ At(lvl2, lower.pids[i], lvl[p] - 1)
           /\ \A k \in Int : k \in rng2[lower.pids[i]] <=> k \in rng2[p] /\ NonLeafSlot(lower.keys, k) = i
    BY <1>7, <1>10, <1>12
  <2> HIDE DEF IsLate, Turn
  <2> QED
    BY <1>7, <1>10, <1>11, <2>1, <2>2, <2>3, <2>4 DEF NodeRange
<1>14. NodeRange(lvl2, rng2, q)'
  <2>1. PageAt(q)' = upper
    BY <1>5, <1>10
  <2>2. \A k : Turn(q, k)' = NonLeafSlot(upper.keys, k)
    BY <2>1 DEF Turn
  <2>3. lvl2[q] = lvl[p]
    BY <1>10 DEF At
  <2>4. \A j \in 1 .. Len(upper.keys) : upper.keys[j] \in rng2[q]
    <3> TAKE j \in 1 .. Len(upper.keys)
    <3>1. upper.keys[j] \in Int /\ s < upper.keys[j] /\ upper.keys[j] \in rng[p]
      BY <1>7, <1>10
    <3>2. s <= upper.keys[j]
      BY <1>7, <3>1
    <3> QED
      BY <1>10, <3>1, <3>2
  <2>5. \A i \in 1 .. Len(upper.pids) :
           /\ At(lvl2, upper.pids[i], lvl[p] - 1)
           /\ \A k \in Int : k \in rng2[upper.pids[i]] <=> k \in rng2[q] /\ NonLeafSlot(upper.keys, k) = i
    BY <1>7, <1>10, <1>12
  <2> HIDE DEF IsLate, Turn
  <2> QED
    BY <1>7, <1>11, <2>1, <2>2, <2>3, <2>4, <2>5 DEF NodeRange
<1>15. PageRange(lvl2, rng2, p)' /\ PageRange(lvl2, rng2, q)'
    BY <1>6, <1>10, <1>13, <1>14 DEF PageRange, At
<1>16. Ranged(lvl2, rng2)'
    BY <1>3, <1>8, <1>9, <1>15, CutRanged
<1>17. NodesSorted'
  <2>1. Sorted(lower)
    BY <1>7 DEF Sorted, Branches
  <2>2. WritePage(p, lower)
    BY <1>3, <1>8 DEF Cuts
  <2> QED
    BY <1>1, <1>6, <1>7, <2>1, <2>2, WriteSorted
<1> QED
    BY <1>16, <1>17

(***************************************************************************)
(* All steps                                                               *)
(***************************************************************************)

\* The writes of the new halves, of a new root and of the metadata.
LEMMA OtherWritesSorted ==
    ASSUME EndKey \notin Key, Typed, NEW lvl, NEW rng, Ranged(lvl, rng), NodesSorted,
           NEW c, NEW lev, Linked(c, lev),
           \/ CommitFirst \/ WriteLeafSibling \/ WriteNonLeafSibling
           \/ WriteNewRoot \/ CommitRoot
    PROVE  NodesSorted'
<1>1. SUFFICES \E p, page : page \in Page /\ Sorted(page) /\ WritePage(p, page)
  <2>1. disk \in Seq(Page)
    BY DEF Typed, TypeOK
  <2> QED
    BY <2>1, WriteSorted
<1>2. \A height \in Nat \ {0} : \A p, page :
          (rootPid \in Pid /\ page = Metadata(rootPid, height) /\ WritePage(p, page))
              => page \in Page /\ Sorted(page)
    BY DEF Metadata, Page, MetaPage, Sorted
<1>3. CASE CommitFirst
  <2>1. treeHeight \in Nat \ {0} /\ rootPid \in Pid
        /\ WritePage(0, Metadata(rootPid, treeHeight))
    BY <1>3 DEF CommitFirst, Typed, TypeOK, Running
  <2> QED
    BY <1>2, <2>1
<1>4. CASE CommitRoot
  <2>1. /\ treeHeight \in Nat \ {0} /\ treeHeight' = treeHeight + 1 /\ rootPid \in Pid
        /\ WritePage(0, Metadata(rootPid, treeHeight'))
    BY <1>4 DEF CommitRoot, Typed, TypeOK, Running
  <2>2. treeHeight' \in Nat \ {0}
    BY <2>1
  <2> QED
    BY <1>2, <2>1, <2>2
<1>5. CASE WriteLeafSibling
  <2>1. pc = "leafSibling" /\ WritePage(splitpid, UpperHalf(LeafAt(NodePid), ins))
    BY <1>5 DEF WriteLeafSibling
  <2>2. PICK page : page = UpperHalf(LeafAt(NodePid), ins)
    OBVIOUS
  <2>3. page \in LeafPage /\ RisingEntries(page.entries)
    BY <2>1, <2>2, LeafToSplit
  <2>4. page \in Page /\ Sorted(page)
    BY <2>3, LeafPageIs DEF Sorted
  <2> QED
    BY <2>1, <2>2, <2>4
<1>6. CASE WriteNonLeafSibling
  <2>1. pc = "nonleafSibling"
        /\ WritePage(newPid, UpperNode(NonLeafAt(NodePid), splitkey, splitpid))
    BY <1>6 DEF WriteNonLeafSibling
  <2>2. PICK page : page = UpperNode(NonLeafAt(NodePid), splitkey, splitpid)
    OBVIOUS
  <2>3. page \in Page /\ Branches(page) /\ Rising(page.keys)
    BY <2>1, <2>2, NodeToSplit
  <2>4. Sorted(page)
    BY <2>3 DEF Sorted, Branches
  <2> QED
    BY <2>1, <2>2, <2>3, <2>4
<1>7. CASE WriteNewRoot
  <2>1. /\ WritePage(newPid, NewRoot(rootPid, splitkey, splitpid))
        /\ rootPid \in Pid /\ splitpid \in Pid /\ splitkey \in Key
    BY <1>7 DEF WriteNewRoot, Typed, TypeOK, Running
  <2>2. PICK page, key, pid1, pid2 : /\ page = NewRoot(pid1, key, pid2) /\ key = splitkey
                                     /\ pid1 = rootPid /\ pid2 = splitpid
    OBVIOUS
  <2>3. /\ page.kind = "nonleaf" /\ page.keys = <<key>> /\ page.pids = <<pid1, pid2>>
        /\ page = [kind |-> "nonleaf", keys |-> <<key>>, pids |-> <<pid1, pid2>>]
        /\ key \in Key /\ pid1 \in Pid /\ pid2 \in Pid
    BY <2>1, <2>2 DEF NewRoot, NonLeaf
  <2>4. page \in Page
    <3>1. PICK ks, ps : ks = <<key>> /\ ps = <<pid1, pid2>>
      OBVIOUS
    <3>2. ks \in Seq(Key) /\ ps \in Seq(Pid) /\ Len(ps) = Len(ks) + 1
      BY <2>3, <3>1
    <3>3. page = [kind |-> "nonleaf", keys |-> ks, pids |-> ps]
      BY <2>3, <3>1
    <3> QED
      BY <3>2, <3>3 DEF Page, NonLeafPage
  <2>5. Sorted(page)
    BY <2>3 DEF Sorted, Rising
  <2> QED
    BY <2>1, <2>2, <2>4, <2>5
<1> QED
    BY <1>3, <1>4, <1>5, <1>6, <1>7

LEMMA InsertStepOrdered ==
    ASSUME EndKey \notin Key, Typed, MetadataKept, NEW lvl, NEW rng, Ranged(lvl, rng),
           NodesSorted, NEW c, NEW lev, Linked(c, lev), InsertStep
    PROVE  NodesSorted' /\ \E lvl2, rng2 : Ranged(lvl2, rng2)'
<1>1. disk \in Seq(Page)
    BY DEF Typed, TypeOK
<1>2. CASE FetchFirstRoot
    BY <1>1, <1>2, FetchFirstRootRanged, FetchSorted DEF FetchFirstRoot
<1>3. CASE CommitFirst
    BY <1>3, CommitFirstRanged, OtherWritesSorted
<1>4. CASE Descend
  <2>1. NodesSorted'
    BY <1>4 DEF Descend, file, NodesSorted, EndPid
  <2> QED
    BY <1>4, <2>1, DescendRanged
<1>5. CASE OverflowInInsert
  <2>1. disk' = disk /\ pc = "descend" /\ Forget
    BY <1>5 DEF OverflowInInsert
  <2>2. mode # "none" /\ pc \notin Ascending /\ pc \notin Splitting /\ ~ CommitPending
    BY <2>1 DEF Typed, Running, Ascending, Splitting, CommitPending
  <2>3. NodesSorted'
    BY <2>1 DEF NodesSorted, EndPid
  <2> QED
    BY <2>1, <2>2, <2>3, ForgetRanged
<1>6. CASE InsertInLeaf
    BY <1>6, InsertInLeafRanged
<1>7. CASE FetchLeafSibling
    BY <1>1, <1>7, FetchLeafSiblingRanged, FetchSorted DEF FetchLeafSibling
<1>8. CASE WriteLeafSibling
    BY <1>8, WriteLeafSiblingRanged, OtherWritesSorted
<1>9. CASE WriteLeaf
    BY <1>9, WriteLeafRanged
<1>10. CASE InsertInNonLeaf
    BY <1>10, InsertInNonLeafRanged
<1>11. CASE FetchNonLeafSibling
    BY <1>1, <1>11, FetchNonLeafSiblingRanged, FetchSorted DEF FetchNonLeafSibling
<1>12. CASE WriteNonLeafSibling
    BY <1>12, WriteNonLeafSiblingRanged, OtherWritesSorted
<1>13. CASE WriteNonLeaf
    BY <1>13, WriteNonLeafRanged
<1>14. CASE FetchNewRoot
    BY <1>1, <1>14, FetchNewRootRanged, FetchSorted DEF FetchNewRoot
<1>15. CASE WriteNewRoot
    BY <1>15, WriteNewRootRanged, OtherWritesSorted
<1>16. CASE CommitRoot
    BY <1>16, CommitRootRanged, OtherWritesSorted
<1> QED
    BY <1>2, <1>3, <1>4, <1>5, <1>6, <1>7, <1>8, <1>9, <1>10, <1>11, <1>12, <1>13, <1>14,
       <1>15, <1>16 DEF InsertStep

\* A step that changes neither the file, nor the object, nor the frames.
LEMMA StandStill ==
    ASSUME Typed, NEW lvl, NEW rng, Ranged(lvl, rng), UNCHANGED vars
    PROVE  Ranged(lvl, rng)'
<1>1. /\ disk' = disk /\ mode' = mode /\ rootPid' = rootPid /\ treeHeight' = treeHeight
      /\ pc' = pc /\ path' = path /\ ins' = ins /\ splitkey' = splitkey
      /\ splitpid' = splitpid /\ newPid' = newPid /\ disk \in Seq(Page)
    BY DEF vars, file, head, frame, Typed, TypeOK
<1>2. \A l, k : IsLate(rng, k, l)' <=> IsLate(rng, k, l)
    BY <1>1, LateStays
<1>3. /\ Places(lvl, rng)' /\ \A p \in DOMAIN lvl : PageRange(lvl, rng, p)'
      /\ \A root, h : RootRange(lvl, rng, root, h) => RootRange(lvl, rng, root, h)'
    BY <1>1, <1>2, SameFileRanges
<1>4. Rooted(lvl, rng)'
    BY <1>1, <1>3 DEF Rooted, Ranged
<1>5. NodePid' = NodePid /\ \A p : PageAt(p)' = PageAt(p)
    BY <1>1 DEF NodePid, PageAt, EndPid
<1>6. OnPath(lvl, rng)'
    BY <1>1, <1>5 DEF OnPath, Ranged, Sought
<1>7. /\ LeafAt(NodePid)' = LeafAt(NodePid) /\ NonLeafAt(NodePid)' = NonLeafAt(NodePid)
      /\ PageAt(newPid)' = PageAt(newPid) /\ EndPid' = EndPid
    BY <1>1 DEF LeafAt, NonLeafAt, PageAt, NodePid, EndPid
<1>8. \A k : InHome(rng, k)' <=> InHome(rng, k)
    BY <1>1 DEF InHome, Turn, PageAt, NodePid, EndPid
<1>9. SplitLevel' = SplitLevel
    BY <1>1 DEF SplitLevel
<1>10. SplitOff(lvl, rng)'
  <2>1. SplitOff(lvl, rng)
    BY DEF Ranged
  <2> QED
    BY <1>1, <1>7, <1>8, <1>9, <2>1 DEF SplitOff
<1>11. Covered(lvl)'
    BY <1>1, <1>7 DEF Ranged, Covered, Fetched
<1> QED
    BY <1>3, <1>4, <1>6, <1>10, <1>11 DEF Ranged

LEMMA NextOrdered ==
    ASSUME EndKey \notin Key, Typed, MetadataKept, NEW c, NEW lev, Linked(c, lev),
           NEW lvl, NEW rng, Ranged(lvl, rng), NodesSorted, [Next]_vars, ~ Crash
    PROVE  NodesSorted' /\ \E lvl2, rng2 : Ranged(lvl2, rng2)'
<1>1. disk \in Seq(Page)
    BY DEF Typed, TypeOK
<1>2. disk' = disk => NodesSorted'
    BY DEF NodesSorted, EndPid
<1>3. ASSUME NEW m \in {"r", "w"}, Open(m)
      PROVE  NodesSorted' /\ \E lvl2, rng2 : Ranged(lvl2, rng2)'
  <2>1. disk' = disk
    BY <1>3 DEF Open
  <2> QED
    BY <1>2, <1>3, <2>1, OpenRanged
<1>4. ASSUME mode # "none", pc \in {"idle", "scan", "scanEnd"}, Forget, disk' = disk
      PROVE  NodesSorted' /\ \E lvl2, rng2 : Ranged(lvl2, rng2)'
  <2>1. pc \notin Ascending /\ pc \notin Splitting /\ ~ CommitPending
    BY <1>4 DEF Ascending, Splitting, CommitPending
  <2> QED
    BY <1>2, <1>4, <2>1, ForgetRanged
<1>5. CASE Close
    BY <1>4, <1>5 DEF Close
<1>6. ASSUME NEW e \in Entry, Insert(e) \/ FirstInsert(e)
      PROVE  NodesSorted' /\ \E lvl2, rng2 : Ranged(lvl2, rng2)'
  <2>1. CASE Insert(e)
    <3>1. disk' = disk
      BY <2>1 DEF Insert, file
    <3> QED
      BY <1>2, <2>1, <3>1, InsertRanged
  <2>2. CASE FirstInsert(e)
    BY <1>1, <2>2, FirstInsertRanged, FetchSorted DEF FirstInsert
  <2> QED
    BY <1>6, <2>1, <2>2
<1>7. CASE InsertStep
    BY <1>7, InsertStepOrdered
<1>8. ASSUME NEW key \in Probes, Locate(key) \/ OverflowInLocate(key)
      PROVE  NodesSorted' /\ \E lvl2, rng2 : Ranged(lvl2, rng2)'
  <2>1. CASE Locate(key)
    <3>1. /\ disk' = disk /\ mode # "none" /\ mode' = mode /\ rootPid' = rootPid
          /\ treeHeight' = treeHeight /\ pc = "idle" /\ pc' = "scan"
      BY <2>1 DEF Locate, file, head
    <3> QED
      BY <1>2, <3>1, ScanRanged
  <2>2. CASE OverflowInLocate(key)
    BY <1>4, <2>2 DEF OverflowInLocate
  <2> QED
    BY <1>8, <2>1, <2>2
<1>9. CASE ReadForward
  <2>1. pc = "scan" /\ pc' \in {"idle", "scan", "scanEnd"}
    BY <1>9 DEF ReadForward
  <2>2. /\ disk' = disk /\ mode # "none" /\ mode' = mode /\ rootPid' = rootPid
        /\ treeHeight' = treeHeight
    BY <1>9, <2>1 DEF ReadForward, file, head, Typed, Running
  <2> QED
    BY <1>2, <2>1, <2>2, ScanRanged
<1>10. CASE UNCHANGED vars
  <2>1. disk' = disk
    BY <1>10 DEF vars, file
  <2> QED
    BY <1>2, <1>10, <2>1, StandStill
<1> QED
    BY <1>3, <1>5, <1>6, <1>7, <1>8, <1>9, <1>10 DEF Next

\* An empty file has an empty tree.
LEMMA InitOrdered == Init => Ordered
<1> SUFFICES ASSUME Init PROVE NodesSorted /\ \E lvl, rng : Ranged(lvl, rng)
    BY DEF Ordered
<1>1. EndPid = 0 /\ pc = "idle" /\ mode = "none" /\ disk = <<>>
    BY DEF Init, EndPid
<1>2. NodesSorted
    BY <1>1 DEF NodesSorted
<1>3. PICK f : f = [p \in {} |-> 0]
    OBVIOUS
<1>4. \A p : p \notin DOMAIN f
    BY <1>3
<1>5. Places(f, f)
    BY <1>1, <1>4 DEF Places
<1>6. Rooted(f, f) /\ OnPath(f, f) /\ SplitOff(f, f)
    BY <1>1 DEF Rooted, OnPath, SplitOff, Ascending, Descending
<1>7. Covered(f)
  <2>1. 1 .. EndPid - 1 = {}
    BY <1>1
  <2> QED
    BY <2>1 DEF Covered
<1>8. Ranged(f, f)
    BY <1>4, <1>5, <1>6, <1>7 DEF Ranged
<1> QED
    BY <1>2, <1>8

\* A crash is never forgotten.
LEMMA NotCrashed ==
    ASSUME Typed, [Next]_vars, crashes' = 0
    PROVE  ~ Crash /\ crashes = 0
<1>1. crashes \in Nat
    BY DEF Typed, TypeOK
<1>2. ~ Crash
    BY <1>1 DEF Crash
<1> QED
    BY <1>1, <1>2 DEF Next, InsertStep, Open, Close, Insert, FirstInsert, Locate, OverflowInLocate,
       ReadForward, FetchFirstRoot, CommitFirst, Descend, OverflowInInsert, InsertInLeaf,
       FetchLeafSibling, WriteLeafSibling, WriteLeaf, InsertInNonLeaf, FetchNonLeafSibling,
       WriteNonLeafSibling, WriteNonLeaf, FetchNewRoot, WriteNewRoot, CommitRoot, ghost, vars

LEMMA NextKeepsOrder ==
    ASSUME EndKey \notin Key, Chained, MetadataKept, Ordered, [Next]_vars
    PROVE  Ordered'
<1> SUFFICES ASSUME crashes' = 0 PROVE NodesSorted' /\ \E lvl2, rng2 : Ranged(lvl2, rng2)'
    BY DEF Ordered
<1>1. Typed
    BY DEF Chained
<1>2. ~ Crash /\ crashes = 0
    BY <1>1, NotCrashed
<1>3. PICK lvl, rng : Ranged(lvl, rng)
    BY <1>2 DEF Ordered
<1>4. PICK c, lev : Linked(c, lev)
    BY DEF Chained
<1>5. NodesSorted
    BY <1>2 DEF Ordered
<1> QED
    BY <1>1, <1>2, <1>3, <1>4, <1>5, NextOrdered

LEMMA MetadataInvariant == Spec => []MetadataKept
<1>1. Init => MetadataKept
    BY DEF Init, MetadataKept
<1>2. Spec => []Typed
    BY InitTyped, NextTyped, PTL DEF Spec
<1> QED
    BY <1>1, <1>2, NextKeepsMetadata, PTL DEF Spec

LEMMA OrderInvariant ==
    ASSUME EndKey \notin Key
    PROVE  Spec => []Ordered
BY InitOrdered, NextKeepsOrder, ChainInvariant, MetadataInvariant, PTL DEF Spec

(***************************************************************************)
(* The chain in the order of the ranges                                    *)
(***************************************************************************)

\* The chain runs through pages of the leaf level, each above the one before.
LEMMA ChainRanges ==
    ASSUME NEW lvl, NEW rng, Ranged(lvl, rng), NEW c, Chain(c), EndPid >= 2
    PROVE  /\ \A i \in 1 .. Len(c) : At(lvl, c[i], 0)
           /\ \A i, j \in 1 .. Len(c) : i < j => \A k \in rng[c[i]], m \in rng[c[j]] : k < m
<1>1. /\ Len(c) \in Nat \ {0} /\ \A i \in 1 .. Len(c) : c[i] \in Nat \ {0} /\ c[i] # NoPid
      /\ c[1] = 1
    BY EmptySeq, ElementOfSeq DEF Chain, NoPid
<1>2. \A i \in 1 .. Len(c) : i # Len(c) => LeafAt(c[i]).next = c[i + 1]
    BY DEF Chain
<1>3. ASSUME NEW i \in 1 .. Len(c), i # 1
      PROVE  /\ i - 1 \in 1 .. Len(c)
             /\ At(lvl, c[i - 1], 0) =>
                  /\ At(lvl, c[i], 0)
                  /\ \A k \in rng[c[i - 1]], m \in rng[c[i]] : k < m
  <2>1. i - 1 \in 1 .. Len(c) /\ i - 1 # Len(c) /\ (i - 1) + 1 = i
    BY <1>1, <1>3
  <2>2. LeafAt(c[i - 1]).next = c[i] /\ c[i] # NoPid
    BY <1>1, <1>2, <2>1
  <2>3. PICK q, p : q = c[i - 1] /\ p = c[i]
    OBVIOUS
  <2>4. At(lvl, q, 0) => LeafRange(lvl, rng, q)
    BY DEF Ranged, PageRange, At
  <2>5. LeafAt(q).next = p /\ p # NoPid
    BY <2>2, <2>3
  <2>6. At(lvl, q, 0) => At(lvl, p, 0) /\ \A k \in rng[q], m \in rng[p] : k < m
    BY <2>4, <2>5 DEF LeafRange
  <2> QED
    BY <2>1, <2>3, <2>6
<1>4. At(lvl, c[1], 0)
    BY <1>1 DEF Ranged, Places
<1>5. \A i \in 1 .. Len(c) : At(lvl, c[i], 0)
  <2> DEFINE bad == {i \in 1 .. Len(c) : ~ At(lvl, c[i], 0)}
  <2> SUFFICES ASSUME bad # {} PROVE FALSE
    OBVIOUS
  <2>1. PICK i : i \in bad /\ \A other \in bad : i <= other
    <3>1. bad \in SUBSET Nat
      OBVIOUS
    <3> HIDE DEF bad
    <3> QED
      BY <3>1, MinOfNaturals
  <2>2. i \in 1 .. Len(c) /\ i # 1 /\ ~ At(lvl, c[i], 0)
    BY <1>4, <2>1
  <2>3. i - 1 \in 1 .. Len(c) /\ ~ At(lvl, c[i - 1], 0)
    BY <1>3, <2>2
  <2>4. ~ (i <= i - 1)
    BY <2>2
  <2> QED
    BY <2>1, <2>3, <2>4
<1>6. ASSUME NEW i \in 1 .. Len(c) PROVE rng[c[i]] \subseteq Int /\ rng[c[i]] # {}
  <2>1. c[i] \in DOMAIN lvl
    BY <1>5 DEF At
  <2> QED
    BY <2>1 DEF Ranged, Places
<1>7. ASSUME NEW i \in 1 .. Len(c)
      PROVE  \A j \in 1 .. Len(c) : i < j => \A k \in rng[c[i]], m \in rng[c[j]] : k < m
  <2> DEFINE Above(j) == \A k \in rng[c[i]], m \in rng[c[j]] : k < m
             bad == {j \in 1 .. Len(c) : i < j /\ ~ Above(j)}
  <2> SUFFICES ASSUME bad # {} PROVE FALSE
    OBVIOUS
  <2>1. PICK j : j \in bad /\ \A other \in bad : j <= other
    <3>1. bad \in SUBSET Nat
      OBVIOUS
    <3> HIDE DEF bad
    <3> QED
      BY <3>1, MinOfNaturals
  <2>2. j \in 1 .. Len(c) /\ i < j /\ ~ Above(j)
    BY <2>1
  <2>3. j # 1 /\ j - 1 \in 1 .. Len(c) /\ ~ (j <= j - 1)
    BY <1>1, <2>2
  <2>4. \A k \in rng[c[j - 1]], m \in rng[c[j]] : k < m
    BY <1>3, <1>5, <2>2, <2>3
  <2>5. i = j - 1 \/ i < j - 1
    BY <1>1, <2>2
  <2>6. CASE i = j - 1
    BY <2>2, <2>4, <2>6
  <2>7. CASE i < j - 1
    <3>1. j - 1 \notin bad
      BY <2>1, <2>3
    <3>2. Above(j - 1)
      BY <2>3, <2>7, <3>1
    <3>3. PICK x : x \in rng[c[j - 1]] /\ x \in Int
      BY <1>6, <2>3
    <3>4. ASSUME NEW k \in rng[c[i]], NEW m \in rng[c[j]] PROVE k < m
      <4>1. k \in Int /\ m \in Int
        BY <1>6, <2>2
      <4>2. k < x /\ x < m
        BY <2>4, <3>2, <3>3
      <4> QED
        BY <3>3, <4>1, <4>2
    <3> QED
      BY <2>2, <3>4
  <2> QED
    BY <2>5, <2>6, <2>7
<1> QED
    BY <1>5, <1>7

(***************************************************************************)
(* The entries of the chain, one leaf after the other                      *)
(***************************************************************************)

\* The function in FlattenSeq exists: it takes one step for each sequence.
LEMMA FlattenExists ==
    ASSUME NEW seqs, NEW n \in Nat
    PROVE  \E f : f = [i \in 1 .. n |-> IF i = 1 THEN seqs[i] ELSE f[i - 1] \o seqs[i]]
<1> DEFINE Joined(s, t) == s \o t
           Step(f, i) == IF i = 1 THEN seqs[i] ELSE Joined(f[i - 1], seqs[i])
           Is(f, m)   == f = [i \in 1 .. m |-> Step(f, i)]
           bad        == {m \in Nat : \A f : ~ Is(f, m)}
<1>1. ASSUME NEW m \in Nat, m \notin bad PROVE \E f : Is(f, m)
  <2> HIDE DEF Is
  <2> QED
    BY <1>1
<1>2. SUFFICES bad = {}
  <2>1. \E f : Is(f, n)
    <3> HIDE DEF Is
    <3> QED
      BY <1>1, <1>2
  <2> QED
    BY <2>1
<1> HIDE DEF Joined
<1>3. SUFFICES ASSUME bad # {} PROVE FALSE
    OBVIOUS
<1> DEFINE m == Min(bad)
<1>4. m \in bad /\ \A other \in bad : m <= other
  <2>1. bad \in SUBSET Nat
      OBVIOUS
  <2> HIDE DEF bad
  <2> QED
    BY <1>3, <2>1, MinOfNaturals
<1> HIDE DEF m
<1>5. m \in Nat /\ \A f : ~ Is(f, m)
  <2> HIDE DEF Is
  <2> QED
    BY <1>4
<1>6. CASE m = 0
  <2>1. Is(<<>>, 0)
    OBVIOUS
  <2> QED
    BY <1>5, <1>6, <2>1
<1>7. CASE m # 0
  <2>1. m - 1 \in Nat /\ ~ (m <= m - 1)
    BY <1>5, <1>7
  <2>2. m - 1 \notin bad
    BY <1>4, <2>1
  <2>3. \E f : Is(f, m - 1)
    <3> HIDE DEF Is, bad
    <3> QED
      BY <1>1, <2>1, <2>2
  <2>4. PICK f : Is(f, m - 1)
    <3> HIDE DEF Is
    <3> QED
      BY <2>3
  <2> DEFINE g == [i \in 1 .. m |-> IF i = m THEN Step(f, m) ELSE f[i]]
  <2>5. \A i \in 1 .. m : i # 1 => g[i - 1] = f[i - 1]
    BY <1>5
  <2>6. \A i \in 1 .. m : g[i] = Step(f, i)
    BY <1>5, <2>4
  <2>7. \A i \in 1 .. m : Step(g, i) = Step(f, i)
    BY <2>5
  <2>8. Is(g, m)
    BY <2>6, <2>7
  <2> QED
    BY <1>5, <2>8
<1> QED
    BY <1>6, <1>7

\* A sequence in an order R, given as a set of pairs, and one before another.
InOrder(s, R)   == \A a, b \in 1 .. Len(s) : a < b => <<s[a], s[b]>> \in R
Before(s, t, R) == \A x \in ToSet(s), y \in ToSet(t) : <<x, y>> \in R

LEMMA InToSet ==
    ASSUME NEW S, NEW s \in Seq(S)
    PROVE  /\ \A x : x \in ToSet(s) <=> \E i \in 1 .. Len(s) : s[i] = x
           /\ \A i \in 1 .. Len(s) : s[i] \in ToSet(s)
           /\ ToSet(s) \subseteq S
<1>1. DOMAIN s = 1 .. Len(s) /\ \A i \in 1 .. Len(s) : s[i] \in S
    OBVIOUS
<1> QED
    BY <1>1 DEF ToSet

\* Two sequences in an order R, one before the other, make one in that order.
LEMMA InOrderJoin ==
    ASSUME NEW S, NEW s \in Seq(S), NEW t \in Seq(S), NEW R,
           InOrder(s, R), InOrder(t, R), Before(s, t, R)
    PROVE  /\ s \o t \in Seq(S) /\ InOrder(s \o t, R)
           /\ ToSet(s \o t) = ToSet(s) \cup ToSet(t)
<1>1. PICK st : st = s \o t
    OBVIOUS
<1>2. /\ st \in Seq(S) /\ Len(st) = Len(s) + Len(t)
      /\ \A a \in 1 .. Len(s) + Len(t) : st[a] = IF a <= Len(s) THEN s[a] ELSE t[a - Len(s)]
    BY <1>1, ConcatProperties
<1>3. PICK n, m : n = Len(s) /\ m = Len(t)
    OBVIOUS
<1>4. n \in Nat /\ m \in Nat
    BY <1>3
<1>5. \A a \in 1 .. n + m : \/ a \in 1 .. n /\ st[a] = s[a]
                            \/ a > n /\ a - n \in 1 .. m /\ st[a] = t[a - n]
    BY <1>2, <1>3, <1>4
<1>6. InOrder(st, R)
  <2> SUFFICES ASSUME NEW a \in 1 .. n + m, NEW b \in 1 .. n + m, a < b
               PROVE  <<st[a], st[b]>> \in R
    BY <1>2, <1>3 DEF InOrder
  <2>1. CASE a \in 1 .. n /\ b \in 1 .. n
    BY <1>3, <1>4, <1>5, <2>1 DEF InOrder
  <2>2. CASE a \in 1 .. n /\ b > n
    <3>1. st[a] = s[a] /\ b - n \in 1 .. m /\ st[b] = t[b - n]
      BY <1>4, <1>5, <2>2
    <3>2. st[a] \in ToSet(s) /\ st[b] \in ToSet(t)
      BY <1>3, <2>2, <3>1, InToSet
    <3> QED
      BY <3>2 DEF Before
  <2>3. CASE a > n /\ b > n
    <3>1. /\ a - n \in 1 .. m /\ st[a] = t[a - n] /\ b - n \in 1 .. m /\ st[b] = t[b - n]
          /\ a - n < b - n
      BY <1>4, <1>5, <2>3
    <3> QED
      BY <1>3, <3>1 DEF InOrder
  <2> QED
    BY <1>4, <2>1, <2>2, <2>3
<1>7. ASSUME NEW x PROVE x \in ToSet(st) <=> x \in ToSet(s) \cup ToSet(t)
  <2>1. x \in ToSet(st) <=> \E a \in 1 .. n + m : st[a] = x
    BY <1>2, <1>3, InToSet
  <2>2. x \in ToSet(s) <=> \E a \in 1 .. n : s[a] = x
    BY <1>3, InToSet
  <2>3. x \in ToSet(t) <=> \E a \in 1 .. m : t[a] = x
    BY <1>3, InToSet
  <2>4. \A b \in 1 .. n : b \in 1 .. n + m /\ st[b] = s[b]
    BY <1>2, <1>3, <1>4
  <2>5. \A b \in 1 .. m : b + n \in 1 .. n + m /\ st[b + n] = t[b]
    <3> TAKE b \in 1 .. m
    <3>1. b + n \in 1 .. n + m /\ ~ (b + n <= n) /\ (b + n) - n = b
      BY <1>4
    <3> QED
      BY <1>2, <1>3, <3>1
  <2> QED
    BY <1>5, <2>1, <2>2, <2>3, <2>4, <2>5
<1> QED
    BY <1>1, <1>2, <1>6, <1>7

\* FlattenSeq puts together sequences that are in an order R, each before the
\* next, to one in that order with the elements of all.
LEMMA FlattenInOrder ==
    ASSUME NEW S, NEW n \in Nat \ {0}, NEW seqs, DOMAIN seqs = 1 .. n, Len(seqs) = n, NEW R,
           \A i \in 1 .. n : seqs[i] \in Seq(S) /\ InOrder(seqs[i], R),
           \A i, j \in 1 .. n : i < j => Before(seqs[i], seqs[j], R)
    PROVE  /\ FlattenSeq(seqs) \in Seq(S) /\ InOrder(FlattenSeq(seqs), R)
           /\ ToSet(FlattenSeq(seqs)) = UNION {ToSet(seqs[i]) : i \in 1 .. n}
<1> DEFINE Is(f) == f = [i \in 1 .. n |-> IF i = 1 THEN seqs[i] ELSE f[i - 1] \o seqs[i]]
           flat  == CHOOSE f : Is(f)
<1>1. Is(flat)
    BY FlattenExists
<1>2. FlattenSeq(seqs) = flat[n]
    BY DEF FlattenSeq
<1> HIDE DEF flat
<1>3. \A i \in 1 .. n : flat[i] = IF i = 1 THEN seqs[i] ELSE flat[i - 1] \o seqs[i]
    BY <1>1
<1> HIDE DEF Is
<1> DEFINE Union(i) == UNION {ToSet(seqs[j]) : j \in 1 .. i}
           Good(i)  == flat[i] \in Seq(S) /\ InOrder(flat[i], R) /\ ToSet(flat[i]) = Union(i)
           bad      == {i \in 1 .. n : ~ Good(i)}
<1> HIDE DEF Good
<1>4. bad = {}
  <2> SUFFICES ASSUME bad # {} PROVE FALSE
    OBVIOUS
  <2>1. PICK i : i \in bad /\ \A other \in bad : i <= other
    <3>1. bad \in SUBSET Nat
      OBVIOUS
    <3> HIDE DEF bad
    <3> QED
      BY <3>1, MinOfNaturals
  <2>2. i \in 1 .. n /\ ~ Good(i)
    BY <2>1
  <2>3. CASE i = 1
    <3>1. flat[i] = seqs[i] /\ 1 .. i = {i}
      BY <1>3, <2>2, <2>3
    <3>2. Union(i) = ToSet(seqs[i])
      BY <3>1
    <3> QED
      BY <2>2, <3>1, <3>2 DEF Good
  <2>4. CASE i # 1
    <3>1. /\ i - 1 \in 1 .. n /\ ~ (i <= i - 1)
          /\ \A j \in 1 .. i - 1 : j \in 1 .. n /\ j < i
          /\ 1 .. i = 1 .. i - 1 \cup {i}
      BY <2>2, <2>4
    <3>2. Good(i - 1)
      BY <2>1, <3>1
    <3>3. PICK s, t : s = flat[i - 1] /\ t = seqs[i]
      OBVIOUS
    <3>4. s \in Seq(S) /\ InOrder(s, R) /\ ToSet(s) = Union(i - 1)
      BY <3>2, <3>3 DEF Good
    <3>5. t \in Seq(S) /\ InOrder(t, R)
      BY <2>2, <3>3
    <3>6. Before(s, t, R)
      <4> SUFFICES ASSUME NEW x \in ToSet(s), NEW y \in ToSet(t) PROVE <<x, y>> \in R
        BY DEF Before
      <4>1. PICK j \in 1 .. i - 1 : x \in ToSet(seqs[j])
        BY <3>4
      <4> QED
        BY <2>2, <3>1, <3>3, <4>1 DEF Before
    <3>7. flat[i] = s \o t
      BY <1>3, <2>2, <2>4, <3>3
    <3>8. flat[i] \in Seq(S) /\ InOrder(flat[i], R) /\ ToSet(flat[i]) = ToSet(s) \cup ToSet(t)
      <4> HIDE DEF Union
      <4> QED
        BY <3>4, <3>5, <3>6, <3>7, InOrderJoin
    <3>9. Union(i) = Union(i - 1) \cup ToSet(t)
      BY <3>1, <3>3
    <3> QED
      BY <2>2, <3>4, <3>8, <3>9 DEF Good
  <2> QED
    BY <2>3, <2>4
<1>5. Good(n)
  <2>1. n \in 1 .. n
    OBVIOUS
  <2> QED
    BY <1>4, <2>1
<1> QED
    BY <1>2, <1>5 DEF Good

\* The entries of the leaves, in the order of the chain, in one sequence.
LEMMA ChainRises ==
    ASSUME Typed, NEW lvl, NEW rng, Ranged(lvl, rng), NodesSorted, NEW c, NEW lev, Linked(c, lev)
    PROVE  ChainAscending
<1>1. /\ disk \in Seq(Page) /\ Chain(c) /\ EndPid \in Nat
      /\ Len(c) \in Nat \ {0} /\ \A i \in 1 .. Len(c) : c[i] \in Nat \ {0}
    BY EmptySeq, ElementOfSeq DEF Typed, TypeOK, Linked, Tree, Chain, EndPid
<1>2. PICK n, chain : /\ n \in Nat /\ chain = LeafChain /\ DOMAIN chain = 1 .. n
                      /\ \A i \in 1 .. n : i \in 1 .. Len(c) /\ chain[i] = c[i]
  <2>1. CASE EndPid = 0
    <3>1. DOMAIN LeafChain = {}
      BY <2>1 DEF LeafChain
    <3>2. 1 .. 0 = {}
      OBVIOUS
    <3> QED
      BY <3>1, <3>2
  <2>2. CASE EndPid # 0
    <3>1. LeafChain = c
      BY <1>1, <2>2, LeafChainIs
    <3>2. DOMAIN c = 1 .. Len(c)
      BY <1>1 DEF Chain
    <3> QED
      BY <1>1, <3>1, <3>2
  <2> QED
    BY <2>1, <2>2
<1>3. ASSUME NEW p PROVE LeafAt(p).entries \in Seq(Entry) /\ RisingEntries(LeafAt(p).entries)
  <2>1. LeafAt(p).entries \in Seq(Entry)
    BY <1>1, LeafAtTyped DEF LeafPage
  <2>2. Sorted(PageAt(p))
    BY <1>1, SortedPages
  <2>3. RisingEntries(EmptyLeaf.entries)
    BY DEF RisingEntries, EmptyLeaf, Leaf
  <2>4. RisingEntries(LeafAt(p).entries)
    BY <2>2, <2>3 DEF LeafAt, Sorted
  <2> QED
    BY <2>1, <2>4
<1>4. ASSUME NEW i \in 1 .. n, NEW j \in 1 .. n, i < j,
             NEW a \in 1 .. Len(LeafAt(c[i]).entries), NEW b \in 1 .. Len(LeafAt(c[j]).entries)
      PROVE  LeafAt(c[i]).entries[a].key < LeafAt(c[j]).entries[b].key
  <2>1. CASE EndPid >= 2
    <3>1. /\ At(lvl, c[i], 0) /\ At(lvl, c[j], 0)
          /\ \A k \in rng[c[i]], m \in rng[c[j]] : k < m
      BY <1>1, <1>2, <1>4, <2>1, ChainRanges
    <3>2. LeafRange(lvl, rng, c[i]) /\ LeafRange(lvl, rng, c[j])
      BY <3>1 DEF Ranged, PageRange, At
    <3>3. LeafAt(c[i]).entries[a].key \in rng[c[i]] /\ LeafAt(c[j]).entries[b].key \in rng[c[j]]
      BY <3>2 DEF LeafRange
    <3> QED
      BY <3>1, <3>3
  <2>2. CASE ~ (EndPid >= 2)
    <3>1. c[i] \notin 0 .. EndPid - 1
      BY <1>1, <1>2, <2>2
    <3>2. LeafAt(c[i]) = EmptyLeaf
      BY <3>1 DEF LeafAt, PageAt, Blank
    <3>3. Len(LeafAt(c[i]).entries) = 0
      BY <3>2 DEF EmptyLeaf, Leaf
    <3> QED
      BY <1>4, <3>3
  <2> QED
    BY <2>1, <2>2
<1>5. PICK seqs : seqs = [i \in DOMAIN chain |-> LeafAt(chain[i]).entries]
    OBVIOUS
<1>6. DOMAIN seqs = 1 .. n /\ \A i \in 1 .. n : seqs[i] = LeafAt(c[i]).entries
    BY <1>2, <1>5
<1>7. Len(seqs) = n
  <2>1. seqs = [i \in 1 .. n |-> LeafAt(c[i]).entries]
    BY <1>2, <1>5
  <2>2. seqs \in Seq(Seq(Entry))
    BY <1>2, <1>3, <2>1
  <2> QED
    BY <1>2, <1>6, <2>2
<1>8. ASSUME n # 0 PROVE FlattenSeq(seqs) \in Seq(Entry) /\ RisingEntries(FlattenSeq(seqs))
  <2>1. PICK R : R = {de \in Entry \X Entry : de[1].key < de[2].key}
    OBVIOUS
  <2>2. ASSUME NEW i \in 1 .. n PROVE seqs[i] \in Seq(Entry) /\ InOrder(seqs[i], R)
    <3>1. PICK s : s = seqs[i]
      OBVIOUS
    <3>2. s \in Seq(Entry) /\ RisingEntries(s) /\ \A a \in 1 .. Len(s) : s[a] \in Entry
      BY <1>3, <1>6, <3>1
    <3> QED
      BY <2>1, <3>1, <3>2 DEF InOrder, RisingEntries
  <2>3. ASSUME NEW i \in 1 .. n, NEW j \in 1 .. n, i < j PROVE Before(seqs[i], seqs[j], R)
    <3>1. PICK s, t : s = LeafAt(c[i]).entries /\ t = LeafAt(c[j]).entries
      OBVIOUS
    <3>2. s \in Seq(Entry) /\ t \in Seq(Entry)
      BY <1>3, <3>1
    <3>3. \A a \in 1 .. Len(s), b \in 1 .. Len(t) : s[a].key < t[b].key
      BY <1>4, <2>3, <3>1
    <3>4. \A d \in ToSet(s), e \in ToSet(t) : d \in Entry /\ e \in Entry /\ d.key < e.key
      BY <3>2, <3>3, InToSet
    <3> QED
      BY <1>6, <2>1, <3>1, <3>4 DEF Before
  <2>4. n \in Nat \ {0}
    BY <1>2, <1>8
  <2>5. PICK flat : flat = FlattenSeq(seqs)
    OBVIOUS
  <2>6. flat \in Seq(Entry) /\ InOrder(flat, R)
    BY ONLY <1>6, <1>7, <2>2, <2>3, <2>4, <2>5, FlattenInOrder
  <2>7. RisingEntries(flat)
    BY <2>1, <2>6 DEF InOrder, RisingEntries
  <2> QED
    BY <2>5, <2>6, <2>7
<1>9. ChainEntries = FlattenSeq(seqs)
    BY <1>2, <1>5 DEF ChainEntries
<1>10. CASE n = 0
  <2>1. ChainEntries = seqs
    BY <1>7, <1>9, <1>10 DEF FlattenSeq
  <2>2. DOMAIN ChainEntries = {}
    BY <1>6, <1>10, <2>1
  <2> QED
    BY <2>2 DEF ChainAscending
<1>11. CASE n # 0
  <2>1. PICK all : all = ChainEntries
    OBVIOUS
  <2>2. all \in Seq(Entry) /\ RisingEntries(all)
    BY <1>8, <1>9, <1>11, <2>1
  <2>3. DOMAIN all = 1 .. Len(all)
    BY <2>2
  <2> QED
    BY <2>1, <2>2, <2>3 DEF ChainAscending, RisingEntries
<1> QED
    BY <1>10, <1>11

(***************************************************************************)
(* The descent of locate                                                   *)
(***************************************************************************)

\* It ends at the leaf on the chain that has the key in its range.
LEMMA FindLeafRange ==
    ASSUME Typed, NEW lvl, NEW rng, Ranged(lvl, rng), NEW c, NEW lev, Linked(c, lev),
           mode # "none", treeHeight \in Nat \ {0},
           pc \notin Ascending, pc \notin {"firstRoot", "rootMetadata"}, NEW key \in Int
    PROVE  /\ At(lvl, FindLeaf(key), 0) /\ key \in rng[FindLeaf(key)]
           /\ \E n \in 1 .. Len(c) : c[n] = FindLeaf(key)
<1> DEFINE Is(f) == f = [d \in 1 .. treeHeight |->
                            IF d = 1 THEN rootPid
                                     ELSE LocateChildPtr(NonLeafAt(f[d - 1]), key)]
           pid   == CHOOSE f : Is(f)
<1>1. Is(pid)
    BY DescentExists
<1>2. FindLeaf(key) = pid[treeHeight]
    BY DEF FindLeaf
<1> HIDE DEF pid
<1>3. \A d \in 1 .. treeHeight : pid[d] = IF d = 1 THEN rootPid
                                          ELSE LocateChildPtr(NonLeafAt(pid[d - 1]), key)
    BY <1>1
<1> HIDE DEF Is
<1>4. \A l, k : ~ IsLate(rng, k, l)
    BY DEF IsLate
<1>5. RootRange(lvl, rng, rootPid, treeHeight) /\ At(lev, rootPid, treeHeight - 1)
    BY DEF Ranged, Rooted, Linked, RootLevel
<1>6. disk \in Seq(Page) /\ Tree(c, lev) /\ Places(lvl, rng)
    BY DEF Typed, TypeOK, Linked, Ranged
<1> DEFINE Good(d) == /\ At(lvl, pid[d], treeHeight - d) /\ key \in rng[pid[d]]
                      /\ At(lev, pid[d], treeHeight - d)
           bad     == {d \in 1 .. treeHeight : ~ Good(d)}
<1>7. ASSUME NEW d \in 1 .. treeHeight, d # 1, Good(d - 1) PROVE Good(d)
  <2>1. PICK p, l : p = pid[d - 1] /\ l = treeHeight - (d - 1)
    OBVIOUS
  <2>2. l \in Nat \ {0} /\ l - 1 = treeHeight - d
    BY <1>7, <2>1
  <2>3. At(lvl, p, l) /\ key \in rng[p] /\ At(lev, p, l)
    BY <1>7, <2>1
  <2>4. p \in DOMAIN lvl /\ lvl[p] = l /\ lvl[p] # 0 /\ PageRange(lvl, rng, p)
    BY <2>2, <2>3 DEF At, Ranged
  <2>5. PICK child : child = LocateChildPtr(NonLeafAt(p), key)
    OBVIOUS
  <2>6. /\ At(lvl, child, l - 1) /\ key \in rng[child]
        /\ \E i \in 1 .. Len(PageAt(p).pids) : child = PageAt(p).pids[i]
    BY <1>4, <1>6, <2>3, <2>4, <2>5, ChildRange
  <2>7. /\ PageAt(p) \in NonLeafPage /\ \A i \in DOMAIN PageAt(p).pids : At(lev, PageAt(p).pids[i], l - 1)
    BY <1>6, <2>2, <2>3, ChildLevel
  <2>8. DOMAIN PageAt(p).pids = 1 .. Len(PageAt(p).pids)
    BY <2>7 DEF NonLeafPage
  <2>9. At(lev, child, l - 1)
    BY <2>6, <2>7, <2>8
  <2>10. pid[d] = child
    BY <1>3, <1>7, <2>1, <2>5
  <2> QED
    BY <2>2, <2>6, <2>9, <2>10
<1>8. Good(1)
  <2>1. pid[1] = rootPid /\ At(lvl, rootPid, treeHeight - 1)
    BY <1>3, <1>5 DEF RootRange
  <2>2. key \in rng[rootPid]
    BY <1>4, <1>5 DEF RootRange
  <2> QED
    BY <1>5, <2>1, <2>2
<1> HIDE DEF Good
<1>9. bad = {}
  <2> SUFFICES ASSUME bad # {} PROVE FALSE
    OBVIOUS
  <2>1. PICK d : d \in bad /\ \A other \in bad : d <= other
    <3>1. bad \in SUBSET Nat
      OBVIOUS
    <3> HIDE DEF bad
    <3> QED
      BY <3>1, MinOfNaturals
  <2>2. d \in 1 .. treeHeight /\ ~ Good(d) /\ d # 1
    BY <1>8, <2>1
  <2>3. d - 1 \in 1 .. treeHeight /\ ~ (d <= d - 1)
    BY <2>2
  <2>4. Good(d - 1)
    BY <2>1, <2>3
  <2> QED
    BY <1>7, <2>2, <2>4
<1>10. Good(treeHeight)
  <2>1. treeHeight \in 1 .. treeHeight
    OBVIOUS
  <2> QED
    BY <1>9, <2>1
<1>11. treeHeight - treeHeight = 0
    OBVIOUS
<1>12. At(lvl, pid[treeHeight], 0) /\ key \in rng[pid[treeHeight]] /\ At(lev, pid[treeHeight], 0)
    BY <1>10, <1>11 DEF Good
<1>13. \E n \in 1 .. Len(c) : c[n] = pid[treeHeight]
    BY <1>6, <1>12 DEF Tree, Levels, At
<1> QED
    BY <1>2, <1>12, <1>13

LEMMA LandsRight ==
    ASSUME Typed, NEW lvl, NEW rng, Ranged(lvl, rng), NEW c, NEW lev, Linked(c, lev)
    PROVE  DescentLandsRight
<1> SUFFICES ASSUME mode # "none", treeHeight > 0, Settled, NEW key \in Key
             PROVE  \E n \in DOMAIN LeafChain :
                      /\ LeafChain[n] = FindLeaf(key)
                      /\ \A m \in DOMAIN LeafChain : \A e \in ToSet(LeafAt(LeafChain[m]).entries) :
                           (m < n => e.key < key) /\ (m > n => e.key > key)
    BY DEF DescentLandsRight
<1>1. /\ disk \in Seq(Page) /\ Chain(c) /\ EndPid \in Nat
      /\ treeHeight \in Nat \ {0} /\ key \in Int
    BY KeysAreIntegers DEF Typed, TypeOK, Linked, Tree, EndPid
<1>2. pc \notin Ascending /\ pc \notin {"firstRoot", "rootMetadata"}
    BY DEF Settled, Ascending
<1>3. EndPid >= 2
    BY <1>1, <1>2 DEF Linked, RootLevel
<1>4. PICK n \in 1 .. Len(c) : c[n] = FindLeaf(key) /\ key \in rng[FindLeaf(key)]
    BY <1>1, <1>2, FindLeafRange
<1>5. LeafChain = c /\ DOMAIN c = 1 .. Len(c) /\ Len(c) \in Nat
  <2>1. EndPid \in Nat \ {0}
    BY <1>1, <1>3
  <2>2. LeafChain = c
    BY <1>1, <2>1, LeafChainIs
  <2>3. c \in Seq(Nat \ {0})
    BY <1>1 DEF Chain
  <2> QED
    BY <2>2, <2>3
<1>6. ASSUME NEW m \in 1 .. Len(c), NEW e \in ToSet(LeafAt(c[m]).entries)
      PROVE  (m < n => e.key < key) /\ (m > n => e.key > key)
  <2>1. LeafAt(c[m]).entries \in Seq(Entry)
    BY <1>1, LeafAtTyped DEF LeafPage
  <2>2. PICK es : es = LeafAt(c[m]).entries
    OBVIOUS
  <2>3. PICK j \in 1 .. Len(es) : e = es[j]
    BY <2>1, <2>2 DEF ToSet
  <2>4. At(lvl, c[m], 0)
    BY <1>1, <1>3, ChainRanges
  <2>5. e.key \in rng[c[m]]
    BY <2>2, <2>3, <2>4 DEF Ranged, PageRange, LeafRange, At
  <2>6. e.key \in Int
    BY <2>4, <2>5 DEF Ranged, Places, At
  <2>7. m < n => e.key < key
    BY <1>1, <1>3, <1>4, <2>5, ChainRanges
  <2>8. m > n => key < e.key
  <3>1. m > n => n < m
    BY <1>5
  <3> QED
    BY <1>1, <1>3, <1>4, <2>5, <3>1, ChainRanges
  <2> QED
    BY <1>1, <2>6, <2>7, <2>8
<1> QED
    BY <1>4, <1>5, <1>6

(***************************************************************************)
(* Half full nodes                                                         *)
(***************************************************************************)

\* What HalfFull says of a page, and its inductive form: only the root may hold
\* less, and once the old root was split, a new one above it is due.
HalfFilled(page) ==
    /\ page.kind = "leaf" => Len(page.entries) >= (MAX_LEAF_KEY_COUNT + 1) \div 2
    /\ page.kind = "nonleaf" => Len(page.keys) >= MAX_NONLEAF_KEY_COUNT \div 2
IndexRoot == IF mode = "none" THEN disk[1].rootPid ELSE rootPid
Halves ==
    /\ \A p \in 1 .. EndPid - 1 : p # IndexRoot => HalfFilled(PageAt(p))
    /\ (pc \in Ascending /\ path = <<>>) => HalfFilled(PageAt(rootPid))

LEMMA LeafHalvesFilled ==
    ASSUME NEW leaf \in LeafPage, LeafIsFull(leaf), NEW e \in Entry
    PROVE  /\ Len(LowerHalf(leaf, e).entries) >= (MAX_LEAF_KEY_COUNT + 1) \div 2
           /\ Len(UpperHalf(leaf, e).entries) >= (MAX_LEAF_KEY_COUNT + 1) \div 2
<1>1. PICK all, h, n, m : /\ all = LeafPut(leaf.entries, e) /\ h = Half(all) /\ n = Len(all)
                          /\ m = MAX_LEAF_KEY_COUNT
    OBVIOUS
<1>2. /\ n = Len(leaf.entries) + 1 /\ Len(LowerHalf(leaf, e).entries) = h
      /\ Len(UpperHalf(leaf, e).entries) = n - h
    BY <1>1, LeafSplitParts
<1>3. m \in Nat /\ n = m + 1 /\ h = n \div 2
    BY <1>1, <1>2, LeafCapacity DEF LeafIsFull, Half
<1>4. h >= (m + 1) \div 2 /\ n - h >= (m + 1) \div 2
    BY <1>3
<1> QED
    BY <1>1, <1>2, <1>4

LEMMA NodeHalvesFilled ==
    ASSUME EndKey \notin Key, NEW node \in NonLeafPage, Branches(node), NonLeafIsFull(node),
           NEW key \in Key, NEW pid \in Pid
    PROVE  /\ Len(LowerNode(node, key, pid).keys) >= MAX_NONLEAF_KEY_COUNT \div 2
           /\ Len(UpperNode(node, key, pid).keys) >= MAX_NONLEAF_KEY_COUNT \div 2
<1>1. PICK h, n, m : /\ n = Len(NonLeafPut(node, key, pid).keys)
                     /\ h = Half(NonLeafPut(node, key, pid).keys)
                     /\ m = MAX_NONLEAF_KEY_COUNT
    OBVIOUS
<1>2. /\ n = Len(node.keys) + 1 /\ h \in Nat /\ 2 * h <= n /\ n <= 2 * h + 1
      /\ Len(LowerNode(node, key, pid).keys) = h
      /\ Len(UpperNode(node, key, pid).keys) = n - h - 1
    BY <1>1, NonLeafSplitParts
<1>3. NonLeafKeyCount(node) = Len(node.keys)
  <2>1. Len(node.keys) \in Nat /\ Len(node.pids) = Len(node.keys) + 1 /\ node.pids # <<>>
    BY EmptySeq DEF Branches, NonLeafPage
  <2> QED
    BY <2>1 DEF NonLeafKeyCount
<1>4. m \in Nat /\ n = m + 1
    BY <1>1, <1>2, <1>3, NonLeafCapacity DEF NonLeafIsFull
<1>5. h >= m \div 2 /\ n - h - 1 >= m \div 2
    BY <1>2, <1>4
<1> QED
    BY <1>1, <1>2, <1>5

\* A page that is not in the file reads as blank.
LEMMA OutsideFilled ==
    ASSUME NEW p, p \notin 0 .. EndPid - 1
    PROVE  HalfFilled(PageAt(p))
BY DEF PageAt, Blank, HalfFilled

\* The root stays, and no other page loses keys below the half.
LEMMA HalvesStay ==
    ASSUME Halves, mode # "none", mode' # "none", rootPid' = rootPid,
           EndPid \in Nat, EndPid' \in Nat,
           \A p : p # rootPid /\ HalfFilled(PageAt(p)) => HalfFilled(PageAt(p))',
           (pc' \in Ascending /\ path' = <<>>) => HalfFilled(PageAt(rootPid)')
    PROVE  Halves'
<1>1. ASSUME NEW p \in 1 .. EndPid' - 1, p # rootPid
      PROVE  HalfFilled(PageAt(p)')
  <2>1. CASE p \in 1 .. EndPid - 1
    BY <1>1, <2>1 DEF Halves, IndexRoot, HalfFilled
  <2>2. CASE p \notin 1 .. EndPid - 1
    <3>1. p \notin 0 .. EndPid - 1
      BY <2>2
    <3> QED
      BY <1>1, <3>1, OutsideFilled DEF HalfFilled
  <2> QED
    BY <2>1, <2>2
<1>2. IndexRoot' = rootPid
    BY DEF IndexRoot
<1>3. \A p \in 1 .. EndPid' - 1 : p # IndexRoot' => HalfFilled(PageAt(p)')
    BY <1>1, <1>2
<1> QED
    BY <1>3 DEF Halves, HalfFilled

\* A write of a page that is filled, or a new page, thins no page out.
LEMMA WriteFilled ==
    ASSUME disk \in Seq(Page), NEW p, NEW page \in Page, WritePage(p, page),
           HalfFilled(PageAt(p)) => HalfFilled(page)
    PROVE  /\ EndPid \in Nat /\ EndPid' \in Nat
           /\ \A q : HalfFilled(PageAt(q)) => HalfFilled(PageAt(q)')
           /\ \A q : q # p => PageAt(q)' = PageAt(q)
           /\ HalfFilled(page) => HalfFilled(PageAt(p)')
<1>1. CASE p \in 0 .. EndPid - 1
  <2>1. /\ EndPid' = EndPid /\ EndPid \in Nat /\ PageAt(p)' = page
        /\ \A q : q # p => PageAt(q)' = PageAt(q)
    BY <1>1, WriteChanges
  <2> QED
    BY <2>1
<1>2. CASE p \notin 0 .. EndPid - 1
  <2>1. disk' = disk
    BY <1>2 DEF WritePage
  <2>2. EndPid' = EndPid /\ EndPid \in Nat /\ \A q : PageAt(q)' = PageAt(q)
    BY <2>1 DEF EndPid, PageAt
  <2>3. HalfFilled(PageAt(p))
    BY <1>2, OutsideFilled
  <2> QED
    BY <2>2, <2>3
<1> QED
    BY <1>1, <1>2

LEMMA FetchFilled ==
    ASSUME disk \in Seq(Page), FetchNewPage
    PROVE  /\ EndPid \in Nat /\ EndPid' = EndPid + 1
           /\ \A q : HalfFilled(PageAt(q)) => HalfFilled(PageAt(q)')
<1>1. PICK b : b = Blank
    OBVIOUS
<1>2. b \in Page /\ disk' = Append(disk, b) /\ HalfFilled(b)
    BY <1>1 DEF Page, Blank, FetchNewPage, HalfFilled
<1>3. /\ Len(disk') = Len(disk) + 1 /\ disk'[Len(disk) + 1] = b /\ Len(disk) \in Nat
      /\ \A i \in 1 .. Len(disk) : disk'[i] = disk[i]
    BY <1>2, AppendProperties
<1>4. PICK n : n = Len(disk)
    OBVIOUS
<1>5. ASSUME NEW q PROVE PageAt(q)' = PageAt(q) \/ PageAt(q)' = b
  <2>1. CASE q \in 0 .. n - 1
    <3>1. q + 1 \in 1 .. n /\ q \in 0 .. n
      BY <1>3, <1>4, <2>1
    <3> QED
      BY <1>3, <1>4, <2>1, <3>1 DEF PageAt, EndPid
  <2>2. CASE q = n
    <3>1. q + 1 = n + 1 /\ q \in 0 .. (n + 1) - 1
      BY <1>3, <1>4, <2>2
    <3> QED
      BY <1>3, <1>4, <3>1 DEF PageAt, EndPid
  <2>3. CASE q \notin 0 .. n
    <3>1. q \notin 0 .. (n + 1) - 1
      BY <1>3, <1>4, <2>3
    <3> QED
      BY <1>1, <1>3, <1>4, <3>1 DEF PageAt, EndPid
  <2> QED
    BY <1>3, <1>4, <2>1, <2>2, <2>3
<1> QED
    BY <1>2, <1>3, <1>5 DEF EndPid

\* A step inside a call that writes one page, which was not thinner before.
LEMMA WriteHalves ==
    ASSUME Halves, disk \in Seq(Page), mode # "none", mode' = mode, rootPid' = rootPid,
           NEW p, NEW page \in Page, WritePage(p, page), HalfFilled(page),
           (pc' \in Ascending /\ path' = <<>>) =>
               (pc \in Ascending /\ path = <<>>) \/ p = rootPid
    PROVE  Halves'
<1>1. /\ EndPid \in Nat /\ EndPid' \in Nat
      /\ \A q : HalfFilled(PageAt(q)) => HalfFilled(PageAt(q)')
      /\ HalfFilled(PageAt(p)')
    BY WriteFilled
<1>2. PICK r : r = rootPid
    OBVIOUS
<1>3. PageAt(rootPid)' = PageAt(r)'
    BY <1>2
<1>4. (pc' \in Ascending /\ path' = <<>>) => HalfFilled(PageAt(rootPid)')
    BY <1>1, <1>2, <1>3 DEF Halves
<1>5. \A q : q # rootPid /\ HalfFilled(PageAt(q)) => HalfFilled(PageAt(q))'
    BY <1>1 DEF HalfFilled
<1> QED
    BY <1>1, <1>4, <1>5, HalvesStay

\* A step inside a call that adds a page.
LEMMA FetchHalves ==
    ASSUME Halves, disk \in Seq(Page), mode # "none", mode' = mode, rootPid' = rootPid,
           FetchNewPage,
           (pc' \in Ascending /\ path' = <<>>) => (pc \in Ascending /\ path = <<>>)
    PROVE  Halves'
<1>1. /\ EndPid \in Nat /\ EndPid' \in Nat
      /\ \A q : HalfFilled(PageAt(q)) => HalfFilled(PageAt(q)')
    BY FetchFilled
<1>2. PICK r : r = rootPid
    OBVIOUS
<1>3. PageAt(rootPid)' = PageAt(r)'
    BY <1>2
<1>4. (pc' \in Ascending /\ path' = <<>>) => HalfFilled(PageAt(rootPid)')
    BY <1>1, <1>2, <1>3 DEF Halves
<1>5. \A q : q # rootPid /\ HalfFilled(PageAt(q)) => HalfFilled(PageAt(q))'
    BY <1>1 DEF HalfFilled
<1> QED
    BY <1>1, <1>4, <1>5, HalvesStay

\* A step that leaves the file alone.
LEMMA SameFileHalves ==
    ASSUME Halves, disk \in Seq(Page), disk' = disk,
           disk # <<>> => IndexRoot' = IndexRoot,
           (pc' \in Ascending /\ path' = <<>>) =>
               pc \in Ascending /\ path = <<>> /\ rootPid' = rootPid
    PROVE  Halves'
<1>1. EndPid' = EndPid /\ EndPid \in Nat /\ \A p : PageAt(p)' = PageAt(p)
    BY DEF EndPid, PageAt
<1>2. EndPid # 0 => IndexRoot' = IndexRoot
    BY DEF EndPid
<1>3. \A p \in 1 .. EndPid' - 1 : p # IndexRoot' => HalfFilled(PageAt(p)')
  <2> TAKE p \in 1 .. EndPid' - 1
  <2>1. p \in 1 .. EndPid - 1 /\ EndPid # 0
    BY <1>1
  <2> QED
    BY <1>1, <1>2, <2>1 DEF Halves
<1>4. (pc' \in Ascending /\ path' = <<>>) => HalfFilled(PageAt(rootPid)')
  <2>1. PICK r : r = rootPid
    OBVIOUS
  <2>2. rootPid' = rootPid => PageAt(rootPid)' = PageAt(r)'
    BY <2>1
  <2> QED
    BY <1>1, <2>1, <2>2 DEF Halves
<1> QED
    BY <1>3, <1>4 DEF Halves, HalfFilled

LEMMA ForgetHalves ==
    ASSUME Typed, MetadataKept, NEW lvl, NEW rng, Ranged(lvl, rng), Halves,
           pc \notin Ascending, ~ CommitPending, Forget, disk' = disk
    PROVE  Halves'
<1>1. disk \in Seq(Page) /\ mode' = "none" /\ pc' \notin Ascending
    BY DEF Typed, TypeOK, Forget, Ascending
<1>2. disk # <<>> => IndexRoot' = IndexRoot
  <2> HAVE disk # <<>>
  <2>0. SUFFICES ASSUME mode # "none" PROVE IndexRoot' = IndexRoot
    BY <1>1 DEF IndexRoot
  <2>1. treeHeight # 0 /\ pc # "firstRoot"
    BY <2>0 DEF Typed, Running, CommitPending
  <2>2. treeHeight \in Nat \ {0}
    BY <2>0, <2>1 DEF Ranged, Rooted, RootRange, CommitPending
  <2>3. disk[1] = Metadata(rootPid, treeHeight)
    BY <2>0, <2>2 DEF MetadataKept
  <2> QED
    BY <1>1, <2>0, <2>3 DEF IndexRoot, Metadata
<1> QED
    BY <1>1, <1>2, SameFileHalves

LEMMA InsertInLeafHalves ==
    ASSUME Typed, NEW lvl, NEW rng, Ranged(lvl, rng), Halves, InsertInLeaf
    PROVE  Halves'
<1>1. /\ pc = "descend" /\ pc' \notin Ascending /\ path # <<>> /\ mode' = mode /\ rootPid' = rootPid
      /\ disk \in Seq(Page) /\ ins \in Entry /\ Len(path) = treeHeight
      /\ WritePage(NodePid, LeafInsert(LeafAt(NodePid), ins))
    BY DEF InsertInLeaf, AtLeaf, Return, head, Ascending, Typed, TypeOK, Running, Depth
<1>2. PICK p, leaf, page : p = NodePid /\ leaf = LeafAt(NodePid) /\ page = LeafInsert(leaf, ins)
    OBVIOUS
<1>3. leaf \in LeafPage /\ page \in Page /\ page.kind = "leaf"
      /\ Len(page.entries) = Len(leaf.entries) + 1 /\ Len(leaf.entries) \in Nat
  <2>1. leaf \in LeafPage
    BY <1>1, <1>2, LeafAtTyped
  <2>2. page \in LeafPage
    BY <1>1, <1>2, <2>1, LeafInsertTyped
  <2>3. page.entries = LeafPut(leaf.entries, ins)
    BY <1>2, <2>1 DEF LeafInsert, LeafPage
  <2>4. leaf.entries \in Seq(Entry)
    BY <2>1 DEF LeafPage
  <2>5. Len(page.entries) = Len(leaf.entries) + 1
    BY <1>1, <2>3, <2>4, LeafPutEntries
  <2>6. Len(leaf.entries) \in Nat
    BY <2>4
  <2> QED
    BY <2>1, <2>2, <2>5, <2>6, LeafPageIs
<1>4. pc \in Descending
    BY <1>1 DEF Descending
<1>5. At(lvl, p, 0) /\ mode # "none" /\ RootRange(lvl, rng, rootPid, treeHeight)
  <2>1. At(lvl, NodePid, treeHeight - Len(path)) /\ treeHeight \in Nat \ {0} /\ mode # "none"
        /\ RootRange(lvl, rng, rootPid, treeHeight)
    BY <1>1, <1>4, NodePlace
  <2>2. treeHeight - Len(path) = 0
    BY <1>1, <2>1
  <2> QED
    BY <1>2, <2>1, <2>2
<1>6. p # rootPid => PageAt(p).kind = "leaf"
  <2>1. LeafRange(lvl, rng, p)
    BY <1>5 DEF Ranged, PageRange, At
  <2>2. rootPid \in DOMAIN lvl
    BY <1>5 DEF RootRange, At
  <2> QED
    BY <2>1, <2>2 DEF LeafRange
<1>7. p # rootPid /\ HalfFilled(PageAt(p)) => HalfFilled(page)
  <2>1. PageAt(p).kind = "leaf" => leaf = PageAt(p)
    BY <1>2 DEF LeafAt
  <2>2. PICK h : h = (MAX_LEAF_KEY_COUNT + 1) \div 2
    OBVIOUS
  <2>3. h \in Int
    BY <2>2, LeafCapacity
  <2> QED
    BY <1>3, <1>6, <2>1, <2>2, <2>3 DEF HalfFilled
<1>8. WritePage(p, page)
    BY <1>1, <1>2
<1>9. EndPid \in Nat /\ EndPid' \in Nat
  <2>1. disk' \in Seq(Page)
    BY <1>1, <1>3, <1>8, WritePageTyped
  <2> QED
    BY <1>1, <2>1 DEF EndPid
<1>10. \A q : q # rootPid /\ HalfFilled(PageAt(q)) => HalfFilled(PageAt(q))'
  <2> SUFFICES ASSUME NEW q, q # rootPid, HalfFilled(PageAt(q)) PROVE HalfFilled(PageAt(q)')
    BY DEF HalfFilled
  <2>1. CASE q # p
    <3>1. PageAt(q)' = PageAt(q)
      <4>1. CASE p \in 0 .. EndPid - 1
        BY <1>1, <1>3, <1>8, <2>1, <4>1, WriteChanges
      <4>2. CASE p \notin 0 .. EndPid - 1
        BY <1>8, <4>2 DEF WritePage, PageAt, EndPid
      <4> QED
        BY <4>1, <4>2
    <3> QED
      BY <3>1
  <2>2. CASE q = p
    BY <1>1, <1>3, <1>7, <1>8, <2>2, WriteFilled
  <2> QED
    BY <2>1, <2>2
<1> QED
    BY <1>1, <1>5, <1>9, <1>10, HalvesStay

\* The last frame on the way up is that of the root.
LEMMA TopIsRoot ==
    ASSUME Typed, NEW lvl, NEW rng, Ranged(lvl, rng), pc \in Descending, path # <<>>,
           path' = Front(path), path' = <<>>
    PROVE  NodePid = rootPid
<1>1. /\ Len(path) \in Nat \ {0} /\ treeHeight \in Nat \ {0}
      /\ At(lvl, NodePid, treeHeight - Len(path))
    BY NodePlace
<1>2. Len(path) = 1
  <2>1. path \in Seq(Pid)
    BY DEF Typed, TypeOK
  <2>2. Len(path') = Len(path) - 1
    BY <1>1, <2>1, FrontIs
  <2>3. Len(path') = 0
    OBVIOUS
  <2> QED
    BY <1>1, <2>2, <2>3
<1>3. treeHeight - Len(path) = treeHeight - 1
    BY <1>2
<1> QED
    BY <1>1, <1>3, RootAlone DEF At

LEMMA LeafSplitHalves ==
    ASSUME Typed, NEW lvl, NEW rng, Ranged(lvl, rng), Halves, WriteLeafSibling \/ WriteLeaf
    PROVE  Halves'
<1>1. PICK leaf : leaf = LeafAt(NodePid)
    OBVIOUS
<1>2. /\ disk \in Seq(Page) /\ ins \in Entry /\ path # <<>> /\ mode' = mode /\ rootPid' = rootPid
      /\ pc \in {"leafSibling", "leafNode"} /\ pc \in Descending
      /\ splitpid \in Pid
    BY DEF WriteLeafSibling, WriteLeaf, head, Typed, TypeOK, Running, Descending
<1>3. mode # "none"
    BY <1>2, NodePlace
<1>4. leaf \in LeafPage /\ LeafIsFull(leaf)
    BY <1>1, <1>2, LeafAtTyped DEF Ranged, SplitOff
<1>5. CASE WriteLeafSibling
  <2>1. PICK page : page = UpperHalf(leaf, ins)
    OBVIOUS
  <2>2. page \in LeafPage /\ Len(page.entries) >= (MAX_LEAF_KEY_COUNT + 1) \div 2
    BY <1>2, <1>4, <2>1, LeafSplitTyped, LeafHalvesFilled
  <2>3. page \in Page /\ HalfFilled(page)
    BY <2>2, LeafPageIs DEF HalfFilled
  <2>4. WritePage(splitpid, page) /\ pc' \notin Ascending
    BY <1>1, <1>5, <2>1 DEF WriteLeafSibling, Ascending
  <2> QED
    BY <1>2, <1>3, <2>3, <2>4, WriteHalves
<1>6. CASE WriteLeaf
  <2>1. PICK page : page = [LowerHalf(leaf, ins) EXCEPT !.next = splitpid]
    OBVIOUS
  <2>2. /\ LowerHalf(leaf, ins) \in LeafPage
        /\ Len(LowerHalf(leaf, ins).entries) >= (MAX_LEAF_KEY_COUNT + 1) \div 2
    BY <1>2, <1>4, LeafSplitTyped, LeafHalvesFilled
  <2>3. page \in LeafPage /\ page.entries = LowerHalf(leaf, ins).entries
    BY <1>2, <2>1, <2>2 DEF LeafPage
  <2>4. page \in Page /\ HalfFilled(page)
    BY <2>2, <2>3, LeafPageIs DEF HalfFilled
  <2>5. WritePage(NodePid, page) /\ path' = Front(path)
    BY <1>1, <1>6, <2>1 DEF WriteLeaf
  <2>6. path' = <<>> => NodePid = rootPid
    BY <1>2, <2>5, TopIsRoot
  <2> QED
    BY <1>2, <1>3, <2>4, <2>5, <2>6, WriteHalves
<1> QED
    BY <1>5, <1>6

LEMMA NonLeafHalves ==
    ASSUME EndKey \notin Key, Typed, NEW lvl, NEW rng, Ranged(lvl, rng), Halves,
           InsertInNonLeaf \/ WriteNonLeafSibling \/ WriteNonLeaf
    PROVE  Halves'
<1>1. PICK node : node = NonLeafAt(NodePid)
    OBVIOUS
<1>2. /\ disk \in Seq(Page) /\ path # <<>> /\ mode' = mode /\ rootPid' = rootPid
      /\ pc \in {"ascend", "nonleafSibling", "nonleafNode"} /\ pc \in Descending
    BY DEF InsertInNonLeaf, WriteNonLeafSibling, WriteNonLeaf, head, Typed, TypeOK, Running, Descending
<1>3. mode # "none"
    BY <1>2, NodePlace
<1>4. /\ node = PageAt(NodePid) /\ node \in NonLeafPage /\ Branches(node)
      /\ splitkey \in Key /\ splitpid \in Pid
    BY <1>1, <1>2, NodeToFill
<1>5. CASE InsertInNonLeaf
  <2>1. PICK page, p : page = NonLeafPut(node, splitkey, splitpid) /\ p = NodePid
    OBVIOUS
  <2>2. page \in NonLeafPage /\ Branches(page) /\ Len(page.keys) = Len(node.keys) + 1
    BY <1>4, <2>1, NonLeafPutIn
  <2>3. page \in Page
    BY <2>2 DEF Page
  <2>4. Len(node.keys) \in Nat
    BY <1>4 DEF NonLeafPage
  <2>5. PICK h : h = MAX_NONLEAF_KEY_COUNT \div 2
    OBVIOUS
  <2>6. h \in Int
    BY <2>5, NonLeafCapacity
  <2>7. HalfFilled(PageAt(p)) => HalfFilled(page)
    BY <1>4, <2>1, <2>2, <2>4, <2>5, <2>6 DEF HalfFilled, Branches
  <2>8. WritePage(p, page) /\ pc' \notin Ascending
    BY <1>1, <1>5, <2>1 DEF InsertInNonLeaf, Return, Ascending
  <2>9. /\ EndPid \in Nat /\ EndPid' \in Nat
        /\ \A q : HalfFilled(PageAt(q)) => HalfFilled(PageAt(q)')
    BY <1>2, <2>3, <2>7, <2>8, WriteFilled
  <2>10. \A q : q # rootPid /\ HalfFilled(PageAt(q)) => HalfFilled(PageAt(q))'
    BY <2>9 DEF HalfFilled
  <2> QED
    BY <1>2, <1>3, <2>8, <2>9, <2>10, HalvesStay
<1>6. ASSUME NonLeafIsFull(node)
      PROVE  \A page : page \in {LowerNode(node, splitkey, splitpid), UpperNode(node, splitkey, splitpid)}
                 => page \in Page /\ HalfFilled(page)
  <2>1. node \in NonLeafNode
    BY <1>4 DEF NonLeafNode
  <2>2. /\ LowerNode(node, splitkey, splitpid) \in NonLeafPage
        /\ UpperNode(node, splitkey, splitpid) \in NonLeafPage
    BY <1>4, <1>6, <2>1, NonLeafSplitTyped
  <2>3. /\ Len(LowerNode(node, splitkey, splitpid).keys) >= MAX_NONLEAF_KEY_COUNT \div 2
        /\ Len(UpperNode(node, splitkey, splitpid).keys) >= MAX_NONLEAF_KEY_COUNT \div 2
    BY <1>4, <1>6, NodeHalvesFilled
  <2>4. \A page \in NonLeafPage : page.kind = "nonleaf" /\ page \in Page
    BY DEF NonLeafPage, Page
  <2> QED
    BY <2>2, <2>3, <2>4 DEF HalfFilled
<1>7. CASE WriteNonLeafSibling
  <2>1. PICK page : page = UpperNode(node, splitkey, splitpid)
    OBVIOUS
  <2>2. /\ NonLeafIsFull(node) /\ WritePage(newPid, page) /\ path' = path
    BY <1>1, <1>7, <2>1 DEF WriteNonLeafSibling, frame, Ranged, SplitOff
  <2>3. page \in Page /\ HalfFilled(page)
    BY <1>6, <2>1, <2>2
  <2> QED
    BY <1>2, <1>3, <2>2, <2>3, WriteHalves
<1>8. CASE WriteNonLeaf
  <2>1. PICK page : page = LowerNode(node, splitkey, splitpid)
    OBVIOUS
  <2>2. /\ NonLeafIsFull(node) /\ WritePage(NodePid, page) /\ path' = Front(path)
    BY <1>1, <1>8, <2>1 DEF WriteNonLeaf, Ranged, SplitOff
  <2>3. page \in Page /\ HalfFilled(page)
    BY <1>6, <2>1, <2>2
  <2>4. path' = <<>> => NodePid = rootPid
    BY <1>2, <2>2, TopIsRoot
  <2> QED
    BY <1>2, <1>3, <2>2, <2>3, <2>4, WriteHalves
<1> QED
    BY <1>5, <1>7, <1>8

\* The new root may hold one key; the old one was split and holds half.
LEMMA WriteNewRootHalves ==
    ASSUME Typed, NEW lvl, NEW rng, Ranged(lvl, rng), NEW c, NEW lev, Linked(c, lev), Halves,
           WriteNewRoot
    PROVE  Halves'
<1>1. /\ disk \in Seq(Page) /\ mode' = mode /\ mode # "none" /\ rootPid' = newPid
      /\ pc = "rootNode" /\ pc' \notin Ascending /\ path = <<>>
      /\ WritePage(newPid, NewRoot(rootPid, splitkey, splitpid))
  <2>1. pc = "rootNode" => path = <<>>
    BY DEF Linked, FrameLevels
  <2> QED
    BY <2>1 DEF WriteNewRoot, Ascending, Typed, TypeOK, Running
<1>2. PICK q : q = newPid
    OBVIOUS
<1>3. EndPid' = EndPid /\ EndPid \in Nat /\ \A p : p # q => PageAt(p)' = PageAt(p)
  <2>1. q \in 1 .. EndPid - 1 /\ EndPid \in Nat
    BY <1>1, <1>2 DEF Ranged, SplitOff, EndPid
  <2>2. q + 1 \in 1 .. Len(disk)
    BY <2>1 DEF EndPid
  <2>3. PICK page : page = NewRoot(rootPid, splitkey, splitpid)
    OBVIOUS
  <2>4. disk' = [disk EXCEPT ![q + 1] = page]
    BY <1>1, <1>2, <2>1, <2>3 DEF WritePage
  <2>5. Len(disk') = Len(disk) /\ \A i \in 1 .. Len(disk) : i # q + 1 => disk'[i] = disk[i]
    BY <1>1, <2>2, <2>4
  <2>6. EndPid' = EndPid
    BY <2>5 DEF EndPid
  <2>7. ASSUME NEW p, p # q PROVE PageAt(p)' = PageAt(p)
    <3>1. p \in 0 .. EndPid - 1 => p + 1 \in 1 .. Len(disk) /\ p + 1 # q + 1
      BY <2>1, <2>7 DEF EndPid
    <3> QED
      BY <2>5, <2>6, <3>1 DEF PageAt
  <2> QED
    BY <2>1, <2>6, <2>7
<1>4. \A p \in 1 .. EndPid' - 1 : p # q => HalfFilled(PageAt(p)')
  <2> SUFFICES ASSUME NEW p \in 1 .. EndPid - 1, p # q PROVE HalfFilled(PageAt(p))
    BY <1>3
  <2>1. CASE p = rootPid
    BY <1>1, <2>1 DEF Halves, Ascending
  <2>2. CASE p # rootPid
    BY <1>1, <2>2 DEF Halves, IndexRoot
  <2> QED
    BY <2>1, <2>2
<1>5. IndexRoot' = q
    BY <1>1, <1>2 DEF IndexRoot
<1> QED
    BY <1>1, <1>4, <1>5 DEF Halves, HalfFilled

\* The first root is the only page besides the metadata.
LEMMA FetchFirstRootHalves ==
    ASSUME Typed, NEW c, NEW lev, Linked(c, lev), FetchFirstRoot
    PROVE  Halves'
<1>1. /\ disk \in Seq(Page) /\ mode' = mode /\ mode # "none" /\ rootPid' = EndPid
      /\ FetchNewPage /\ pc = "firstRoot" /\ pc' \notin Ascending
    BY DEF FetchFirstRoot, Ascending, Typed, TypeOK, Running
<1>2. EndPid = 1 /\ EndPid' = EndPid + 1
    BY <1>1, FetchFilled DEF Linked, RootLevel
<1>3. IndexRoot' = 1 /\ EndPid' = 2
    BY <1>1, <1>2 DEF IndexRoot
<1>4. \A p \in 1 .. EndPid' - 1 : p = 1
    BY <1>3
<1> QED
    BY <1>1, <1>3, <1>4 DEF Halves

\* The writes of the metadata.
LEMMA CommitHalves ==
    ASSUME Typed, NEW c, NEW lev, Linked(c, lev), Halves, CommitFirst \/ CommitRoot
    PROVE  Halves'
<1>1. /\ disk \in Seq(Page) /\ mode' = mode /\ mode # "none" /\ rootPid' = rootPid
      /\ pc' \notin Ascending /\ rootPid \in Pid
    BY DEF CommitFirst, CommitRoot, Return, head, Ascending, Typed, TypeOK, Running
<1>2. PICK page : page \in Page /\ HalfFilled(page) /\ WritePage(0, page)
  <2>1. \A height \in Nat \ {0} : \A page :
            page = Metadata(rootPid, height) => page \in Page /\ HalfFilled(page)
    BY <1>1 DEF Metadata, Page, MetaPage, HalfFilled
  <2>2. CASE CommitFirst
    <3>1. treeHeight \in Nat \ {0} /\ WritePage(0, Metadata(rootPid, treeHeight))
      BY <2>2 DEF CommitFirst, Typed, TypeOK, Running
    <3> QED
      BY <2>1, <3>1
  <2>3. CASE CommitRoot
    <3>1. /\ treeHeight \in Nat \ {0} /\ treeHeight' = treeHeight + 1
          /\ WritePage(0, Metadata(rootPid, treeHeight'))
      BY <2>3 DEF CommitRoot, Typed, TypeOK, Running
    <3>2. treeHeight' \in Nat \ {0}
      BY <3>1
    <3> QED
      BY <2>1, <3>1, <3>2
  <2> QED
    BY <2>2, <2>3
<1> QED
    BY <1>1, <1>2, WriteHalves

LEMMA InsertStepHalves ==
    ASSUME EndKey \notin Key, Typed, MetadataKept, NEW lvl, NEW rng, Ranged(lvl, rng),
           NEW c, NEW lev, Linked(c, lev), Halves, InsertStep
    PROVE  Halves'
<1>1. disk \in Seq(Page)
    BY DEF Typed, TypeOK
<1>2. CASE FetchFirstRoot
    BY <1>2, FetchFirstRootHalves
<1>3. CASE CommitFirst \/ CommitRoot
    BY <1>3, CommitHalves
<1>4. CASE Descend
  <2>1. /\ disk' = disk /\ mode' = mode /\ rootPid' = rootPid /\ pc' \notin Ascending
    BY <1>4 DEF Descend, file, head, Ascending
  <2>2. IndexRoot' = IndexRoot
    BY <2>1 DEF IndexRoot
  <2> QED
    BY <1>1, <2>1, <2>2, SameFileHalves
<1>5. CASE OverflowInInsert
  <2>1. disk' = disk /\ pc = "descend" /\ Forget
    BY <1>5 DEF OverflowInInsert
  <2>2. mode # "none" /\ pc \notin Ascending /\ ~ CommitPending
    BY <2>1 DEF Typed, Running, Ascending, CommitPending
  <2> QED
    BY <2>1, <2>2, ForgetHalves
<1>6. CASE InsertInLeaf
    BY <1>6, InsertInLeafHalves
<1>7. CASE FetchLeafSibling \/ FetchNonLeafSibling \/ FetchNewRoot
  <2>1. /\ mode' = mode /\ mode # "none" /\ rootPid' = rootPid /\ FetchNewPage
        /\ path' = path
        /\ pc' \in Ascending => pc \in Ascending \/ path # <<>>
    BY <1>7 DEF FetchLeafSibling, FetchNonLeafSibling, FetchNewRoot, AtLeaf, head, Ascending,
       Typed, Running
  <2> QED
    BY <1>1, <2>1, FetchHalves
<1>8. CASE WriteLeafSibling \/ WriteLeaf
    BY <1>8, LeafSplitHalves
<1>9. CASE InsertInNonLeaf \/ WriteNonLeafSibling \/ WriteNonLeaf
    BY <1>9, NonLeafHalves
<1>10. CASE WriteNewRoot
    BY <1>10, WriteNewRootHalves
<1> QED
    BY <1>2, <1>3, <1>4, <1>5, <1>6, <1>7, <1>8, <1>9, <1>10 DEF InsertStep

LEMMA NextHalves ==
    ASSUME EndKey \notin Key, Typed, MetadataKept, NEW c, NEW lev, Linked(c, lev),
           NEW lvl, NEW rng, Ranged(lvl, rng), Halves, [Next]_vars, ~ Crash
    PROVE  Halves'
<1>1. disk \in Seq(Page)
    BY DEF Typed, TypeOK
<1>2. ASSUME disk' = disk, mode' = mode, rootPid' = rootPid, pc' \notin Ascending
      PROVE  Halves'
  <2>1. IndexRoot' = IndexRoot
    BY <1>2 DEF IndexRoot
  <2> QED
    BY <1>1, <1>2, <2>1, SameFileHalves
<1>3. ASSUME NEW m \in {"r", "w"}, Open(m) PROVE Halves'
  <2>1. /\ disk' = disk /\ mode = "none" /\ mode' # "none" /\ pc' = "idle"
        /\ disk # <<>> => rootPid' = ReadRootPid
    BY <1>3 DEF Open, Typed, Running
  <2>2. disk # <<>> => IndexRoot' = IndexRoot
    BY <2>1 DEF Ranged, Rooted, ReadRootPid, IndexRoot
  <2>3. pc' \notin Ascending
    BY <2>1 DEF Ascending
  <2> QED
    BY <1>1, <2>1, <2>2, <2>3, SameFileHalves
<1>4. ASSUME mode # "none", pc \in {"idle", "scan", "scanEnd"}, Forget, disk' = disk
      PROVE  Halves'
  <2>1. pc \notin Ascending /\ ~ CommitPending
    BY <1>4 DEF Ascending, CommitPending
  <2> QED
    BY <1>4, <2>1, ForgetHalves
<1>5. CASE Close
    BY <1>4, <1>5 DEF Close
<1>6. ASSUME NEW e \in Entry, Insert(e) \/ FirstInsert(e) PROVE Halves'
  <2>1. CASE Insert(e)
    BY <1>2, <2>1 DEF Insert, file, head, Ascending
  <2>2. CASE FirstInsert(e)
    <3>1. mode' = mode /\ mode # "none" /\ rootPid' = rootPid /\ FetchNewPage /\ pc' \notin Ascending
      BY <2>2 DEF FirstInsert, MayInsert, Ascending
    <3> QED
      BY <1>1, <3>1, FetchHalves
  <2> QED
    BY <1>6, <2>1, <2>2
<1>7. CASE InsertStep
    BY <1>7, InsertStepHalves
<1>8. ASSUME NEW key \in Probes, Locate(key) \/ OverflowInLocate(key) PROVE Halves'
  <2>1. CASE Locate(key)
    BY <1>2, <2>1 DEF Locate, file, head, Ascending
  <2>2. CASE OverflowInLocate(key)
    BY <1>4, <2>2 DEF OverflowInLocate
  <2> QED
    BY <1>8, <2>1, <2>2
<1>9. CASE ReadForward
    BY <1>2, <1>9 DEF ReadForward, file, head, Ascending
<1>10. CASE UNCHANGED vars
  <2>1. /\ disk' = disk /\ mode' = mode /\ rootPid' = rootPid /\ pc' = pc /\ path' = path
    BY <1>10 DEF vars, file, head, frame
  <2>2. IndexRoot' = IndexRoot
    BY <2>1 DEF IndexRoot
  <2> QED
    BY <1>1, <2>1, <2>2, SameFileHalves
<1> QED
    BY <1>3, <1>5, <1>6, <1>7, <1>8, <1>9, <1>10 DEF Next

Halved == crashes = 0 => Halves

LEMMA InitHalved == Init => Halved
<1> SUFFICES ASSUME Init PROVE Halves
    BY DEF Halved
<1>1. EndPid = 0 /\ pc = "idle"
    BY DEF Init, EndPid
<1>2. 1 .. EndPid - 1 = {}
    BY <1>1
<1> QED
    BY <1>1, <1>2 DEF Halves, Ascending

LEMMA NextKeepsHalves ==
    ASSUME EndKey \notin Key, Chained, MetadataKept, Ordered, Halved, [Next]_vars
    PROVE  Halved'
<1> SUFFICES ASSUME crashes' = 0 PROVE Halves'
    BY DEF Halved
<1>1. Typed /\ ~ Crash /\ crashes = 0
    BY NotCrashed DEF Chained
<1>2. PICK lvl, rng : Ranged(lvl, rng)
    BY <1>1 DEF Ordered
<1>3. PICK c, lev : Linked(c, lev)
    BY DEF Chained
<1> QED
    BY <1>1, <1>2, <1>3, NextHalves DEF Halved

LEMMA HalfInvariant ==
    ASSUME EndKey \notin Key
    PROVE  Spec => []Halved
BY InitHalved, NextKeepsHalves, ChainInvariant, MetadataInvariant, OrderInvariant, PTL DEF Spec

(***************************************************************************)
(* The way of a scan                                                       *)
(***************************************************************************)

\* A cursor stands before an entry of the chain or, when readForward went past
\* the last one, behind the chain.  What it has passed are the smaller keys.
Behind(cur)      == cur.pid = NoPid /\ cur.eid = 0
Facing(c, cur)   == /\ \E n \in 1 .. Len(c) : cur.pid = c[n]
                    /\ cur.eid + 1 \in 1 .. Len(LeafAt(cur.pid).entries)
NextEntry(cur)   == LeafAt(cur.pid).entries[cur.eid + 1]
Passed(c, cur)   == {e \in Kept(c) : cur.pid = NoPid \/ e.key < NextEntry(cur).key}

\* What the tree is when no call is writing to it.
AtRest(c, lev, lvl, rng) ==
    /\ Typed /\ Linked(c, lev) /\ Ranged(lvl, rng) /\ NodesSorted /\ Halves
    /\ mode # "none" /\ treeHeight > 0 /\ pc \in {"idle", "scan", "scanEnd"}

LEMMA RestFacts ==
    ASSUME NEW c, NEW lev, NEW lvl, NEW rng, AtRest(c, lev, lvl, rng)
    PROVE  /\ disk \in Seq(Page) /\ Chain(c) /\ EndPid \in Nat /\ EndPid >= 2
           /\ Len(c) \in Nat \ {0} /\ \A n \in 1 .. Len(c) : c[n] \in Nat \ {0} /\ c[n] # NoPid
           /\ treeHeight \in Nat \ {0}
           /\ pc \notin Ascending /\ pc \notin {"firstRoot", "rootMetadata"}
           /\ \A p : LeafAt(p).entries \in Seq(Entry) /\ RisingEntries(LeafAt(p).entries)
           /\ \A e \in Entry : e.key \in Int /\ e.key \in Key /\ e.rid # NoRid
<1>1. /\ disk \in Seq(Page) /\ Chain(c) /\ EndPid \in Nat /\ treeHeight \in Nat \ {0}
    BY DEF AtRest, Typed, TypeOK, Linked, Tree, EndPid
<1>2. EndPid >= 2
    BY DEF AtRest, Linked, RootLevel
<1>3. Len(c) \in Nat \ {0} /\ \A n \in 1 .. Len(c) : c[n] \in Nat \ {0} /\ c[n] # NoPid
    BY <1>1, EmptySeq, ElementOfSeq DEF Chain, NoPid
<1>4. pc \notin Ascending /\ pc \notin {"firstRoot", "rootMetadata"}
    BY DEF AtRest, Ascending
<1>5. ASSUME NEW p PROVE LeafAt(p).entries \in Seq(Entry) /\ RisingEntries(LeafAt(p).entries)
  <2>1. LeafAt(p).entries \in Seq(Entry)
    BY <1>1, LeafAtTyped DEF LeafPage
  <2>2. Sorted(PageAt(p))
    BY <1>1, SortedPages DEF AtRest
  <2>3. RisingEntries(EmptyLeaf.entries)
    BY DEF RisingEntries, EmptyLeaf, Leaf
  <2>4. RisingEntries(LeafAt(p).entries)
    BY <2>2, <2>3 DEF LeafAt, Sorted
  <2> QED
    BY <2>1, <2>4
<1>6. \A e \in Entry : e.key \in Int /\ e.key \in Key /\ e.rid # NoRid
    BY KeysAreIntegers, NoRidIsNoRecord DEF Entry
<1> QED
    BY <1>1, <1>2, <1>3, <1>4, <1>5, <1>6

\* A leaf that is not the only one is not empty.
LEMMA LeavesNotEmpty ==
    ASSUME NEW c, NEW lev, NEW lvl, NEW rng, AtRest(c, lev, lvl, rng),
           NEW n \in 1 .. Len(c), Len(c) # 1
    PROVE  1 \in 1 .. Len(LeafAt(c[n]).entries)
<1>1. PICK p : p = c[n]
    OBVIOUS
<1>2. /\ At(lvl, p, 0) /\ \A m \in 1 .. Len(c) : At(lvl, c[m], 0)
    BY <1>1, RestFacts, ChainRanges DEF AtRest
<1>3. PICK m \in 1 .. Len(c) : m # n
  <2>1. 1 \in 1 .. Len(c) /\ 2 \in 1 .. Len(c)
    BY RestFacts
  <2> QED
    BY <2>1
<1>4. c[m] # p
    BY <1>1, <1>3, RestFacts DEF Chain
<1>5. /\ Places(lvl, rng) /\ LeafRange(lvl, rng, p) /\ RootRange(lvl, rng, rootPid, treeHeight)
  <2>1. pc # "firstRoot" /\ pc # "rootMetadata" /\ treeHeight # 0 /\ mode # "none"
    BY RestFacts DEF AtRest
  <2>2. RootRange(lvl, rng, rootPid, treeHeight)
    BY <2>1 DEF AtRest, Ranged, Rooted
  <2> QED
    BY <1>2, <2>2 DEF AtRest, Ranged, PageRange, At
<1>6. p # rootPid
  <2> SUFFICES ASSUME p = rootPid PROVE FALSE
    OBVIOUS
  <2>1. PICK k : k \in rng[c[m]] /\ k \in Int
    BY <1>2, <1>3, <1>5 DEF Places, At
  <2>2. ~ IsLate(rng, k, treeHeight - 1)
    BY RestFacts DEF IsLate
  <2>3. k \in rng[p]
    BY <1>5, <2>1, <2>2 DEF RootRange
  <2> QED
    BY <1>2, <1>3, <1>4, <1>5, <2>1, <2>3 DEF Places, At
<1>7. PageAt(p).kind = "leaf"
  <2>1. p \in DOMAIN lvl /\ c[m] \in DOMAIN lvl
    BY <1>2, <1>3 DEF At
  <2> QED
    BY <1>4, <1>5, <2>1 DEF LeafRange
<1>8. p \in 1 .. EndPid - 1
    BY <1>2, <1>5 DEF Places, At
<1>9. IndexRoot = rootPid
    BY DEF IndexRoot, AtRest
<1>10. Len(PageAt(p).entries) >= (MAX_LEAF_KEY_COUNT + 1) \div 2
    BY <1>6, <1>7, <1>8, <1>9 DEF AtRest, Halves, HalfFilled
<1>11. (MAX_LEAF_KEY_COUNT + 1) \div 2 \in Nat /\ (MAX_LEAF_KEY_COUNT + 1) \div 2 >= 1
    BY LeafCapacity
<1>12. LeafAt(p) = PageAt(p) /\ Len(LeafAt(p).entries) \in Nat
    BY <1>7, RestFacts DEF LeafAt
<1> QED
    BY <1>1, <1>10, <1>11, <1>12

\* The keys of the chain rise from leaf to leaf and inside of a leaf.
LEMMA ChainPlaces ==
    ASSUME NEW c, NEW lev, NEW lvl, NEW rng, AtRest(c, lev, lvl, rng),
           NEW n \in 1 .. Len(c), NEW m \in 1 .. Len(c),
           NEW i \in 1 .. Len(LeafAt(c[n]).entries), NEW j \in 1 .. Len(LeafAt(c[m]).entries)
    PROVE  /\ n < m => LeafAt(c[n]).entries[i].key < LeafAt(c[m]).entries[j].key
           /\ n = m /\ i < j => LeafAt(c[n]).entries[i].key < LeafAt(c[m]).entries[j].key
<1>1. ASSUME n < m PROVE LeafAt(c[n]).entries[i].key < LeafAt(c[m]).entries[j].key
  <2>1. /\ At(lvl, c[n], 0) /\ At(lvl, c[m], 0)
        /\ \A k \in rng[c[n]], l \in rng[c[m]] : k < l
    BY <1>1, RestFacts, ChainRanges DEF AtRest
  <2>2. LeafRange(lvl, rng, c[n]) /\ LeafRange(lvl, rng, c[m])
    BY <2>1 DEF AtRest, Ranged, PageRange, At
  <2>3. LeafAt(c[n]).entries[i].key \in rng[c[n]] /\ LeafAt(c[m]).entries[j].key \in rng[c[m]]
    BY <2>2 DEF LeafRange
  <2> QED
    BY <2>1, <2>3
<1>2. ASSUME n = m, i < j PROVE LeafAt(c[n]).entries[i].key < LeafAt(c[m]).entries[j].key
  <2>1. RisingEntries(LeafAt(c[n]).entries)
    BY RestFacts
  <2> QED
    BY <1>2, <2>1 DEF RisingEntries
<1> QED
    BY <1>1, <1>2

\* The place of an entry on the chain: its leaf and its slot.
Stands(c, e, m, j) == /\ m \in 1 .. Len(c) /\ j \in 1 .. Len(LeafAt(c[m]).entries)
                      /\ e = LeafAt(c[m]).entries[j]

LEMMA KeptStands ==
    ASSUME NEW c, NEW e \in Kept(c)
    PROVE  \E m, j : Stands(c, e, m, j)
BY DEF Kept, Has, Occurs, Stands

LEMMA StandsKept ==
    ASSUME NEW c, NEW lev, NEW lvl, NEW rng, AtRest(c, lev, lvl, rng),
           NEW e, NEW m, NEW j, Stands(c, e, m, j)
    PROVE  /\ e \in Kept(c) /\ e.key \in Int /\ m \in Nat /\ j \in Nat /\ m >= 1 /\ j >= 1
           /\ e.key \in rng[c[m]] /\ At(lvl, c[m], 0)
<1>1. m \in 1 .. Len(c) /\ j \in 1 .. Len(LeafAt(c[m]).entries) /\ e = LeafAt(c[m]).entries[j]
    BY DEF Stands
<1>2. LeafAt(c[m]).entries \in Seq(Entry)
    BY RestFacts
<1>3. e \in Entry
    BY <1>1, <1>2, ElementOfSeq
<1>4. e \in Kept(c)
    BY <1>1, <1>3 DEF Kept, Has, Occurs
<1>5. At(lvl, c[m], 0)
    BY <1>1, RestFacts, ChainRanges DEF AtRest
<1>6. e.key \in rng[c[m]]
    BY <1>1, <1>5 DEF AtRest, Ranged, PageRange, LeafRange, At
<1> QED
    BY <1>1, <1>3, <1>4, <1>5, <1>6, RestFacts

\* Of two entries, the one that stands before the other has the smaller key.
LEMMA StandsOrder ==
    ASSUME NEW c, NEW lev, NEW lvl, NEW rng, AtRest(c, lev, lvl, rng),
           NEW e, NEW m, NEW j, Stands(c, e, m, j),
           NEW f, NEW n, NEW i, Stands(c, f, n, i)
    PROVE  /\ e.key < f.key <=> m < n \/ (m = n /\ j < i)
           /\ f.key < e.key <=> n < m \/ (m = n /\ i < j)
<1>1. /\ e.key \in Int /\ f.key \in Int /\ m \in Nat /\ n \in Nat /\ i \in Nat /\ j \in Nat
    BY StandsKept
<1>2. /\ m < n => e.key < f.key
      /\ m = n /\ j < i => e.key < f.key
      /\ n < m => f.key < e.key
      /\ n = m /\ i < j => f.key < e.key
    BY ChainPlaces DEF Stands
<1>3. m = n /\ i = j => e = f
    BY DEF Stands
<1> QED
    BY <1>1, <1>2, <1>3

\* locate ends in an empty leaf only if it is the only one.
LEMMA LocateFindsNone ==
    ASSUME NEW c, NEW lev, NEW lvl, NEW rng, AtRest(c, lev, lvl, rng), NEW key \in Int,
           LeafAt(FindLeaf(key)).entries = <<>>
    PROVE  Kept(c) = {}
<1>1. PICK n \in 1 .. Len(c) : c[n] = FindLeaf(key)
    BY RestFacts, FindLeafRange DEF AtRest
<1>2. Len(c) = 1
  <2>1. ~ (1 \in 1 .. Len(LeafAt(c[n]).entries))
    BY <1>1
  <2> QED
    BY <2>1, LeavesNotEmpty
<1>3. \A i \in 1 .. Len(c) : LeafAt(c[i]).entries = <<>>
    BY <1>1, <1>2
<1> QED
    BY <1>3 DEF Kept, Has, Occurs

\* locate for a key of the index, or for one below all of them, ends before the
\* entry to begin with.
LEMMA LocateFaces ==
    ASSUME NEW c, NEW lev, NEW lvl, NEW rng, AtRest(c, lev, lvl, rng), NEW key \in Int,
           (\E e \in Kept(c) : e.key = key) \/ (\A e \in Kept(c) : e.key > key),
           LeafAt(FindLeaf(key)).entries # <<>>, NEW cur,
           cur = [pid |-> FindLeaf(key), eid |-> LeafLocate(LeafAt(FindLeaf(key)), key)]
    PROVE  Facing(c, cur) /\ Passed(c, cur) = {e \in Kept(c) : e.key < key}
<1>1. PICK n \in 1 .. Len(c) : c[n] = FindLeaf(key) /\ key \in rng[c[n]] /\ At(lvl, c[n], 0)
    BY RestFacts, FindLeafRange DEF AtRest
<1>2. PICK es : es = LeafAt(c[n]).entries
    OBVIOUS
<1>3. PICK i : i = cur.eid + 1
    OBVIOUS
<1>4. /\ es \in Seq(Entry) /\ Len(es) \in Nat /\ Len(es) # 0
      /\ \A j, k \in 1 .. Len(es) : j < k => es[j].key < es[k].key
      /\ \A j \in 1 .. Len(es) : es[j].key \in Int
  <2>1. es \in Seq(Entry) /\ RisingEntries(es) /\ es # <<>>
    BY <1>1, <1>2, RestFacts
  <2>2. Len(es) \in Nat /\ Len(es) # 0 /\ \A j \in 1 .. Len(es) : es[j] \in Entry
    BY <2>1, EmptySeq, ElementOfSeq
  <2> QED
    BY <2>1, <2>2, RestFacts DEF RisingEntries
<1> DEFINE stops == {j \in 1 .. Len(es) : es[j].key >= key}
<1>5. /\ i \in 1 .. Len(es) + 1 /\ i \in stops \cup {Len(es) + 1}
      /\ \A j \in stops : i <= j
      /\ cur.eid = i - 1 /\ cur.pid = c[n]
  <2>1. stops \in SUBSET (1 .. Len(es))
    OBVIOUS
  <2>2. PICK a : a = Min(stops \cup {Len(es) + 1})
    OBVIOUS
  <2>3. a \in 1 .. Len(es) + 1 /\ a \in stops \cup {Len(es) + 1} /\ \A j \in stops : a <= j
    <3> HIDE DEF stops
    <3> QED
      BY <1>4, <2>1, <2>2, FirstOrEnd
  <2>4. cur.eid = a - 1 /\ cur.pid = c[n]
    BY <1>1, <1>2, <2>2 DEF LeafLocate
  <2>5. i = a
    BY <1>3, <2>3, <2>4
  <2> QED
    BY <2>3, <2>4, <2>5
<1>6. SUFFICES /\ i \in 1 .. Len(es)
               /\ \A e \in Kept(c) : e.key < es[i].key <=> e.key < key
  <2>1. c[n] # NoPid
    BY RestFacts
  <2>2. NextEntry(cur) = es[i] /\ cur.pid # NoPid /\ cur.eid + 1 \in 1 .. Len(es)
    BY <1>2, <1>3, <1>5, <1>6, <2>1 DEF NextEntry
  <2> QED
    BY <1>2, <1>5, <1>6, <2>2 DEF Facing, Passed
<1>8. CASE \E e \in Kept(c) : e.key = key
  <2>1. PICK e \in Kept(c) : e.key = key
    BY <1>8
  <2>2. PICK m, j : Stands(c, e, m, j)
    BY KeptStands
  <2>3. c[m] = c[n]
    <3>1. key \in rng[c[m]] /\ At(lvl, c[m], 0)
      BY <2>1, <2>2, StandsKept
    <3>2. Places(lvl, rng)
      BY DEF AtRest, Ranged
    <3> QED
      BY <1>1, <3>1, <3>2 DEF Places, At
  <2>4. j \in 1 .. Len(es) /\ es[j].key = key
    BY <1>2, <2>1, <2>2, <2>3 DEF Stands
  <2>5. j \in stops /\ i <= j
    BY <1>5, <2>4
  <2>6. i \in 1 .. Len(es)
    BY <1>4, <1>5, <2>4, <2>5
  <2>7. es[i].key = key
    <3>1. es[i].key >= key
      BY <1>4, <1>5, <2>6
    <3>2. i = j \/ i < j
      BY <1>5, <2>4, <2>5
    <3>3. i < j => es[i].key < es[j].key
      BY <1>4, <2>4, <2>6
    <3> QED
      BY <1>4, <2>4, <2>6, <3>1, <3>2, <3>3
  <2> QED
    BY <2>6, <2>7
<1>9. CASE \A e \in Kept(c) : e.key > key
  <2>1. 1 \in 1 .. Len(es) /\ Stands(c, es[1], n, 1)
    BY <1>2, <1>4 DEF Stands
  <2>2. es[1].key > key /\ es[1].key \in Int
    BY <1>9, <2>1, StandsKept
  <2>3. 1 \in stops
    BY <2>1, <2>2
  <2>4. i = 1
    BY <1>4, <1>5, <2>1, <2>3
  <2>5. ASSUME NEW e \in Kept(c) PROVE ~ (e.key < es[1].key) /\ ~ (e.key < key)
    <3>1. PICK m, j : Stands(c, e, m, j)
      BY KeptStands
    <3>2. /\ e.key > key /\ e.key \in Int /\ m \in Nat /\ j \in Nat /\ j >= 1 /\ n \in Nat
          /\ e.key \in rng[c[m]]
      BY <1>9, <3>1, StandsKept
    <3>3. ~ (m < n)
      <4>1. m < n => \A k \in rng[c[m]], l \in rng[c[n]] : k < l
        BY <3>1, RestFacts, ChainRanges DEF AtRest, Stands
      <4>2. m < n => e.key < key
        BY <1>1, <3>2, <4>1
      <4> QED
        BY <3>2, <4>2
    <3>4. e.key < es[1].key <=> m < n \/ (m = n /\ j < 1)
      BY <2>1, <3>1, StandsOrder
    <3> QED
      BY <3>2, <3>3, <3>4
  <2> QED
    BY <2>1, <2>4, <2>5
<1> QED
    BY <1>8, <1>9

\* readForward hands out the entry that the cursor is before, and moves past it
\* and no other.
LEMMA ForwardFaces ==
    ASSUME NEW c, NEW lev, NEW lvl, NEW rng, AtRest(c, lev, lvl, rng),
           Facing(c, cursor), cursor \in [pid : Pid, eid : Nat], NEW next,
           next = NextCursor(LeafAt(cursor.pid))
    PROVE  /\ NextEntry(cursor) \in Kept(c) /\ cursor.pid # NoPid
           /\ Behind(next) \/ Facing(c, next)
           /\ Passed(c, next) = Passed(c, cursor) \cup {NextEntry(cursor)}
<1>1. PICK n \in 1 .. Len(c) : cursor.pid = c[n]
    BY DEF Facing
<1>2. PICK i, es, f : i = cursor.eid + 1 /\ es = LeafAt(c[n]).entries /\ f = NextEntry(cursor)
    OBVIOUS
<1>3. /\ i \in 1 .. Len(es) /\ cursor.eid = i - 1 /\ f = es[i]
      /\ c[n] # NoPid /\ Len(es) \in Nat
  <2>1. cursor.eid \in Nat /\ i = cursor.eid + 1
    BY <1>2
  <2>2. i \in 1 .. Len(es)
    BY <1>1, <1>2 DEF Facing
  <2>3. f = es[i]
    BY <1>1, <1>2 DEF NextEntry
  <2>4. es \in Seq(Entry)
    BY <1>2, RestFacts
  <2>5. Len(es) \in Nat
    BY <2>4
  <2>6. c[n] # NoPid
    BY RestFacts
  <2> QED
    BY <2>1, <2>2, <2>3, <2>5, <2>6
<1>4. Stands(c, f, n, i) /\ f \in Kept(c)
  <2>1. Stands(c, f, n, i)
    BY <1>2, <1>3 DEF Stands
  <2> QED
    BY <2>1, StandsKept
<1>5. Passed(c, cursor) = {e \in Kept(c) : e.key < f.key}
    BY <1>1, <1>2, <1>3 DEF Passed
<1>6. LeafAt(c[n]).next = IF n = Len(c) THEN NoPid ELSE c[n + 1]
    BY RestFacts DEF Chain
<1>7. n \in Nat /\ n >= 1 /\ n <= Len(c) /\ Len(c) \in Nat
    BY RestFacts
\* Enough: the next entry is the one that stands behind f.
<1>8. ASSUME NEW g, NEW n2, NEW i2, Stands(c, g, n2, i2), g = NextEntry(next), next.pid # NoPid,
             \A e, m, j : Stands(c, e, m, j) =>
                 (m < n2 \/ (m = n2 /\ j < i2) <=> m < n \/ (m = n /\ j <= i))
      PROVE  Passed(c, next) = Passed(c, cursor) \cup {f}
  <2>1. ASSUME NEW e \in Kept(c) PROVE e.key < g.key <=> e.key < f.key \/ e = f
    <3>1. PICK m, j : Stands(c, e, m, j)
      BY KeptStands
    <3>2. e.key < g.key <=> m < n \/ (m = n /\ j <= i)
      BY <1>8, <3>1, StandsOrder
    <3>3. e.key < f.key <=> m < n \/ (m = n /\ j < i)
      BY <1>4, <3>1, StandsOrder
    <3>4. m = n /\ j = i => e = f
      BY <1>4, <3>1 DEF Stands
    <3>5. f.key < g.key
      BY <1>4, <1>8, StandsOrder, StandsKept
    <3>6. j \in Nat /\ i \in Nat
      BY <1>4, <3>1, StandsKept
    <3> QED
      BY <3>2, <3>3, <3>4, <3>5, <3>6
  <2> QED
    BY <1>4, <1>5, <1>8, <2>1 DEF Passed
<1>9. CASE i < Len(es)
  <2>1. next.pid = c[n] /\ next.eid = i
    BY <1>1, <1>2, <1>3, <1>9 DEF NextCursor
  <2>2. PICK i2 : i2 = i + 1
    OBVIOUS
  <2>3. i2 \in 1 .. Len(es) /\ i \in Nat /\ next.eid + 1 = i2
    BY <1>3, <1>9, <2>1, <2>2
  <2>4. Facing(c, next) /\ NextEntry(next) = es[i2] /\ next.pid # NoPid
    BY <1>2, <1>3, <2>1, <2>3 DEF Facing, NextEntry
  <2>5. Stands(c, es[i2], n, i2)
    BY <1>2, <2>3 DEF Stands
  <2>6. ASSUME NEW e, NEW m, NEW j, Stands(c, e, m, j)
        PROVE  m < n \/ (m = n /\ j < i2) <=> m < n \/ (m = n /\ j <= i)
    <3>1. j \in Nat
      BY <2>6, StandsKept
    <3> QED
      BY <2>2, <2>3, <3>1
  <2>7. Passed(c, next) = Passed(c, cursor) \cup {f}
    BY <1>8, <2>4, <2>5, <2>6
  <2> QED
    BY <1>1, <1>2, <1>3, <1>4, <2>4, <2>7
<1>10. CASE ~ (i < Len(es))
  <2>1. i = Len(es)
    BY <1>3, <1>10
  <2>2. next = [pid |-> LeafAt(c[n]).next, eid |-> 0]
    <3>1. ~ (cursor.eid < Len(es) - 1)
      BY <1>3, <2>1
    <3> QED
      BY <1>1, <1>2, <3>1 DEF NextCursor
  <2>3. ASSUME NEW e, NEW m, NEW j, Stands(c, e, m, j), m = n PROVE j <= i
    BY <1>2, <2>1, <2>3 DEF Stands
  <2>4. CASE n = Len(c)
    <3>1. Behind(next) /\ next.pid = NoPid
      BY <1>6, <2>2, <2>4 DEF Behind
    <3>2. \A e \in Kept(c) : e.key < f.key \/ e = f
      <4> TAKE e \in Kept(c)
      <4>1. PICK m, j : Stands(c, e, m, j)
        BY KeptStands
      <4>2. m \in 1 .. Len(c) /\ j \in Nat /\ i \in Nat
        BY <1>4, <4>1, StandsKept DEF Stands
      <4>3. m < n \/ (m = n /\ j <= i)
        BY <1>7, <2>3, <2>4, <4>1, <4>2
      <4>4. e.key < f.key <=> m < n \/ (m = n /\ j < i)
        BY <1>4, <4>1, StandsOrder
      <4>5. m = n /\ j = i => e = f
        BY <1>4, <4>1 DEF Stands
      <4> QED
        BY <4>2, <4>3, <4>4, <4>5
    <3>3. Passed(c, next) = Kept(c)
      BY <3>1 DEF Passed
    <3> QED
      BY <1>1, <1>2, <1>3, <1>4, <1>5, <3>1, <3>2, <3>3
  <2>5. CASE n # Len(c)
    <3>1. PICK n2, l : n2 = n + 1 /\ l = Len(c)
      OBVIOUS
    <3>2. n2 \in 1 .. l /\ n2 \in Nat /\ l # 1
      BY <1>7, <2>5, <3>1
    <3>3. next.pid = c[n2] /\ next.eid = 0 /\ c[n2] # NoPid
      BY <1>6, <2>2, <2>5, <3>1, <3>2, RestFacts
    <3>4. 1 \in 1 .. Len(LeafAt(c[n2]).entries)
      BY <3>1, <3>2, LeavesNotEmpty
    <3>5. Facing(c, next) /\ NextEntry(next) = LeafAt(c[n2]).entries[1]
      BY <3>1, <3>2, <3>3, <3>4 DEF Facing, NextEntry
    <3>6. Stands(c, NextEntry(next), n2, 1)
      BY <3>1, <3>2, <3>4, <3>5 DEF Stands
    <3>7. ASSUME NEW e, NEW m, NEW j, Stands(c, e, m, j)
          PROVE  m < n2 \/ (m = n2 /\ j < 1) <=> m < n \/ (m = n /\ j <= i)
      <4>1. j \in Nat /\ j >= 1 /\ m \in Nat
        BY <3>7, StandsKept
      <4>2. m = n => j <= i
        BY <2>3, <3>7
      <4> QED
        BY <1>7, <3>1, <4>1, <4>2
    <3>8. Passed(c, next) = Passed(c, cursor) \cup {f}
      BY <1>8, <3>3, <3>6, <3>7
    <3> QED
      BY <1>1, <1>2, <1>3, <1>4, <3>5, <3>8
  <2> QED
    BY <2>4, <2>5
<1> QED
    BY <1>9, <1>10

(***************************************************************************)
(* What the chain holds                                                    *)
(***************************************************************************)

\* As long as the process is not killed, the chain holds no entry but those
\* whose insert returned and the one whose insert is running.
Listed == crashes = 0 => Stored \subseteq acked \cup {ins}

\* An insert that has not written its entry, and no insert, list nothing.
LEMMA NothingRuns ==
    ASSUME Typed, NEW c, NEW lev, Linked(c, lev),
           pc \in {"idle", "scan", "scanEnd", "descend"}
    PROVE  ins \notin Kept(c)
<1>1. CASE pc = "descend"
    BY <1>1 DEF Linked, Accounted, Unwritten
<1>2. CASE pc # "descend"
  <2>1. ins = NoEntry
    BY <1>2 DEF Linked, Accounted
  <2> QED
    BY <2>1, NoRidIsNoRecord DEF NoEntry, Kept, Entry
<1> QED
    BY <1>1, <1>2

LEMMA NextListed ==
    ASSUME EndKey \notin Key, Chained, Listed, [Next]_vars
    PROVE  Listed'
<1> SUFFICES ASSUME crashes' = 0 PROVE Stored' \subseteq (acked \cup {ins})'
    BY DEF Listed
<1>1. PICK c, lev : Typed /\ Linked(c, lev)
    BY DEF Chained
<1>2. PICK c2, lev2 : Linked(c2, lev2)' /\ Kin(c, c2)
    BY <1>1, NextLinked
<1>3. /\ ~ Crash /\ crashes = 0 /\ Stored = Kept(c) /\ Stored' = Kept(c2)'
      /\ Kept(c) \subseteq acked \cup {ins}
  <2>1. ~ Crash /\ crashes = 0
    BY <1>1, NotCrashed
  <2>2. Chained' /\ StoredIsKept /\ StoredIsKept'
    BY <1>1, NextChained, ChainedStored, ChainedStoredNext
  <2>3. Stored = Kept(c)
    BY <1>1, <2>2 DEF StoredIsKept, Linked, Tree
  <2>4. Stored' = Kept(c2)'
    BY <1>2, <2>2 DEF StoredIsKept, Linked, Tree
  <2> QED
    BY <2>1, <2>3, <2>4 DEF Listed
<1>4. ASSUME pc \in {"idle", "scan", "scanEnd", "descend"}, acked' = acked, Stored' = Stored
      PROVE  Stored' \subseteq (acked \cup {ins})'
    BY <1>1, <1>3, <1>4, NothingRuns
<1>5. CASE InsertInLeaf \/ WriteLeaf
  <2>1. CASE InsertInLeaf
    <3>1. acked' = acked \cup {ins}
      BY <2>1 DEF InsertInLeaf, Return
    <3> QED
      BY <1>2, <1>3, <3>1 DEF Kin
  <2>2. CASE WriteLeaf
    <3>1. acked' = acked /\ ins' = ins
      BY <2>2 DEF WriteLeaf, ghost
    <3> QED
      BY <1>2, <1>3, <3>1 DEF Kin
  <2> QED
    BY <1>5, <2>1, <2>2
<1>6. CASE ~ (InsertInLeaf \/ WriteLeaf)
  <2>1. Stored' = Stored
    BY <1>2, <1>3, <1>6 DEF Kin
  <2>2. CASE InsertInNonLeaf \/ CommitRoot
    <3>1. acked' = acked \cup {ins}
      BY <2>2 DEF InsertInNonLeaf, CommitRoot, Return
    <3> QED
      BY <1>3, <2>1, <3>1
  <2>3. CASE InsertStep /\ ~ (InsertInNonLeaf \/ CommitRoot \/ OverflowInInsert)
    <3>1. acked' = acked /\ ins' = ins
      BY <1>6, <2>3 DEF InsertStep, FetchFirstRoot, CommitFirst, Descend, FetchLeafSibling,
         WriteLeafSibling, FetchNonLeafSibling, WriteNonLeafSibling, WriteNonLeaf,
         FetchNewRoot, WriteNewRoot, frame, ghost
    <3> QED
      BY <1>3, <2>1, <3>1
  <2>4. CASE OverflowInInsert
    BY <1>4, <2>1, <2>4 DEF OverflowInInsert, ghost
  <2>5. CASE UNCHANGED vars
    <3>1. acked' = acked /\ ins' = ins
      BY <2>5 DEF vars, frame, ghost
    <3> QED
      BY <1>3, <2>1, <3>1
  <2>6. CASE Next /\ ~ InsertStep
    <3>1. acked' = acked /\ pc \in {"idle", "scan", "scanEnd"}
      BY <1>1, <1>3, <2>6 DEF Next, Open, Close, Insert, FirstInsert, MayInsert, Locate,
         OverflowInLocate, ReadForward, ghost, Typed, Running
    <3> QED
      BY <1>4, <2>1, <3>1
  <2> QED
    BY <2>2, <2>3, <2>4, <2>5, <2>6
<1> QED
    BY <1>5, <1>6

LEMMA InitListed == Init => Listed
<1> SUFFICES ASSUME Init PROVE Stored = {}
    BY DEF Listed
<1>1. /\ \A pid : LeafAt(pid).entries = <<>>
  <2>1. EndPid = 0
    BY DEF Init, EndPid
  <2>2. \A pid : PageAt(pid) = Blank
    BY <2>1 DEF PageAt
  <2> QED
    BY <2>2 DEF LeafAt, Blank, EmptyLeaf, Leaf
<1>2. Chained /\ StoredIsKept
    BY InitChained, ChainedStored
<1>3. PICK c, lev : Linked(c, lev)
    BY <1>2 DEF Chained
<1>4. Stored = Kept(c)
    BY <1>2, <1>3 DEF StoredIsKept, Linked, Tree
<1>5. Len(<<>>) = 0
    OBVIOUS
<1> QED
    BY <1>1, <1>4, <1>5 DEF Kept, Has, Occurs

LEMMA ListInvariant ==
    ASSUME EndKey \notin Key
    PROVE  Spec => []Listed
BY InitListed, NextListed, ChainInvariant, PTL DEF Spec

(***************************************************************************)
(* The scan                                                                *)
(***************************************************************************)

\* A scan has returned what its cursor passed, from its key on; a key below
\* that is behind the cursor from the start.
HasRead(c) ==
    /\ Behind(cursor) \/ Facing(c, cursor)
    /\ ToSet(scanned) = {e \in Passed(c, cursor) : e.key >= scanKey}
    /\ {e \in Kept(c) : e.key < scanKey} \subseteq Passed(c, cursor)
    /\ \A i, j \in 1 .. Len(scanned) : i < j => scanned[i].key < scanned[j].key
Reading ==
    /\ pc \in {"scan", "scanEnd"} => treeHeight > 0
    /\ (pc = "scan" /\ StartsOnEntry) => \E c, lev : Linked(c, lev) /\ HasRead(c)
    /\ (pc = "scanEnd" /\ StartsOnEntry) => ReturnedFrom(scanKey)
ReadRight == crashes = 0 => Reading

\* The places of the cursor depend on the file alone.
LEMMA SamePlaces ==
    ASSUME NEW c, disk' = disk, Kept(c)' = Kept(c), NEW cur
    PROVE  /\ Facing(c, cur)' <=> Facing(c, cur)
           /\ NextEntry(cur)' = NextEntry(cur)
           /\ Passed(c, cur)' = Passed(c, cur)
<1>1. \A p : LeafAt(p)' = LeafAt(p)
    BY DEF LeafAt, PageAt, EndPid
<1> QED
    BY <1>1 DEF Facing, NextEntry, Passed

LEMMA LocateReads ==
    ASSUME NEW c, NEW lev, NEW lvl, NEW rng, AtRest(c, lev, lvl, rng), Listed, crashes = 0,
           Chained, NEW key \in Int, Locate(key)
    PROVE  Reading'
<1>1. /\ pc = "idle" /\ pc' = "scan" /\ disk' = disk /\ scanKey' = key /\ scanned' = <<>>
      /\ mode' = mode /\ rootPid' = rootPid /\ treeHeight' = treeHeight /\ treeHeight > 0
      /\ ins' = ins /\ acked' = acked /\ tried' = tried
      /\ LeafAt(FindLeaf(key)).entries # <<>>
      /\ cursor' = [pid |-> FindLeaf(key), eid |-> LeafLocate(LeafAt(FindLeaf(key)), key)]
    BY DEF Locate, file, head, frame, ghost
<1>2. Linked(c, lev)' /\ Kept(c)' = Kept(c)
    BY <1>1, ScanLinked DEF AtRest
<1> SUFFICES ASSUME StartsOnEntry' PROVE HasRead(c)'
    BY <1>1, <1>2 DEF Reading
<1>3. acked = Kept(c)
  <2>1. Kept(c) \subseteq acked \cup {ins}
    BY ChainedStored DEF StoredIsKept, Listed, AtRest, Linked, Tree
  <2>2. ins \notin Kept(c) /\ acked \subseteq Kept(c)
    BY <1>1, NothingRuns DEF AtRest, Linked, Accounted
  <2> QED
    BY <2>1, <2>2
<1>4. (\E e \in Kept(c) : e.key = key) \/ (\A e \in Kept(c) : e.key > key)
    BY <1>1, <1>3 DEF StartsOnEntry
<1>5. PICK cur : cur = cursor'
    OBVIOUS
<1>6. Facing(c, cur) /\ Passed(c, cur) = {e \in Kept(c) : e.key < key}
    BY <1>1, <1>4, <1>5, LocateFaces
<1>7. Facing(c, cur)' /\ Passed(c, cur)' = {e \in Kept(c) : e.key < key}
    BY <1>1, <1>2, <1>6, SamePlaces
<1>8. Facing(c, cursor)' /\ Passed(c, cursor)' = {e \in Kept(c) : e.key < key}
    BY <1>5, <1>7 DEF Facing, Passed, NextEntry
<1>9. {e \in Passed(c, cursor)' : e.key >= key} = {}
  <2>1. \A e \in Kept(c) : e.key \in Int
    BY RestFacts DEF Kept
  <2> QED
    BY <1>8, <2>1
<1>10. ToSet(scanned') = {} /\ Len(scanned') = 0
    BY <1>1 DEF ToSet
<1> QED
    BY <1>1, <1>2, <1>8, <1>9, <1>10 DEF HasRead

LEMMA ForwardReads ==
    ASSUME NEW c, NEW lev, NEW lvl, NEW rng, AtRest(c, lev, lvl, rng), Chained, NodesFit,
           HasRead(c), StartsOnEntry, ReadForward
    PROVE  /\ pc' \in {"scan", "scanEnd"}
           /\ pc' = "scan" => Linked(c, lev)' /\ HasRead(c)'
           /\ pc' = "scanEnd" => ReturnedFrom(scanKey)'
<1>1. /\ pc = "scan" /\ disk' = disk /\ scanKey' = scanKey /\ mode' = mode
      /\ rootPid' = rootPid /\ treeHeight' = treeHeight /\ ins' = ins
      /\ acked' = acked /\ tried' = tried /\ cursor' = NextCursor(LeafAt(cursor.pid))
      /\ pc' \in {"scan", "scanEnd"}
      /\ scanned \in Seq(Entry) /\ cursor \in [pid : Pid, eid : Nat] /\ disk \in Seq(Page)
    BY DEF ReadForward, file, head, frame, ghost, AtRest, Typed, TypeOK
<1>2. PICK e \in ReadEntry(LeafAt(cursor.pid), cursor.eid) :
          IF e.rid = NoRid THEN pc' = "scanEnd" /\ scanned' = scanned
                           ELSE scanned' = Append(scanned, e) /\ pc' = pc
    BY DEF ReadForward
<1>3. Linked(c, lev)' /\ Kept(c)' = Kept(c)
    BY <1>1, ScanLinked DEF AtRest
<1>4. CASE Behind(cursor)
  <2>1. LeafAt(cursor.pid).entries = <<>> /\ cursor.eid = 0
    <3>1. cursor.pid \notin 0 .. EndPid - 1
      BY <1>1, <1>4 DEF Behind, NoPid, EndPid
    <3> QED
      BY <1>4, <3>1 DEF Behind, LeafAt, PageAt, Blank, EmptyLeaf, Leaf
  <2>2. ~ (0 >= MAX_LEAF_KEY_COUNT) /\ ~ (0 < Len(<<>>))
    BY LeafCapacity
  <2>3. e = NoEntry
    BY <1>2, <2>1, <2>2 DEF ReadEntry
  <2>4. pc' = "scanEnd" /\ scanned' = scanned
    BY <1>2, <2>3 DEF NoEntry
  <2>5. Stored' = Kept(c)
    <3>1. Stored = Kept(c)
      BY ChainedStored DEF StoredIsKept, AtRest, Linked, Tree
    <3>2. Stored' = Stored
      BY <1>1 DEF Stored, LeafChain, LeafAt, PageAt, EndPid
    <3> QED
      BY <3>1, <3>2
  <2>6. Passed(c, cursor) = Kept(c)
    BY <1>4 DEF Passed, Behind
  <2>7. ToSet(scanned') = {f \in Kept(c) : f.key >= scanKey}
    BY <2>4, <2>6 DEF HasRead
  <2>8. \A i, j \in DOMAIN scanned' : i < j => scanned'[i].key < scanned'[j].key
    BY <1>1, <2>4 DEF HasRead
  <2> QED
    BY <1>1, <2>4, <2>5, <2>7, <2>8 DEF ReturnedFrom
<1>5. CASE Facing(c, cursor)
  <2>1. PICK f, es : f = NextEntry(cursor) /\ es = LeafAt(cursor.pid).entries
    OBVIOUS
  <2>2. /\ f \in Kept(c)
        /\ Behind(cursor') \/ Facing(c, cursor')
        /\ Passed(c, cursor') = Passed(c, cursor) \cup {f} /\ cursor.pid # NoPid
    BY <1>1, <1>5, <2>1, ForwardFaces
  <2>3. e = f
    <3>1. cursor.eid + 1 \in 1 .. Len(es) /\ cursor.eid \in Nat
      BY <1>1, <1>5, <2>1 DEF Facing
    <3>2. es \in Seq(Entry) /\ Len(es) \in Nat
      BY <2>1, RestFacts
    <3>3. Len(es) <= MAX_LEAF_KEY_COUNT
      <4>1. LeafAt(cursor.pid) \in LeafPage
        BY <1>1, LeafAtTyped
      <4>2. NodeFits(LeafAt(cursor.pid))
        BY <1>1, PageFits
      <4> QED
        BY <2>1, <4>1, <4>2 DEF NodeFits, LeafPage
    <3>4. MAX_LEAF_KEY_COUNT \in Nat
      BY LeafCapacity
    <3>5. ~ (cursor.eid >= MAX_LEAF_KEY_COUNT) /\ cursor.eid < Len(es)
      BY <3>1, <3>2, <3>3, <3>4
    <3> QED
      BY <1>2, <2>1, <3>5 DEF ReadEntry, NextEntry
  <2>4. f \in Entry /\ f.rid # NoRid /\ f.key \in Int
    BY <2>2, RestFacts DEF Kept
  <2>5. pc' = "scan" /\ scanned' = Append(scanned, f)
    BY <1>1, <1>2, <2>3, <2>4
  <2>6. \A g \in Passed(c, cursor) : g.key < f.key /\ g.key \in Int
    BY <2>1, <2>2, RestFacts DEF Passed, Kept
  <2>7. f \notin Passed(c, cursor) /\ ~ (f.key < scanKey)
    BY <2>2, <2>4, <2>6 DEF HasRead
  <2>8. scanKey \in Int /\ f.key >= scanKey
    BY <2>4, <2>7 DEF AtRest, Typed, TypeOK
  <2>9. /\ Len(scanned') = Len(scanned) + 1 /\ scanned'[Len(scanned) + 1] = f
        /\ \A i \in 1 .. Len(scanned) : scanned'[i] = scanned[i]
        /\ Len(scanned) \in Nat
    BY <1>1, <2>4, <2>5, AppendProperties
  <2>10. ToSet(scanned') = ToSet(scanned) \cup {f}
    <3>1. /\ DOMAIN scanned' = 1 .. Len(scanned) + 1 /\ DOMAIN scanned = 1 .. Len(scanned)
      BY <1>1, <2>4, <2>5, <2>9
    <3>2. 1 .. Len(scanned) + 1 = 1 .. Len(scanned) \cup {Len(scanned) + 1}
      BY <2>9
    <3> QED
      BY <2>9, <3>1, <3>2 DEF ToSet
  <2>11. ToSet(scanned') = {g \in Passed(c, cursor') : g.key >= scanKey}
    BY <2>2, <2>8, <2>10 DEF HasRead
  <2>12. {g \in Kept(c) : g.key < scanKey} \subseteq Passed(c, cursor')
    BY <2>2 DEF HasRead
  <2>13. \A i, j \in 1 .. Len(scanned') : i < j => scanned'[i].key < scanned'[j].key
    <3> TAKE i, j \in 1 .. Len(scanned')
    <3> HAVE i < j
    <3>1. i \in 1 .. Len(scanned) /\ scanned'[i] = scanned[i]
      BY <2>9
    <3>2. scanned[i] \in Passed(c, cursor)
      <4>1. scanned[i] \in ToSet(scanned)
        BY <1>1, <3>1 DEF ToSet
      <4> QED
        BY <4>1 DEF HasRead
    <3>3. CASE j = Len(scanned) + 1
      BY <2>6, <2>9, <3>1, <3>2, <3>3
    <3>4. CASE j # Len(scanned) + 1
      <4>1. j \in 1 .. Len(scanned)
        BY <2>9, <3>4
      <4> QED
        BY <2>9, <3>1, <4>1 DEF HasRead
    <3> QED
      BY <3>3, <3>4
  <2>14. PICK cur : cur = cursor'
    OBVIOUS
  <2>15. /\ Behind(cursor') \/ Facing(c, cursor)'
         /\ Passed(c, cursor)' = Passed(c, cursor')
    <3>1. (Facing(c, cur)' <=> Facing(c, cur)) /\ Passed(c, cur)' = Passed(c, cur)
      BY <1>1, <1>3, SamePlaces
    <3>2. (Facing(c, cursor)' <=> Facing(c, cur)') /\ Passed(c, cursor)' = Passed(c, cur)'
      BY <2>14 DEF Facing, Passed, NextEntry
    <3> QED
      BY <2>2, <2>14, <3>1, <3>2
  <2>16. HasRead(c)'
    BY <1>1, <1>3, <2>11, <2>12, <2>13, <2>15 DEF HasRead, Behind
  <2> QED
    BY <1>3, <2>5, <2>16
<1> QED
    BY <1>1, <1>4, <1>5 DEF HasRead

LEMMA NextReads ==
    ASSUME EndKey \notin Key, Chained, MetadataKept, Ordered, Halved, Listed, NodesFit,
           ReadRight, [Next]_vars
    PROVE  ReadRight'
<1> SUFFICES ASSUME crashes' = 0 PROVE Reading'
    BY DEF ReadRight
<1>1. Typed /\ ~ Crash /\ crashes = 0
    BY NotCrashed DEF Chained
<1>2. Reading /\ Halves /\ NodesSorted
    BY <1>1 DEF ReadRight, Halved, Ordered
<1>3. PICK lvl, rng : Ranged(lvl, rng)
    BY <1>1 DEF Ordered
<1>4. ASSUME pc \in {"idle", "scan"}, mode # "none", treeHeight > 0, NEW c, NEW lev, Linked(c, lev)
      PROVE  AtRest(c, lev, lvl, rng)
    BY <1>1, <1>2, <1>3, <1>4 DEF AtRest
<1>5. ASSUME pc' \notin {"scan", "scanEnd"} PROVE Reading'
    BY <1>5 DEF Reading
<1>6. ASSUME NEW key \in Probes, Locate(key) PROVE Reading'
  <2>1. PICK c, lev : Linked(c, lev)
    BY DEF Chained
  <2>2. AtRest(c, lev, lvl, rng) /\ key \in Int
    BY <1>4, <1>6, <2>1, ProbesAreIntegers DEF Locate
  <2> QED
    BY <1>1, <1>6, <2>2, LocateReads
<1>7. CASE ReadForward
  <2>1. /\ pc = "scan" /\ treeHeight' = treeHeight /\ pc' \in {"scan", "scanEnd"}
        /\ mode # "none" /\ treeHeight > 0
        /\ scanKey' = scanKey /\ acked' = acked
    BY <1>1, <1>2, <1>7 DEF ReadForward, head, ghost, Typed, Running, Reading
  <2> SUFFICES ASSUME StartsOnEntry'
               PROVE  /\ pc' = "scan" => \E c, lev : Linked(c, lev)' /\ HasRead(c)'
                      /\ pc' = "scanEnd" => ReturnedFrom(scanKey)'
    BY <2>1 DEF Reading
  <2>2. StartsOnEntry
    BY <2>1 DEF StartsOnEntry
  <2>3. PICK c, lev : Linked(c, lev) /\ HasRead(c)
    BY <1>2, <2>1, <2>2 DEF Reading
  <2>4. AtRest(c, lev, lvl, rng)
    BY <1>4, <2>1, <2>3
  <2> QED
    BY <1>7, <2>2, <2>3, <2>4, ForwardReads
<1>8. CASE UNCHANGED vars
  <2>1. /\ pc' = pc /\ disk' = disk /\ mode' = mode /\ rootPid' = rootPid
        /\ treeHeight' = treeHeight /\ ins' = ins /\ acked' = acked /\ tried' = tried
        /\ cursor' = cursor /\ scanKey' = scanKey /\ scanned' = scanned
    BY <1>8 DEF vars, file, head, frame, scan, ghost
  <2>2. (StartsOnEntry' <=> StartsOnEntry) /\ (ReturnedFrom(scanKey)' <=> ReturnedFrom(scanKey))
    BY <2>1 DEF StartsOnEntry, ReturnedFrom, Stored, LeafChain, LeafAt, PageAt, EndPid
  <2>3. ASSUME pc = "scan", NEW c, NEW lev, Linked(c, lev), HasRead(c)
        PROVE  Linked(c, lev)' /\ HasRead(c)'
    <3>1. Linked(c, lev)' /\ Kept(c)' = Kept(c)
      BY <1>1, <2>1, <2>3, ScanLinked
    <3>2. PICK cur : cur = cursor
      OBVIOUS
    <3>3. (Facing(c, cur)' <=> Facing(c, cur)) /\ Passed(c, cur)' = Passed(c, cur)
      BY <2>1, <3>1, SamePlaces
    <3>4. (Facing(c, cursor)' <=> Facing(c, cur)') /\ Passed(c, cursor)' = Passed(c, cur)'
      BY <2>1, <3>2 DEF Facing, Passed, NextEntry
    <3> QED
      BY <2>1, <2>3, <3>1, <3>2, <3>3, <3>4 DEF HasRead, Behind
  <2>4. CASE pc = "scan" /\ StartsOnEntry
    <3>1. PICK c, lev : Linked(c, lev) /\ HasRead(c)
      BY <1>2, <2>4 DEF Reading
    <3>2. Linked(c, lev)' /\ HasRead(c)'
      BY <2>3, <2>4, <3>1
    <3> QED
      BY <1>2, <2>1, <2>2, <2>4, <3>2 DEF Reading
  <2>5. CASE ~ (pc = "scan" /\ StartsOnEntry)
    BY <1>2, <2>1, <2>2, <2>5 DEF Reading
  <2> QED
    BY <2>4, <2>5
<1>9. CASE InsertStep
  <2>1. pc' \notin {"scan", "scanEnd"}
    BY <1>9 DEF InsertStep, FetchFirstRoot, CommitFirst, Descend, OverflowInInsert, InsertInLeaf,
       FetchLeafSibling, WriteLeafSibling, WriteLeaf, InsertInNonLeaf, FetchNonLeafSibling,
       WriteNonLeafSibling, WriteNonLeaf, FetchNewRoot, WriteNewRoot, CommitRoot, Return, Forget
  <2> QED
    BY <1>5, <2>1
<1>10. ASSUME NEW m \in {"r", "w"}, Open(m) PROVE Reading'
    BY <1>1, <1>5, <1>10 DEF Open, Typed, Running
<1>11. CASE Close
    BY <1>5, <1>11 DEF Close, Forget
<1>12. ASSUME NEW e \in Entry, Insert(e) \/ FirstInsert(e) PROVE Reading'
    BY <1>5, <1>12 DEF Insert, FirstInsert
<1>13. ASSUME NEW key \in Probes, OverflowInLocate(key) PROVE Reading'
    BY <1>5, <1>13 DEF OverflowInLocate, Forget
<1> QED
    BY <1>1, <1>6, <1>7, <1>8, <1>9, <1>10, <1>11, <1>12, <1>13 DEF Next

LEMMA ScanInvariant ==
    ASSUME EndKey \notin Key
    PROVE  Spec => []ReadRight
<1>1. Init => ReadRight
    BY DEF Init, ReadRight, Reading
<1> QED
    BY <1>1, NextReads, ChainInvariant, MetadataInvariant, OrderInvariant, HalfInvariant,
       ListInvariant, BTreeIndexNodesFit, PTL DEF Spec

(***************************************************************************)
(* The levels of the tree, from left to right                              *)
(***************************************************************************)

\* A sequence of the pages of one level in the order of their ranges, which
\* have every key.
Below(rng) == {pq \in Pid \X Pid : \A k \in rng[pq[1]], m \in rng[pq[2]] : k < m}
Row(lvl, rng, s, l) ==
    /\ s \in Seq(Pid) /\ InOrder(s, Below(rng))
    /\ \A p \in ToSet(s) : At(lvl, p, l)
    /\ \A k \in Int : \E p \in ToSet(s) : k \in rng[p]

LEMMA RowFacts ==
    ASSUME NEW lvl, NEW rng, Places(lvl, rng), NEW l, NEW s, Row(lvl, rng, s, l)
    PROVE  /\ Len(s) \in Nat
           /\ \A i \in 1 .. Len(s) : At(lvl, s[i], l) /\ s[i] \in Pid /\ rng[s[i]] \subseteq Int
           /\ \A i, j \in 1 .. Len(s) : i < j =>
                 s[i] # s[j] /\ \A k \in rng[s[i]], m \in rng[s[j]] : k < m
           /\ \A p : At(lvl, p, l) => \E i \in 1 .. Len(s) : s[i] = p
           /\ Len(s) # 0
<1>1. Len(s) \in Nat /\ \A i \in 1 .. Len(s) : At(lvl, s[i], l) /\ s[i] \in Pid
  <2>1. \A i \in 1 .. Len(s) : s[i] \in ToSet(s)
    BY InToSet DEF Row
  <2> QED
    BY <2>1 DEF Row
<1>2. \A i \in 1 .. Len(s) : rng[s[i]] \subseteq Int /\ rng[s[i]] # {}
    BY <1>1 DEF Places, At
<1>3. ASSUME NEW i \in 1 .. Len(s), NEW j \in 1 .. Len(s), i < j
      PROVE  s[i] # s[j] /\ \A k \in rng[s[i]], m \in rng[s[j]] : k < m
  <2>1. <<s[i], s[j]>> \in Below(rng)
    BY <1>3 DEF Row, InOrder
  <2>2. \A k \in rng[s[i]], m \in rng[s[j]] : k < m
    BY <2>1 DEF Below
  <2>3. PICK k \in rng[s[i]] : k \in Int
    BY <1>2
  <2> QED
    BY <2>2, <2>3
<1>4. ASSUME NEW p, At(lvl, p, l) PROVE \E i \in 1 .. Len(s) : s[i] = p
  <2>1. PICK k \in rng[p] : k \in Int
    BY <1>4 DEF Places, At
  <2>2. PICK i \in 1 .. Len(s) : k \in rng[s[i]]
    BY <2>1, InToSet DEF Row
  <2>3. s[i] = p
    BY <1>1, <1>4, <2>1, <2>2 DEF Places, At
  <2> QED
    BY <2>3
<1>5. Len(s) # 0
  <2>1. PICK p \in ToSet(s) : 0 \in rng[p]
    BY 0 \in Int DEF Row
  <2>2. \E i \in 1 .. Len(s) : s[i] = p
    BY InToSet DEF Row
  <2> QED
    BY <2>2
<1> QED
    BY <1>1, <1>2, <1>3, <1>4, <1>5

\* There is one such sequence for a level.
LEMMA RowPrefix ==
    ASSUME NEW lvl, NEW rng, Places(lvl, rng), NEW l,
           NEW s, Row(lvl, rng, s, l), NEW t, Row(lvl, rng, t, l)
    PROVE  /\ Len(s) <= Len(t)
           /\ \A i \in 1 .. Len(s) : s[i] = t[i]
<1> DEFINE Same(i) == i <= Len(t) /\ s[i] = t[i]
           bad     == {i \in 1 .. Len(s) : ~ Same(i)}
<1>1. /\ Len(s) \in Nat /\ Len(t) \in Nat
      /\ \A i \in 1 .. Len(s) : rng[s[i]] \subseteq Int /\ \E j \in 1 .. Len(t) : t[j] = s[i]
      /\ \A i \in 1 .. Len(t) : rng[t[i]] \subseteq Int /\ \E j \in 1 .. Len(s) : s[j] = t[i]
      /\ \A i, j \in 1 .. Len(s) : i < j => s[i] # s[j] /\ \A k \in rng[s[i]], m \in rng[s[j]] : k < m
      /\ \A i, j \in 1 .. Len(t) : i < j => t[i] # t[j] /\ \A k \in rng[t[i]], m \in rng[t[j]] : k < m
  <2>1. /\ Len(s) \in Nat /\ Len(t) \in Nat
        /\ \A i \in 1 .. Len(s) : At(lvl, s[i], l) /\ rng[s[i]] \subseteq Int
        /\ \A i \in 1 .. Len(t) : At(lvl, t[i], l) /\ rng[t[i]] \subseteq Int
    BY RowFacts
  <2>2. /\ \A p : At(lvl, p, l) => \E j \in 1 .. Len(s) : s[j] = p
        /\ \A p : At(lvl, p, l) => \E j \in 1 .. Len(t) : t[j] = p
    BY RowFacts
  <2>3. \A i, j \in 1 .. Len(s) : i < j => s[i] # s[j] /\ \A k \in rng[s[i]], m \in rng[s[j]] : k < m
    BY RowFacts
  <2>4. \A i, j \in 1 .. Len(t) : i < j => t[i] # t[j] /\ \A k \in rng[t[i]], m \in rng[t[j]] : k < m
    BY RowFacts
  <2> QED
    BY <2>1, <2>2, <2>3, <2>4
<1>2. \A i \in 1 .. Len(s) : rng[s[i]] # {}
    BY RowFacts DEF Places, At
<1>3. bad = {}
  <2> SUFFICES ASSUME bad # {} PROVE FALSE
    OBVIOUS
  <2>1. PICK i : i \in bad /\ \A other \in bad : i <= other
    <3>1. bad \in SUBSET Nat
      OBVIOUS
    <3> HIDE DEF bad
    <3> QED
      BY <3>1, MinOfNaturals
  <2>2. i \in 1 .. Len(s) /\ ~ Same(i)
    BY <2>1
  <2>3. \A a \in 1 .. Len(s) : a < i => a <= Len(t) /\ s[a] = t[a]
    <3> TAKE a \in 1 .. Len(s)
    <3> HAVE a < i
    <3>1. ~ (i <= a)
      BY <2>2
    <3> QED
      BY <2>1, <3>1
  <2>4. PICK j \in 1 .. Len(t) : t[j] = s[i]
    BY <1>1, <2>2
  <2>5. ~ (j < i)
    <3> SUFFICES ASSUME j < i PROVE FALSE
      OBVIOUS
    <3>1. j \in 1 .. Len(s)
      BY <1>1, <2>2
    <3> QED
      BY <1>1, <2>2, <2>3, <2>4, <3>1
  <2>6. j # i
    BY <1>1, <2>2, <2>4
  <2>7. i \in 1 .. Len(t) /\ i < j
    BY <1>1, <2>2, <2>5, <2>6
  <2>8. PICK b \in 1 .. Len(s) : s[b] = t[i]
    BY <1>1, <2>7
  <2>9. ~ (b < i)
    <3> SUFFICES ASSUME b < i PROVE FALSE
      OBVIOUS
    <3>1. s[b] = t[b] /\ b \in 1 .. Len(t)
      BY <1>1, <2>2, <2>3
    <3> QED
      BY <1>1, <2>7, <2>8, <3>1
  <2>10. i < b
    BY <1>1, <2>2, <2>7, <2>8, <2>9
  <2>11. PICK k : k \in rng[s[i]] /\ k \in Int
    <3>1. rng[s[i]] # {} /\ rng[s[i]] \subseteq Int
      BY <1>1, <1>2, <2>2
    <3> QED
      BY <3>1
  <2>12. PICK m : m \in rng[s[b]] /\ m \in Int
    <3>1. rng[s[b]] # {} /\ rng[s[b]] \subseteq Int
      BY <1>1, <1>2
    <3> QED
      BY <3>1
  <2>13. k < m
    BY <1>1, <2>2, <2>10, <2>11, <2>12
  <2>14. m < k
    BY <1>1, <2>4, <2>7, <2>8, <2>11, <2>12
  <2> QED
    BY <2>11, <2>12, <2>13, <2>14
<1>4. \A i \in 1 .. Len(s) : i <= Len(t) /\ s[i] = t[i]
    BY <1>3
<1>5. Len(s) <= Len(t)
    BY <1>1, <1>4
<1> QED
    BY <1>4, <1>5

LEMMA RowUnique ==
    ASSUME NEW lvl, NEW rng, Places(lvl, rng), NEW l,
           NEW s, Row(lvl, rng, s, l), NEW t, Row(lvl, rng, t, l)
    PROVE  s = t
<1>1. Len(s) <= Len(t) /\ Len(t) <= Len(s) /\ \A i \in 1 .. Len(s) : s[i] = t[i]
    BY RowPrefix
<1>2. s \in Seq(Pid) /\ t \in Seq(Pid)
    BY DEF Row
<1>3. Len(s) = Len(t)
    BY <1>1, <1>2
<1> QED
    BY <1>1, <1>2, <1>3, SeqEqual

\* The pointers of a node stand in the order of the ranges that they lead to,
\* and these make up the range of the node.
LEMMA NodeRow ==
    ASSUME EndKey \notin Key, NEW c, NEW lev, NEW lvl, NEW rng, AtRest(c, lev, lvl, rng),
           NEW p, NEW l \in Nat \ {0}, At(lvl, p, l), NEW pids, pids = NonLeafAt(p).pids
    PROVE  /\ pids \in Seq(Pid) /\ InOrder(pids, Below(rng))
           /\ \A q \in ToSet(pids) : At(lvl, q, l - 1) /\ rng[q] \subseteq rng[p]
           /\ \A k \in rng[p] : \E q \in ToSet(pids) : k \in rng[q]
<1>1. /\ disk \in Seq(Page) /\ Places(lvl, rng) /\ PageRange(lvl, rng, p)
      /\ p \in DOMAIN lvl /\ lvl[p] = l /\ lvl[p] # 0
    BY RestFacts DEF AtRest, Ranged, At
<1>2. NodeRange(lvl, rng, p)
    BY <1>1 DEF PageRange
<1>3. \A k, m : ~ IsLate(rng, k, m)
    BY RestFacts DEF IsLate
<1>4. PageAt(p) \in NonLeafPage /\ NonLeafAt(p) = PageAt(p)
  <2>1. PageAt(p).kind = "nonleaf" /\ PageAt(p) \in Page
    BY <1>1, <1>2, PageAtTyped DEF NodeRange, Branches
  <2> QED
    BY <2>1 DEF Page, LeafPage, MetaPage, Blank, NonLeafAt
<1>5. PICK keys : keys = PageAt(p).keys
    OBVIOUS
<1>6. /\ keys \in Seq(Key) /\ pids \in Seq(Pid) /\ pids = PageAt(p).pids
      /\ Len(keys) \in Nat /\ \A i \in 1 .. Len(keys) : keys[i] \in Int
  <2>1. keys \in Seq(Key) /\ pids \in Seq(Pid) /\ pids = PageAt(p).pids
    BY <1>4, <1>5 DEF NonLeafPage
  <2> QED
    BY <2>1, KeysOfNode
<1>7. \A i \in 1 .. Len(pids) :
        /\ At(lvl, pids[i], l - 1)
        /\ \A k \in Int : k \in rng[pids[i]] <=> k \in rng[p] /\ Turn(p, k) = i
    BY <1>1, <1>2, <1>3, <1>6 DEF NodeRange
<1>8. \A i \in 1 .. Len(pids) : rng[pids[i]] \subseteq Int
    BY <1>1, <1>7 DEF Places, At
<1>9. InOrder(pids, Below(rng))
  <2> SUFFICES ASSUME NEW i \in 1 .. Len(pids), NEW j \in 1 .. Len(pids), i < j,
                      NEW k \in rng[pids[i]], NEW m \in rng[pids[j]]
               PROVE  k < m
    <3>1. \A i \in 1 .. Len(pids) : pids[i] \in Pid
      BY <1>6
    <3> QED
      BY <3>1 DEF InOrder, Below
  <2>1. k \in Int /\ m \in Int /\ Turn(p, k) = i /\ Turn(p, m) = j
    BY <1>7, <1>8
  <2>2. NonLeafSlot(keys, k) = i /\ NonLeafSlot(keys, m) = j
    BY <1>5, <2>1 DEF Turn
  <2>3. i \in 1 .. Len(keys) + 1 /\ (i <= Len(keys) => k < keys[i])
    BY <1>6, <2>1, <2>2, SlotIs
  <2>4. j \in 1 .. Len(keys) + 1 /\ \A a \in 1 .. Len(keys) : a < j => keys[a] <= m
    BY <1>6, <2>1, <2>2, SlotIs
  <2>5. i \in 1 .. Len(keys) /\ k < keys[i] /\ keys[i] <= m
    BY <1>6, <2>3, <2>4
  <2> QED
    BY <1>6, <2>1, <2>5
<1>10. ASSUME NEW q \in ToSet(pids) PROVE At(lvl, q, l - 1) /\ rng[q] \subseteq rng[p]
  <2>1. PICK i \in 1 .. Len(pids) : pids[i] = q
    BY <1>6, InToSet
  <2> QED
    BY <1>7, <1>8, <2>1
<1>11. ASSUME NEW k \in rng[p] PROVE \E q \in ToSet(pids) : k \in rng[q]
  <2>1. PICK child : child = LocateChildPtr(NonLeafAt(p), k)
    OBVIOUS
  <2>2. k \in rng[child] /\ \E i \in 1 .. Len(pids) : child = pids[i]
    BY <1>1, <1>3, <1>6, <2>1, ChildRange
  <2> QED
    BY <1>6, <2>2, InToSet
<1> QED
    BY <1>6, <1>9, <1>10, <1>11

\* So the pointers of one level are the pages of the next.
LEMMA RowBelow ==
    ASSUME EndKey \notin Key, NEW c, NEW lev, NEW lvl, NEW rng, AtRest(c, lev, lvl, rng),
           NEW l \in Nat \ {0}, NEW s, Row(lvl, rng, s, l)
    PROVE  Row(lvl, rng, FlattenSeq([i \in DOMAIN s |-> NonLeafAt(s[i]).pids]), l - 1)
<1>1. Places(lvl, rng)
    BY DEF AtRest, Ranged
<1>2. PICK n, seqs : n = Len(s) /\ seqs = [i \in DOMAIN s |-> NonLeafAt(s[i]).pids]
    OBVIOUS
<1>3. /\ n \in Nat \ {0} /\ DOMAIN s = 1 .. n
      /\ \A i \in 1 .. n : At(lvl, s[i], l) /\ s[i] \in Pid /\ rng[s[i]] \subseteq Int
  <2>1. Len(s) \in Nat /\ Len(s) # 0 /\ \A i \in 1 .. Len(s) : At(lvl, s[i], l) /\ s[i] \in Pid /\ rng[s[i]] \subseteq Int
    BY <1>1, RowFacts
  <2>2. s \in Seq(Pid)
    BY DEF Row
  <2> QED
    BY <1>2, <2>1, <2>2
<1>4. \A i, j \in 1 .. n : i < j => \A k \in rng[s[i]], m \in rng[s[j]] : k < m
    BY <1>1, <1>2, RowFacts
<1>5. DOMAIN seqs = 1 .. n /\ \A i \in 1 .. n : seqs[i] = NonLeafAt(s[i]).pids
    BY <1>2, <1>3
<1>6. ASSUME NEW i \in 1 .. n
      PROVE  /\ seqs[i] \in Seq(Pid) /\ InOrder(seqs[i], Below(rng))
             /\ \A q \in ToSet(seqs[i]) : At(lvl, q, l - 1) /\ rng[q] \subseteq rng[s[i]]
             /\ \A k \in rng[s[i]] : \E q \in ToSet(seqs[i]) : k \in rng[q]
  <2>1. PICK p, pids : p = s[i] /\ pids = NonLeafAt(p).pids
    OBVIOUS
  <2>2. At(lvl, p, l) /\ seqs[i] = pids
    BY <1>3, <1>5, <2>1
  <2>3. /\ pids \in Seq(Pid) /\ InOrder(pids, Below(rng))
        /\ \A q \in ToSet(pids) : At(lvl, q, l - 1) /\ rng[q] \subseteq rng[p]
        /\ \A k \in rng[p] : \E q \in ToSet(pids) : k \in rng[q]
    BY <2>1, <2>2, NodeRow
  <2> QED
    BY <2>1, <2>2, <2>3
<1>7. Len(seqs) = n
  <2>1. seqs = [i \in 1 .. n |-> NonLeafAt(s[i]).pids] /\ \A i \in 1 .. n : NonLeafAt(s[i]).pids \in Seq(Pid)
    BY <1>2, <1>3, <1>5, <1>6
  <2>2. seqs \in Seq(Seq(Pid))
    BY <1>3, <2>1
  <2> QED
    BY <1>3, <1>5, <2>2
<1>8. ASSUME NEW i \in 1 .. n, NEW j \in 1 .. n, i < j PROVE Before(seqs[i], seqs[j], Below(rng))
  <2> SUFFICES ASSUME NEW x \in ToSet(seqs[i]), NEW y \in ToSet(seqs[j]),
                      NEW k \in rng[x], NEW m \in rng[y]
               PROVE  k < m
    <3>1. ToSet(seqs[i]) \subseteq Pid /\ ToSet(seqs[j]) \subseteq Pid
      BY <1>6, InToSet
    <3> QED
      BY <3>1 DEF Before, Below
  <2>1. k \in rng[s[i]] /\ m \in rng[s[j]]
    BY <1>6
  <2> QED
    BY <1>4, <1>8, <2>1
<1>9. PICK all : all = FlattenSeq(seqs)
    OBVIOUS
<1>10. /\ all \in Seq(Pid) /\ InOrder(all, Below(rng))
       /\ ToSet(all) = UNION {ToSet(seqs[i]) : i \in 1 .. n}
  <2>1. PICK R : R = Below(rng)
    OBVIOUS
  <2>2. \A i \in 1 .. n : seqs[i] \in Seq(Pid) /\ InOrder(seqs[i], R)
    BY <1>6, <2>1
  <2>3. \A i, j \in 1 .. n : i < j => Before(seqs[i], seqs[j], R)
    BY <1>8, <2>1
  <2>4. /\ all \in Seq(Pid) /\ InOrder(all, R)
        /\ ToSet(all) = UNION {ToSet(seqs[i]) : i \in 1 .. n}
    BY ONLY <1>3, <1>5, <1>7, <1>9, <2>2, <2>3, FlattenInOrder
  <2> QED
    BY <2>1, <2>4
<1>11. \A q \in ToSet(all) : At(lvl, q, l - 1)
    BY <1>6, <1>10
<1>12. ASSUME NEW k \in Int PROVE \E q \in ToSet(all) : k \in rng[q]
  <2>1. PICK p \in ToSet(s) : k \in rng[p]
    BY DEF Row
  <2>2. PICK i \in 1 .. n : s[i] = p
    BY <1>2, <2>1, InToSet DEF Row
  <2>3. PICK q \in ToSet(seqs[i]) : k \in rng[q]
    BY <1>6, <2>1, <2>2
  <2> QED
    BY <1>10, <2>3
<1> QED
    BY <1>2, <1>9, <1>10, <1>11, <1>12 DEF Row

\* The function in Level exists: it takes one step for each level.
LEMMA LevelExists ==
    ASSUME NEW n \in Nat
    PROVE  \E f : f = [d \in 1 .. n |->
               IF d = 1 THEN <<rootPid>>
               ELSE FlattenSeq([i \in DOMAIN f[d - 1] |-> NonLeafAt(f[d - 1][i]).pids])]
<1> DEFINE Next1(s)   == FlattenSeq([i \in DOMAIN s |-> NonLeafAt(s[i]).pids])
           Step(f, d) == IF d = 1 THEN <<rootPid>> ELSE Next1(f[d - 1])
           Is(f, m)   == f = [d \in 1 .. m |-> Step(f, d)]
           bad        == {m \in Nat : \A f : ~ Is(f, m)}
<1>1. ASSUME NEW m \in Nat, m \notin bad PROVE \E f : Is(f, m)
  <2> HIDE DEF Is
  <2> QED
    BY <1>1
<1>2. SUFFICES bad = {}
  <2>1. \E f : Is(f, n)
    <3> HIDE DEF Is
    <3> QED
      BY <1>1, <1>2
  <2> QED
    BY <2>1
<1> HIDE DEF Next1
<1>3. SUFFICES ASSUME bad # {} PROVE FALSE
    OBVIOUS
<1> DEFINE m == Min(bad)
<1>4. m \in bad /\ \A other \in bad : m <= other
  <2>1. bad \in SUBSET Nat
      OBVIOUS
  <2> HIDE DEF bad
  <2> QED
    BY <1>3, <2>1, MinOfNaturals
<1> HIDE DEF m
<1>5. m \in Nat /\ \A f : ~ Is(f, m)
  <2> HIDE DEF Is
  <2> QED
    BY <1>4
<1>6. CASE m = 0
  <2>1. Is(<<>>, 0)
    OBVIOUS
  <2> QED
    BY <1>5, <1>6, <2>1
<1>7. CASE m # 0
  <2>1. m - 1 \in Nat /\ ~ (m <= m - 1)
    BY <1>5, <1>7
  <2>2. m - 1 \notin bad
    BY <1>4, <2>1
  <2>3. \E f : Is(f, m - 1)
    <3> HIDE DEF Is, bad
    <3> QED
      BY <1>1, <2>1, <2>2
  <2>4. PICK f : Is(f, m - 1)
    <3> HIDE DEF Is
    <3> QED
      BY <2>3
  <2> DEFINE g == [d \in 1 .. m |-> IF d = m THEN Step(f, m) ELSE f[d]]
  <2>5. \A d \in 1 .. m : d # 1 => g[d - 1] = f[d - 1]
    BY <1>5
  <2>6. \A d \in 1 .. m : g[d] = Step(f, d)
    BY <1>5, <2>4
  <2>7. \A d \in 1 .. m : Step(g, d) = Step(f, d)
    BY <2>5
  <2>8. Is(g, m)
    BY <2>6, <2>7
  <2> QED
    BY <1>5, <2>8
<1> QED
    BY <1>6, <1>7

\* What Level computes are the pages of each level in their order.
LEMMA LevelRows ==
    ASSUME EndKey \notin Key, NEW c, NEW lev, NEW lvl, NEW rng, AtRest(c, lev, lvl, rng)
    PROVE  /\ Level = [d \in 1 .. treeHeight |-> Level[d]]
           /\ \A d \in 1 .. treeHeight : Row(lvl, rng, Level[d], treeHeight - d)
<1> DEFINE Is(f) == f = [d \in 1 .. treeHeight |->
               IF d = 1 THEN <<rootPid>>
               ELSE FlattenSeq([i \in DOMAIN f[d - 1] |-> NonLeafAt(f[d - 1][i]).pids])]
           pids  == CHOOSE f : Is(f)
<1>1. /\ treeHeight \in Nat \ {0} /\ disk \in Seq(Page) /\ Places(lvl, rng)
      /\ RootRange(lvl, rng, rootPid, treeHeight) /\ rootPid \in Pid
  <2>1. mode # "none" /\ treeHeight # 0 /\ pc # "firstRoot" /\ pc # "rootMetadata"
    BY RestFacts DEF AtRest
  <2>2. RootRange(lvl, rng, rootPid, treeHeight)
    BY <2>1 DEF AtRest, Ranged, Rooted
  <2>3. rootPid \in Pid
    BY DEF AtRest, Typed, TypeOK
  <2> QED
    BY <2>2, <2>3, RestFacts DEF AtRest, Ranged
<1>2. Is(pids)
    BY <1>1, LevelExists
<1>3. Level = pids
    BY DEF Level
<1> HIDE DEF pids
<1>4. /\ Level = [d \in 1 .. treeHeight |-> Level[d]]
      /\ \A d \in 1 .. treeHeight : Level[d] =
           IF d = 1 THEN <<rootPid>>
           ELSE FlattenSeq([i \in DOMAIN Level[d - 1] |-> NonLeafAt(Level[d - 1][i]).pids])
    BY <1>2, <1>3
<1> HIDE DEF Is
<1> DEFINE Good(d) == Row(lvl, rng, Level[d], treeHeight - d)
           bad     == {d \in 1 .. treeHeight : ~ Good(d)}
<1>5. Good(1)
  <2>1. PICK s : s = <<rootPid>>
    OBVIOUS
  <2>2. s \in Seq(Pid) /\ Len(s) = 1 /\ s[1] = rootPid
    BY <1>1, <2>1
  <2>3. ToSet(s) = {rootPid}
    BY <2>2, InToSet
  <2>4. InOrder(s, Below(rng))
    BY <2>2 DEF InOrder
  <2>5. \A k \in Int : k \in rng[rootPid]
    BY <1>1, RestFacts DEF RootRange, IsLate
  <2>6. At(lvl, rootPid, treeHeight - 1)
    BY <1>1 DEF RootRange
  <2>7. Row(lvl, rng, s, treeHeight - 1)
    BY <2>2, <2>3, <2>4, <2>5, <2>6 DEF Row
  <2>8. Level[1] = s
    <3>1. 1 \in 1 .. treeHeight
      BY <1>1
    <3>2. Level[1] = <<rootPid>>
      BY ONLY <1>4, <3>1, Zenon
    <3> QED
      BY <2>1, <3>2
  <2> QED
    BY <2>7, <2>8
<1> HIDE DEF Good
<1>6. bad = {}
  <2> SUFFICES ASSUME bad # {} PROVE FALSE
    OBVIOUS
  <2>1. PICK d : d \in bad /\ \A other \in bad : d <= other
    <3>1. bad \in SUBSET Nat
      OBVIOUS
    <3> HIDE DEF bad
    <3> QED
      BY <3>1, MinOfNaturals
  <2>2. d \in 1 .. treeHeight /\ ~ Good(d) /\ d # 1
    BY <1>5, <2>1
  <2>3. d - 1 \in 1 .. treeHeight /\ ~ (d <= d - 1)
    BY <1>1, <2>2
  <2>4. Good(d - 1)
    BY <2>1, <2>3
  <2>5. PICK l, s : l = treeHeight - (d - 1) /\ s = Level[d - 1]
    OBVIOUS
  <2>6. l \in Nat \ {0} /\ l - 1 = treeHeight - d
    BY <1>1, <2>2, <2>5
  <2>7. Row(lvl, rng, s, l)
    BY <2>4, <2>5 DEF Good
  <2>8. Row(lvl, rng, FlattenSeq([i \in DOMAIN s |-> NonLeafAt(s[i]).pids]), l - 1)
    BY <2>6, <2>7, RowBelow
  <2>9. Level[d] = FlattenSeq([i \in DOMAIN s |-> NonLeafAt(s[i]).pids])
    BY <1>4, <2>2, <2>5
  <2>10. Good(d)
    BY <2>6, <2>8, <2>9 DEF Good
  <2> QED
    BY <2>2, <2>10
<1> QED
    BY <1>4, <1>6 DEF Good

\* So is the chain: the leaves.
LEMMA ChainRow ==
    ASSUME NEW c, NEW lev, NEW lvl, NEW rng, AtRest(c, lev, lvl, rng)
    PROVE  Row(lvl, rng, c, 0)
<1>1. /\ c \in Seq(Nat \ {0}) /\ \A i \in 1 .. Len(c) : At(lvl, c[i], 0)
      /\ \A i, j \in 1 .. Len(c) : i < j => \A k \in rng[c[i]], m \in rng[c[j]] : k < m
    BY RestFacts, ChainRanges DEF AtRest, Chain
<1>2. c \in Seq(Pid)
  <2>1. \A i \in 1 .. Len(c) : c[i] \in Pid
    BY <1>1 DEF Pid
  <2>2. Len(c) \in Nat /\ c = [i \in 1 .. Len(c) |-> c[i]]
    BY <1>1
  <2> QED
    BY <2>1, <2>2
<1>3. InOrder(c, Below(rng))
  <2>1. \A i \in 1 .. Len(c) : c[i] \in Pid
    BY <1>2
  <2> QED
    BY <1>1, <2>1 DEF InOrder, Below
<1>4. \A p \in ToSet(c) : At(lvl, p, 0)
    BY <1>1, <1>2, InToSet
<1>5. ASSUME NEW k \in Int PROVE \E p \in ToSet(c) : k \in rng[p]
  <2>1. /\ Typed /\ Ranged(lvl, rng) /\ Linked(c, lev) /\ mode # "none" /\ treeHeight \in Nat \ {0}
        /\ pc \notin Ascending /\ pc \notin {"firstRoot", "rootMetadata"}
    BY RestFacts DEF AtRest
  <2>2. PICK p : p = FindLeaf(k)
    OBVIOUS
  <2>3. k \in rng[p] /\ \E n \in 1 .. Len(c) : c[n] = p
    BY <2>1, <2>2, FindLeafRange
  <2> QED
    BY <1>2, <2>3, InToSet
<1> QED
    BY <1>2, <1>3, <1>4, <1>5 DEF Row

\* Between two inserts these are all pages of the file, each once.
LEMMA LevelsAgree ==
    ASSUME EndKey \notin Key, NEW c, NEW lev, NEW lvl, NEW rng, AtRest(c, lev, lvl, rng),
           pc = "idle"
    PROVE  TreeAndChainAgree
<1>1. /\ treeHeight \in Nat \ {0} /\ EndPid \in Nat /\ EndPid >= 2 /\ Places(lvl, rng)
      /\ RootRange(lvl, rng, rootPid, treeHeight)
  <2>1. mode # "none" /\ treeHeight # 0 /\ pc # "firstRoot" /\ pc # "rootMetadata"
    BY RestFacts DEF AtRest
  <2>2. RootRange(lvl, rng, rootPid, treeHeight)
    BY <2>1 DEF AtRest, Ranged, Rooted
  <2> QED
    BY <2>2, RestFacts DEF AtRest, Ranged
<1>2. PICK n, rows : n = treeHeight /\ rows = Level
    OBVIOUS
<1>3. /\ n \in Nat \ {0} /\ rows = [d \in 1 .. n |-> rows[d]]
      /\ \A d \in 1 .. n : Row(lvl, rng, rows[d], n - d)
    BY <1>1, <1>2, LevelRows
<1>4. rows[n] = LeafChain
  <2>1. n \in 1 .. n /\ n - n = 0
    BY <1>3
  <2>2. Row(lvl, rng, rows[n], 0) /\ Row(lvl, rng, c, 0)
    BY <1>3, <2>1, ChainRow
  <2>3. rows[n] = c
    BY <1>1, <2>2, RowUnique
  <2>4. LeafChain = c
    BY <1>1, RestFacts, LeafChainIs
  <2> QED
    BY <2>3, <2>4
<1>5. \A d \in 1 .. n : rows[d] \in Seq(Pid)
    BY <1>3 DEF Row
<1>6. DOMAIN rows = 1 .. n /\ Len(rows) = n
  <2>1. rows \in Seq(Seq(Pid)) /\ DOMAIN rows = 1 .. n
    BY <1>3, <1>5
  <2> QED
    BY <1>3, <2>1
<1> DEFINE Distinct == {pq \in Pid \X Pid : pq[1] # pq[2]}
<1>7. ASSUME NEW d \in 1 .. n PROVE InOrder(rows[d], Distinct)
  <2>1. PICK s : s = rows[d]
    OBVIOUS
  <2>2. Row(lvl, rng, s, n - d)
    BY <1>3, <2>1
  <2>3. /\ \A i \in 1 .. Len(s) : s[i] \in Pid
        /\ \A i, j \in 1 .. Len(s) : i < j => s[i] # s[j]
    BY <1>1, <2>2, RowFacts
  <2> QED
    BY <2>1, <2>3 DEF InOrder
<1>8. ASSUME NEW d \in 1 .. n, NEW e \in 1 .. n, d < e PROVE Before(rows[d], rows[e], Distinct)
  <2> SUFFICES ASSUME NEW x \in ToSet(rows[d]), NEW y \in ToSet(rows[e])
               PROVE  <<x, y>> \in Distinct
    BY DEF Before
  <2>1. x \in Pid /\ y \in Pid
    BY <1>5, InToSet
  <2>2. At(lvl, x, n - d) /\ At(lvl, y, n - e)
    BY <1>3 DEF Row
  <2>3. n - d # n - e
    BY <1>3, <1>8
  <2>4. x # y
    BY <2>2, <2>3 DEF At
  <2> QED
    BY <2>1, <2>4
<1>9. PICK all : all = FlattenSeq(rows)
    OBVIOUS
<1>10. /\ all \in Seq(Pid) /\ InOrder(all, Distinct)
       /\ ToSet(all) = UNION {ToSet(rows[d]) : d \in 1 .. n}
  <2> HIDE DEF Distinct
  <2>1. PICK R : R = Distinct
    OBVIOUS
  <2>2. \A d \in 1 .. n : rows[d] \in Seq(Pid) /\ InOrder(rows[d], R)
    BY <1>5, <1>7, <2>1
  <2>3. \A d, e \in 1 .. n : d < e => Before(rows[d], rows[e], R)
    BY <1>8, <2>1
  <2>4. /\ all \in Seq(Pid) /\ InOrder(all, R)
        /\ ToSet(all) = UNION {ToSet(rows[d]) : d \in 1 .. n}
    <3>1. n \in Nat \ {0}
      BY <1>3
    <3> QED
      BY ONLY <3>1, <1>6, <1>9, <2>2, <2>3, FlattenInOrder
  <2> QED
    BY <2>1, <2>4
<1>11. ToSet(all) = DOMAIN lvl
  <2>1. ASSUME NEW d \in 1 .. n PROVE ToSet(rows[d]) \subseteq DOMAIN lvl
    BY <1>3 DEF Row, At
  <2>2. ASSUME NEW p \in DOMAIN lvl PROVE \E d \in 1 .. n : p \in ToSet(rows[d])
    <3>1. lvl[p] \in Nat /\ lvl[p] < n
      BY <1>1, <1>2 DEF Places, RootRange
    <3>2. PICK d : d = n - lvl[p]
      OBVIOUS
    <3>3. d \in 1 .. n /\ n - d = lvl[p]
      BY <1>3, <3>1, <3>2
    <3>4. At(lvl, p, n - d)
      BY <3>3 DEF At
    <3>5. PICK s : s = rows[d]
      OBVIOUS
    <3>6. Row(lvl, rng, s, n - d) /\ s \in Seq(Pid)
      BY <1>3, <1>5, <3>3, <3>5
    <3>7. \E i \in 1 .. Len(s) : s[i] = p
      BY <1>1, <3>4, <3>6, RowFacts
    <3>8. p \in ToSet(s)
      BY <3>6, <3>7, InToSet
    <3> QED
      BY <3>3, <3>5, <3>8
  <2> QED
    BY <1>10, <2>1, <2>2
<1>12. DOMAIN lvl = 1 .. EndPid - 1
  <2>1. Covered(lvl) /\ Fetched = {}
    BY DEF AtRest, Ranged, Fetched, Splitting
  <2> QED
    BY <1>1, <2>1 DEF Covered, Places
<1>13. Len(all) = EndPid - 1
  <2>1. PICK m, pages : m = Len(all) /\ pages = 1 .. EndPid - 1
    OBVIOUS
  <2>2. m \in Nat /\ \A x : x \in pages <=> \E i \in 1 .. m : all[i] = x
    <3>1. all \in Seq(Pid) /\ ToSet(all) = pages
      BY <1>10, <1>11, <1>12, <2>1
    <3>2. Len(all) \in Nat /\ \A x : x \in ToSet(all) <=> \E i \in 1 .. Len(all) : all[i] = x
      BY <3>1, InToSet
    <3> QED
      BY <2>1, <3>1, <3>2
  <2>3. \A i, j \in 1 .. m : i < j => all[i] # all[j]
    BY <1>10, <2>1 DEF InOrder
  <2>4. \A i, j \in 1 .. m : all[i] = all[j] => i = j
    BY <2>2, <2>3
  <2>5. PICK f : f = [i \in 1 .. m |-> all[i]]
    OBVIOUS
  <2>6. f \in [1 .. m -> pages]
    BY <2>2, <2>5
  <2>7. f \in Surjection(1 .. m, pages)
    BY <2>2, <2>5, <2>6 DEF Surjection
  <2>8. f \in Injection(1 .. m, pages)
    BY <2>4, <2>5, <2>6 DEF Injection, IsInjective
  <2>9. ExistsBijection(1 .. m, pages)
    BY <2>7, <2>8 DEF ExistsBijection, Bijection
  <2>10. Cardinality(pages) = m
    BY <2>2, <2>9, FS_CountingElements
  <2>11. Cardinality(pages) = EndPid - 1
    BY <1>1, <2>1, FS_Interval
  <2> QED
    BY <2>1, <2>10, <2>11
<1>14. Level[treeHeight] = LeafChain /\ FlattenSeq(Level) = all
    BY <1>2, <1>4, <1>9
<1> QED
    BY <1>11, <1>12, <1>13, <1>14 DEF TreeAndChainAgree

(***************************************************************************)
(* Theorems                                                                *)
(***************************************************************************)

\* As long as the process is not killed, the keys of every page of the file
\* are strictly ascending after each single write, also halfway through a
\* split: locate and locateChildPtr stop at the first key that fits, and this
\* is what makes it the right one.
THEOREM BTreeIndexNodesSorted ==
    ASSUME EndKey \notin Key
    PROVE  Spec => [](crashes = 0 => NodesSorted)
<1>1. Ordered => (crashes = 0 => NodesSorted)
    BY DEF Ordered
<1> QED
    BY <1>1, OrderInvariant, PTL

\* And a reader that follows the next pointers from the leftmost leaf meets
\* every key once, in ascending order, whatever write an insert has got to.
THEOREM BTreeIndexChainAscending ==
    ASSUME EndKey \notin Key
    PROVE  Spec => [](crashes = 0 => ChainAscending)
<1>1. Chained /\ Ordered => (crashes = 0 => ChainAscending)
    BY ChainRises DEF Chained, Ordered
<1> QED
    BY <1>1, OrderInvariant, ChainInvariant, PTL

\* Between two inserts, and inside one until the lower half of a split leaf is
\* written, the way down from the root for a key ends at the one leaf of the
\* chain with smaller keys only before it and larger keys only behind it.
THEOREM BTreeIndexDescentLandsRight ==
    ASSUME EndKey \notin Key
    PROVE  Spec => [](crashes = 0 => DescentLandsRight)
<1>1. Chained /\ Ordered => (crashes = 0 => DescentLandsRight)
    BY LandsRight DEF Chained, Ordered
<1> QED
    BY <1>1, OrderInvariant, ChainInvariant, PTL

\* No page but the root is ever left less than half full by a split.
THEOREM BTreeIndexHalfFull ==
    ASSUME EndKey \notin Key
    PROVE  Spec => [](crashes = 0 => HalfFull)
<1>1. Halved => (crashes = 0 => HalfFull)
  <2> SUFFICES ASSUME Halves PROVE HalfFull
    BY DEF Halved
  <2>1. ASSUME NEW p \in 1 .. EndPid - 1, p # rootPid, mode # "none" PROVE HalfFilled(PageAt(p))
    BY <2>1 DEF Halves, IndexRoot
  <2> QED
    BY <2>1 DEF HalfFull, HalfFilled
<1> QED
    BY <1>1, HalfInvariant, PTL

\* Between two inserts of a process that is not killed the chain holds the
\* entries whose insert returned, and no other.
THEOREM BTreeIndexNothingElse ==
    ASSUME EndKey \notin Key
    PROVE  Spec => [](crashes = 0 /\ pc \in {"idle", "scan", "scanEnd"} => Stored = acked)
<1>1. Chained /\ Listed => (crashes = 0 /\ pc \in {"idle", "scan", "scanEnd"} => Stored = acked)
  <2> SUFFICES ASSUME Chained, Stored \subseteq acked \cup {ins}, pc \in {"idle", "scan", "scanEnd"}
               PROVE  Stored = acked
    BY DEF Listed
  <2>1. PICK c, lev : Typed /\ Linked(c, lev)
    BY DEF Chained
  <2>2. Stored = Kept(c)
    BY <2>1, ChainedStored DEF StoredIsKept, Linked, Tree
  <2>3. ins \notin Kept(c) /\ acked \subseteq Kept(c)
    BY <2>1, NothingRuns DEF Linked, Accounted
  <2> QED
    BY <2>2, <2>3
<1> QED
    BY <1>1, ChainInvariant, ListInvariant, PTL

\* A scan from a key that is in the index, or from below the least one, returns
\* every entry from there on, each once and in ascending order, and nothing
\* else, at any capacity of the nodes and any height of the tree.
THEOREM BTreeIndexScanExact ==
    ASSUME EndKey \notin Key
    PROVE  Spec => [](crashes = 0 => ScanExact)
<1>1. ReadRight => (crashes = 0 => ScanExact)
    BY DEF ReadRight, Reading, ScanExact
<1> QED
    BY <1>1, ScanInvariant, PTL

\* Between two inserts of a process that is not killed the leaves under the
\* root are those of the chain in the same order, and every page of the file
\* is one node of the tree, however the nodes were split: no split loses a
\* page, and none is in two places.
THEOREM BTreeIndexTreeAndChainAgree ==
    ASSUME EndKey \notin Key
    PROVE  Spec => [](crashes = 0 => TreeAndChainAgree)
<1>1. Chained /\ Ordered /\ Halved => (crashes = 0 => TreeAndChainAgree)
  <2> SUFFICES ASSUME Chained, Ordered, Halved, crashes = 0,
                      mode # "none", pc = "idle", treeHeight > 0
               PROVE  TreeAndChainAgree
    BY DEF TreeAndChainAgree
  <2>1. PICK c, lev : Typed /\ Linked(c, lev)
    BY DEF Chained
  <2>2. PICK lvl, rng : Ranged(lvl, rng)
    BY DEF Ordered
  <2>3. AtRest(c, lev, lvl, rng)
    BY <2>1, <2>2 DEF AtRest, Ordered, Halved
  <2> QED
    BY <2>3, LevelsAgree
<1> QED
    BY <1>1, ChainInvariant, OrderInvariant, HalfInvariant, PTL

=============================================================================
