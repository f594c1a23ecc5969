--------------------------- MODULE SelectScanProofs ---------------------------
(***************************************************************************)
(* Theorems about SelectScan, for any tables and conditions, any width of   *)
(* int and any content of uninitialised memory.                             *)
(*                                                                         *)
(* The merging is followed condition by condition: after each step every    *)
(* merged condition is one of the query (FromQuery), and every condition    *)
(* taken so far has a merged one that is as tight (Covered).  From that the *)
(* scan's verdicts and its start key are judged.                           *)
(***************************************************************************)
EXTENDS SelectScan, MinLemmas

(***************************************************************************)
(* The invariant                                                           *)
(***************************************************************************)

\* The conditions that have been merged: the others are still to do.
Taken == Len(query) - Len(todo)

SameColumn(m, cond) == m.attr = cond.attr /\ m.comp = cond.comp

\* A merged condition that tests what a condition of the query says.
TestsSame(m, cond) ==
    /\ SameColumn(m, cond)
    /\ cond.attr = 1 => m.intValue = Number(cond)
    /\ cond.attr = 2 => m.value = cond.value

\* A merged condition that accepts no row that a condition of the query does
\* not.
AsTight(m, cond) ==
    /\ SameColumn(m, cond)
    /\ cond.attr = 1 =>
         /\ cond.comp \in {"LT", "LE"} => m.intValue <= Number(cond)
         /\ cond.comp \in {"GT", "GE"} => m.intValue >= Number(cond)
         /\ cond.comp \in {"EQ", "NE"} => m.intValue = Number(cond)
    /\ cond.attr = 2 => m.value = cond.value

FromQuery ==
    \A i \in DOMAIN merged : \E j \in 1 .. Taken : TestsSame(merged[i], query[j])

Covered ==
    \A j \in 1 .. Taken : \E i \in DOMAIN merged : AsTight(merged[i], query[j])

\* No comparator has two merged conditions on the key.
OnePerComp ==
    \A i, k \in DOMAIN merged :
        (merged[i].attr = 1 /\ merged[k].attr = 1 /\ merged[i].comp = merged[k].comp)
            => i = k

MergedFaithfully == FromQuery /\ Covered /\ OnePerComp

\* Where a statement is: what has not begun is empty, what has ended too, and
\* the conditions to do are the last ones of the query.
Phases ==
    /\ Len(todo) <= Len(query)
    /\ \A k \in 1 .. Len(todo) : todo[k] = query[Taken + k]
    /\ pc = "parse" => merged = <<>>
    /\ pc \in {"parse", "merge"} => answer = {}
    /\ pc \in {"parse", "merge", "done"} => left = {}
    /\ pc # "merge" => todo = <<>>

MergedInv ==
    (pc \in {"merge", "index"} /\ ~ Replaces /\ ~ Swallows) => MergedFaithfully

\* What the scan has not read yet lies at or after its start key.
FromStart == pc = "index" => \A row \in left : row.key >= StartKey(merged)

\* A row that is to be printed has been, or is still to be read.
NoneSkipped ==
    (/\ pc \in {"index", "table", "done"}
     /\ ~ Replaces /\ ~ Swallows /\ ~ Overflows
     /\ ~ StartsTooLow /\ ~ StartsTooHigh) => Matching \subseteq answer \cup left

ScanInv ==
    /\ TypeOK /\ Phases /\ MergedInv
    /\ FromStart /\ PrintsOnlyMatches /\ NoneSkipped

(***************************************************************************)
(* Comparators, and the width of an int                                    *)
(***************************************************************************)

\* What each comparator accepts, of a difference.
LEMMA MeetsMeans ==
    ASSUME NEW diff \in Int
    PROVE  /\ Meets("EQ", diff) <=> diff = 0
           /\ Meets("NE", diff) <=> diff # 0
           /\ Meets("LT", diff) <=> diff < 0
           /\ Meets("LE", diff) <=> diff <= 0
           /\ Meets("GT", diff) <=> diff > 0
           /\ Meets("GE", diff) <=> diff >= 0
<1>1. /\ Accepts["EQ"] = {0} /\ Accepts["NE"] = {-1, 1}
      /\ Accepts["LT"] = {-1} /\ Accepts["LE"] = {-1, 0}
      /\ Accepts["GT"] = {1} /\ Accepts["GE"] = {0, 1}
    BY DEF Accepts
<1> QED
    BY <1>1 DEF Meets, Sign

\* An int that fits does not wrap.
LEMMA WrapFits ==
    ASSUME NEW n \in CInt
    PROVE  Wrap(n) = n
<1> DEFINE w == 2 * (INT_MAX + 1)
<1>1. INT_MAX \in Nat /\ n \in Int /\ n >= -INT_MAX - 1 /\ n <= INT_MAX
    BY IntMaxIsNat DEF CInt
<1>2. w \in Nat /\ w > 0 /\ n + INT_MAX + 1 \in 0 .. w - 1
    BY <1>1
<1>3. (n + INT_MAX + 1) % w = n + INT_MAX + 1
  <2> HIDE DEF w
  <2>1. \A a \in 0 .. w - 1 : a % w = a
    BY <1>2
  <2> QED
    BY <1>2, <2>1
<1> QED
    BY <1>1, <1>3 DEF Wrap

(***************************************************************************)
(* Conditions                                                              *)
(***************************************************************************)

AnyRow == [key : CInt, value : Text]

\* The rows and the conditions that the statements meet have their types.
LEMMA RowsAndConds ==
    ASSUME TypeOK
    PROVE  /\ table \subseteq AnyRow
           /\ \A r1, r2 \in table : r1.key = r2.key => r1 = r2
           /\ DOMAIN query = 1 .. Len(query) /\ Len(query) \in Nat
           /\ \A j \in 1 .. Len(query) : query[j] \in Cond
           /\ DOMAIN merged = 1 .. Len(merged) /\ Len(merged) \in Nat
           /\ \A i \in DOMAIN merged : merged[i] \in MergedCond
<1>1. table \in Tables /\ query \in Seq(Conds) /\ merged \in Seq(MergedCond)
    BY DEF TypeOK
<1>2. table \subseteq AnyRow /\ \A r1, r2 \in table : r1.key = r2.key => r1 = r2
    BY <1>1, TablesHaveKeys DEF AnyRow
<1>3. DOMAIN query = 1 .. Len(query) /\ Len(query) \in Nat
    BY <1>1
<1>4. \A j \in 1 .. Len(query) : query[j] \in Cond
    BY <1>1, <1>3, CondsAreConds
<1>5. DOMAIN merged = 1 .. Len(merged) /\ Len(merged) \in Nat
    BY <1>1
<1>6. \A i \in DOMAIN merged : merged[i] \in MergedCond
    BY <1>1, <1>5
<1> QED
    BY <1>2, <1>3, <1>4, <1>5, <1>6

\* The differences that a test judges are integers.
LEMMA NumbersAreInts ==
    /\ CInt \subseteq Int /\ Text \subseteq Int
    /\ \A cond \in Cond : Number(cond) \in CInt /\ cond.comp \in Comparator /\ cond.attr \in {1, 2}
    /\ \A m \in MergedCond : m.intValue \in CInt /\ m.value \in Text
<1>1. CInt \subseteq Int
    BY IntMaxIsNat DEF CInt
<1> QED
    BY <1>1, TextsAreRanks, AtoiIsInt DEF Cond, MergedCond, Number

\* What the tests of the index scan say of a row, by the column they are on.
LEMMA TestMeaning ==
    ASSUME NEW m \in MergedCond, NEW cond \in Cond, NEW row \in AnyRow
    PROVE  /\ TestsSame(m, cond) => (IndexTest(m, row) <=> Satisfies(cond, row))
           /\ AsTight(m, cond) /\ IndexTest(m, row) => Satisfies(cond, row)
<1>1. /\ row.key \in Int /\ row.value \in Int /\ cond.value \in Int
      /\ Number(cond) \in Int /\ m.intValue \in Int
      /\ cond.comp \in Comparator /\ cond.attr \in {1, 2}
    BY NumbersAreInts DEF AnyRow, Cond
<1>2. ASSUME TestsSame(m, cond)
      PROVE  IndexTest(m, row) <=> Satisfies(cond, row)
    BY <1>1, <1>2 DEF TestsSame, SameColumn, IndexTest, Satisfies
<1>3. ASSUME AsTight(m, cond), IndexTest(m, row)
      PROVE  Satisfies(cond, row)
  <2>1. CASE cond.attr = 2
    BY <1>3, <2>1 DEF AsTight, SameColumn, IndexTest, Satisfies
  <2>2. CASE cond.attr = 1
    <3>1. m.comp = cond.comp /\ Meets(cond.comp, row.key - m.intValue)
      BY <1>3, <2>2 DEF AsTight, SameColumn, IndexTest
    <3>2. row.key - m.intValue \in Int /\ row.key - Number(cond) \in Int
      BY <1>1
    <3>3. CASE cond.comp \in {"EQ", "NE"}
      BY <1>3, <2>2, <3>1, <3>3 DEF AsTight, Satisfies
    <3>4. CASE cond.comp \in {"LT", "LE"}
      <4>1. m.intValue <= Number(cond)
        BY <1>3, <2>2, <3>4 DEF AsTight
      <4>2. Meets(cond.comp, row.key - Number(cond))
        BY <1>1, <3>1, <3>2, <3>4, <4>1, MeetsMeans
      <4> QED
        BY <2>2, <4>2 DEF Satisfies
    <3>5. CASE cond.comp \in {"GT", "GE"}
      <4>1. m.intValue >= Number(cond)
        BY <1>3, <2>2, <3>5 DEF AsTight
      <4>2. Meets(cond.comp, row.key - Number(cond))
        BY <1>1, <3>1, <3>2, <3>5, <4>1, MeetsMeans
      <4> QED
        BY <2>2, <4>2 DEF Satisfies
    <3> QED
      BY <1>1, <3>3, <3>4, <3>5 DEF Comparator
  <2> QED
    BY <1>1, <2>1, <2>2
<1> QED
    BY <1>2, <1>3

\* The merged conditions accept the rows that the conditions taken so far do.
LEMMA MergedAccepts ==
    ASSUME TypeOK, Phases, FromQuery, Covered, NEW row \in AnyRow
    PROVE  (\A i \in DOMAIN merged : IndexTest(merged[i], row)) <=>
           (\A j \in 1 .. Taken : Satisfies(query[j], row))
<1>1. /\ Taken \in Nat /\ Taken <= Len(query)
      /\ \A j \in 1 .. Taken : query[j] \in Cond
      /\ \A i \in DOMAIN merged : merged[i] \in MergedCond
  <2>1. Len(todo) \in Nat /\ Len(query) \in Nat /\ Len(todo) <= Len(query)
    BY RowsAndConds DEF TypeOK, Phases
  <2> QED
    BY <2>1, RowsAndConds DEF Taken
<1>2. ASSUME \A i \in DOMAIN merged : IndexTest(merged[i], row), NEW j \in 1 .. Taken
      PROVE  Satisfies(query[j], row)
  <2>1. PICK i \in DOMAIN merged : AsTight(merged[i], query[j])
    BY DEF Covered
  <2> QED
    BY <1>1, <1>2, <2>1, TestMeaning
<1>3. ASSUME \A j \in 1 .. Taken : Satisfies(query[j], row), NEW i \in DOMAIN merged
      PROVE  IndexTest(merged[i], row)
  <2>1. PICK j \in 1 .. Taken : TestsSame(merged[i], query[j])
    BY DEF FromQuery
  <2> QED
    BY <1>1, <1>3, <2>1, TestMeaning
<1> QED
    BY <1>2, <1>3

\* What tightening makes of a merged condition on the key.
LEMMA TightenTests ==
    ASSUME NEW old \in MergedCond, NEW cond \in Cond, SameColumn(old, cond), cond.attr = 1
    PROVE  /\ Tighten(old, cond) \in MergedCond
           /\ SameColumn(Tighten(old, cond), cond)
           /\ AsTight(Tighten(old, cond), cond)
           /\ Tighten(old, cond) = old \/ TestsSame(Tighten(old, cond), cond)
           /\ \A c \in Cond :
                 (AsTight(old, c) /\ (c.comp \in {"EQ", "NE"} => Number(c) = Number(cond)))
                     => AsTight(Tighten(old, cond), c)
<1> DEFINE new == Tighten(old, cond)
           number == Atoi[cond.value]
           moves == \/ old.comp \in {"LT", "LE"} /\ number < old.intValue
                    \/ old.comp \in {"GT", "GE"} /\ number > old.intValue
                    \/ old.comp \in {"EQ", "NE"}
<1>1. /\ number = Number(cond) /\ number \in CInt /\ number \in Int
      /\ old.intValue \in Int /\ cond.value \in Text
      /\ old.attr = 1 /\ old.comp = cond.comp /\ cond.comp \in Comparator
      /\ \A c \in Cond : Number(c) \in Int
    BY NumbersAreInts DEF Number, SameColumn, Cond
<1>2. CASE moves
  <2>1. new = [old EXCEPT !.value = cond.value, !.intValue = number]
    BY <1>2 DEF Tighten
  <2>2. /\ new \in MergedCond /\ new.attr = 1 /\ new.comp = cond.comp
        /\ new.intValue = number
    BY <1>1, <2>1 DEF MergedCond
  <2>3. AsTight(new, cond) /\ TestsSame(new, cond)
    BY <1>1, <2>2 DEF AsTight, TestsSame, SameColumn
  <2>4. ASSUME NEW c \in Cond, AsTight(old, c),
               c.comp \in {"EQ", "NE"} => Number(c) = Number(cond)
        PROVE  AsTight(new, c)
    <3>1. c.attr = 1 /\ c.comp = cond.comp
      BY <1>1, <2>4 DEF AsTight, SameColumn
    <3>2. c.comp \in {"LT", "LE"} => number <= Number(c)
      BY <1>1, <1>2, <2>4, <3>1 DEF AsTight
    <3>3. c.comp \in {"GT", "GE"} => number >= Number(c)
      BY <1>1, <1>2, <2>4, <3>1 DEF AsTight
    <3> QED
      BY <1>1, <2>2, <2>4, <3>1, <3>2, <3>3 DEF AsTight, SameColumn
  <2> QED
    BY <1>1, <2>2, <2>3, <2>4 DEF SameColumn
<1>3. CASE ~ moves
  <2>1. new = old
    BY <1>3 DEF Tighten
  <2>2. AsTight(old, cond)
    BY <1>1, <1>3 DEF AsTight, SameColumn, Comparator
  <2> QED
    BY <2>1, <2>2
<1> QED
    BY <1>2, <1>3

(***************************************************************************)
(* Merging                                                                 *)
(***************************************************************************)

\* A condition on the key never lands on a merged one of the value column.
LEMMA SameCompIsOnKey ==
    ASSUME TypeOK, Phases, todo # <<>>, FromQuery, ~ Swallows,
           SameComp(merged, Head(todo)) # {}
    PROVE  LET k == Min(SameComp(merged, Head(todo)))
           IN  /\ k \in DOMAIN merged /\ Head(todo).attr = 1
               /\ merged[k].attr = 1 /\ merged[k].comp = Head(todo).comp
<1> DEFINE same == SameComp(merged, Head(todo))
           k == Min(same)
<1>1. /\ DOMAIN merged \subseteq Nat
      /\ Len(query) \in Nat /\ DOMAIN query = 1 .. Len(query)
      /\ \A j \in 1 .. Len(query) : query[j] \in Cond
    BY RowsAndConds
<1>2. /\ Taken \in Nat /\ Taken + 1 \in 1 .. Len(query)
      /\ Head(todo) = query[Taken + 1]
  <2>1. Len(todo) \in Nat /\ Len(todo) > 0 /\ Head(todo) = todo[1]
    BY DEF TypeOK
  <2>2. Len(todo) <= Len(query) /\ todo[1] = query[Taken + 1]
    BY <2>1 DEF Phases
  <2> QED
    BY <1>1, <2>1, <2>2 DEF Taken
<1>3. same \in SUBSET Nat /\ same # {}
    BY <1>1 DEF SameComp
<1>4. k \in same
    BY <1>3, MinOfNaturals
<1>5. k \in DOMAIN merged /\ Head(todo).attr = 1 /\ merged[k].comp = Head(todo).comp
    BY <1>4 DEF SameComp
<1>6. PICK j \in 1 .. Taken : TestsSame(merged[k], query[j])
    BY <1>5 DEF FromQuery
<1>7. j \in 1 .. Len(query) /\ j < Taken + 1
    BY <1>1, <1>2
<1>8. query[j].attr # 2
    BY <1>1, <1>2, <1>5, <1>6, <1>7 DEF Swallows, TestsSame, SameColumn
<1>9. query[j].attr = 1
    BY <1>1, <1>7, <1>8, NumbersAreInts
<1> QED
    BY <1>5, <1>6, <1>9 DEF TestsSame, SameColumn

\* Merging one more condition keeps the merged ones faithful, if the query has
\* none of the two flaws that lose a condition.
LEMMA MergeStaysFaithful ==
    ASSUME TypeOK, Phases, MergedFaithfully, ~ Replaces, ~ Swallows,
           todo # <<>>, query' = query, todo' = Tail(todo),
           NEW junk \in CInt, merged' = Merge(merged, Head(todo), junk)
    PROVE  merged' \in Seq(MergedCond) /\ MergedFaithfully'
<1> DEFINE n == Taken + 1
           cond == query[n]
           same == SameComp(merged, cond)
           k == Min(same)
<1>1. /\ Len(query) \in Nat /\ DOMAIN query = 1 .. Len(query)
      /\ \A j \in 1 .. Len(query) : query[j] \in Cond
      /\ DOMAIN merged = 1 .. Len(merged) /\ Len(merged) \in Nat
      /\ \A i \in DOMAIN merged : merged[i] \in MergedCond
      /\ merged \in Seq(MergedCond)
    BY RowsAndConds DEF TypeOK
<1>2. /\ Taken \in Nat /\ n \in 1 .. Len(query) /\ Head(todo) = cond
      /\ Taken' = n
  <2>1. Len(todo) \in Nat /\ Len(todo) > 0 /\ Head(todo) = todo[1]
        /\ Len(Tail(todo)) = Len(todo) - 1
    BY DEF TypeOK
  <2>2. Len(todo) <= Len(query) /\ todo[1] = query[Taken + 1]
    BY <2>1 DEF Phases
  <2> QED
    BY <1>1, <2>1, <2>2 DEF Taken
<1>3. /\ cond \in Cond /\ cond.comp \in Comparator /\ cond.attr \in {1, 2}
      /\ cond.value \in Text /\ Number(cond) \in CInt
    BY <1>1, <1>2, NumbersAreInts DEF Cond
<1>4. FromQuery /\ Covered /\ OnePerComp
    BY DEF MergedFaithfully
<1>5. CASE same # {}
  <2> DEFINE new == Tighten(merged[k], cond)
  <2>1. /\ k \in DOMAIN merged /\ cond.attr = 1
        /\ merged[k].attr = 1 /\ merged[k].comp = cond.comp
    BY <1>2, <1>4, <1>5, SameCompIsOnKey
  <2>2. merged' = [merged EXCEPT ![k] = new]
    BY <1>2, <1>5 DEF Merge
  <2>3. /\ new \in MergedCond /\ SameColumn(new, cond) /\ AsTight(new, cond)
        /\ new = merged[k] \/ TestsSame(new, cond)
        /\ \A c \in Cond :
              (AsTight(merged[k], c) /\ (c.comp \in {"EQ", "NE"} => Number(c) = Number(cond)))
                  => AsTight(new, c)
    BY <1>1, <1>3, <2>1, TightenTests DEF SameColumn
  <2> HIDE DEF new, k
  <2>4. merged' \in Seq(MergedCond) /\ DOMAIN merged' = DOMAIN merged
    BY <1>1, <2>1, <2>2, <2>3
  <2>5. merged'[k] = new /\ \A i \in DOMAIN merged : i # k => merged'[i] = merged[i]
    BY <1>1, <2>1, <2>2
  <2>6. FromQuery'
    <3> SUFFICES ASSUME NEW i \in DOMAIN merged
                 PROVE  \E j \in 1 .. n : TestsSame(merged'[i], query[j])
        BY <1>2, <2>4 DEF FromQuery, TestsSame, SameColumn, Number
    <3>1. PICK j \in 1 .. Taken : TestsSame(merged[i], query[j])
      BY <1>4 DEF FromQuery
    <3>2. j \in 1 .. n /\ n \in 1 .. n
      BY <1>2
    <3> QED
      BY <2>3, <2>5, <3>1, <3>2
  <2>7. Covered'
    <3> SUFFICES ASSUME NEW j \in 1 .. n
                 PROVE  \E i \in DOMAIN merged : AsTight(merged'[i], query[j])
        BY <1>2, <2>4, SMTT(30) DEF Covered, AsTight, SameColumn, Number
    <3>1. CASE j = n
      BY <2>1, <2>3, <2>5, <3>1
    <3>2. CASE j # n
      <4>1. j \in 1 .. Taken /\ j \in 1 .. Len(query) /\ query[j] \in Cond
        BY <1>1, <1>2, <3>2
      <4>2. PICK i \in DOMAIN merged : AsTight(merged[i], query[j])
        BY <1>4, <4>1 DEF Covered
      <4>3. CASE i = k
        <5>1. query[j].attr = 1 /\ query[j].comp = cond.comp
          BY <2>1, <4>2, <4>3 DEF AsTight, SameColumn
        <5>2. cond.comp \in {"EQ", "NE"} => Number(query[j]) = Number(cond)
          BY <1>1, <1>2, <2>1, <4>1, <5>1 DEF Replaces, KeyConds
        <5> QED
          BY <2>1, <2>3, <2>5, <4>1, <4>2, <4>3, <5>1, <5>2
      <4> QED
        BY <2>5, <4>2, <4>3
    <3> QED
      BY <3>1, <3>2
  <2>8. OnePerComp'
    <3>1. \A i \in DOMAIN merged :
              merged'[i].attr = merged[i].attr /\ merged'[i].comp = merged[i].comp
      BY <2>1, <2>3, <2>5 DEF SameColumn
    <3> QED
      BY <1>4, <2>4, <3>1 DEF OnePerComp
  <2> QED
    BY <2>4, <2>6, <2>7, <2>8 DEF MergedFaithfully
<1>6. CASE same = {}
  <2> DEFINE m == Len(merged) + 1
             new == [attr |-> cond.attr, comp |-> cond.comp, value |-> cond.value,
                     intValue |-> IF cond.attr = 1 THEN Atoi[cond.value] ELSE junk]
  <2>1. merged' = Append(merged, new)
    BY <1>2, <1>6 DEF Merge
  <2>2. new \in MergedCond /\ TestsSame(new, cond) /\ new.attr = cond.attr /\ new.comp = cond.comp
    BY <1>3 DEF MergedCond, TestsSame, SameColumn, Number
  <2>3. AsTight(new, cond)
    <3>1. cond.attr = 1 => new.intValue = Number(cond)
      BY <2>2 DEF TestsSame
    <3>2. Number(cond) \in Int
      BY <1>3, NumbersAreInts
    <3> QED
      BY <2>2, <3>1, <3>2 DEF AsTight, TestsSame
  <2> HIDE DEF new
  <2>4. /\ merged' \in Seq(MergedCond) /\ DOMAIN merged' = 1 .. m
        /\ merged'[m] = new /\ m \in 1 .. m
        /\ \A i \in DOMAIN merged : i \in 1 .. m /\ i # m /\ merged'[i] = merged[i]
        /\ \A i \in 1 .. m : i \in DOMAIN merged \/ i = m
    BY <1>1, <2>1, <2>2, SMTT(30)
  <2>5. FromQuery'
    <3> SUFFICES ASSUME NEW i \in 1 .. m
                 PROVE  \E j \in 1 .. n : TestsSame(merged'[i], query[j])
        BY <1>2, <2>4 DEF FromQuery, TestsSame, SameColumn, Number
    <3>1. CASE i = m
      <4>1. n \in 1 .. n
        BY <1>2
      <4> QED
        BY <2>2, <2>4, <3>1, <4>1
    <3>2. CASE i \in DOMAIN merged
      <4>1. PICK j \in 1 .. Taken : TestsSame(merged[i], query[j])
        BY <1>4, <3>2 DEF FromQuery
      <4>2. j \in 1 .. n
        BY <1>2
      <4> QED
        BY <2>4, <3>2, <4>1, <4>2
    <3> QED
      BY <2>4, <3>1, <3>2
  <2>6. Covered'
    <3> SUFFICES \A j \in 1 .. n : \E i \in 1 .. m : AsTight(merged'[i], query[j])
      <4>1. Covered' <=> \A j \in 1 .. Taken' : \E i \in DOMAIN merged' :
                            AsTight(merged'[i], query'[j])
        BY ZenonT(60) DEF Covered, AsTight, SameColumn, Number
      <4> QED
        BY <1>2, <2>4, <4>1
    <3> TAKE j \in 1 .. n
    <3>1. CASE j = n
      BY <2>3, <2>4, <3>1
    <3>2. CASE j # n
      <4>1. j \in 1 .. Taken
        BY <1>2, <3>2
      <4>2. PICK i \in DOMAIN merged : AsTight(merged[i], query[j])
        BY <1>4, <4>1 DEF Covered
      <4> QED
        BY <2>4, <4>2
    <3> QED
      BY <3>1, <3>2
  <2>7. OnePerComp'
    <3> SUFFICES ASSUME NEW i \in 1 .. m, NEW j \in 1 .. m,
                        merged'[i].attr = 1, merged'[j].attr = 1,
                        merged'[i].comp = merged'[j].comp
                 PROVE  i = j
        BY <2>4 DEF OnePerComp
    <3>1. ASSUME NEW old \in DOMAIN merged, merged'[old].comp = new.comp, new.attr = 1
          PROVE  FALSE
      BY <1>6, <2>2, <2>4, <3>1 DEF SameComp
    <3>2. CASE i \in DOMAIN merged /\ j \in DOMAIN merged
      BY <1>4, <2>4, <3>2 DEF OnePerComp
    <3> QED
      BY <2>4, <3>1, <3>2
  <2> QED
    BY <2>4, <2>5, <2>6, <2>7 DEF MergedFaithfully
<1> QED
    BY <1>5, <1>6

(***************************************************************************)
(* The scan over merged conditions                                         *)
(***************************************************************************)

\* When all conditions are merged, they accept the rows that match the query.
LEMMA MatchingIsAccepted ==
    ASSUME TypeOK, Phases, MergedFaithfully, todo = <<>>, NEW row \in table
    PROVE  row \in Matching <=> \A i \in DOMAIN merged : IndexTest(merged[i], row)
<1>1. /\ row \in AnyRow /\ Len(query) \in Nat /\ DOMAIN query = 1 .. Len(query)
    BY RowsAndConds
<1>2. Taken = Len(query)
    BY <1>1 DEF Taken
<1> QED
    BY <1>1, <1>2, MergedAccepts DEF MergedFaithfully, Matching

\* The number that find_key takes for a comparator is the one of its only
\* merged condition.
LEMMA LastIntIs ==
    ASSUME TypeOK, OnePerComp, NEW comp \in Comparator, NEW i \in OnKey(merged, comp)
    PROVE  LastInt(merged, OnKey(merged, comp)) = merged[i].intValue
<1> DEFINE places == OnKey(merged, comp)
<1>1. Len(merged) \in Nat /\ DOMAIN merged = 1 .. Len(merged)
    BY RowsAndConds
<1>2. places \in SUBSET (1 .. Len(merged)) /\ places # {}
    BY <1>1 DEF OnKey
<1>3. Max(places) \in places
    BY <1>1, <1>2, MaxInSet
<1>4. Max(places) = i
    BY <1>3 DEF OnKey, OnePerComp
<1> QED
    BY <1>4 DEF LastInt

\* A comparator has a merged condition on the key when the query has one.
LEMMA OnKeyCovers ==
    ASSUME TypeOK, MergedFaithfully, todo = <<>>, NEW comp \in Comparator
    PROVE  KeyConds(comp) = {} <=> OnKey(merged, comp) = {}
<1>1. /\ Len(query) \in Nat /\ DOMAIN query = 1 .. Len(query)
      /\ Taken = Len(query)
    BY RowsAndConds DEF Taken
<1>2. ASSUME NEW j \in KeyConds(comp)
      PROVE  OnKey(merged, comp) # {}
  <2>1. j \in 1 .. Taken /\ query[j].attr = 1 /\ query[j].comp = comp
    BY <1>1 DEF KeyConds
  <2>2. PICK i \in DOMAIN merged : AsTight(merged[i], query[j])
    BY <2>1 DEF MergedFaithfully, Covered
  <2> QED
    BY <2>1, <2>2 DEF AsTight, SameColumn, OnKey
<1>3. ASSUME NEW i \in OnKey(merged, comp)
      PROVE  KeyConds(comp) # {}
  <2>1. i \in DOMAIN merged /\ merged[i].attr = 1 /\ merged[i].comp = comp
    BY DEF OnKey
  <2>2. PICK j \in 1 .. Taken : TestsSame(merged[i], query[j])
    BY <2>1 DEF MergedFaithfully, FromQuery
  <2> QED
    BY <1>1, <2>1, <2>2 DEF TestsSame, SameColumn, KeyConds
<1> QED
    BY <1>2, <1>3

\* What a merged condition on the key says of a row's key.
LEMMA KeyTestMeans ==
    ASSUME TypeOK, NEW row \in AnyRow, NEW i \in DOMAIN merged, merged[i].attr = 1
    PROVE  /\ merged[i].intValue \in CInt /\ merged[i].intValue \in Int
           /\ row.key \in CInt /\ row.key \in Int
           /\ merged[i].comp \in Comparator
           /\ merged[i].comp = "EQ" => (IndexTest(merged[i], row) <=> row.key = merged[i].intValue)
           /\ merged[i].comp = "LT" => (IndexTest(merged[i], row) <=> row.key < merged[i].intValue)
           /\ merged[i].comp = "LE" => (IndexTest(merged[i], row) <=> row.key <= merged[i].intValue)
           /\ merged[i].comp = "GT" => (IndexTest(merged[i], row) <=> row.key > merged[i].intValue)
           /\ merged[i].comp = "GE" => (IndexTest(merged[i], row) <=> row.key >= merged[i].intValue)
<1> DEFINE v == merged[i].intValue
<1>1. merged[i] \in MergedCond
    BY RowsAndConds
<1>2. /\ v \in CInt /\ v \in Int /\ row.key \in CInt /\ row.key \in Int
      /\ merged[i].comp \in Comparator
    BY <1>1, NumbersAreInts DEF AnyRow, MergedCond
<1>3. row.key - v \in Int
    BY <1>2
<1>4. IndexTest(merged[i], row) <=> Meets(merged[i].comp, row.key - v)
    BY DEF IndexTest
<1>5. /\ Meets("EQ", row.key - v) <=> row.key = v
      /\ Meets("LT", row.key - v) <=> row.key < v
      /\ Meets("LE", row.key - v) <=> row.key <= v
      /\ Meets("GT", row.key - v) <=> row.key > v
      /\ Meets("GE", row.key - v) <=> row.key >= v
  <2> HIDE DEF v
  <2> QED
    BY <1>2, <1>3, MeetsMeans
<1> QED
    BY <1>2, <1>4, <1>5

\* The key after a GT bound that some row passes does not wrap.
LEMMA AfterBound ==
    ASSUME NEW v \in CInt, NEW key \in CInt, key > v
    PROVE  Wrap(v + 1) = v + 1
<1>1. v + 1 \in CInt
    BY IntMaxIsNat DEF CInt
<1> QED
    BY <1>1, WrapFits

\* The start key lies at or below every row that matches.
LEMMA StartKeyIsLow ==
    ASSUME TypeOK, Phases, MergedFaithfully, todo = <<>>, ~ StartsTooHigh,
           NEW row \in Matching
    PROVE  row.key >= StartKey(merged)
<1> DEFINE eq == OnKey(merged, "EQ")
           gt == OnKey(merged, "GT")
           ge == OnKey(merged, "GE")
<1>1. /\ row \in table /\ row \in AnyRow
      /\ \A i \in DOMAIN merged : IndexTest(merged[i], row)
  <2>1. row \in table /\ row \in AnyRow
    BY RowsAndConds DEF Matching
  <2> QED
    BY <2>1, MatchingIsAccepted
<1>2. row.key \in CInt /\ row.key \in Int
    BY <1>1, NumbersAreInts DEF AnyRow
<1>3. ASSUME NEW comp \in {"EQ", "GT", "GE"}, NEW i \in OnKey(merged, comp)
      PROVE  /\ i \in DOMAIN merged /\ merged[i].attr = 1 /\ merged[i].comp = comp
             /\ LastInt(merged, OnKey(merged, comp)) = merged[i].intValue
    BY LastIntIs DEF OnKey, MergedFaithfully, Comparator
<1>4. CASE eq # {}
  <2>1. PICK i \in eq : TRUE
    BY <1>4
  <2>2. row.key = LastInt(merged, eq)
    BY <1>1, <1>3, <2>1, KeyTestMeans
  <2> QED
    BY <1>2, <1>4, <2>2 DEF StartKey
<1>5. CASE eq = {} /\ gt # {}
  <2>1. PICK i \in gt : TRUE
    BY <1>5
  <2>2. /\ row.key > LastInt(merged, gt) /\ LastInt(merged, gt) \in CInt
        /\ LastInt(merged, gt) \in Int
    BY <1>1, <1>3, <2>1, KeyTestMeans
  <2>3. Wrap(LastInt(merged, gt) + 1) = LastInt(merged, gt) + 1
    BY <1>2, <2>2, AfterBound
  <2>4. StartKey(merged) = LastInt(merged, gt) + 1
    BY <1>5, <2>3 DEF StartKey
  <2> QED
    BY <1>2, <2>2, <2>4
<1>6. CASE eq = {} /\ gt = {} /\ ge # {}
  <2>1. PICK i \in ge : TRUE
    BY <1>6
  <2>2. row.key >= LastInt(merged, ge)
    BY <1>1, <1>3, <2>1, KeyTestMeans
  <2> QED
    BY <1>6, <2>2 DEF StartKey
<1>7. CASE eq = {} /\ gt = {} /\ ge = {}
  <2>1. \A comp \in {"EQ", "GE", "GT"} : KeyConds(comp) = {}
    BY <1>7, OnKeyCovers DEF Comparator
  <2>2. ~ (row.key < 0)
    BY <1>1, <2>1 DEF StartsTooHigh
  <2>3. StartKey(merged) = 0
    BY <1>7 DEF StartKey
  <2> QED
    BY <1>2, <2>2, <2>3
<1> QED
    BY <1>4, <1>5, <1>6, <1>7

\* When a condition on the key, other than NE, refuses a row, no row with a
\* greater key matches: the scan may stop.
LEMMA StopIsRight ==
    ASSUME TypeOK, Phases, MergedFaithfully, todo = <<>>, ~ StartsTooLow,
           NEW row \in table, row.key >= StartKey(merged),
           NEW other \in Matching, row.key <= other.key,
           NEW m \in DOMAIN merged, merged[m].attr = 1, merged[m].comp # "NE"
    PROVE  IndexTest(merged[m], row)
<1> DEFINE eq == OnKey(merged, "EQ")
           gt == OnKey(merged, "GT")
           ge == OnKey(merged, "GE")
           v  == merged[m].intValue
<1>1. /\ row \in AnyRow /\ other \in AnyRow /\ other \in table
      /\ \A i \in DOMAIN merged : IndexTest(merged[i], other)
  <2>1. row \in AnyRow /\ other \in table /\ other \in AnyRow
    BY RowsAndConds DEF Matching
  <2> QED
    BY <2>1, MatchingIsAccepted
<1>2. /\ row.key \in CInt /\ row.key \in Int /\ other.key \in CInt /\ other.key \in Int
      /\ v \in Int /\ v \in CInt
    BY <1>1, KeyTestMeans
<1>3. ASSUME NEW comp \in {"EQ", "GT", "GE"}, NEW i \in OnKey(merged, comp)
      PROVE  /\ i \in DOMAIN merged /\ merged[i].attr = 1 /\ merged[i].comp = comp
             /\ LastInt(merged, OnKey(merged, comp)) = merged[i].intValue
    BY LastIntIs DEF OnKey, MergedFaithfully, Comparator
<1>4. CASE merged[m].comp \in {"LT", "LE"}
    BY <1>1, <1>2, <1>4, KeyTestMeans
<1>5. CASE eq # {}
  <2>1. PICK i \in eq : TRUE
    BY <1>5
  <2>2. other.key = LastInt(merged, eq)
    BY <1>1, <1>3, <2>1, KeyTestMeans
  <2>3. row.key >= other.key
    BY <1>5, <2>2 DEF StartKey
  <2>4. row.key = other.key
    BY <1>2, <2>3
  <2> QED
    BY <1>1, <2>4 DEF IndexTest
<1>6. CASE eq = {} /\ merged[m].comp = "GT"
  <2>1. m \in gt
    BY <1>6 DEF OnKey
  <2>2. LastInt(merged, gt) = v /\ other.key > v
    BY <1>1, <1>6, <2>1, <1>3, KeyTestMeans
  <2>3. Wrap(v + 1) = v + 1
    BY <1>2, <2>2, AfterBound
  <2>4. row.key >= v + 1
    BY <1>6, <2>1, <2>2, <2>3 DEF StartKey
  <2>5. row.key > v
    BY <1>2, <2>4
  <2> QED
    BY <1>1, <1>6, <2>5, KeyTestMeans
<1>7. CASE eq = {} /\ merged[m].comp = "GE"
  <2>1. m \in ge
    BY <1>7 DEF OnKey
  <2>2. CASE gt = {}
    <3>1. row.key >= v
      BY <1>3, <1>7, <2>1, <2>2 DEF StartKey
    <3> QED
      BY <1>1, <1>7, <3>1, KeyTestMeans
  <2>3. CASE gt # {}
    <3>1. PICK g \in gt : TRUE
      BY <2>3
    <3>2. /\ g \in DOMAIN merged /\ merged[g].attr = 1 /\ merged[g].comp = "GT"
          /\ LastInt(merged, gt) = merged[g].intValue
      BY <1>3, <3>1
    <3>3. /\ merged[g].intValue \in CInt /\ merged[g].intValue \in Int
          /\ other.key > merged[g].intValue
      BY <1>1, <3>2, KeyTestMeans
    <3>4. row.key >= merged[g].intValue + 1
      <4>1. Wrap(merged[g].intValue + 1) = merged[g].intValue + 1
        BY <1>2, <3>3, AfterBound
      <4> QED
        BY <1>7, <2>3, <3>2, <4>1 DEF StartKey
    <3>5. /\ Len(query) \in Nat /\ DOMAIN query = 1 .. Len(query) /\ Taken = Len(query)
          /\ \A j \in 1 .. Len(query) : query[j] \in Cond
      BY RowsAndConds DEF Taken
    <3>6. ASSUME NEW j \in KeyConds("GT")
          PROVE  row.key > Number(query[j])
      <4>1. j \in 1 .. Taken /\ query[j].attr = 1 /\ query[j].comp = "GT" /\ Number(query[j]) \in Int
        BY <3>5, NumbersAreInts DEF KeyConds
      <4>2. PICK i \in DOMAIN merged : AsTight(merged[i], query[j])
        BY <4>1 DEF MergedFaithfully, Covered
      <4>3. i = g
        BY <3>2, <4>1, <4>2 DEF AsTight, SameColumn, MergedFaithfully, OnePerComp
      <4>4. merged[g].intValue >= Number(query[j])
        BY <4>1, <4>2, <4>3 DEF AsTight
      <4> QED
        BY <1>2, <3>3, <3>4, <4>1, <4>4
    <3>7. PICK j \in 1 .. Taken : TestsSame(merged[m], query[j])
      BY DEF MergedFaithfully, FromQuery
    <3>8. j \in KeyConds("GE") /\ Number(query[j]) = v
      BY <1>7, <3>5, <3>7 DEF KeyConds, TestsSame, SameColumn
    <3>9. KeyConds("EQ") = {} /\ KeyConds("GT") # {}
      BY <1>7, <2>3, OnKeyCovers DEF Comparator
    <3>10. ~ (row.key < v)
      BY <3>6, <3>8, <3>9 DEF StartsTooLow
    <3> QED
      BY <1>1, <1>2, <1>7, <3>10, KeyTestMeans
  <2> QED
    BY <2>2, <2>3
<1>8. merged[m].comp \in {"EQ", "LT", "LE", "GT", "GE"}
    BY <1>1, KeyTestMeans DEF Comparator
<1>9. merged[m].comp = "EQ" => eq # {}
    BY DEF OnKey
<1> QED
    BY <1>4, <1>5, <1>6, <1>7, <1>8, <1>9

\* The verdict on a row is "print" exactly when no condition refuses it, and
\* "stop" only when a condition on the key, other than NE, does.
LEMMA VerdictMeans ==
    ASSUME TypeOK, NEW row
    PROVE  /\ Verdict(merged, row) = "print" <=>
                 \A i \in DOMAIN merged : IndexTest(merged[i], row)
           /\ Verdict(merged, row) = "stop" =>
                 \E i \in DOMAIN merged :
                     merged[i].attr = 1 /\ merged[i].comp # "NE" /\ ~ IndexTest(merged[i], row)
<1> DEFINE failed == FailedConds(merged, row)
<1>1. failed = {} <=> \A i \in DOMAIN merged : IndexTest(merged[i], row)
    BY DEF FailedConds
<1>2. ASSUME failed # {}
      PROVE  Min(failed) \in DOMAIN merged /\ ~ IndexTest(merged[Min(failed)], row)
  <2>1. failed \in SUBSET Nat
    BY RowsAndConds DEF FailedConds
  <2>2. Min(failed) \in failed
    BY <1>2, <2>1, MinOfNaturals
  <2> QED
    BY <2>2 DEF FailedConds
<1> QED
    BY <1>1, <1>2 DEF Verdict

\* The next row of a scan is one that is left, with the least key.
LEMMA NextRowIsLeast ==
    ASSUME TypeOK, left # {}
    PROVE  NextRow \in left /\ \A other \in left : NextRow.key <= other.key
<1>1. /\ left \subseteq AnyRow /\ CInt \subseteq Int /\ INT_MAX \in Nat
    BY RowsAndConds, NumbersAreInts, IntMaxIsNat DEF TypeOK
<1> DEFINE keys == {row.key : row \in left}
<1>2. keys \in SUBSET Int /\ keys # {} /\ \A n \in keys : -INT_MAX - 1 <= n
    BY <1>1 DEF AnyRow, CInt
<1>3. Min(keys) \in keys /\ \A n \in keys : Min(keys) <= n
  <2>1. -INT_MAX - 1 \in Int
    BY <1>1
  <2> HIDE DEF keys
  <2> QED
    BY <1>2, <2>1, MinOfBounded
<1>4. PICK row \in left : row.key = Min(keys)
    BY <1>3
<1>5. \A other \in left : row.key <= other.key
    BY <1>3, <1>4
<1> QED
    BY <1>5 DEF NextRow

(***************************************************************************)
(* Types                                                                   *)
(***************************************************************************)

\* Merging keeps the type of the merged conditions, whatever it replaces.
LEMMA MergeTyped ==
    ASSUME NEW conds \in Seq(MergedCond), NEW cond \in Cond, NEW junk \in CInt
    PROVE  Merge(conds, cond, junk) \in Seq(MergedCond)
<1> DEFINE same == SameComp(conds, cond)
           k == Min(same)
<1>1. Atoi[cond.value] \in CInt /\ cond.value \in Text
    BY NumbersAreInts DEF Number, Cond
<1>2. CASE same # {}
  <2>1. same \in SUBSET Nat
    BY DEF SameComp
  <2>2. k \in same
    BY <1>2, <2>1, MinOfNaturals
  <2>3. k \in 1 .. Len(conds) /\ conds[k] \in MergedCond
    BY <2>2 DEF SameComp
  <2>4. Tighten(conds[k], cond) \in MergedCond
    BY <1>1, <2>3 DEF Tighten, MergedCond
  <2>5. Merge(conds, cond, junk) = [conds EXCEPT ![k] = Tighten(conds[k], cond)]
    BY <1>2 DEF Merge
  <2> HIDE DEF k
  <2> QED
    BY <2>3, <2>4, <2>5
<1>3. CASE same = {}
  <2> DEFINE new == [attr |-> cond.attr, comp |-> cond.comp, value |-> cond.value,
                     intValue |-> IF cond.attr = 1 THEN Atoi[cond.value] ELSE junk]
  <2>1. new \in MergedCond
    BY <1>1 DEF MergedCond, Cond
  <2>2. Merge(conds, cond, junk) = Append(conds, new)
    BY <1>3 DEF Merge
  <2> HIDE DEF new
  <2> QED
    BY <2>1, <2>2
<1> QED
    BY <1>2, <1>3

LEMMA InitTyped == Init => TypeOK
BY DEF Init, TypeOK

LEMMA NextTyped == TypeOK /\ [Next]_vars => TypeOK'
<1> SUFFICES ASSUME TypeOK, [Next]_vars PROVE TypeOK'
    OBVIOUS
<1>1. CASE \E cond \in Conds : AddCondition(cond)
    BY <1>1 DEF AddCondition, TypeOK
<1>2. CASE ScanTable
    BY <1>2 DEF ScanTable, TypeOK
<1>3. CASE UseIndex
    BY <1>3 DEF UseIndex, TypeOK
<1>4. CASE MergeNext
  <2>1. PICK junk \in Junk : merged' = Merge(merged, Head(todo), junk)
    BY <1>4 DEF MergeNext
  <2>2. /\ Head(todo) \in Conds /\ Head(todo) \in Cond
        /\ todo' \in Seq(Conds) /\ junk \in CInt
    BY <1>4, CondsAreConds, JunkIsInt DEF MergeNext, TypeOK
  <2>3. merged' \in Seq(MergedCond)
    BY <2>1, <2>2, MergeTyped DEF TypeOK
  <2> QED
    BY <1>4, <2>2, <2>3 DEF MergeNext, TypeOK
<1>5. CASE Locate
    BY <1>5 DEF Locate, TypeOK
<1>6. CASE ReadByIndex
  <2>1. NextRow \in table
    BY <1>6, NextRowIsLeast DEF ReadByIndex, TypeOK
  <2> QED
    BY <1>6, <2>1 DEF ReadByIndex, TypeOK
<1>7. CASE ReadTable
  <2>1. NextRow \in table
    BY <1>7, NextRowIsLeast DEF ReadTable, TypeOK
  <2> QED
    BY <1>7, <2>1 DEF ReadTable, TypeOK
<1>8. CASE EndScan
    BY <1>8 DEF EndScan, TypeOK
<1>9. CASE NextStatement
    BY <1>9 DEF NextStatement, TypeOK
<1>10. CASE UNCHANGED vars
    BY <1>10 DEF vars, TypeOK
<1> QED
    BY <1>1, <1>2, <1>3, <1>4, <1>5, <1>6, <1>7, <1>8, <1>9, <1>10 DEF Next, Step

(***************************************************************************)
(* The invariant is inductive                                              *)
(***************************************************************************)

LEMMA InitScan == Init => ScanInv
<1> SUFFICES ASSUME Init PROVE ScanInv
    OBVIOUS
<1>1. TypeOK
    BY InitTyped
<1>2. Phases
    BY DEF Init, Phases
<1>3. MergedInv /\ FromStart /\ PrintsOnlyMatches /\ NoneSkipped
    BY DEF Init, MergedInv, FromStart, PrintsOnlyMatches, NoneSkipped
<1> QED
    BY <1>1, <1>2, <1>3 DEF ScanInv

\* A step that leaves the table and the query alone leaves alone what they say
\* of each other.
LEMMA SameStatement ==
    ASSUME UNCHANGED <<table, query>>
    PROVE  /\ Matching' = Matching
           /\ Replaces' <=> Replaces
           /\ Swallows' <=> Swallows
           /\ Overflows' <=> Overflows
           /\ StartsTooLow' <=> StartsTooLow
           /\ StartsTooHigh' <=> StartsTooHigh
<1>1. Matching' = Matching
    BY DEF Matching, Satisfies, Number
<1>2. \A comp : KeyConds(comp)' = KeyConds(comp)
    BY DEF KeyConds
<1>3. /\ Replaces' <=> Replaces
      /\ Swallows' <=> Swallows
      /\ Overflows' <=> Overflows
    BY DEF Replaces, Swallows, Overflows, KeyConds, Number
<1>4. /\ StartsTooLow' <=> StartsTooLow
      /\ StartsTooHigh' <=> StartsTooHigh
    BY DEF StartsTooLow, StartsTooHigh, KeyConds, Number
<1> QED
    BY <1>1, <1>3, <1>4

\* The steps before a scan begins: nothing has been printed and nothing is
\* merged.
LEMMA AddConditionScan ==
    ASSUME ScanInv, TypeOK', NEW cond \in Conds, AddCondition(cond)
    PROVE  ScanInv'
<1>1. Len(query') = Len(query) + 1 /\ Len(query) \in Nat
    BY DEF AddCondition, ScanInv, TypeOK
<1>2. Phases'
    BY <1>1 DEF AddCondition, ScanInv, Phases
<1>3. MergedInv' /\ FromStart' /\ PrintsOnlyMatches' /\ NoneSkipped'
    BY DEF AddCondition, ScanInv, Phases, MergedInv, FromStart, PrintsOnlyMatches, NoneSkipped
<1> QED
    BY <1>2, <1>3 DEF ScanInv

LEMMA ScanTableScan ==
    ASSUME ScanInv, TypeOK', ScanTable
    PROVE  ScanInv'
<1>1. Phases'
    BY DEF ScanTable, ScanInv, Phases
<1>2. Matching' \subseteq table
    BY DEF ScanTable, Matching
<1>3. MergedInv' /\ FromStart' /\ PrintsOnlyMatches' /\ NoneSkipped'
    BY <1>2 DEF ScanTable, ScanInv, Phases, MergedInv, FromStart, PrintsOnlyMatches, NoneSkipped
<1> QED
    BY <1>1, <1>3 DEF ScanInv

LEMMA UseIndexScan ==
    ASSUME ScanInv, TypeOK', UseIndex
    PROVE  ScanInv'
<1>1. Len(query) \in Nat /\ query' = query /\ todo' = query /\ merged' = <<>>
    BY DEF UseIndex, ScanInv, TypeOK, Phases
<1>2. Taken' = 0
    BY <1>1 DEF Taken
<1>3. Phases'
    BY <1>1, <1>2 DEF UseIndex, ScanInv, Phases
<1>4. MergedFaithfully'
    BY <1>1, <1>2 DEF MergedFaithfully, FromQuery, Covered, OnePerComp
<1>5. MergedInv' /\ FromStart' /\ PrintsOnlyMatches' /\ NoneSkipped'
    BY <1>4 DEF UseIndex, ScanInv, Phases, MergedInv, FromStart, PrintsOnlyMatches, NoneSkipped
<1> QED
    BY <1>3, <1>5 DEF ScanInv

LEMMA MergeNextScan ==
    ASSUME ScanInv, TypeOK', MergeNext
    PROVE  ScanInv'
<1>1. PICK junk \in CInt : merged' = Merge(merged, Head(todo), junk)
    BY JunkIsInt DEF MergeNext
<1>2. /\ TypeOK /\ Phases /\ pc = "merge" /\ pc' = "merge" /\ todo # <<>>
      /\ UNCHANGED <<table, query, left, answer>> /\ todo' = Tail(todo)
    BY DEF MergeNext, ScanInv
<1>3. Phases'
  <2>1. /\ Len(todo) \in Nat /\ Len(todo) > 0 /\ Len(todo') = Len(todo) - 1
        /\ Len(query) \in Nat /\ Len(todo) <= Len(query)
        /\ \A k \in 1 .. Len(todo') : todo'[k] = todo[k + 1] /\ k + 1 \in 1 .. Len(todo)
    BY <1>2 DEF TypeOK, Phases
  <2>2. Taken \in Int /\ Taken' = Taken + 1
    BY <1>2, <2>1 DEF Taken
  <2>3. ASSUME NEW k \in 1 .. Len(todo')
        PROVE  todo'[k] = query'[Taken' + k]
    <3>1. todo'[k] = query[Taken + (k + 1)]
      BY <1>2, <2>1 DEF Phases
    <3>2. Taken + (k + 1) = Taken' + k
      BY <2>2
    <3> QED
      BY <1>2, <3>1, <3>2
  <2> QED
    BY <1>2, <2>1, <2>3 DEF Phases
<1>4. MergedInv'
  <2> SUFFICES ASSUME ~ Replaces, ~ Swallows PROVE MergedFaithfully'
      BY <1>2, SameStatement DEF MergedInv
  <2>1. MergedFaithfully
    BY <1>2 DEF ScanInv, MergedInv
  <2> QED
    BY <1>1, <1>2, <2>1, MergeStaysFaithful
<1>5. FromStart' /\ PrintsOnlyMatches' /\ NoneSkipped'
    BY <1>2 DEF Phases, FromStart, PrintsOnlyMatches, NoneSkipped
<1> QED
    BY <1>3, <1>4, <1>5 DEF ScanInv

\* The merged conditions, and their start key, do not change any more.
LEMMA SameMerged ==
    ASSUME UNCHANGED <<table, query, todo, merged>>
    PROVE  /\ MergedFaithfully' <=> MergedFaithfully
           /\ StartKey(merged)' = StartKey(merged)
<1>1. UNCHANGED <<query, todo, merged, Taken>>
    BY DEF Taken
<1>2. FromQuery' <=> FromQuery
    BY <1>1 DEF FromQuery, TestsSame, SameColumn, Number
<1>3. Covered' <=> Covered
    BY <1>1 DEF Covered, AsTight, SameColumn, Number
<1>4. OnePerComp' <=> OnePerComp
    BY DEF OnePerComp
<1> QED
    BY <1>2, <1>3, <1>4 DEF MergedFaithfully

LEMMA LocateScan ==
    ASSUME ScanInv, TypeOK', Locate
    PROVE  ScanInv'
<1>1. /\ TypeOK /\ Phases /\ pc = "merge" /\ pc' = "index" /\ todo = <<>>
      /\ UNCHANGED <<table, query, todo, merged, answer>>
      /\ left' = {row \in table : row.key >= StartKey(merged)}
    BY DEF Locate, ScanInv
<1>2. Phases'
    BY <1>1 DEF Phases, Taken
<1>3. MergedInv'
    BY <1>1, SameStatement, SameMerged DEF ScanInv, MergedInv
<1>4. FromStart'
    BY <1>1 DEF FromStart
<1>5. PrintsOnlyMatches'
    BY <1>1 DEF Phases, PrintsOnlyMatches
<1>6. NoneSkipped'
  <2> SUFFICES ASSUME ~ Replaces, ~ Swallows, ~ StartsTooHigh, NEW row \in Matching
               PROVE  row \in left'
      BY <1>1, SameStatement DEF NoneSkipped
  <2>1. MergedFaithfully
    BY <1>1 DEF ScanInv, MergedInv
  <2>2. row.key >= StartKey(merged) /\ row \in table
    BY <1>1, <2>1, StartKeyIsLow DEF Matching
  <2> QED
    BY <1>1, <2>2
<1> QED
    BY <1>2, <1>3, <1>4, <1>5, <1>6 DEF ScanInv

LEMMA ReadByIndexScan ==
    ASSUME ScanInv, TypeOK', ReadByIndex
    PROVE  ScanInv'
<1> DEFINE row == NextRow
           verdict == Verdict(merged, row)
<1>1. /\ TypeOK /\ Phases /\ pc = "index" /\ pc' = "index" /\ left # {} /\ todo = <<>>
      /\ UNCHANGED <<table, query, todo, merged>>
      /\ answer' = IF verdict = "print" THEN answer \cup {row} ELSE answer
      /\ left'   = IF verdict = "stop" THEN {} ELSE left \ {row}
    BY DEF ReadByIndex, ScanInv, Phases
<1>2. row \in left /\ row \in table /\ \A other \in left : row.key <= other.key
    BY <1>1, NextRowIsLeast DEF TypeOK
<1>3. row.key >= StartKey(merged)
    BY <1>1, <1>2 DEF ScanInv, FromStart
<1> HIDE DEF row
<1>4. Phases'
    BY <1>1 DEF Phases, Taken
<1>5. MergedInv'
    BY <1>1, SameStatement, SameMerged DEF ScanInv, MergedInv
<1>6. FromStart'
    BY <1>1 DEF ScanInv, FromStart
<1>7. ASSUME ~ Replaces, ~ Swallows
      PROVE  MergedFaithfully /\ (verdict = "print" <=> row \in Matching)
  <2>1. MergedFaithfully
    BY <1>1, <1>7 DEF ScanInv, MergedInv
  <2> QED
    BY <1>1, <1>2, <2>1, MatchingIsAccepted, VerdictMeans
<1>8. PrintsOnlyMatches'
    BY <1>1, <1>7, SameStatement DEF ScanInv, PrintsOnlyMatches
<1>9. NoneSkipped'
  <2> SUFFICES ASSUME ~ Replaces, ~ Swallows, ~ Overflows, ~ StartsTooLow, ~ StartsTooHigh,
                      NEW other \in Matching
               PROVE  other \in answer' \cup left'
      BY <1>1, SameStatement DEF NoneSkipped
  <2>1. other \in answer \cup left
    BY <1>1 DEF ScanInv, NoneSkipped
  <2>2. CASE other = row
    BY <1>1, <1>7, <2>2
  <2>3. CASE other # row /\ verdict # "stop"
    BY <1>1, <2>1, <2>3
  <2>4. CASE verdict = "stop" /\ other \in left
    <3>1. PICK m \in DOMAIN merged :
              merged[m].attr = 1 /\ merged[m].comp # "NE" /\ ~ IndexTest(merged[m], row)
      BY <1>1, <2>4, VerdictMeans
    <3>2. row.key <= other.key
      BY <1>2, <2>4
    <3> QED
      BY <1>1, <1>2, <1>3, <1>7, <3>1, <3>2, StopIsRight
  <2>5. CASE verdict = "stop" /\ other \in answer
    BY <1>1, <2>5
  <2> QED
    BY <2>1, <2>2, <2>3, <2>4, <2>5
<1> QED
    BY <1>4, <1>5, <1>6, <1>8, <1>9 DEF ScanInv

\* The test of the table scan is the meaning of the conditions, unless a
\* difference of keys wraps.
LEMMA TableTestMeans ==
    ASSUME TypeOK, ~ Overflows, NEW row \in table
    PROVE  TableAnswers(query, row) <=> row \in Matching
<1>1. ASSUME NEW j \in DOMAIN query
      PROVE  TableTest(query[j], row) <=> Satisfies(query[j], row)
  <2>1. query[j].attr = 1 => row.key - Number(query[j]) \in CInt
    BY DEF Overflows
  <2>2. query[j].attr = 1 => Wrap(row.key - Number(query[j])) = row.key - Number(query[j])
    BY <2>1, WrapFits
  <2> QED
    BY <2>2 DEF TableTest, Satisfies, Number
<1> QED
    BY <1>1 DEF TableAnswers, Matching

LEMMA ReadTableScan ==
    ASSUME ScanInv, TypeOK', ReadTable
    PROVE  ScanInv'
<1> DEFINE row == NextRow
<1>1. /\ TypeOK /\ Phases /\ pc = "table" /\ pc' = "table" /\ left # {}
      /\ UNCHANGED <<table, query, todo, merged>>
      /\ answer' = IF TableAnswers(query, row) THEN answer \cup {row} ELSE answer
      /\ left' = left \ {row}
    BY DEF ReadTable, ScanInv
<1>2. row \in table
    BY <1>1, NextRowIsLeast DEF TypeOK
<1> HIDE DEF row
<1>3. Phases'
    BY <1>1 DEF Phases, Taken
<1>4. MergedInv' /\ FromStart'
    BY <1>1 DEF MergedInv, FromStart
<1>5. ~ Overflows => (TableAnswers(query, row) <=> row \in Matching)
    BY <1>1, <1>2, TableTestMeans
<1>6. PrintsOnlyMatches'
    BY <1>1, <1>5, SameStatement DEF ScanInv, PrintsOnlyMatches
<1>7. NoneSkipped'
    BY <1>1, <1>5, SameStatement DEF ScanInv, NoneSkipped
<1> QED
    BY <1>3, <1>4, <1>6, <1>7 DEF ScanInv

LEMMA EndScanScan ==
    ASSUME ScanInv, TypeOK', EndScan
    PROVE  ScanInv'
<1>1. /\ TypeOK /\ Phases /\ pc \in {"index", "table"} /\ pc' = "done" /\ left = {}
      /\ UNCHANGED <<table, query, todo, merged, left, answer>>
    BY DEF EndScan, ScanInv
<1>2. Phases'
    BY <1>1 DEF Phases, Taken
<1>3. MergedInv' /\ FromStart'
    BY <1>1 DEF MergedInv, FromStart
<1>4. PrintsOnlyMatches' /\ NoneSkipped'
    BY <1>1, SameStatement DEF ScanInv, PrintsOnlyMatches, NoneSkipped
<1> QED
    BY <1>2, <1>3, <1>4 DEF ScanInv

LEMMA NextStatementScan ==
    ASSUME ScanInv, TypeOK', NextStatement
    PROVE  ScanInv'
<1>1. /\ Phases /\ pc = "done" /\ pc' = "parse" /\ query' = <<>> /\ merged' = <<>>
      /\ answer' = {} /\ UNCHANGED <<table, todo, left>>
    BY DEF NextStatement, ScanInv
<1>2. Phases'
    BY <1>1 DEF Phases
<1>3. MergedInv' /\ FromStart' /\ PrintsOnlyMatches' /\ NoneSkipped'
    BY <1>1 DEF MergedInv, FromStart, PrintsOnlyMatches, NoneSkipped
<1> QED
    BY <1>2, <1>3 DEF ScanInv

LEMMA StutterScan ==
    ASSUME ScanInv, UNCHANGED vars
    PROVE  ScanInv'
<1>1. UNCHANGED <<table, query, pc, todo, merged, left, answer>>
    BY DEF vars
<1>2. TypeOK' /\ Phases'
    BY <1>1 DEF ScanInv, TypeOK, Phases, Taken
<1>3. MergedInv'
    BY <1>1, SameStatement, SameMerged DEF ScanInv, MergedInv
<1>4. FromStart'
    BY <1>1 DEF ScanInv, FromStart
<1>5. PrintsOnlyMatches' /\ NoneSkipped'
    BY <1>1, SameStatement DEF ScanInv, PrintsOnlyMatches, NoneSkipped
<1> QED
    BY <1>2, <1>3, <1>4, <1>5 DEF ScanInv

LEMMA NextScan == ScanInv /\ [Next]_vars => ScanInv'
<1> SUFFICES ASSUME ScanInv, Next PROVE ScanInv'
    BY StutterScan
<1>1. TypeOK'
    BY NextTyped DEF ScanInv
<1> QED
    BY <1>1, AddConditionScan, ScanTableScan, UseIndexScan, MergeNextScan, LocateScan,
       ReadByIndexScan, ReadTableScan, EndScanScan, NextStatementScan DEF Next, Step

(***************************************************************************)
(* Theorems                                                                *)
(***************************************************************************)

THEOREM SelectScanInvariant == Spec => []ScanInv
BY InitScan, NextScan, PTL DEF Spec

\* Every variable keeps its type: what is printed and what is left to read are
\* rows of the table, and the merged conditions are conditions with an int.
THEOREM SelectScanTypeOK == Spec => []TypeOK
BY InitTyped, NextTyped, PTL DEF Spec

\* At every moment of either scan only rows that satisfy all conditions have
\* been printed, for any table, any conditions in any order and number, and
\* any width of int, unless conditions are lost in the merging (Replaces,
\* Swallows) or a difference of keys wraps.
THEOREM SelectScanPrintsOnlyMatches == Spec => []PrintsOnlyMatches
<1>1. ScanInv => PrintsOnlyMatches
    BY DEF ScanInv
<1> QED
    BY <1>1, SelectScanInvariant, PTL

\* A scan that is over has printed every row that satisfies all conditions:
\* neither the start key nor an early exit skips one, unless the start key is
\* wrong (StartsTooLow, StartsTooHigh) or one of the above happens.
THEOREM SelectScanPrintsAllMatches == Spec => []PrintsAllMatches
<1>1. ScanInv => PrintsAllMatches
    BY DEF ScanInv, PrintsAllMatches, NoneSkipped, Phases
<1> QED
    BY <1>1, SelectScanInvariant, PTL

\* The merged conditions accept exactly the rows, of all rows there could be,
\* that the conditions of the statement accept.
THEOREM SelectScanMergedAsTight == Spec => []MergedAsTight
<1>1. ScanInv => MergedAsTight
  <2> SUFFICES ASSUME ScanInv, pc = "index", ~ Swallows, ~ Replaces, NEW row \in AnyRow
               PROVE  (\A i \in DOMAIN merged : IndexTest(merged[i], row)) <=>
                      (\A i \in DOMAIN query : Satisfies(query[i], row))
      BY DEF MergedAsTight, AnyRow
  <2>1. TypeOK /\ Phases /\ MergedFaithfully /\ todo = <<>>
    BY DEF ScanInv, MergedInv, Phases
  <2>2. Taken = Len(query) /\ DOMAIN query = 1 .. Len(query)
    BY <2>1, RowsAndConds DEF Taken
  <2> QED
    BY <2>1, <2>2, MergedAccepts DEF MergedFaithfully
<1> QED
    BY <1>1, SelectScanInvariant, PTL

=============================================================================
