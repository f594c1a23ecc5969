----------------------------- MODULE MCSelectScan -----------------------------
(***************************************************************************)
(* Values for the runs of SelectScan.  Ints have three bits: -4 .. 3.  The  *)
(* texts, in the order of strcmp, are "-2", "-4", "0", "1", "2", "3", "a".   *)
(***************************************************************************)
EXTENDS SelectScan

Texts   == 1 .. 7
Numbers == <<-2, -4, 0, 1, 2, 3, 0>>
AnyJunk == {-4, 0, 3}

Row(key, value) == [key |-> key, value |-> value]
Small      == {Row(0, 3), Row(1, 7), Row(2, 4), Row(3, 5)}
WithMinus  == Small \cup {Row(-3, 7), Row(-1, 1)}
NoNegative == {Small, {}}
AnyTable   == {Small, WithMinus}

On(attrs, comps, texts) == [attr : attrs, comp : comps, value : texts]
SomeConds == On({1}, Comparator, {1, 2, 4, 5}) \cup On({2}, Comparator, {4})
TwoValues == On({1}, {"EQ"}, {4, 5})

=============================================================================
