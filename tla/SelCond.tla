-------------------------------- MODULE SelCond --------------------------------
(***************************************************************************)
(* The conditions of a WHERE clause (SqlEngine.cc): how the table scan and  *)
(* the index scan test a row, how the index scan merges conditions on the   *)
(* key, and the key it starts from.                                        *)
(*                                                                         *)
(* A text (a value of a row or of a condition) is its rank in the order of  *)
(* strcmp.  An int wraps, as the build's arithmetic does.                   *)
(***************************************************************************)
EXTENDS Integers, Sequences, FiniteSetsExt

CONSTANTS
    Text,      \* ranks of texts
    Atoi,      \* the number at the start of each text, 0 if there is none
    Junk,      \* what the memory of a new SelCond may hold
    INT_MAX

CInt == (-INT_MAX - 1) .. INT_MAX

ASSUME IntMaxIsNat    == INT_MAX \in Nat \ {0}
ASSUME TextsAreRanks  == Text \subseteq Int
ASSUME AtoiIsInt      == Atoi \in [Text -> CInt]
ASSUME JunkIsInt      == Junk \subseteq CInt /\ Junk # {}

Wrap(n) == ((n + INT_MAX + 1) % (2 * (INT_MAX + 1))) - (INT_MAX + 1)

Comparator == {"EQ", "NE", "LT", "GT", "LE", "GE"}

\* As parsed: attr 1 is the key and 2 the value; intValue is set later.
Cond       == [attr : {1, 2}, comp : Comparator, value : Text]
MergedCond == [attr : {1, 2}, comp : Comparator, value : Text, intValue : CInt]

Sign(n) == IF n < 0 THEN -1 ELSE IF n > 0 THEN 1 ELSE 0

\* The differences between a column and a value that a comparator accepts.
Accepts == [EQ |-> {0}, NE |-> {-1, 1},
            LT |-> {-1}, LE |-> {-1, 0},
            GT |-> {1}, GE |-> {0, 1}]

Meets(comp, diff) == Sign(diff) \in Accepts[comp]

(***************************************************************************)
(* Testing a row                                                           *)
(***************************************************************************)

\* select: key - atoi(value) is an int.
TableTest(cond, row) ==
    Meets(cond.comp, IF cond.attr = 1 THEN Wrap(row.key - Atoi[cond.value])
                                      ELSE row.value - cond.value)

TableAnswers(conds, row) ==
    \A i \in DOMAIN conds : TableTest(conds[i], row)

\* print_tuples: a key condition compares with intValue.
IndexTest(cond, row) ==
    Meets(cond.comp, IF cond.attr = 1 THEN row.key - cond.intValue
                                      ELSE row.value - cond.value)

FailedConds(conds, row) == {i \in DOMAIN conds : ~ IndexTest(conds[i], row)}

\* A break that leaves the loop over the conditions, not only the switch.
VerdictOfFirst(conds, row) ==
    IF conds = <<>> \/ IndexTest(conds[1], row) THEN "print"
    ELSE IF conds[1].attr = 1 /\ conds[1].comp # "NE" THEN "stop" ELSE "next"

VerdictStopAtNE(conds, row) ==
    IF FailedConds(conds, row) = {} THEN "print"
    ELSE IF conds[Min(FailedConds(conds, row))].attr = 1 THEN "stop" ELSE "next"

\* The first condition that fails decides: one on the key, unless it is NE,
\* ends the scan (goto out), any other skips the row (goto nextIter).
Verdict(conds, row) ==
    LET failed == FailedConds(conds, row)
        first  == conds[Min(failed)]
    IN  IF failed = {} THEN "print"
        ELSE IF first.attr = 1 /\ first.comp # "NE" THEN "stop"
        ELSE "next"

(***************************************************************************)
(* Merging conditions                                                      *)
(***************************************************************************)

TightenNumberAsText(old, cond) ==
    LET number == Atoi[cond.value]
    IN  [old EXCEPT !.value = number, !.intValue = number]

TightenLoosest(old, cond) ==
    LET number == Atoi[cond.value]
    IN  IF \/ old.comp \in {"LT", "LE"} /\ number > old.intValue
           \/ old.comp \in {"GT", "GE"} /\ number < old.intValue
           \/ old.comp \in {"EQ", "NE"}
          THEN [old EXCEPT !.value = cond.value, !.intValue = number]
          ELSE old

\* Of two bounds the tighter one stays; a second EQ or NE replaces the first.
Tighten(old, cond) ==
    LET number == Atoi[cond.value]
    IN  IF \/ old.comp \in {"LT", "LE"} /\ number < old.intValue
           \/ old.comp \in {"GT", "GE"} /\ number > old.intValue
           \/ old.comp \in {"EQ", "NE"}
          THEN [old EXCEPT !.value = cond.value, !.intValue = number]
          ELSE old

\* A key condition looks for an earlier one of its comparator, on any column.
SameComp(merged, cond) ==
    {i \in DOMAIN merged : cond.attr = 1 /\ merged[i].comp = cond.comp}

\* _preprocess_selcond; junk is what the intValue of the new condition holds.
Merge(merged, cond, junk) ==
    LET same == SameComp(merged, cond)
    IN  IF same # {}
          THEN [merged EXCEPT ![Min(same)] = Tighten(@, cond)]
          ELSE Append(merged,
                 [attr |-> cond.attr, comp |-> cond.comp, value |-> cond.value,
                  intValue |-> IF cond.attr = 1 THEN Atoi[cond.value] ELSE junk])

(***************************************************************************)
(* The start key                                                           *)
(***************************************************************************)

\* The places of the merged conditions on the key with a comparator, and the
\* number of the last of them.
OnKey(merged, comp) ==
    {i \in DOMAIN merged : merged[i].attr = 1 /\ merged[i].comp = comp}
LastInt(merged, places) == merged[Max(places)].intValue

StartKeyAfterGE(merged) ==
    LET eq == OnKey(merged, "EQ")
        gt == OnKey(merged, "GT")
        ge == OnKey(merged, "GE")
    IN  IF eq # {} THEN LastInt(merged, eq)
        ELSE IF gt # {} THEN Wrap(LastInt(merged, gt) + 1)
        ELSE IF ge # {} THEN Wrap(LastInt(merged, ge) + 1)
        ELSE 0

\* find_key: the last assignment wins, and EQ comes after GT after GE.
StartKey(merged) ==
    LET eq == OnKey(merged, "EQ")
        gt == OnKey(merged, "GT")
        ge == OnKey(merged, "GE")
    IN  IF eq # {} THEN LastInt(merged, eq)
        ELSE IF gt # {} THEN Wrap(LastInt(merged, gt) + 1)
        ELSE IF ge # {} THEN LastInt(merged, ge)
        ELSE 0

=============================================================================
