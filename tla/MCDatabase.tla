------------------------------ MODULE MCDatabase ------------------------------
(***************************************************************************)
(* Values for the runs of Database.  The texts are "", "1", "2", ... in    *)
(* the order of strcmp; a row with a key has one value.  The last text is too   *)
(* long for a slot and is cut to the one before it.                         *)
(***************************************************************************)
EXTENDS Database

Texts   == 0 .. 5
Numbers == [text \in Texts |-> text]
Cut     == [text \in Texts |-> IF text = 5 THEN 4 ELSE text]
ZeroInt == {0}

Row(key, text) == [key |-> key, value |-> text]
Four  == {Row(1, 3), Row(2, 5), Row(3, 4), Row(4, 1)}
BadLine == {Row(1, 3), Row(2, 5), Row(3, NoComma), Row(4, 1)}

On(attr, comp, text) == [attr |-> attr, comp |-> comp, value |-> text]
Several == { <<>>,
             <<On(1, "EQ", 2)>>,
             <<On(1, "GT", 1), On(2, "GE", 4)>>,
             <<On(1, "NE", 3), On(1, "LE", 3)>> }

=============================================================================
