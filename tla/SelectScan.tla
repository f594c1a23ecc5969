------------------------------ MODULE SelectScan ------------------------------
(***************************************************************************)
(* One SELECT after the other (SqlParser.y, SqlEngine.cc): the parser       *)
(* collects the conditions, and the engine answers by the index, over       *)
(* merged conditions and in the order of the keys, or by a scan of the      *)
(* table.  The index here is an ideal one, which hands out every row from   *)
(* the start key on; Database puts the real one in its place.               *)
(***************************************************************************)
EXTENDS SelCond

CONSTANTS
    Tables,    \* the tables to ask: sets of rows with a key and a value
    Conds,     \* the conditions to ask with
    MaxConds   \* bound: conditions of a query

ASSUME TablesHaveKeys ==
    \A table \in Tables :
        /\ table \subseteq [key : CInt, value : Text]
        /\ \A r1, r2 \in table : r1.key = r2.key => r1 = r2
ASSUME CondsAreConds  == Conds \subseteq Cond
ASSUME MaxCondsIsNat  == MaxConds \in Nat

VARIABLES
    table,    \* the rows of the table
    query,    \* the conditions of the statement
    pc,       \* "parse", "merge", "index", "table" or "done"
    todo,     \* the conditions not merged yet
    merged,   \* new_cond of select_from_index
    left,     \* the rows the scan has not read yet
    answer    \* the rows it printed

vars == <<table, query, pc, todo, merged, left, answer>>

Init ==
    /\ table \in Tables
    /\ query = <<>>
    /\ pc = "parse"
    /\ todo = <<>>
    /\ merged = <<>>
    /\ left = {}
    /\ answer = {}

AddCondition(cond) ==
    /\ pc = "parse"
    /\ Len(query) < MaxConds
    /\ query' = Append(query, cond)
    /\ UNCHANGED <<table, pc, todo, merged, left, answer>>

\* There is no index file.
ScanTable ==
    /\ pc = "parse"
    /\ pc' = "table"
    /\ left' = table
    /\ UNCHANGED <<table, query, todo, merged, answer>>

UseIndex ==
    /\ pc = "parse"
    /\ pc' = "merge"
    /\ todo' = query
    /\ UNCHANGED <<table, query, merged, left, answer>>

MergeNext ==
    /\ pc = "merge"
    /\ todo # <<>>
    /\ \E junk \in Junk : merged' = Merge(merged, Head(todo), junk)
    /\ todo' = Tail(todo)
    /\ UNCHANGED <<table, query, pc, left, answer>>

Locate ==
    /\ pc = "merge"
    /\ todo = <<>>
    /\ left' = {row \in table : row.key >= StartKey(merged)}
    /\ pc' = "index"
    /\ UNCHANGED <<table, query, todo, merged, answer>>

NextRow == CHOOSE row \in left : \A other \in left : row.key <= other.key

ReadByIndex ==
    /\ pc = "index"
    /\ left # {}
    /\ LET verdict == Verdict(merged, NextRow)
       IN  /\ answer' = IF verdict = "print" THEN answer \cup {NextRow} ELSE answer
           /\ left'   = IF verdict = "stop" THEN {} ELSE left \ {NextRow}
    /\ UNCHANGED <<table, query, pc, todo, merged>>

\* The rows are in the order in which they were loaded, which does not matter
\* here.
ReadTable ==
    /\ pc = "table"
    /\ left # {}
    /\ answer' = IF TableAnswers(query, NextRow) THEN answer \cup {NextRow}
                                                 ELSE answer
    /\ left' = left \ {NextRow}
    /\ UNCHANGED <<table, query, pc, todo, merged>>

EndScan ==
    /\ pc \in {"index", "table"}
    /\ left = {}
    /\ pc' = "done"
    /\ UNCHANGED <<table, query, todo, merged, left, answer>>

NextStatement ==
    /\ pc = "done"
    /\ pc' = "parse"
    /\ query' = <<>>
    /\ merged' = <<>>
    /\ answer' = {}
    /\ UNCHANGED <<table, todo, left>>

Step == MergeNext \/ Locate \/ ReadByIndex \/ ReadTable \/ EndScan

Next ==
    \/ \E cond \in Conds : AddCondition(cond)
    \/ ScanTable \/ UseIndex
    \/ Step
    \/ NextStatement

Spec == Init /\ [][Next]_vars

(***************************************************************************)
(* Properties                                                              *)
(***************************************************************************)

TypeOK ==
    /\ table \in Tables
    /\ query \in Seq(Conds)
    /\ pc \in {"parse", "merge", "index", "table", "done"}
    /\ todo \in Seq(Conds)
    /\ merged \in Seq(MergedCond)
    /\ left \subseteq table
    /\ answer \subseteq table

\* The meaning of a condition, and of a query: "all conditions in conds must
\* be ANDed together" (SqlEngine.h:45).
Number(cond) == Atoi[cond.value]
Satisfies(cond, row) ==
    Meets(cond.comp, IF cond.attr = 1 THEN row.key - Number(cond)
                                      ELSE row.value - cond.value)
Matching == {row \in table : \A i \in DOMAIN query : Satisfies(query[i], row)}

\* A SELECT prints the rows that satisfy all its conditions.
AnswersExact == pc = "done" => answer = Matching

\* What keeps the code from that: a second EQ or NE on the key that replaces
\* one with another number;
KeyConds(comp) == {i \in DOMAIN query : query[i].attr = 1 /\ query[i].comp = comp}
Replaces ==
    \E comp \in {"EQ", "NE"} : \E i, j \in KeyConds(comp) :
        Number(query[i]) # Number(query[j])

\* a condition on the key that follows one on the value with its comparator;
Swallows ==
    \E i, j \in DOMAIN query :
        /\ i < j
        /\ query[i].attr = 2 /\ query[j].attr = 1
        /\ query[i].comp = query[j].comp

\* a difference of keys that no int holds;
Overflows ==
    \E row \in table : \E i \in DOMAIN query :
        query[i].attr = 1 /\ row.key - Number(query[i]) \notin CInt

\* a GT bound below a GE bound, without an EQ, with a row between them;
StartsTooLow ==
    /\ KeyConds("EQ") = {}
    /\ \E row \in table, i \in KeyConds("GE") :
        /\ KeyConds("GT") # {}
        /\ row.key < Number(query[i])
        /\ \A j \in KeyConds("GT") : row.key > Number(query[j])

\* no lower bound, and a row with a negative key.
StartsTooHigh ==
    /\ \A comp \in {"EQ", "GE", "GT"} : KeyConds(comp) = {}
    /\ \E row \in table : row.key < 0

\* At every moment of either scan only rows that satisfy all conditions have
\* been printed, unless conditions were lost in the merging or the table scan
\* overflows.
PrintsOnlyMatches ==
    (~ Replaces /\ ~ Swallows /\ ~ Overflows) => answer \subseteq Matching

\* A scan that is over has printed every such row: the early exits of the
\* index scan and its start key skip none, except in the two cases where the
\* start key is wrong.
PrintsAllMatches ==
    (/\ pc = "done"
     /\ ~ Replaces /\ ~ Swallows /\ ~ Overflows
     /\ ~ StartsTooLow /\ ~ StartsTooHigh) => Matching \subseteq answer

\* The merged conditions accept the rows that the conditions of the statement
\* accept, of all rows there could be, in whatever order they were given.
MergedAsTight ==
    (pc = "index" /\ ~ Swallows /\ ~ Replaces) =>
        \A row \in [key : CInt, value : Text] :
            (\A i \in DOMAIN merged : IndexTest(merged[i], row)) <=>
            (\A i \in DOMAIN query : Satisfies(query[i], row))

=============================================================================
