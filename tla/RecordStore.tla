------------------------------ MODULE RecordStore ------------------------------
(***************************************************************************)
(* What RecordFile promises (RecordFile.h): a table is a set of rows, each  *)
(* a record at a rid of its own.  append puts a record after all others and *)
(* tells where; read returns the record that is at a rid; nothing is ever   *)
(* removed, moved or overwritten.  There are no pages here and no end rid.  *)
(***************************************************************************)
EXTENDS Integers

CONSTANTS AnyRid, Record

VARIABLES
    rows,    \* records with a rid and a record
    reply    \* the last call, its return code, and the row it is about

vars == <<rows, reply>>

Before(r1, r2) ==
    \/ r1.pid < r2.pid
    \/ r1.pid = r2.pid /\ r1.sid < r2.sid

Failed(op, rc) == [op |-> op, rc |-> rc]
Done(op, row)  == [op |-> op, rc |-> 0, row |-> row]

Init == rows = {} /\ reply = Failed("none", -1)

AfterAll(rid) == \A row \in rows : Before(row.rid, rid)

Store(row) ==
    /\ AfterAll(row.rid)
    /\ rows' = rows \cup {row}
    /\ reply' = Done("append", row)

\* The process dies after the record is stored and before the call returns.
StoreAndDie(row) ==
    /\ AfterAll(row.rid)
    /\ rows' = rows \cup {row}
    /\ UNCHANGED reply

Read(row) ==
    /\ row \in rows
    /\ reply' = Done("read", row)
    /\ UNCHANGED rows

\* A call that returns an error code has no effect.
Fail(op) ==
    /\ reply' = Failed(op, reply'.rc)
    /\ reply'.rc # 0
    /\ UNCHANGED rows

Next ==
    \/ \E rid \in AnyRid, record \in Record :
         LET row == [rid |-> rid, record |-> record]
         IN  Store(row) \/ StoreAndDie(row)
    \/ \E row \in rows : Read(row)
    \/ \E op \in {"open", "append", "read"} : Fail(op)

Spec == Init /\ [][Next]_vars

=============================================================================
