------------------------------ MODULE PageStore ------------------------------
(***************************************************************************)
(* What PageFile promises its callers (PageFile.h): files are sequences of *)
(* pages, a read that returns 0 returns the page as it was last written,   *)
(* and a write that returns 0 replaces one page or adds one at the end.     *)
(* There is no cache, no descriptor and no clock here.                      *)
(***************************************************************************)
EXTENDS Integers, Sequences

CONSTANTS File, Block, Pid

VARIABLES
    store,   \* the pages of each file
    opened,  \* the files that have a PageFile object open
    reply    \* the last call, its return code and the page it returned

vars == <<store, opened, reply>>

Reply(op, rc) == [op |-> op, rc |-> rc]
PageRead(file, pid, block) ==
    [op |-> "read", rc |-> 0, file |-> file, pid |-> pid, block |-> block]

Init ==
    /\ store = [file \in File |-> <<>>]
    /\ opened = {}
    /\ reply = Reply("none", 0)

Open(file) ==
    /\ file \notin opened
    /\ opened' = opened \cup {file}
    /\ reply' = Reply("open", 0)
    /\ UNCHANGED store

Close(file) ==
    /\ file \in opened
    /\ opened' = opened \ {file}
    /\ reply' = Reply("close", 0)
    /\ UNCHANGED store

\* The object goes out of scope while it is open.
Drop(file) ==
    /\ file \in opened
    /\ opened' = opened \ {file}
    /\ UNCHANGED <<store, reply>>

Write(file, pid, block) ==
    /\ file \in opened
    /\ pid \in 0 .. Len(store[file])
    /\ store' = [store EXCEPT ![file] =
                    IF pid < Len(@) THEN [@ EXCEPT ![pid + 1] = block]
                                    ELSE Append(@, block)]
    /\ reply' = Reply("write", 0)
    /\ UNCHANGED opened

Read(file, pid) ==
    /\ file \in opened
    /\ pid \in 0 .. Len(store[file]) - 1
    /\ reply' = PageRead(file, pid, store[file][pid + 1])
    /\ UNCHANGED <<store, opened>>

\* A call that returns an error code has no effect.
Fail(op) ==
    /\ reply' = Reply(op, reply'.rc)
    /\ reply'.rc # 0
    /\ UNCHANGED <<store, opened>>

Next ==
    \/ \E file \in File :
          \/ Open(file) \/ Close(file) \/ Drop(file)
          \/ \E pid \in Pid :
               \/ \E block \in Block : Write(file, pid, block)
               \/ Read(file, pid)
    \/ \E op \in {"open", "read", "write"} : Fail(op)

Spec == Init /\ [][Next]_vars

=============================================================================
