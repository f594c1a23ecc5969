----------------------------- MODULE OrderedIndex -----------------------------
(***************************************************************************)
(* What the B+tree index promises: a set of (key, rid) entries, one per key. *)
(* A call of insert adds its entry in one step, or not at all if the        *)
(* process dies first; nothing ever leaves the set or changes in it.        *)
(***************************************************************************)
CONSTANTS Entry,    \* records with a key and a rid
          NoEntry   \* no insert is waiting

VARIABLES entries,  \* what is stored
          pending   \* the entry of a running insert that is not stored yet

vars == <<entries, pending>>

Init == entries = {} /\ pending = NoEntry

\* Keys are unique: the caller inserts new ones only.
Call(e) ==
    /\ pending = NoEntry
    /\ \A stored \in entries : stored.key # e.key
    /\ pending' = e
    /\ UNCHANGED entries

Store ==
    /\ pending # NoEntry
    /\ entries' = entries \cup {pending}
    /\ pending' = NoEntry

\* The process dies before the entry is stored.
Abandon ==
    /\ pending # NoEntry
    /\ pending' = NoEntry
    /\ UNCHANGED entries

Next == (\E e \in Entry : Call(e)) \/ Store \/ Abandon

Spec == Init /\ [][Next]_vars

=============================================================================
