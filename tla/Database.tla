------------------------------- MODULE Database -------------------------------
(***************************************************************************)
(* LOAD and SELECT (SqlEngine.cc) over one table: the table file is a       *)
(* RecordFile and the index file a BTreeIndex, each with the actions of its *)
(* own module, and the engine decides which call comes next.                *)
(*                                                                         *)
(* The engine runs one statement at a time.  stmt is what the running one   *)
(* does next.  Between any two steps the process may be killed; the files   *)
(* stay as they are.                                                       *)
(***************************************************************************)
EXTENDS SelCond, SequencesExt

CONSTANTS
    Key,                                            \* of the tables
    Truncated, NoRecord, RECORDS_PER_PAGE,          \* of RecordFile
    MaxPages, IOErrors,
    MAX_LEAF_KEY_COUNT, MAX_NONLEAF_KEY_COUNT,      \* of BTreeIndex
    MaxCrashes, MaxDepth,
    EmptyText,   \* the text of no characters
    NoComma,     \* in place of the value of a line that has no comma
    Lines,       \* the lines of the load files: a key and a value
    Queries,     \* the WHERE clauses of SELECTs
    LoadsIndex,  \* the LOADs there are: TRUE is one WITH INDEX
    FdLimit      \* the files the process may have open

ASSUME KeysAreInts     == Key \subseteq CInt
ASSUME EmptyTextIsText == EmptyText \in Text /\ NoComma \notin Text
ASSUME LinesAreLines   == Lines \subseteq [key : Key, value : Text \cup {NoComma}]
ASSUME QueriesAreConds == \A query \in Queries : query \in Seq(Cond)
ASSUME LoadsAreBoolean == LoadsIndex \subseteq BOOLEAN
ASSUME FdLimitIsNat    == FdLimit \in Nat

VARIABLES
    tblDisk, tblMode, erid, reply, appended,     \* the table file
    idxDisk, idxMode, rootPid, treeHeight, pc,   \* the index file
    ins, path, splitkey, splitpid, newPid,
    cursor, scanKey, scanned, acked, tried, crashes,
    stmt,      \* what the running statement does next, or how it returned
    files,     \* which of the files "tbl" and "idx" exist
    value,     \* the value variable of a LOAD
    query,     \* the conditions of a SELECT
    rid,       \* the RecordId variable of a SELECT
    answer,    \* the rows a SELECT printed
    leaked,    \* descriptors of objects that went away open
    skipped    \* the keys of rows that no insert put into the index

tableVars  == <<tblDisk, tblMode, erid, reply, appended>>
indexVars  == <<idxDisk, idxMode, rootPid, treeHeight, pc, ins, path, splitkey,
                splitpid, newPid, cursor, scanKey, scanned, acked, tried, crashes>>
selectVars == <<query, rid, answer>>
vars       == <<tableVars, indexVars, stmt, files, value, selectVars, leaked,
                skipped>>

Table == INSTANCE RecordFile WITH
    disk <- tblDisk, mode <- tblMode, Value <- Text, SEEK_LIMIT <- MaxPages

RowRid == [pid : 0 .. MaxPages - 1, sid : 0 .. RECORDS_PER_PAGE - 1]
NoRow  == [pid |-> -1, sid |-> -1]
Index  == INSTANCE BTreeIndex WITH
    disk <- idxDisk, mode <- idxMode, Rid <- RowRid, NoRid <- NoRow,
    Probes <- Key

\* A RecordId on the stack before anything is stored in it.
Unset == [pid |-> -2, sid |-> -2]

Init ==
    /\ Table!Init
    /\ Index!Init
    /\ stmt = "none"
    /\ files = {}
    /\ value = EmptyText
    /\ query = <<>> /\ rid = Unset /\ answer = <<>>
    /\ leaked = 0
    /\ skipped = {}

FreeFds == FdLimit - leaked - (IF tblMode = "none" THEN 0 ELSE 1)
                            - (IF idxMode = "none" THEN 0 ELSE 1)

TableKeys == {row.record.key : row \in Table!Rows}

(***************************************************************************)
(* LOAD                                                                    *)
(***************************************************************************)

\* One descriptor is for the load file, which stays open until load returns.
FreeInLoad == FreeFds - 1

LoadOpensTable(withIndex) ==
    /\ stmt = "none"
    /\ FreeInLoad > 0
    /\ Table!Open("w")
    /\ files' = files \cup {"tbl"}
    /\ stmt' = IF withIndex THEN "loadIndex" ELSE "load"
    /\ UNCHANGED <<indexVars, selectVars, value, leaked, skipped>>

\* The last page of the table cannot be read.
LoadFindsNoTable ==
    /\ stmt = "none"
    /\ FreeInLoad > 0
    /\ Table!OpenFails
    /\ UNCHANGED <<indexVars, stmt, files, selectVars, value, leaked, skipped>>

LoadOpensIndex ==
    /\ stmt = "loadIndex"
    /\ FreeInLoad > 0
    /\ Index!Open("w")
    /\ files' = files \cup {"idx"}
    /\ stmt' = "load"
    /\ UNCHANGED <<tableVars, selectVars, value, leaked, skipped>>

\* No descriptor is left for the index; load does not look at the result.
LoadIgnoresOpen ==
    /\ stmt = "loadIndex"
    /\ FreeInLoad = 0
    /\ stmt' = "load"
    /\ UNCHANGED <<tableVars, indexVars, files, selectVars, value, leaked, skipped>>

\* parseLoadLine: a line without a comma is an error that load does not look
\* at, and leaves value as the line before it set it.
Parsed(line) ==
    [line EXCEPT !.value = IF @ = NoComma THEN value ELSE @]

\* getline, parseLoadLine and append; keys are unique in a table.  Without an
\* open index the insert that follows is not made, or writes to descriptor -1
\* and returns 0.
LoadLine(line) ==
    /\ stmt = "load"
    /\ line.key \notin TableKeys
    /\ value' = Parsed(line).value
    /\ Table!AppendRecord(Parsed(line))
    /\ IF idxMode = "w"
         THEN stmt' = "index" /\ UNCHANGED skipped
         ELSE stmt' = "load" /\ skipped' = skipped \cup {line.key}
    /\ UNCHANGED <<indexVars, files, selectVars, leaked>>

\* load returns; its objects are not closed, and they have no destructor.
LoadFails ==
    /\ stmt = "load"
    /\ Table!AppendFails
    /\ stmt' = "loadFailed"
    /\ UNCHANGED <<indexVars, files, selectVars, value, leaked, skipped>>

LoadReturnsError ==
    /\ stmt = "loadFailed"
    /\ Table!Close
    /\ Index!Forget
    /\ leaked' = leaked + IF idxMode = "w" THEN 2 ELSE 1
    /\ stmt' = "failed"
    /\ value' = EmptyText
    /\ UNCHANGED <<idxDisk, acked, tried, crashes, files, selectVars, skipped>>

AppendedEntry    == [key |-> reply.row.record.key, rid |-> reply.row.rid]
AppendedEntryEnd == [key |-> reply.row.record.key, rid |-> erid]

\* The rid is the one that append handed out.
LoadInsertsAtEnd ==
    /\ stmt = "index"
    /\ Index!Insert(AppendedEntryEnd) \/ Index!FirstInsert(AppendedEntryEnd)
    /\ stmt' = "insert"
    /\ UNCHANGED <<tableVars, files, selectVars, value, leaked, skipped>>

LoadInserts ==
    /\ stmt = "index"
    /\ Index!Insert(AppendedEntry) \/ Index!FirstInsert(AppendedEntry)
    /\ stmt' = "insert"
    /\ UNCHANGED <<tableVars, files, selectVars, value, leaked, skipped>>

LoadContinuesInsert ==
    /\ stmt = "insert"
    /\ Index!InsertStep
    /\ idxMode' = "w"
    /\ stmt' = IF pc' = "idle" THEN "load" ELSE "insert"
    /\ UNCHANGED <<tableVars, files, selectVars, value, leaked, skipped>>

EndLoad ==
    /\ stmt = "load"
    /\ Table!Close
    /\ Index!Forget
    /\ stmt' = "loaded"
    /\ value' = EmptyText
    /\ UNCHANGED <<idxDisk, acked, tried, crashes, files, selectVars, leaked,
                   skipped>>

(***************************************************************************)
(* SELECT by the index                                                     *)
(***************************************************************************)

\* preprocess_selcond over the conditions of the query, one after the other.
\* The intValue of a condition on the value is read only by Tighten, which
\* is not reached for the queries here.
Merged ==
    LET JunkInt == CHOOSE junk \in Junk : TRUE
        merged[n \in 0 .. Len(query)] ==
            IF n = 0 THEN <<>> ELSE Merge(merged[n - 1], query[n], JunkInt)
    IN  merged[Len(query)]

SelectOpensIndex(q) ==
    /\ stmt = "none"
    /\ "idx" \in files
    /\ FreeFds > 0
    /\ Index!Open("r")
    /\ query' = q
    /\ stmt' = "openTable"
    /\ UNCHANGED <<tableVars, files, rid, answer, value, leaked, skipped>>

PrintTuplesOpens ==
    /\ stmt = "openTable"
    /\ FreeFds > 0
    /\ Table!Open("r")
    /\ stmt' = "locate"
    /\ UNCHANGED <<indexVars, files, selectVars, value, leaked, skipped>>

\* An error message, and an error that select_from_index does not look at: it
\* closes the index and returns 0.
PrintTuplesFindsNoTable ==
    /\ stmt = "openTable"
    /\ \/ Table!OpenFails
       \/ FreeFds = 0 /\ UNCHANGED tableVars
    /\ Index!Close
    /\ stmt' = "unopened"
    /\ UNCHANGED <<files, selectVars, value, leaked, skipped>>

PrintTuplesLocates ==
    /\ stmt = "locate"
    /\ Index!Locate(StartKey(Merged))
    /\ stmt' = "fetch"
    /\ UNCHANGED <<tableVars, files, selectVars, value, leaked, skipped>>

\* The index has no entries where the descent ends.  print_tuples prints a
\* message and leaves its RecordFile open; select_from_index returns 0.
NoEntryLocated ==
    \/ treeHeight = 0
    \/ /\ treeHeight > 0
       /\ Index!LeafAt(Index!FindLeaf(StartKey(Merged))).entries = <<>>
PrintTuplesLocatesNone ==
    /\ stmt = "locate"
    /\ NoEntryLocated
    /\ Table!Close
    /\ Index!Close
    /\ leaked' = leaked + 1
    /\ stmt' = "selected"
    /\ UNCHANGED <<files, value, selectVars, skipped>>

\* readEntry: 0xff past the entries is no row; past the slots rid stays as it
\* is, and what it is at first is anything.
FetchedRids(leaf) ==
    IF cursor.eid < Len(leaf.entries)
      THEN {leaf.entries[cursor.eid + 1].rid}
    ELSE IF cursor.eid < MAX_LEAF_KEY_COUNT THEN {NoRow}
    ELSE IF rid = Unset THEN RowRid \cup {NoRow}
    ELSE {rid}

Judge(record) ==
    LET verdict == Verdict(Merged, record)
    IN  /\ answer' = IF verdict = "print" THEN Append(answer, record) ELSE answer
        /\ stmt' = IF verdict = "stop" THEN "endPrint" ELSE "fetch"

\* The loop condition of print_tuples: readForward, then the read of the row;
\* any error of the read ends the loop like the end of the index.
FetchTuple ==
    /\ stmt = "fetch"
    /\ LET leaf == Index!LeafAt(cursor.pid)
       IN  /\ cursor' = Index!NextCursor(leaf)
           /\ \E fetched \in FetchedRids(leaf) :
                /\ rid' = fetched
                /\ \/ Table!Read(fetched) /\ Judge(reply'.row.record)
                   \/ /\ Table!ReadInvalid(fetched) \/ Table!ReadFails(fetched)
                      /\ stmt' = "endPrint"
                      /\ UNCHANGED answer
    /\ UNCHANGED <<idxDisk, idxMode, rootPid, treeHeight, pc, ins, path, splitkey,
                   splitpid, newPid, scanKey, scanned, acked, tried, crashes,
                   files, query, value, leaked, skipped>>

\* print_tuples does not close the table; select_from_index closes the index.
PrintTuplesEnds ==
    /\ stmt = "endPrint"
    /\ Table!Close
    /\ Index!Forget
    /\ leaked' = leaked + 1
    /\ stmt' = "selected"
    /\ UNCHANGED <<idxDisk, acked, tried, crashes, files, value, selectVars, skipped>>

(***************************************************************************)
(* SELECT by the table                                                     *)
(***************************************************************************)

SelectOpensTable(q) ==
    /\ stmt = "none"
    /\ "tbl" \in files /\ "idx" \notin files
    /\ FreeFds > 0
    /\ Table!Open("r")
    /\ query' = q
    /\ rid' = Table!Rid(0, 0)
    /\ stmt' = "scan"
    /\ UNCHANGED <<indexVars, files, answer, value, leaked, skipped>>

ScanTupleSkips ==
    /\ stmt = "scan"
    /\ Table!Before(rid, erid)
    /\ Table!Read(rid)
    /\ IF TableAnswers(query, reply'.row.record)
         THEN /\ answer' = Append(answer, reply'.row.record)
              /\ rid' = Table!Successor(Table!Successor(rid))
         ELSE answer' = answer /\ rid' = Table!Successor(rid)
    /\ UNCHANGED <<indexVars, stmt, files, query, value, leaked, skipped>>

\* A tuple that does not match is skipped before ++rid.
ScanTupleStays ==
    /\ stmt = "scan"
    /\ Table!Before(rid, erid)
    /\ Table!Read(rid)
    /\ IF TableAnswers(query, reply'.row.record)
         THEN /\ answer' = Append(answer, reply'.row.record)
              /\ rid' = Table!Successor(rid)
         ELSE UNCHANGED <<answer, rid>>
    /\ UNCHANGED <<indexVars, stmt, files, query, value, leaked, skipped>>

ScanTuple ==
    /\ stmt = "scan"
    /\ Table!Before(rid, erid)
    /\ Table!Read(rid)
    /\ answer' = IF TableAnswers(query, reply'.row.record)
                   THEN Append(answer, reply'.row.record) ELSE answer
    /\ rid' = Table!Successor(rid)
    /\ UNCHANGED <<indexVars, stmt, files, query, value, leaked, skipped>>

ScanFails ==
    /\ stmt = "scan"
    /\ Table!Before(rid, erid)
    /\ Table!ReadFails(rid)
    /\ stmt' = "scanFailed"
    /\ UNCHANGED <<indexVars, files, selectVars, value, leaked, skipped>>

EndScan ==
    /\ \/ stmt = "scan" /\ ~ Table!Before(rid, erid) /\ stmt' = "selected"
       \/ stmt = "scanFailed" /\ stmt' = "failed"
    /\ Table!Close
    /\ UNCHANGED <<indexVars, files, selectVars, value, leaked, skipped>>

(***************************************************************************)
(* The end of a statement and of the process                               *)
(***************************************************************************)

Prompt ==
    /\ stmt \in {"loaded", "selected", "unopened", "failed"}
    /\ stmt' = "none"
    /\ query' = <<>> /\ rid' = Unset /\ answer' = <<>>
    /\ UNCHANGED <<tableVars, indexVars, files, value, leaked, skipped>>

KeysOf(entries) == {e.key : e \in entries}

\* The entry of a row that is in the table and on its way into the index.
Pending == (IF stmt = "index" THEN {AppendedEntry}
            ELSE IF stmt = "insert" THEN {ins}
            ELSE {}) \ Index!Stored

\* What is left after the process: the files.
Gone ==
    /\ tblMode' = "none"
    /\ erid' = Table!Rid(0, 0)
    /\ Index!Forget
    /\ stmt' = "none"
    /\ value' = EmptyText
    /\ query' = <<>> /\ rid' = Unset /\ answer' = <<>>
    /\ leaked' = 0
    /\ skipped' = skipped \cup KeysOf(Pending)
    /\ UNCHANGED <<tblDisk, reply, appended, idxDisk, acked, tried, files>>

\* A new process has its descriptors back.
Quit ==
    /\ stmt = "none"
    /\ leaked > 0
    /\ Gone
    /\ UNCHANGED crashes

Crash ==
    /\ stmt # "none"
    /\ crashes < MaxCrashes
    /\ crashes' = crashes + 1
    /\ Gone

\* A height of -1, read from a metadata page that a crash left as 0xff: the
\* recursion ends the process.
StackOverflows ==
    /\ \/ stmt = "locate" /\ Index!OverflowInLocate(StartKey(Merged))
       \/ stmt = "insert" /\ Index!OverflowInInsert
    /\ Gone
    /\ UNCHANGED crashes

EngineStep ==
    \/ LoadOpensIndex \/ LoadIgnoresOpen
    \/ \E line \in Lines : LoadLine(line)
    \/ LoadFails \/ LoadReturnsError
    \/ LoadInserts \/ LoadContinuesInsert \/ EndLoad
    \/ PrintTuplesOpens \/ PrintTuplesFindsNoTable
    \/ PrintTuplesLocates \/ PrintTuplesLocatesNone
    \/ FetchTuple \/ PrintTuplesEnds
    \/ ScanTuple \/ ScanFails \/ EndScan
    \/ StackOverflows
    \/ Prompt

Next ==
    \/ \E withIndex \in LoadsIndex : LoadOpensTable(withIndex)
    \/ LoadFindsNoTable
    \/ \E q \in Queries : SelectOpensIndex(q) \/ SelectOpensTable(q)
    \/ EngineStep
    \/ Quit
    \/ Crash

Spec == Init /\ [][Next]_vars

\* The engine reads its statement's lines and rows without waiting for
\* anybody; nobody has to type another statement.
FairSpec == Spec /\ WF_vars(EngineStep)

(***************************************************************************)
(* Properties                                                              *)
(***************************************************************************)

TypeOK ==
    /\ Table!TypeOK
    /\ Index!TypeOK
    /\ stmt \in {"none", "load", "loadIndex", "loadFailed", "index", "insert",
                 "openTable", "locate", "fetch", "endPrint", "scan", "scanFailed",
                 "loaded", "selected", "unopened", "failed"}
    /\ files \subseteq {"tbl", "idx"}
    /\ value \in Text
    /\ query \in Queries \cup {<<>>}
    /\ rid \in [pid : Int, sid : Int]
    /\ answer \in Seq([key : Key, value : Text])
    /\ leaked \in 0 .. FdLimit
    /\ skipped \subseteq Key

\* Every entry on the leaf chain holds the rid of a row with its key, at every
\* moment of a LOAD and whatever a crash left half done: print_tuples tests
\* the row that it reads at the rid and not the key of the entry.
IndexPointsAtRows ==
    \A e \in Index!Stored :
        /\ Table!Stored(e.rid)
        /\ Table!RecordAt(e.rid).key = e.key

\* A row of the table is in the index, or on its way there, or one of those
\* that no insert put there: loaded without WITH INDEX, loaded while the
\* index could not be opened, or cut off by a crash.  A key is in one of these
\* sets only.  Reads and writes of an open index succeed; those of the table
\* need not.
EachRowAccounted ==
    LET indexed == KeysOf(Index!Stored)
        pending == KeysOf(Pending)
    IN  /\ TableKeys = indexed \cup pending \cup skipped
        /\ indexed \cap skipped = {}
        /\ pending \cap skipped = {}

Matching == {record \in {row.record : row \in Table!Rows} :
                \A i \in DOMAIN query :
                    LET cond == query[i]
                    IN  Meets(cond.comp,
                              IF cond.attr = 1
                                THEN record.key - Atoi[cond.value]
                                ELSE record.value - cond.value)}

\* Whatever happened before, crashes, errors of the table and rows without an
\* entry included, a SELECT prints only rows of the table that satisfy its
\* conditions.
AnswersMatch == ToSet(answer) \subseteq Matching

\* Each matching row is printed once.
Exact == /\ ToSet(answer) = Matching
         /\ Len(answer) = Cardinality(Matching)

\* What a SELECT by the index relies on: every row is in the index, no crash
\* cut off a split, and the key it starts from is in the table or below all of
\* its keys.
StartsOnRow == \/ StartKey(Merged) \in TableKeys
               \/ \A key \in TableKeys : StartKey(Merged) < key
Indexed == "idx" \in files => skipped = {} /\ crashes = 0 /\ StartsOnRow

\* A SELECT that has opened its table and returned 0 has printed each matching
\* row once; print_tuples finds no entry to start from only if there is no row.
\* One by the index that cannot open its table also returns 0, and is
\* "unopened" here.
SelectExact == (stmt = "selected" /\ Indexed) => Exact

\* Every statement comes to its end and the prompt returns.
StatementsEnd == (stmt # "none") ~> (stmt = "none")

=============================================================================
