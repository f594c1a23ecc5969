------------------------------ MODULE RecordFile ------------------------------
(***************************************************************************)
(* The table file (bruinbase/RecordFile.cc): records in the slots of pages, *)
(* with their number at the start of each page.  The end rid is kept in the *)
(* object only, and rebuilt from the last page when the file is opened.     *)
(*                                                                         *)
(* The pages are those of a PageFile, with what PageFile is proved to       *)
(* promise: the end pid is the number of pages, and a page reads as it was  *)
(* last written.  After an error of the kernel the callers (SqlEngine.cc)   *)
(* make no further call on the object, so a page that PageFile caches       *)
(* wrongly after a failed read is never read.                               *)
(***************************************************************************)
EXTENDS Integers, Sequences

CONSTANTS
    Key, Value,         \* the columns of a row
    Truncated,          \* the first MAX_VALUE_LENGTH - 1 characters of a value
    NoRecord,           \* a slot of zero bytes
    RECORDS_PER_PAGE,
    SEEK_LIMIT,         \* the pids whose offset an int can hold
    MaxPages,           \* bound: pages of the file
    IOErrors            \* whether the kernel may fail a read or a write

Record == [key : Key, value : Value]

ASSUME NoRecordIsNone    == NoRecord \notin Record
ASSUME TruncatedIsValue  == Truncated \in [Value -> Value]
ASSUME SlotsAssumption   == RECORDS_PER_PAGE \in Nat \ {0}
ASSUME SeekLimitIsNat    == SEEK_LIMIT \in Nat
ASSUME MaxPagesIsNat     == MaxPages \in Nat
ASSUME IOErrorsIsBoolean == IOErrors \in BOOLEAN

VARIABLES
    disk,      \* the pages of the table file: pid p is disk[p + 1]
    mode,      \* how the file is open: "none", "r" or "w"; "failed" after
               \* an error of the kernel
    erid,      \* the object's end rid
    reply,     \* the last call, its return code, and the row it is about
    appended   \* the rows whose append returned 0

vars == <<disk, mode, erid, reply, appended>>

(***************************************************************************)
(* Record ids and pages                                                    *)
(***************************************************************************)

Rid(pid, sid) == [pid |-> pid, sid |-> sid]
AnyRid == [pid : -1 .. MaxPages, sid : -1 .. RECORDS_PER_PAGE]

Before(r1, r2) ==
    \/ r1.pid < r2.pid
    \/ r1.pid = r2.pid /\ r1.sid < r2.sid

Successor(rid) == IF rid.sid + 1 >= RECORDS_PER_PAGE
                    THEN Rid(rid.pid + 1, 0)
                    ELSE Rid(rid.pid, rid.sid + 1)

Sid      == 0 .. RECORDS_PER_PAGE - 1
ZeroPage == [count |-> 0, slots |-> [sid \in Sid |-> NoRecord]]
EndPid   == Len(disk)

\* What writeSlot leaves for readSlot.
InSlot(record) == [record EXCEPT !.value = Truncated[@]]

Row(rid, record) == [rid |-> rid, record |-> record]
Failed(op, rc)   == [op |-> op, rc |-> rc]
Done(op, row)    == [op |-> op, rc |-> 0, row |-> row]

RC_FILE_READ_FAILED  == -1004
RC_FILE_WRITE_FAILED == -1005
RC_INVALID_PID       == -1007
RC_INVALID_RID       == -1008

(***************************************************************************)
(* Opening and closing                                                     *)
(***************************************************************************)

Init ==
    /\ disk = <<>>
    /\ mode = "none"
    /\ erid = Rid(0, 0)
    /\ reply = Failed("none", -1)
    /\ appended = {}

EndRidOnFullPage ==
    IF EndPid = 0 THEN Rid(0, 0) ELSE Rid(EndPid - 1, disk[EndPid].count)

EndRidPastLastPage == Rid(EndPid, 0)

\* A last page that is full puts the end rid on the page after it.
EndRid ==
    IF EndPid = 0 THEN Rid(0, 0)
    ELSE IF disk[EndPid].count >= RECORDS_PER_PAGE
      THEN Rid(EndPid, 0)
      ELSE Rid(EndPid - 1, disk[EndPid].count)

\* An open that finds no file (mode 'r') changes nothing and is no step.
Open(m) ==
    /\ mode = "none"
    /\ mode' = m
    /\ erid' = EndRid
    /\ UNCHANGED <<disk, reply, appended>>

\* The last page cannot be read: open closes the file again.
OpenFails ==
    /\ IOErrors
    /\ mode = "none"
    /\ EndPid > 0
    /\ reply' = Failed("open", RC_FILE_READ_FAILED)
    /\ UNCHANGED <<disk, mode, erid, appended>>

\* The object that a caller leaves open and the one of a killed process are
\* gone in the same way.
Close ==
    /\ mode # "none"
    /\ mode' = "none"
    /\ erid' = Rid(0, 0)
    /\ UNCHANGED <<disk, reply, appended>>

(***************************************************************************)
(* append                                                                  *)
(***************************************************************************)

\* The page of the end rid must be read, unless its first slot is to be
\* filled.
MayAppend ==
    /\ mode = "w"
    /\ erid.pid < MaxPages
    /\ erid.sid > 0 => erid.pid < EndPid

PageToFillUnread == ZeroPage
PageToFill == IF erid.sid > 0 THEN disk[erid.pid + 1] ELSE ZeroPage

FilledBeforeCount(record) ==
    [count |-> erid.sid,
     slots |-> [PageToFill.slots EXCEPT ![erid.sid] = InSlot(record)]]

Filled(record) ==
    [count |-> erid.sid + 1,
     slots |-> [PageToFill.slots EXCEPT ![erid.sid] = InSlot(record)]]

WritePage(pid, page) ==
    disk' = IF pid < EndPid THEN [disk EXCEPT ![pid + 1] = page]
                            ELSE Append(disk, page)

\* The row is at the end rid, which moves on.
AcknowledgeAdvanced(record) ==
    /\ erid' = Successor(erid)
    /\ appended' = appended \cup {Row(erid', InSlot(record))}
    /\ reply' = Done("append", Row(erid', InSlot(record)))
    /\ UNCHANGED mode

Acknowledge(record) ==
    /\ erid' = Successor(erid)
    /\ appended' = appended \cup {Row(erid, InSlot(record))}
    /\ reply' = Done("append", Row(erid, InSlot(record)))
    /\ UNCHANGED mode

AppendRecord(record) ==
    /\ MayAppend
    /\ erid.pid < SEEK_LIMIT
    /\ WritePage(erid.pid, Filled(record))
    /\ Acknowledge(record)

\* The seek fails and PageFile::write returns 1, which is no error to append.
AppendPastSeekLimit(record) ==
    /\ MayAppend
    /\ erid.pid >= SEEK_LIMIT
    /\ Acknowledge(record)
    /\ UNCHANGED disk

\* The page of the end rid was never written.
AppendInvalidPid ==
    /\ mode = "w"
    /\ erid.sid > 0
    /\ erid.pid >= EndPid
    /\ reply' = Failed("append", RC_INVALID_PID)
    /\ UNCHANGED <<disk, mode, erid, appended>>

AppendFails ==
    /\ IOErrors
    /\ MayAppend
    /\ mode' = "failed"
    /\ \E rc \in {RC_FILE_READ_FAILED, RC_FILE_WRITE_FAILED} :
         /\ rc = RC_FILE_READ_FAILED => erid.sid > 0
         /\ reply' = Failed("append", rc)
    /\ UNCHANGED <<disk, erid, appended>>

\* The process is killed after the write and before append returns.
AppendCutOff(record) ==
    /\ MayAppend
    /\ erid.pid < SEEK_LIMIT
    /\ WritePage(erid.pid, Filled(record))
    /\ mode' = "none"
    /\ erid' = Rid(0, 0)
    /\ UNCHANGED <<reply, appended>>

(***************************************************************************)
(* read                                                                    *)
(***************************************************************************)

InRangeUpToEnd(rid) ==
    /\ rid.pid \in 0 .. erid.pid
    /\ rid.sid \in Sid
    /\ ~ Before(erid, rid)

InRange(rid) ==
    /\ rid.pid \in 0 .. erid.pid
    /\ rid.sid \in Sid
    /\ Before(rid, erid)

Read(rid) ==
    /\ mode \in {"r", "w"}
    /\ InRange(rid)
    /\ rid.pid < EndPid
    /\ reply' = Done("read", Row(rid, disk[rid.pid + 1].slots[rid.sid]))
    /\ UNCHANGED <<disk, mode, erid, appended>>

ReadInvalid(rid) ==
    /\ mode \in {"r", "w"}
    /\ ~ (InRange(rid) /\ rid.pid < EndPid)
    /\ reply' = Failed("read", IF InRange(rid) THEN RC_INVALID_PID
                                               ELSE RC_INVALID_RID)
    /\ UNCHANGED <<disk, mode, erid, appended>>

ReadFails(rid) ==
    /\ IOErrors
    /\ mode \in {"r", "w"}
    /\ InRange(rid)
    /\ rid.pid < EndPid
    /\ mode' = "failed"
    /\ reply' = Failed("read", RC_FILE_READ_FAILED)
    /\ UNCHANGED <<disk, erid, appended>>

Next ==
    \/ \E m \in {"r", "w"} : Open(m)
    \/ OpenFails
    \/ Close
    \/ \E record \in Record :
         \/ AppendRecord(record)
         \/ AppendPastSeekLimit(record)
         \/ AppendCutOff(record)
    \/ AppendInvalidPid
    \/ AppendFails
    \/ \E rid \in AnyRid : Read(rid) \/ ReadInvalid(rid) \/ ReadFails(rid)

Spec == Init /\ [][Next]_vars

(***************************************************************************)
(* Properties                                                              *)
(***************************************************************************)

Slot  == Record \cup {NoRecord}
Page  == [count : 0 .. RECORDS_PER_PAGE, slots : [Sid -> Slot]]
ARow  == [rid : [pid : Nat, sid : Sid], record : Slot]
Reply == [op : {"none", "open", "append", "read"}, rc : Int \ {0}]
           \cup [op : {"append", "read"}, rc : {0}, row : ARow]

TypeOK ==
    /\ disk \in Seq(Page)
    /\ mode \in {"none", "r", "w", "failed"}
    /\ erid \in [pid : Nat, sid : Sid]
    /\ reply \in Reply
    /\ appended \subseteq ARow

\* The record at a rid, and whether there is one.
Stored(rid)   == rid.pid < EndPid /\ rid.sid < disk[rid.pid + 1].count
RecordAt(rid) == disk[rid.pid + 1].slots[rid.sid]

\* PageFile can seek to the page.
Reachable(rid) == rid.pid < SEEK_LIMIT

\* Every record whose append returned 0 is in the file at the rid it
\* returned, through any reopening, error and crash (RecordFile.h:88 "the
\* location of the stored record").  Past the seek limit this fails.
AppendedReadable ==
    \A row \in appended :
        Reachable(row.rid) => Stored(row.rid) /\ RecordAt(row.rid) = row.record

\* A table scan from rid (0, 0) to the end rid meets a record at each rid: the
\* end rid that open rebuilds from the last page is neither short of a row
\* nor past one.
ScanReadsRows ==
    mode \in {"r", "w"} =>
        \A pid \in 0 .. MaxPages - 1, sid \in Sid :
            LET rid == Rid(pid, sid)
            IN  Reachable(rid) =>
                    /\ Before(rid, erid) <=> Stored(rid)
                    /\ Stored(rid) => RecordAt(rid) # NoRecord

Rows == {Row(rid, RecordAt(rid)) : rid \in
             {r \in [pid : 0 .. EndPid - 1, sid : Sid] : Stored(r)}}

\* No step takes a row away or changes one, not even an append that fails or
\* one whose page cannot be written.
RowsStay == [][Rows \subseteq Rows']_vars

\* A read that returns 0 returns a row that append was given: no slot past
\* the end rid is ever taken for a row.
ReadsReturnRows ==
    (reply.op = "read" /\ reply.rc = 0) => reply.row \in Rows

\* The last call for a reader who knows that an append past the seek limit
\* has failed, whatever it returned.
HonestReply ==
    IF reply.op = "append" /\ reply.rc = 0 /\ ~ Reachable(reply.row.rid)
      THEN Failed("append", 1)
      ELSE reply

\* The pages of the file implement the set of rows, up to the seek limit.
Abstract == INSTANCE RecordStore WITH rows <- Rows, reply <- HonestReply
ImplementsRecordStore == Abstract!Spec

=============================================================================
