--------------------------- MODULE RecordFileProofs ---------------------------
(***************************************************************************)
(* Theorems about RecordFile, for any keys and values, any cut of values,   *)
(* page size, seek limit and bound on the pages, with and without errors    *)
(* of the kernel.                                                           *)
(*                                                                         *)
(* All of them follow from one inductive invariant, FileInv: the pages      *)
(* before the last one are full and the last one is not empty, the end rid  *)
(* of an open object is the one that open would rebuild from them (or the   *)
(* file has reached the seek limit and the end rid has gone past it), and   *)
(* what calls have returned is in the file.                                 *)
(***************************************************************************)
EXTENDS RecordFile, SequenceTheorems, TLAPS

(***************************************************************************)
(* The invariant                                                           *)
(***************************************************************************)

\* Every page but the last is full, the last has a record, and the slots
\* below the count of a page hold records.
PagesFilled ==
    /\ EndPid <= SEEK_LIMIT
    /\ EndPid <= MaxPages
    /\ \A p \in 1 .. EndPid :
         /\ disk[p].count > 0
         /\ p < EndPid => disk[p].count = RECORDS_PER_PAGE
         /\ \A sid \in Sid : sid < disk[p].count => disk[p].slots[sid] \in Record

\* The end rid that the object carries is the one of the file, unless appends
\* were acknowledged that could not be written.
AtEnd == erid = EndRid
PastLimit == EndRid = Rid(SEEK_LIMIT, 0) /\ erid.pid >= SEEK_LIMIT
EndKnown == mode # "none" => AtEnd \/ PastLimit

\* What append and read have told their callers.
RepliesTrue ==
    /\ AppendedReadable
    /\ ReadsReturnRows

FileInv == TypeOK /\ PagesFilled /\ EndKnown /\ RepliesTrue

(***************************************************************************)
(* Record ids                                                              *)
(***************************************************************************)

\* The assumptions on the page size, in the form that most steps use.
LEMMA SlotZero == 0 \in Sid /\ RECORDS_PER_PAGE \in Nat /\ RECORDS_PER_PAGE > 0
BY SlotsAssumption DEF Sid

\* The rid after a rid is a rid.
LEMMA SuccessorIsRid ==
    ASSUME NEW rid \in [pid : Nat, sid : Sid]
    PROVE  Successor(rid) \in [pid : Nat, sid : Sid]
BY SlotsAssumption DEF Successor, Rid, Sid

\* Nothing lies between a rid and the one after it.
LEMMA BeforeSuccessor ==
    ASSUME NEW rid \in [pid : Nat, sid : Sid], NEW other \in [pid : Nat, sid : Sid]
    PROVE  Before(other, Successor(rid)) <=> Before(other, rid) \/ other = rid
<1>1. other = rid <=> other.pid = rid.pid /\ other.sid = rid.sid
    OBVIOUS
<1> QED
    BY <1>1, SlotsAssumption DEF Before, Successor, Rid, Sid

\* A record as it comes back from its slot is a record.
LEMMA InSlotIsRecord ==
    ASSUME NEW record \in Record
    PROVE  InSlot(record) \in Record /\ InSlot(record) # NoRecord
BY TruncatedIsValue, NoRecordIsNone DEF InSlot, Record

(***************************************************************************)
(* The end of the file                                                     *)
(***************************************************************************)

\* The end rid that open rebuilds is a rid.
LEMMA EndRidIsRid ==
    ASSUME TypeOK
    PROVE  EndRid \in [pid : Nat, sid : Sid]
<1>1. EndPid \in Nat
    BY DEF TypeOK, EndPid
<1>2. CASE EndPid = 0
    BY <1>2, SlotZero DEF EndRid, Rid
<1>3. CASE EndPid # 0
  <2>1. disk[EndPid] \in Page
    BY <1>1, <1>3 DEF TypeOK, EndPid
  <2>2. disk[EndPid].count \in 0 .. RECORDS_PER_PAGE
    BY <2>1 DEF Page
  <2> QED
    BY <1>1, <1>3, <2>2, SlotZero DEF EndRid, Rid, Sid
<1> QED
    BY <1>2, <1>3

\* Where it is: on a page not yet in the file when all pages are full, or at
\* the first free slot of the last page.
LEMMA EndRidCases ==
    ASSUME TypeOK, PagesFilled
    PROVE  \/ /\ EndRid = Rid(EndPid, 0)
              /\ \A p \in 1 .. EndPid : disk[p].count = RECORDS_PER_PAGE
           \/ /\ EndPid > 0
              /\ EndRid = Rid(EndPid - 1, disk[EndPid].count)
              /\ disk[EndPid].count \in 1 .. RECORDS_PER_PAGE - 1
              /\ \A p \in 1 .. EndPid - 1 : disk[p].count = RECORDS_PER_PAGE
<1>1. EndPid \in Nat
    BY DEF TypeOK, EndPid
<1>2. \A p \in 1 .. EndPid : disk[p].count \in 1 .. RECORDS_PER_PAGE
  <2> SUFFICES ASSUME NEW p \in 1 .. EndPid
               PROVE  disk[p].count \in 1 .. RECORDS_PER_PAGE
      OBVIOUS
  <2>1. disk[p] \in Page
    BY DEF TypeOK, EndPid
  <2> QED
    BY <2>1, SlotZero DEF Page, PagesFilled
<1>3. \A p \in 1 .. EndPid - 1 : disk[p].count = RECORDS_PER_PAGE
    BY <1>1 DEF PagesFilled
<1>4. CASE EndPid = 0
    BY <1>4 DEF EndRid
<1>5. CASE EndPid > 0 /\ disk[EndPid].count >= RECORDS_PER_PAGE
    BY <1>1, <1>2, <1>3, <1>5, SlotZero DEF EndRid
<1>6. CASE EndPid > 0 /\ ~ (disk[EndPid].count >= RECORDS_PER_PAGE)
  <2>1. disk[EndPid].count \in 1 .. RECORDS_PER_PAGE
    BY <1>1, <1>2, <1>6
  <2> QED
    BY <1>3, <1>6, <2>1, SlotZero DEF EndRid
<1> QED
    BY <1>1, <1>4, <1>5, <1>6

\* The rids before it are those that hold a record: a scan that ends there
\* misses no record and meets no empty slot.
LEMMA BeforeEndRid ==
    ASSUME TypeOK, PagesFilled, NEW rid \in [pid : Nat, sid : Sid]
    PROVE  Before(rid, EndRid) <=> Stored(rid)
<1>1. EndPid \in Nat
    BY DEF TypeOK, EndPid
<1>2. rid.pid \in Nat /\ rid.sid \in Nat /\ rid.sid < RECORDS_PER_PAGE
    BY SlotZero DEF Sid
<1>3. CASE /\ EndRid = Rid(EndPid, 0)
           /\ \A p \in 1 .. EndPid : disk[p].count = RECORDS_PER_PAGE
  <2>1. rid.pid < EndPid => disk[rid.pid + 1].count = RECORDS_PER_PAGE
    BY <1>1, <1>2, <1>3
  <2> QED
    BY <1>1, <1>2, <1>3, <2>1 DEF Before, Rid, Stored
<1>4. CASE /\ EndPid > 0
           /\ EndRid = Rid(EndPid - 1, disk[EndPid].count)
           /\ disk[EndPid].count \in 1 .. RECORDS_PER_PAGE - 1
           /\ \A p \in 1 .. EndPid - 1 : disk[p].count = RECORDS_PER_PAGE
  <2>1. rid.pid < EndPid - 1 => disk[rid.pid + 1].count = RECORDS_PER_PAGE
    BY <1>1, <1>2, <1>4
  <2>2. rid.pid = EndPid - 1 => rid.pid + 1 = EndPid
    BY <1>1, <1>2
  <2> QED
    BY <1>1, <1>2, <1>4, <2>1, <2>2 DEF Before, Rid, Stored
<1> QED
    BY <1>3, <1>4, EndRidCases

\* A record below the end rid is in the file, and every page's slot is one
\* the type admits.
LEMMA StoredIsRecord ==
    ASSUME TypeOK, PagesFilled, NEW rid \in [pid : Nat, sid : Sid], Stored(rid)
    PROVE  RecordAt(rid) \in Record
<1>1. rid.pid + 1 \in 1 .. EndPid
    BY DEF TypeOK, EndPid, Stored
<1> QED
    BY <1>1 DEF PagesFilled, Stored, RecordAt

\* The rows of the file are its stored records, each at its rid.
LEMMA RowsAreStored ==
    ASSUME TypeOK, NEW rid \in [pid : Nat, sid : Sid], NEW record
    PROVE  Row(rid, record) \in Rows <=> Stored(rid) /\ RecordAt(rid) = record
<1>1. EndPid \in Nat
    BY DEF TypeOK, EndPid
<1>2. ASSUME Stored(rid), RecordAt(rid) = record
      PROVE  Row(rid, record) \in Rows
  <2>1. rid \in [pid : 0 .. EndPid - 1, sid : Sid]
    BY <1>1, <1>2 DEF Stored
  <2> QED
    BY <1>2, <2>1 DEF Rows
<1>3. ASSUME Row(rid, record) \in Rows
      PROVE  Stored(rid) /\ RecordAt(rid) = record
  <2>1. PICK r \in [pid : 0 .. EndPid - 1, sid : Sid] :
            Stored(r) /\ Row(rid, record) = Row(r, RecordAt(r))
    BY <1>3 DEF Rows
  <2>2. rid = r /\ record = RecordAt(r)
    BY <2>1 DEF Row
  <2> QED
    BY <2>1, <2>2
<1> QED
    BY <1>2, <1>3

(***************************************************************************)
(* Writing a record at the end rid                                         *)
(***************************************************************************)

\* The page that append writes is a page.
LEMMA FilledIsPage ==
    ASSUME TypeOK, MayAppend, NEW record \in Record
    PROVE  /\ Filled(record) \in Page
           /\ Filled(record).count = erid.sid + 1
           /\ Filled(record).slots[erid.sid] = InSlot(record)
           /\ \A sid \in Sid : sid < erid.sid =>
                 Filled(record).slots[sid] = disk[erid.pid + 1].slots[sid]
<1>1. erid.pid \in Nat /\ erid.sid \in Sid /\ erid.sid \in Nat
    BY SlotZero DEF TypeOK, Sid
<1>2. InSlot(record) \in Slot
    BY InSlotIsRecord DEF Slot
<1>3. PageToFill.slots \in [Sid -> Slot]
  <2>1. CASE erid.sid > 0
    <3>1. erid.pid + 1 \in 1 .. Len(disk)
      BY <1>1, <2>1 DEF MayAppend, EndPid, TypeOK
    <3>2. disk[erid.pid + 1] \in Page
      BY <3>1 DEF TypeOK
    <3> QED
      BY <2>1, <3>2 DEF PageToFill, Page
  <2>2. CASE ~ (erid.sid > 0)
    BY <2>2 DEF PageToFill, ZeroPage, Slot
  <2> QED
    BY <2>1, <2>2
<1>4. erid.sid + 1 \in 0 .. RECORDS_PER_PAGE
    BY <1>1, SlotZero DEF Sid
<1>5. [PageToFill.slots EXCEPT ![erid.sid] = InSlot(record)] \in [Sid -> Slot]
    BY <1>1, <1>2, <1>3
<1>6. ASSUME NEW sid \in Sid, sid < erid.sid
      PROVE  Filled(record).slots[sid] = disk[erid.pid + 1].slots[sid]
  <2>1. erid.sid > 0 /\ sid # erid.sid
    BY <1>1, <1>6 DEF Sid
  <2> QED
    BY <1>3, <2>1 DEF Filled, PageToFill
<1> QED
    BY <1>1, <1>3, <1>4, <1>5, <1>6 DEF Filled, Page

\* The write fills the file by one record, at the end rid, which moves to its
\* successor; no other record is touched.
LEMMA WriteAtEnd ==
    ASSUME TypeOK, PagesFilled, AtEnd, MayAppend, erid.pid < SEEK_LIMIT,
           NEW record \in Record, WritePage(erid.pid, Filled(record))
    PROVE  /\ disk' \in Seq(Page)
           /\ PagesFilled'
           /\ EndRid' = Successor(erid)
           /\ \A rid \in [pid : Nat, sid : Sid] :
                 /\ Stored(rid)' <=> Stored(rid) \/ rid = erid
                 /\ Stored(rid) => RecordAt(rid)' = RecordAt(rid)
                 /\ rid = erid => RecordAt(rid)' = InSlot(record)
<1> DEFINE page == Filled(record)
<1>1. /\ EndPid \in Nat /\ EndPid <= SEEK_LIMIT /\ EndPid <= MaxPages
      /\ erid.pid \in Nat /\ erid.sid \in Sid /\ erid.sid \in Nat
      /\ erid \in [pid : Nat, sid : Sid]
      /\ SEEK_LIMIT \in Nat /\ MaxPages \in Nat
    BY SlotZero, SeekLimitIsNat, MaxPagesIsNat DEF TypeOK, EndPid, PagesFilled, Sid
<1>2. /\ page \in Page
      /\ page.count = erid.sid + 1
      /\ page.slots[erid.sid] = InSlot(record)
      /\ \A sid \in Sid : sid < erid.sid =>
            page.slots[sid] = disk[erid.pid + 1].slots[sid]
    BY FilledIsPage
<1> HIDE DEF page
<1>3. InSlot(record) \in Record
    BY InSlotIsRecord
<1>4. CASE /\ EndRid = Rid(EndPid, 0)
           /\ \A p \in 1 .. EndPid : disk[p].count = RECORDS_PER_PAGE
  <2>1. erid = Rid(EndPid, 0) /\ erid.pid = EndPid /\ erid.sid = 0
    BY <1>4 DEF AtEnd, Rid
  <2>2. disk' = Append(disk, page)
    BY <1>1, <2>1 DEF WritePage, page
  <2>3. /\ disk' \in Seq(Page) /\ EndPid' = EndPid + 1
        /\ \A p \in 1 .. EndPid : disk'[p] = disk[p]
        /\ disk'[EndPid + 1] = page
    BY <1>1, <1>2, <2>2 DEF TypeOK, EndPid
  <2>4. page.count = 1 /\ page.slots[0] \in Record
    BY <1>2, <1>3, <2>1
  <2>5. PagesFilled'
    <3>1. EndPid' <= SEEK_LIMIT /\ EndPid' <= MaxPages
      BY <1>1, <2>1, <2>3 DEF MayAppend
    <3>2. ASSUME NEW p \in 1 .. EndPid + 1
          PROVE  /\ disk'[p].count > 0
                 /\ p < EndPid + 1 => disk'[p].count = RECORDS_PER_PAGE
                 /\ \A sid \in Sid : sid < disk'[p].count => disk'[p].slots[sid] \in Record
      <4>1. CASE p \in 1 .. EndPid
        BY <1>4, <2>3, <4>1, SlotZero DEF PagesFilled
      <4>2. CASE p = EndPid + 1
        BY <1>1, <2>3, <2>4, <4>2, SlotZero DEF Sid
      <4> QED
        BY <1>1, <4>1, <4>2
    <3> QED
      BY <2>3, <3>1, <3>2 DEF PagesFilled
  <2>6. EndRid' = Successor(erid)
    <3>1. disk'[EndPid'].count = 1 /\ EndPid' = EndPid + 1
      BY <2>3, <2>4
    <3> QED
      BY <1>1, <2>1, <3>1, SlotZero DEF EndRid, Successor, Rid
  <2>7. ASSUME NEW rid \in [pid : Nat, sid : Sid]
        PROVE  /\ Stored(rid)' <=> Stored(rid) \/ rid = erid
               /\ Stored(rid) => RecordAt(rid)' = RecordAt(rid)
    <3>1. rid.pid \in Nat /\ rid.sid \in Nat
      BY SlotZero DEF Sid
    <3>2. CASE rid.pid < EndPid
      <4>1. rid.pid + 1 \in 1 .. EndPid /\ rid # erid
        BY <1>1, <2>1, <3>1, <3>2
      <4>2. disk'[rid.pid + 1] = disk[rid.pid + 1]
        BY <2>3, <4>1
      <4> QED
        BY <1>1, <2>3, <3>1, <3>2, <4>1, <4>2 DEF Stored, RecordAt
    <3>3. CASE rid.pid = EndPid
      <4>1. ~ Stored(rid)
        BY <1>1, <3>3 DEF Stored
      <4>2. Stored(rid)' <=> rid.sid < 1
        BY <1>1, <2>3, <2>4, <3>3 DEF Stored
      <4>3. rid = erid <=> rid.sid = 0
        BY <1>1, <2>1, <3>3
      <4> QED
        BY <3>1, <4>1, <4>2, <4>3
    <3>4. CASE rid.pid > EndPid
      BY <1>1, <2>1, <2>3, <3>1, <3>4 DEF Stored
    <3> QED
      BY <1>1, <3>1, <3>2, <3>3, <3>4
  <2>8. disk'[erid.pid + 1].slots[erid.sid] = InSlot(record)
    BY <1>1, <1>2, <2>1, <2>3
  <2>9. ASSUME NEW rid \in [pid : Nat, sid : Sid], rid = erid
        PROVE  RecordAt(rid)' = InSlot(record)
    BY <2>8, <2>9 DEF RecordAt
  <2> QED
    BY <2>3, <2>5, <2>6, <2>7, <2>9
<1>5. CASE /\ EndPid > 0
           /\ EndRid = Rid(EndPid - 1, disk[EndPid].count)
           /\ disk[EndPid].count \in 1 .. RECORDS_PER_PAGE - 1
           /\ \A p \in 1 .. EndPid - 1 : disk[p].count = RECORDS_PER_PAGE
  <2>1. /\ erid.pid = EndPid - 1 /\ erid.sid = disk[EndPid].count
        /\ erid.pid + 1 = EndPid /\ EndPid \in 1 .. EndPid
        /\ erid.sid \in 1 .. RECORDS_PER_PAGE - 1
    BY <1>1, <1>5 DEF AtEnd, Rid
  <2>2. disk' = [disk EXCEPT ![EndPid] = page]
    BY <1>1, <2>1 DEF WritePage, page
  <2>3. /\ disk' \in Seq(Page) /\ EndPid' = EndPid
        /\ \A p \in 1 .. EndPid - 1 : disk'[p] = disk[p]
        /\ disk'[EndPid] = page
    <3>1. disk \in Seq(Page) /\ EndPid = Len(disk) /\ EndPid' = Len(disk')
      BY DEF TypeOK, EndPid
    <3>2. EndPid \in 1 .. Len(disk)
      BY <2>1, <3>1
    <3> QED
      BY <1>1, <1>2, <2>2, <3>1, <3>2, ExceptSeq
  <2>4. ASSUME NEW sid \in Sid, sid < erid.sid
        PROVE  page.slots[sid] = disk[EndPid].slots[sid]
    BY <1>2, <2>1, <2>4
  <2>5. PagesFilled'
    <3>1. ASSUME NEW p \in 1 .. EndPid
          PROVE  /\ disk'[p].count > 0
                 /\ p < EndPid => disk'[p].count = RECORDS_PER_PAGE
                 /\ \A sid \in Sid : sid < disk'[p].count => disk'[p].slots[sid] \in Record
      <4>1. CASE p \in 1 .. EndPid - 1
        BY <1>1, <1>5, <2>3, <4>1, SlotZero DEF PagesFilled
      <4>2. CASE p = EndPid
        <5>1. disk'[p].count = erid.sid + 1
          BY <1>2, <2>3, <4>2
        <5>2. ASSUME NEW sid \in Sid, sid < erid.sid + 1
              PROVE  page.slots[sid] \in Record
          <6>1. CASE sid < erid.sid
            BY <2>1, <2>4, <6>1 DEF PagesFilled
          <6>2. CASE sid = erid.sid
            BY <1>2, <1>3, <6>2
          <6> QED
            BY <1>1, <5>2, <6>1, <6>2, SlotZero DEF Sid
        <5> QED
          BY <1>1, <2>3, <4>2, <5>1, <5>2
      <4> QED
        BY <1>1, <4>1, <4>2
    <3> QED
      BY <1>1, <2>3, <3>1 DEF PagesFilled
  <2>6. EndRid' = Successor(erid)
    <3>1. disk'[EndPid'].count = erid.sid + 1 /\ EndPid' = EndPid
      BY <1>2, <2>3
    <3> QED
      BY <1>1, <1>5, <2>1, <3>1, SlotZero DEF EndRid, Successor, Rid
  <2>7. ASSUME NEW rid \in [pid : Nat, sid : Sid]
        PROVE  /\ Stored(rid)' <=> Stored(rid) \/ rid = erid
               /\ Stored(rid) => RecordAt(rid)' = RecordAt(rid)
    <3>1. rid.pid \in Nat /\ rid.sid \in Nat
      BY SlotZero DEF Sid
    <3>2. CASE rid.pid < EndPid - 1
      <4>1. rid.pid + 1 \in 1 .. EndPid - 1 /\ rid # erid
        BY <1>1, <2>1, <3>1, <3>2
      <4>2. disk'[rid.pid + 1] = disk[rid.pid + 1]
        BY <2>3, <4>1
      <4> QED
        BY <1>1, <2>3, <3>1, <3>2, <4>1, <4>2 DEF Stored, RecordAt
    <3>3. CASE rid.pid = EndPid - 1
      <4>1. rid.pid + 1 = EndPid /\ rid.pid < EndPid
        BY <1>1, <3>3
      <4>2. Stored(rid)' <=> rid.sid < erid.sid + 1
        BY <1>2, <2>3, <4>1 DEF Stored
      <4>3. Stored(rid) <=> rid.sid < erid.sid
        BY <2>1, <4>1 DEF Stored
      <4>4. rid = erid <=> rid.sid = erid.sid
        BY <1>1, <2>1, <3>3
      <4>5. rid.sid < erid.sid => RecordAt(rid)' = RecordAt(rid)
        BY <2>3, <2>4, <4>1 DEF RecordAt
      <4> QED
        BY <1>1, <3>1, <4>2, <4>3, <4>4, <4>5
    <3>4. CASE rid.pid > EndPid - 1
      <4>1. ~ (rid.pid < EndPid) /\ rid # erid
        BY <1>1, <2>1, <3>1, <3>4
      <4> QED
        BY <2>3, <4>1 DEF Stored
    <3> QED
      BY <1>1, <3>1, <3>2, <3>3, <3>4
  <2>8. disk'[erid.pid + 1].slots[erid.sid] = InSlot(record)
    BY <1>1, <1>2, <2>1, <2>3
  <2>9. ASSUME NEW rid \in [pid : Nat, sid : Sid], rid = erid
        PROVE  RecordAt(rid)' = InSlot(record)
    BY <2>8, <2>9 DEF RecordAt
  <2> QED
    BY <2>3, <2>5, <2>6, <2>7, <2>9
<1> QED
    BY <1>4, <1>5, EndRidCases

\* The rows of the file after the write are those before it and the new one.
LEMMA WriteAddsRow ==
    ASSUME TypeOK, PagesFilled, AtEnd, MayAppend, erid.pid < SEEK_LIMIT,
           NEW record \in Record, WritePage(erid.pid, Filled(record))
    PROVE  Rows' = Rows \cup {Row(erid, InSlot(record))}
<1>1. /\ disk' \in Seq(Page) /\ EndPid' \in Nat
      /\ \A rid \in [pid : Nat, sid : Sid] :
            /\ Stored(rid)' <=> Stored(rid) \/ rid = erid
            /\ Stored(rid) => RecordAt(rid)' = RecordAt(rid)
            /\ rid = erid => RecordAt(rid)' = InSlot(record)
    BY WriteAtEnd DEF EndPid
<1>2. EndPid \in Nat /\ erid \in [pid : Nat, sid : Sid]
    BY DEF TypeOK, EndPid
<1>3. ASSUME NEW row \in Rows'
      PROVE  row \in Rows \cup {Row(erid, InSlot(record))}
  <2>1. PICK r \in [pid : 0 .. EndPid' - 1, sid : Sid] :
            Stored(r)' /\ row = Row(r, RecordAt(r)')
    BY <1>3 DEF Rows, Row
  <2>2. r \in [pid : Nat, sid : Sid]
    BY <1>1, <2>1
  <2>3. CASE Stored(r)
    BY <1>1, <2>1, <2>2, <2>3, RowsAreStored
  <2>4. CASE r = erid
    BY <1>1, <2>1, <2>2, <2>4
  <2> QED
    BY <1>1, <2>1, <2>2, <2>3, <2>4
<1>4. ASSUME NEW r \in [pid : Nat, sid : Sid], Stored(r)'
      PROVE  Row(r, RecordAt(r)') \in Rows'
  <2>1. r \in [pid : 0 .. EndPid' - 1, sid : Sid]
    BY <1>1, <1>4 DEF Stored
  <2> QED
    BY <1>4, <2>1 DEF Rows, Row
<1>5. ASSUME NEW row \in Rows
      PROVE  row \in Rows'
  <2>1. PICK r \in [pid : 0 .. EndPid - 1, sid : Sid] :
            Stored(r) /\ row = Row(r, RecordAt(r))
    BY <1>5 DEF Rows
  <2>2. r \in [pid : Nat, sid : Sid]
    BY <1>2, <2>1
  <2> QED
    BY <1>1, <1>4, <2>1, <2>2
<1>6. Row(erid, InSlot(record)) \in Rows'
  <2>1. PICK r \in [pid : Nat, sid : Sid] : r = erid
    BY <1>2
  <2>2. Stored(r)' /\ RecordAt(r)' = InSlot(record)
    BY <1>1, <2>1
  <2> QED
    BY <1>4, <2>1, <2>2
<1> QED
    BY <1>3, <1>5, <1>6

\* The object can only write where it is at the end of the file.
LEMMA WritesAtEnd ==
    ASSUME FileInv, MayAppend, erid.pid < SEEK_LIMIT
    PROVE  AtEnd
<1>1. erid.pid \in Nat /\ SEEK_LIMIT \in Nat /\ mode # "none"
    BY SeekLimitIsNat DEF FileInv, TypeOK, MayAppend
<1> QED
    BY <1>1 DEF FileInv, EndKnown, PastLimit

\* A step that leaves the pages alone leaves the end rid, the rows and the
\* filling of the pages alone.
LEMMA SameDisk ==
    ASSUME UNCHANGED disk
    PROVE  /\ EndRid' = EndRid
           /\ Rows' = Rows
           /\ PagesFilled' <=> PagesFilled
           /\ UNCHANGED appended => (AppendedReadable' <=> AppendedReadable)
BY DEF EndRid, EndPid, Rows, Stored, RecordAt, PagesFilled, AppendedReadable

\* What a record in a slot makes of a reply: a row of the type.
LEMMA AcknowledgedRow ==
    ASSUME TypeOK, NEW record \in Record
    PROVE  /\ Row(erid, InSlot(record)) \in ARow
           /\ Done("append", Row(erid, InSlot(record))) \in Reply
<1>1. InSlot(record) \in Slot
    BY InSlotIsRecord DEF Slot
<1> QED
    BY <1>1 DEF TypeOK, ARow, Row, Done, Reply

\* A call that fails replies with an error code.
LEMMA FailedIsReply ==
    ASSUME NEW op \in {"open", "append", "read"},
           NEW rc \in {RC_FILE_READ_FAILED, RC_FILE_WRITE_FAILED, RC_INVALID_PID, RC_INVALID_RID}
    PROVE  Failed(op, rc) \in Reply /\ Failed(op, rc).rc # 0 /\ Failed(op, rc).rc \in Int
BY DEF Failed, Reply, RC_FILE_READ_FAILED, RC_FILE_WRITE_FAILED, RC_INVALID_PID, RC_INVALID_RID

(***************************************************************************)
(* The invariant is inductive                                              *)
(***************************************************************************)

LEMMA InitInv == Init => FileInv
<1> SUFFICES ASSUME Init PROVE FileInv
    OBVIOUS
<1>1. TypeOK
    BY SlotZero DEF Init, TypeOK, Rid, Failed, Reply
<1>2. PagesFilled
    BY SeekLimitIsNat, MaxPagesIsNat DEF Init, PagesFilled, EndPid
<1>3. EndKnown /\ RepliesTrue
    BY DEF Init, EndKnown, RepliesTrue, AppendedReadable, ReadsReturnRows, Failed
<1> QED
    BY <1>1, <1>2, <1>3 DEF FileInv

\* A step that leaves the pages and the acknowledged rows alone, and replies
\* with an error or not at all, has only the end rid to account for.
LEMMA QuietStep ==
    ASSUME FileInv, UNCHANGED <<disk, appended>>,
           mode' \in {"none", "r", "w", "failed"},
           erid' \in [pid : Nat, sid : Sid],
           reply' = reply \/ (reply' \in Reply /\ reply'.rc # 0),
           EndKnown'
    PROVE  FileInv'
<1>1. TypeOK'
    BY DEF FileInv, TypeOK
<1>2. PagesFilled' /\ AppendedReadable' /\ Rows' = Rows
    BY SameDisk DEF FileInv, RepliesTrue
<1>3. ReadsReturnRows'
    BY <1>2 DEF FileInv, RepliesTrue, ReadsReturnRows
<1> QED
    BY <1>1, <1>2, <1>3 DEF FileInv, RepliesTrue

\* The end rid stays known when neither it nor the file changes.
LEMMA EndStaysKnown ==
    ASSUME FileInv, UNCHANGED <<disk, erid>>, mode' # "none" => mode # "none"
    PROVE  EndKnown'
<1>1. EndRid' = EndRid
    BY SameDisk
<1> QED
    BY <1>1 DEF FileInv, EndKnown, AtEnd, PastLimit, Rid

LEMMA OpenInv ==
    ASSUME FileInv, NEW m \in {"r", "w"}, Open(m)
    PROVE  FileInv'
<1>1. EndRid' = EndRid /\ EndRid \in [pid : Nat, sid : Sid]
    BY SameDisk, EndRidIsRid DEF Open, FileInv
<1>2. EndKnown'
    BY <1>1 DEF Open, EndKnown, AtEnd
<1>3. /\ UNCHANGED <<disk, appended>> /\ reply' = reply
      /\ mode' \in {"none", "r", "w", "failed"}
      /\ erid' \in [pid : Nat, sid : Sid]
    BY <1>1 DEF Open
<1> QED
    BY <1>2, <1>3, QuietStep

LEMMA CloseInv ==
    ASSUME FileInv, Close
    PROVE  FileInv'
<1>1. EndKnown' /\ erid' \in [pid : Nat, sid : Sid]
    BY SlotZero DEF Close, EndKnown, Rid
<1>2. /\ UNCHANGED <<disk, appended>> /\ reply' = reply
      /\ mode' \in {"none", "r", "w", "failed"}
    BY DEF Close
<1> QED
    BY <1>1, <1>2, QuietStep

\* The calls that return an error.
LEMMA FailedCallInv ==
    ASSUME FileInv,
           \/ OpenFails \/ AppendInvalidPid \/ AppendFails
           \/ \E rid \in AnyRid : ReadInvalid(rid) \/ ReadFails(rid)
    PROVE  FileInv'
<1>1. /\ UNCHANGED <<disk, erid, appended>>
      /\ mode' \in {"none", "r", "w", "failed"}
      /\ mode' # "none" => mode # "none"
    BY DEF FileInv, TypeOK, OpenFails, AppendInvalidPid, AppendFails, MayAppend, ReadInvalid, ReadFails
<1>2. \E op \in {"open", "append", "read"},
         rc \in {RC_FILE_READ_FAILED, RC_FILE_WRITE_FAILED, RC_INVALID_PID, RC_INVALID_RID} :
            reply' = Failed(op, rc)
    BY DEF OpenFails, AppendInvalidPid, AppendFails, ReadInvalid, ReadFails
<1>3. reply' \in Reply /\ reply'.rc # 0
    BY <1>2, FailedIsReply
<1>4. EndKnown'
    BY <1>1, EndStaysKnown
<1>5. erid' \in [pid : Nat, sid : Sid]
    BY <1>1 DEF FileInv, TypeOK
<1> QED
    BY <1>1, <1>3, <1>4, <1>5, QuietStep

\* A read that succeeds returns a row of the file.
LEMMA ReadReturnsRow ==
    ASSUME FileInv, NEW rid \in AnyRid, Read(rid)
    PROVE  /\ rid \in [pid : Nat, sid : Sid]
           /\ Stored(rid) /\ RecordAt(rid) \in Record
           /\ Row(rid, RecordAt(rid)) \in Rows
           /\ reply' = Done("read", Row(rid, RecordAt(rid)))
<1>1. /\ EndPid \in Nat /\ SEEK_LIMIT \in Nat /\ EndPid <= SEEK_LIMIT
      /\ erid \in [pid : Nat, sid : Sid] /\ erid.pid \in Nat
    BY SeekLimitIsNat DEF FileInv, TypeOK, EndPid, PagesFilled
<1>2. /\ rid.pid \in 0 .. erid.pid /\ rid.sid \in Sid /\ Before(rid, erid)
      /\ rid.pid < EndPid
    BY DEF Read, InRange
<1>3. rid \in [pid : Nat, sid : Sid]
    BY <1>1, <1>2 DEF AnyRid
<1>4. Before(rid, EndRid)
  <2>1. CASE AtEnd
    BY <1>2, <2>1 DEF AtEnd
  <2>2. CASE PastLimit
    BY <1>1, <1>2, <1>3, <2>2 DEF PastLimit, Before, Rid
  <2> QED
    BY <2>1, <2>2 DEF FileInv, EndKnown, Read
<1>5. Stored(rid)
    BY <1>3, <1>4, BeforeEndRid DEF FileInv
<1>6. RecordAt(rid) \in Record /\ Row(rid, RecordAt(rid)) \in Rows
    BY <1>3, <1>5, StoredIsRecord, RowsAreStored DEF FileInv
<1> QED
    BY <1>3, <1>5, <1>6 DEF Read, RecordAt

LEMMA ReadInv ==
    ASSUME FileInv, NEW rid \in AnyRid, Read(rid)
    PROVE  FileInv'
<1>1. /\ rid \in [pid : Nat, sid : Sid] /\ RecordAt(rid) \in Record
      /\ Row(rid, RecordAt(rid)) \in Rows
      /\ reply' = Done("read", Row(rid, RecordAt(rid)))
    BY ReadReturnsRow
<1>2. /\ PagesFilled' /\ AppendedReadable' /\ Rows' = Rows
    BY SameDisk DEF Read, FileInv, RepliesTrue
<1>3. TypeOK'
  <2>1. reply' \in Reply
    BY <1>1 DEF Done, Row, Reply, ARow, Slot
  <2> QED
    BY <2>1 DEF FileInv, TypeOK, Read
<1>4. EndKnown'
    BY EndStaysKnown DEF Read
<1>5. ReadsReturnRows'
    BY <1>1, <1>2 DEF ReadsReturnRows, Done
<1> QED
    BY <1>2, <1>3, <1>4, <1>5 DEF FileInv, RepliesTrue

\* What the write does to the records that were acknowledged before it.
LEMMA WriteKeepsAppended ==
    ASSUME FileInv, MayAppend, erid.pid < SEEK_LIMIT, NEW record \in Record,
           WritePage(erid.pid, Filled(record)), NEW row \in ARow,
           row \in appended \/ row = Row(erid, InSlot(record))
    PROVE  Reachable(row.rid) => Stored(row.rid)' /\ RecordAt(row.rid)' = row.record
<1>1. row.rid \in [pid : Nat, sid : Sid]
    BY DEF ARow
<1>2. \A rid \in [pid : Nat, sid : Sid] :
          /\ Stored(rid)' <=> Stored(rid) \/ rid = erid
          /\ Stored(rid) => RecordAt(rid)' = RecordAt(rid)
          /\ rid = erid => RecordAt(rid)' = InSlot(record)
    BY WriteAtEnd, WritesAtEnd DEF FileInv
<1>3. CASE row \in appended
    BY <1>1, <1>2, <1>3 DEF FileInv, RepliesTrue, AppendedReadable
<1>4. CASE row = Row(erid, InSlot(record))
    BY <1>1, <1>2, <1>4 DEF Row
<1> QED
    BY <1>3, <1>4

LEMMA AppendRecordInv ==
    ASSUME FileInv, NEW record \in Record, AppendRecord(record)
    PROVE  FileInv'
<1>1. /\ MayAppend /\ erid.pid < SEEK_LIMIT /\ WritePage(erid.pid, Filled(record))
      /\ Acknowledge(record)
    BY DEF AppendRecord
<1>2. disk' \in Seq(Page) /\ PagesFilled' /\ EndRid' = Successor(erid)
    BY <1>1, WriteAtEnd, WritesAtEnd DEF FileInv
<1>3. TypeOK'
    BY <1>1, <1>2, AcknowledgedRow, SuccessorIsRid DEF FileInv, TypeOK, Acknowledge
<1>4. EndKnown'
    BY <1>1, <1>2 DEF Acknowledge, EndKnown, AtEnd
<1>5. AppendedReadable'
  <2>1. ASSUME NEW row \in appended'
        PROVE  Reachable(row.rid) => Stored(row.rid)' /\ RecordAt(row.rid)' = row.record
    <3>1. row \in ARow
      BY <1>3, <2>1 DEF TypeOK
    <3> QED
      BY <1>1, <2>1, <3>1, WriteKeepsAppended DEF Acknowledge
  <2> QED
    BY <2>1 DEF AppendedReadable, Reachable
<1>6. ReadsReturnRows'
    BY <1>1 DEF Acknowledge, Done, ReadsReturnRows
<1> QED
    BY <1>2, <1>3, <1>4, <1>5, <1>6 DEF FileInv, RepliesTrue

LEMMA AppendCutOffInv ==
    ASSUME FileInv, NEW record \in Record, AppendCutOff(record)
    PROVE  FileInv'
<1>1. /\ MayAppend /\ erid.pid < SEEK_LIMIT /\ WritePage(erid.pid, Filled(record))
      /\ mode' = "none" /\ erid' = Rid(0, 0) /\ UNCHANGED <<reply, appended>>
    BY DEF AppendCutOff
<1>2. disk' \in Seq(Page) /\ PagesFilled'
    BY <1>1, WriteAtEnd, WritesAtEnd DEF FileInv
<1>3. TypeOK'
    BY <1>1, <1>2, SlotZero DEF FileInv, TypeOK, Rid
<1>4. EndKnown'
    BY <1>1 DEF EndKnown
<1>5. AppendedReadable'
  <2>1. ASSUME NEW row \in appended
        PROVE  Reachable(row.rid) => Stored(row.rid)' /\ RecordAt(row.rid)' = row.record
    BY <1>1, <2>1, WriteKeepsAppended DEF FileInv, TypeOK
  <2> QED
    BY <1>1, <2>1 DEF AppendedReadable, Reachable
<1>6. ReadsReturnRows'
  <2>1. Rows \subseteq Rows'
    BY <1>1, WriteAddsRow, WritesAtEnd DEF FileInv
  <2> QED
    BY <1>1, <2>1 DEF FileInv, RepliesTrue, ReadsReturnRows
<1> QED
    BY <1>2, <1>3, <1>4, <1>5, <1>6 DEF FileInv, RepliesTrue

\* Past the seek limit the end rid moves on alone, and the row that is
\* acknowledged is one that AppendedReadable says nothing of.
LEMMA AppendPastSeekLimitInv ==
    ASSUME FileInv, NEW record \in Record, AppendPastSeekLimit(record)
    PROVE  FileInv'
<1>1. /\ mode = "w" /\ UNCHANGED <<disk, mode>> /\ erid.pid >= SEEK_LIMIT
      /\ erid' = Successor(erid)
      /\ appended' = appended \cup {Row(erid, InSlot(record))}
      /\ reply' = Done("append", Row(erid, InSlot(record)))
    BY DEF AppendPastSeekLimit, MayAppend, Acknowledge
<1>2. /\ EndPid \in Nat /\ EndPid <= SEEK_LIMIT /\ SEEK_LIMIT \in Nat
      /\ erid \in [pid : Nat, sid : Sid] /\ erid.pid \in Nat
    BY SeekLimitIsNat DEF FileInv, TypeOK, PagesFilled, EndPid
<1>3. EndRid' = EndRid /\ Rows' = Rows /\ PagesFilled'
    BY <1>1, SameDisk DEF FileInv
<1>4. TypeOK'
    BY <1>1, AcknowledgedRow, SuccessorIsRid DEF FileInv, TypeOK
<1>5. EndRid = Rid(SEEK_LIMIT, 0)
  <2>1. CASE AtEnd
    <3>1. \/ EndRid = Rid(EndPid, 0)
          \/ EndPid > 0 /\ EndRid = Rid(EndPid - 1, disk[EndPid].count)
      BY EndRidCases DEF FileInv
    <3> QED
      BY <1>1, <1>2, <2>1, <3>1 DEF AtEnd, Rid
  <2>2. CASE PastLimit
    BY <2>2 DEF PastLimit
  <2> QED
    BY <1>1, <2>1, <2>2 DEF FileInv, EndKnown
<1>6. Successor(erid).pid >= SEEK_LIMIT
    BY <1>1, <1>2 DEF Successor, Rid
<1>7. EndKnown'
    BY <1>1, <1>3, <1>5, <1>6 DEF EndKnown, PastLimit, Rid
<1>8. AppendedReadable'
  <2>1. ~ Reachable(Row(erid, InSlot(record)).rid)
    BY <1>1, <1>2 DEF Reachable, Row
  <2> QED
    BY <1>1, <2>1 DEF FileInv, RepliesTrue, AppendedReadable, Stored, RecordAt, EndPid, Reachable
<1>9. ReadsReturnRows'
    BY <1>1 DEF Done, ReadsReturnRows
<1> QED
    BY <1>3, <1>4, <1>7, <1>8, <1>9 DEF FileInv, RepliesTrue

LEMMA StepInv == FileInv /\ [Next]_vars => FileInv'
<1> SUFFICES ASSUME FileInv, [Next]_vars PROVE FileInv'
    OBVIOUS
<1>1. CASE \E m \in {"r", "w"} : Open(m)
    BY <1>1, OpenInv
<1>2. CASE OpenFails \/ AppendInvalidPid \/ AppendFails
    BY <1>2, FailedCallInv
<1>3. CASE Close
    BY <1>3, CloseInv
<1>4. CASE \E record \in Record : AppendRecord(record)
    BY <1>4, AppendRecordInv
<1>5. CASE \E record \in Record : AppendPastSeekLimit(record)
    BY <1>5, AppendPastSeekLimitInv
<1>6. CASE \E record \in Record : AppendCutOff(record)
    BY <1>6, AppendCutOffInv
<1>7. CASE \E rid \in AnyRid : Read(rid)
    BY <1>7, ReadInv
<1>8. CASE \E rid \in AnyRid : ReadInvalid(rid) \/ ReadFails(rid)
    BY <1>8, FailedCallInv
<1>9. CASE UNCHANGED vars
  <2>1. UNCHANGED <<disk, mode, erid, reply, appended>>
    BY <1>9 DEF vars
  <2>2. EndKnown'
    BY <2>1, EndStaysKnown
  <2>3. /\ mode' \in {"none", "r", "w", "failed"}
        /\ erid' \in [pid : Nat, sid : Sid]
    BY <2>1 DEF FileInv, TypeOK
  <2> QED
    BY <2>1, <2>2, <2>3, QuietStep
<1> QED
    BY <1>1, <1>2, <1>3, <1>4, <1>5, <1>6, <1>7, <1>8, <1>9 DEF Next

(***************************************************************************)
(* Theorems                                                                *)
(***************************************************************************)

THEOREM RecordFileInvariant == Spec => []FileInv
<1>1. Init => FileInv
    BY InitInv
<1>2. FileInv /\ [Next]_vars => FileInv'
    BY StepInv
<1> QED
    BY <1>1, <1>2, PTL DEF Spec

\* Every variable keeps its type: the end rid is the rid of a slot, and the
\* pages hold records or zero bytes and a count that fits the page.
THEOREM RecordFileTypes == Spec => []TypeOK
<1>1. FileInv => TypeOK
    BY DEF FileInv
<1> QED
    BY <1>1, RecordFileInvariant, PTL

\* A record whose append returned 0 is in the file at the rid that append
\* returned, as long as the file stays under the seek limit: no reopening, no
\* error and no crash between two calls loses it or overwrites it.
THEOREM RecordFileAppendedReadable == Spec => []AppendedReadable
<1>1. FileInv => AppendedReadable
    BY DEF FileInv, RepliesTrue
<1> QED
    BY <1>1, RecordFileInvariant, PTL

\* The rids of a table scan, from rid (0, 0) to the end rid, are exactly those
\* that hold a record, also when open has rebuilt the end rid.
THEOREM RecordFileScanReadsRows == Spec => []ScanReadsRows
<1>1. FileInv => ScanReadsRows
  <2> SUFFICES ASSUME FileInv, mode \in {"r", "w"},
                      NEW pid \in 0 .. MaxPages - 1, NEW sid \in Sid,
                      Reachable(Rid(pid, sid))
               PROVE  /\ Before(Rid(pid, sid), erid) <=> Stored(Rid(pid, sid))
                      /\ Stored(Rid(pid, sid)) => RecordAt(Rid(pid, sid)) # NoRecord
      BY DEF ScanReadsRows
  <2>1. Rid(pid, sid) \in [pid : Nat, sid : Sid]
    BY MaxPagesIsNat DEF Rid
  <2>2. Before(Rid(pid, sid), EndRid) <=> Stored(Rid(pid, sid))
    BY <2>1, BeforeEndRid DEF FileInv
  <2>3. Stored(Rid(pid, sid)) => RecordAt(Rid(pid, sid)) # NoRecord
    BY <2>1, StoredIsRecord, NoRecordIsNone DEF FileInv
  <2>4. CASE AtEnd
    BY <2>2, <2>3, <2>4 DEF AtEnd
  <2>5. CASE PastLimit
    <3>1. pid < SEEK_LIMIT /\ erid.pid >= SEEK_LIMIT /\ EndRid = Rid(SEEK_LIMIT, 0)
      BY <2>5 DEF PastLimit, Reachable, Rid
    <3>2. pid \in Nat /\ erid.pid \in Nat /\ SEEK_LIMIT \in Nat
      BY SeekLimitIsNat, MaxPagesIsNat DEF FileInv, TypeOK
    <3>3. Before(Rid(pid, sid), erid) /\ Before(Rid(pid, sid), EndRid)
      BY <3>1, <3>2 DEF Before, Rid
    <3> QED
      BY <2>2, <2>3, <3>3
  <2> QED
    BY <2>4, <2>5 DEF FileInv, EndKnown
<1> QED
    BY <1>1, RecordFileInvariant, PTL

\* A read that returns 0 returns a row that an append put there.
THEOREM RecordFileReadsReturnRows == Spec => []ReadsReturnRows
<1>1. FileInv => ReadsReturnRows
    BY DEF FileInv, RepliesTrue
<1> QED
    BY <1>1, RecordFileInvariant, PTL

\* No step of any kind removes a row from the file or changes one.
THEOREM RecordFileRowsStay == Spec => RowsStay
<1>1. FileInv /\ [Next]_vars => [Rows \subseteq Rows']_vars
  <2> SUFFICES ASSUME FileInv, Next PROVE Rows \subseteq Rows'
      OBVIOUS
  <2>1. CASE UNCHANGED disk
    BY <2>1, SameDisk
  <2>2. CASE ~ UNCHANGED disk
    <3>1. PICK record \in Record : AppendRecord(record) \/ AppendCutOff(record)
      BY <2>2 DEF Next, Open, OpenFails, Close, AppendPastSeekLimit, AppendInvalidPid, AppendFails,
                  Read, ReadInvalid, ReadFails
    <3> QED
      BY <3>1, WriteAddsRow, WritesAtEnd DEF FileInv, AppendRecord, AppendCutOff
  <2> QED
    BY <2>1, <2>2
<1> QED
    BY <1>1, RecordFileInvariant, PTL DEF Spec, RowsStay

(***************************************************************************)
(* The pages implement a set of rows                                       *)
(***************************************************************************)

\* A new row lies after all rows there are.
LEMMA EndAfterAll ==
    ASSUME FileInv, AtEnd
    PROVE  Abstract!AfterAll(erid)
<1> SUFFICES ASSUME NEW row \in Rows PROVE Abstract!Before(row.rid, erid)
    BY DEF Abstract!AfterAll
<1>1. PICK r \in [pid : 0 .. EndPid - 1, sid : Sid] : Stored(r) /\ row = Row(r, RecordAt(r))
    BY DEF Rows
<1>2. r \in [pid : Nat, sid : Sid]
    BY <1>1 DEF FileInv, TypeOK, EndPid
<1>3. Before(r, erid)
    BY <1>1, <1>2, BeforeEndRid DEF FileInv, AtEnd
<1> QED
    BY <1>1, <1>3 DEF Abstract!Before, Before, Row

\* The write of a record is the abstract store of its row.
LEMMA WriteStores ==
    ASSUME FileInv, MayAppend, erid.pid < SEEK_LIMIT, NEW record \in Record,
           WritePage(erid.pid, Filled(record))
    PROVE  /\ erid \in AnyRid /\ InSlot(record) \in Record
           /\ Abstract!AfterAll(erid)
           /\ Rows' = Rows \cup {Row(erid, InSlot(record))}
<1>1. AtEnd
    BY WritesAtEnd
<1>2. erid \in AnyRid
    BY MaxPagesIsNat, SlotZero DEF FileInv, TypeOK, MayAppend, AnyRid, Sid
<1> QED
    BY <1>1, <1>2, InSlotIsRecord, EndAfterAll, WriteAddsRow DEF FileInv

\* A reply of an error is honest, and so is one about a page that can be
\* reached.
LEMMA Honest ==
    ASSUME reply.op # "append" \/ reply.rc # 0 \/ Reachable(reply.row.rid)
    PROVE  HonestReply = reply
BY DEF HonestReply

LEMMA RefineInit == Init => Abstract!Init
<1> SUFFICES ASSUME Init PROVE Abstract!Init
    OBVIOUS
<1>1. Rows = {}
    BY DEF Init, Rows, EndPid, Stored
<1>2. HonestReply = Failed("none", -1)
    BY DEF Init, HonestReply, Failed
<1> QED
    BY <1>1, <1>2 DEF Abstract!Init, Abstract!Failed, Failed

\* A failed call changes no row, and its reply is the abstract one.
LEMMA RefineFailure ==
    ASSUME FileInv, UNCHANGED disk, NEW op \in {"open", "append", "read"},
           HonestReply'.rc # 0, HonestReply' = Failed(op, HonestReply'.rc)
    PROVE  Abstract!Next
<1>1. Rows' = Rows
    BY SameDisk
<1>2. Abstract!Fail(op)
    BY <1>1 DEF Abstract!Fail, Abstract!Failed, Failed
<1> QED
    BY <1>2 DEF Abstract!Next

LEMMA RefineStep == FileInv /\ [Next]_vars => [Abstract!Next]_(Abstract!vars)
<1> SUFFICES ASSUME FileInv, Next PROVE Abstract!Next \/ UNCHANGED <<Rows, HonestReply>>
    BY DEF Abstract!vars, vars, Rows, HonestReply, EndPid, Stored, RecordAt, Reachable
<1>1. CASE (\E m \in {"r", "w"} : Open(m)) \/ Close
  <2>1. UNCHANGED <<disk, reply>>
    BY <1>1 DEF Open, Close
  <2> QED
    BY <2>1, SameDisk DEF HonestReply, Reachable
<1>2. CASE OpenFails \/ AppendInvalidPid \/ AppendFails
           \/ \E rid \in AnyRid : ReadInvalid(rid) \/ ReadFails(rid)
  <2>1. PICK op \in {"open", "append", "read"},
             rc \in {RC_FILE_READ_FAILED, RC_FILE_WRITE_FAILED, RC_INVALID_PID, RC_INVALID_RID} :
                reply' = Failed(op, rc)
    BY <1>2 DEF OpenFails, AppendInvalidPid, AppendFails, ReadInvalid, ReadFails
  <2>2. rc # 0 /\ reply'.rc = rc
    BY <2>1, FailedIsReply DEF Failed
  <2>3. HonestReply' = Failed(op, rc) /\ HonestReply'.rc = rc
    BY <2>1, <2>2 DEF HonestReply, Failed
  <2>4. UNCHANGED disk
    BY <1>2 DEF OpenFails, AppendInvalidPid, AppendFails, ReadInvalid, ReadFails
  <2> QED
    BY <2>2, <2>3, <2>4, RefineFailure
<1>3. CASE \E record \in Record : AppendPastSeekLimit(record)
  <2>1. PICK record \in Record : AppendPastSeekLimit(record)
    BY <1>3
  <2>2. /\ reply' = Done("append", Row(erid, InSlot(record)))
        /\ ~ Reachable(erid) /\ UNCHANGED disk
    BY <2>1, SeekLimitIsNat DEF AppendPastSeekLimit, Acknowledge, Reachable, FileInv, TypeOK
  <2>3. HonestReply' = Failed("append", 1) /\ HonestReply'.rc = 1
    BY <2>2 DEF HonestReply, Done, Failed, Row, Reachable
  <2> QED
    BY <2>2, <2>3, RefineFailure
<1>4. CASE \E record \in Record : AppendRecord(record)
  <2>1. PICK record \in Record : AppendRecord(record)
    BY <1>4
  <2>2. /\ MayAppend /\ erid.pid < SEEK_LIMIT /\ WritePage(erid.pid, Filled(record))
        /\ reply' = Done("append", Row(erid, InSlot(record)))
    BY <2>1 DEF AppendRecord, Acknowledge
  <2>3. HonestReply' = Done("append", Row(erid, InSlot(record)))
    BY <2>2 DEF HonestReply, Done, Row, Reachable
  <2>4. Abstract!Store([rid |-> erid, record |-> InSlot(record)])
    BY <2>2, <2>3, WriteStores DEF Abstract!Store, Abstract!Done, Done, Row
  <2> QED
    BY <2>2, <2>4, WriteStores DEF Abstract!Next
<1>5. CASE \E record \in Record : AppendCutOff(record)
  <2>1. PICK record \in Record : AppendCutOff(record)
    BY <1>5
  <2>2. /\ MayAppend /\ erid.pid < SEEK_LIMIT /\ WritePage(erid.pid, Filled(record))
        /\ UNCHANGED reply
    BY <2>1 DEF AppendCutOff
  <2>3. HonestReply' = HonestReply
    BY <2>2 DEF HonestReply, Reachable
  <2>4. Abstract!StoreAndDie([rid |-> erid, record |-> InSlot(record)])
    BY <2>2, <2>3, WriteStores DEF Abstract!StoreAndDie, Row
  <2> QED
    BY <2>2, <2>4, WriteStores DEF Abstract!Next
<1>6. CASE \E rid \in AnyRid : Read(rid)
  <2>1. PICK rid \in AnyRid : Read(rid)
    BY <1>6
  <2>2. /\ Row(rid, RecordAt(rid)) \in Rows
        /\ reply' = Done("read", Row(rid, RecordAt(rid)))
    BY <2>1, ReadReturnsRow
  <2>3. HonestReply' = Done("read", Row(rid, RecordAt(rid)))
    BY <2>2 DEF HonestReply, Done
  <2>4. Rows' = Rows
    BY <2>1, SameDisk DEF Read
  <2>5. Abstract!Read(Row(rid, RecordAt(rid)))
    BY <2>2, <2>3, <2>4 DEF Abstract!Read, Abstract!Done, Done
  <2> QED
    BY <2>2, <2>5 DEF Abstract!Next
<1> QED
    BY <1>1, <1>2, <1>3, <1>4, <1>5, <1>6 DEF Next

\* The paged file with its end rid is, for its callers, a set of rows in which
\* append puts a row after all others, read finds one, and a call that fails
\* or a crash leaves every row in place.
THEOREM RecordFileImplementsRecordStore == Spec => ImplementsRecordStore
<1>1. Init => Abstract!Init
    BY RefineInit
<1>2. FileInv /\ [Next]_vars => [Abstract!Next]_(Abstract!vars)
    BY RefineStep
<1> QED
    BY <1>1, <1>2, RecordFileInvariant, PTL DEF Spec, ImplementsRecordStore, Abstract!Spec

=============================================================================
