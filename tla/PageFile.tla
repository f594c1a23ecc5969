------------------------------- MODULE PageFile -------------------------------
(***************************************************************************)
(* PageFile objects and the read cache they share (bruinbase/PageFile.cc). *)
(*                                                                         *)
(* A PageFile object has a file descriptor and the end pid of its file.     *)
(* All objects of the process share CACHE_COUNT cache slots, keyed by       *)
(* descriptor number and pid, so what a slot means depends on what the      *)
(* kernel has behind the number: it hands out the lowest free one.          *)
(*                                                                         *)
(* The SQL engine has at most one PageFile object open on a file, and lets  *)
(* some go out of scope without a close (there is no destructor): Drop.     *)
(* Its callers read any pid, and write the pages up to and including the    *)
(* end pid.  Names that end in a variation of the name below them           *)
(* (CloseWithoutEvict, ...) are faulty forms of it, which the properties    *)
(* must tell from the code.                                                 *)
(***************************************************************************)
EXTENDS Integers, Sequences, FiniteSetsExt

CONSTANTS
    File,         \* the files of the database
    Fd,           \* the descriptor numbers the process may use, all > 0
    Block,        \* page contents
    NoBlock,      \* the content of a cache buffer before its first use
    CACHE_COUNT,  \* cache slots (10 in the code)
    SEEK_LIMIT,   \* the first pid whose byte offset overflows an int:
                  \* 2^31 / PAGE_SIZE = 2^21
    CLOCK_MAX,    \* the largest int (2^31 - 1): the clock's next tick wraps
    IOErrors      \* whether the kernel may fail a read or a write

ASSUME FdsArePositive     == Fd \subseteq Nat \ {0}
ASSUME NoBlockIsNoContent == NoBlock \notin Block
ASSUME CacheHasSlots      == CACHE_COUNT \in Nat \ {0}
ASSUME SeekLimitIsNat     == SEEK_LIMIT \in Nat
ASSUME ClockMaxIsNat      == CLOCK_MAX \in Nat \ {0}
ASSUME IOErrorsIsFlag     == IOErrors \in BOOLEAN

VARIABLES
    disk,        \* the pages of each file, as the kernel has them
    kernel,      \* what each descriptor refers to: a file and a mode
    object,      \* the PageFile object on each file: its fd and epid
    readCache,   \* the cache slots
    cacheClock,  \* the LRU clock
    reply        \* the last call: its return code and the page it returned

vars == <<disk, kernel, object, readCache, cacheClock, reply>>

RC_FILE_OPEN_FAILED  == -1001
RC_FILE_READ_FAILED  == -1004
RC_FILE_WRITE_FAILED == -1005
RC_INVALID_PID       == -1007

Slot       == 1 .. CACHE_COUNT
EmptySlot  == [fd |-> 0, pid |-> 0, lastAccessed |-> 0, buffer |-> NoBlock]
Closed     == [fd |-> -1, epid |-> 0]
Free       == [mode |-> "free"]
OpenFile(file, mode) == [mode |-> mode, file |-> file]

IsOpen(file) == object[file].fd > 0

Reply(op, rc) == [op |-> op, rc |-> rc]
PageRead(file, pid, block) ==
    [op |-> "read", rc |-> 0, file |-> file, pid |-> pid, block |-> block]

Init ==
    /\ disk = [file \in File |-> <<>>]
    /\ kernel = [fd \in Fd |-> Free]
    /\ object = [file \in File |-> Closed]
    /\ readCache = [i \in Slot |-> EmptySlot]
    /\ cacheClock = 1
    /\ reply = Reply("none", 0)

(***************************************************************************)
(* open, close, and an object that goes out of scope                       *)
(***************************************************************************)

FreeFds == {fd \in Fd : kernel[fd] = Free}

OpenAtZero(file, mode) ==
    /\ ~ IsOpen(file)
    /\ FreeFds # {}
    /\ LET fd == Min(FreeFds)
       IN  /\ kernel' = [kernel EXCEPT ![fd] = OpenFile(file, mode)]
           /\ object' = [object EXCEPT ![file] = [fd |-> fd, epid |-> 0]]
    /\ reply' = Reply("open", 0)
    /\ UNCHANGED <<disk, readCache, cacheClock>>

\* A file that does not exist is one without pages; the open of it in mode 'r'
\* fails in the kernel and changes nothing.
Open(file, mode) ==
    /\ ~ IsOpen(file)
    /\ FreeFds # {}
    /\ LET fd == Min(FreeFds)
       IN  /\ kernel' = [kernel EXCEPT ![fd] = OpenFile(file, mode)]
           /\ object' = [object EXCEPT ![file] =
                            [fd |-> fd, epid |-> Len(disk[file])]]
    /\ reply' = Reply("open", 0)
    /\ UNCHANGED <<disk, readCache, cacheClock>>

\* The process has no descriptor left.
OpenFails(file) ==
    /\ ~ IsOpen(file)
    /\ FreeFds = {}
    /\ reply' = Reply("open", RC_FILE_OPEN_FAILED)
    /\ UNCHANGED <<disk, kernel, object, readCache, cacheClock>>

InvalidatedMinusOne(slot) ==
    [slot EXCEPT !.fd = -1, !.pid = 0, !.lastAccessed = 0]

\* Invalidated slots keep their bytes.
Invalidated(slot) == [slot EXCEPT !.fd = 0, !.pid = 0, !.lastAccessed = 0]

CloseWithoutEvict(file) ==
    /\ IsOpen(file)
    /\ kernel' = [kernel EXCEPT ![object[file].fd] = Free]
    /\ object' = [object EXCEPT ![file] = Closed]
    /\ reply' = Reply("close", 0)
    /\ UNCHANGED <<disk, readCache, cacheClock>>

Close(file) ==
    /\ IsOpen(file)
    /\ LET fd == object[file].fd
       IN  /\ kernel' = [kernel EXCEPT ![fd] = Free]
           /\ readCache' =
                [i \in Slot |->
                    IF readCache[i].fd = fd /\ readCache[i].lastAccessed # 0
                      THEN Invalidated(readCache[i])
                      ELSE readCache[i]]
    /\ object' = [object EXCEPT ![file] = Closed]
    /\ reply' = Reply("close", 0)
    /\ UNCHANGED <<disk, cacheClock>>

\* The descriptor stays open in the kernel, and its pages stay in the cache.
Drop(file) ==
    /\ IsOpen(file)
    /\ object' = [object EXCEPT ![file] = Closed]
    /\ UNCHANGED <<disk, kernel, readCache, cacheClock, reply>>

(***************************************************************************)
(* The cache                                                               *)
(***************************************************************************)

HitsPositiveClock(fd, pid) == {i \in Slot : /\ readCache[i].fd = fd
                                            /\ readCache[i].pid = pid
                                            /\ readCache[i].lastAccessed > 0}
HitsByPidOnly(fd, pid) == {i \in Slot : /\ readCache[i].pid = pid
                                        /\ readCache[i].lastAccessed # 0}

\* The slots that hold a page, by the test that read and write make.
Hits(fd, pid) == {i \in Slot : /\ readCache[i].fd = fd
                               /\ readCache[i].pid = pid
                               /\ readCache[i].lastAccessed # 0}

\* ++cacheClock; past the largest int it goes on at the smallest.
Tick == IF cacheClock = CLOCK_MAX THEN -CLOCK_MAX - 1 ELSE cacheClock + 1

EmptySlots == {i \in Slot : readCache[i].lastAccessed = 0}

\* The first empty slot, else the first with the least lastAccessed.
ToEvict ==
    IF EmptySlots # {}
      THEN Min(EmptySlots)
      ELSE Min({i \in Slot : \A j \in Slot :
                    readCache[i].lastAccessed <= readCache[j].lastAccessed})

(***************************************************************************)
(* write                                                                   *)
(***************************************************************************)

Stored(pages, pid, block) ==
    IF pid < Len(pages) THEN [pages EXCEPT ![pid + 1] = block]
                        ELSE Append(pages, block)

WriteKeepsCache(file, pid, block) ==
    /\ IsOpen(file)
    /\ kernel[object[file].fd].mode = "w"
    /\ pid \in 0 .. object[file].epid
    /\ pid < SEEK_LIMIT
    /\ disk' = [disk EXCEPT ![file] = Stored(@, pid, block)]
    /\ object' = [object EXCEPT ![file].epid = IF pid >= @ THEN pid + 1 ELSE @]
    /\ reply' = Reply("write", 0)
    /\ UNCHANGED <<kernel, readCache, cacheClock>>

\* Only the first slot that matches is invalidated.
Write(file, pid, block) ==
    /\ IsOpen(file)
    /\ kernel[object[file].fd].mode = "w"
    /\ pid \in 0 .. object[file].epid
    /\ pid < SEEK_LIMIT
    /\ disk' = [disk EXCEPT ![file] = Stored(@, pid, block)]
    /\ LET hits == Hits(object[file].fd, pid)
       IN  readCache' = IF hits = {} THEN readCache
                        ELSE [readCache EXCEPT ![Min(hits)] = Invalidated(@)]
    /\ object' = [object EXCEPT ![file].epid = IF pid >= @ THEN pid + 1 ELSE @]
    /\ reply' = Reply("write", 0)
    /\ UNCHANGED <<kernel, cacheClock>>

\* rc = seek(pid) < 0 takes the comparison for the return code: 1.
WriteSeekFails(file, pid) ==
    /\ IsOpen(file)
    /\ pid \in 0 .. object[file].epid
    /\ pid >= SEEK_LIMIT
    /\ reply' = Reply("write", 1)
    /\ UNCHANGED <<disk, kernel, object, readCache, cacheClock>>

WriteFails(file, pid) ==
    /\ IsOpen(file)
    /\ pid \in 0 .. object[file].epid
    /\ pid < SEEK_LIMIT
    /\ kernel[object[file].fd].mode = "r" \/ IOErrors
    /\ reply' = Reply("write", RC_FILE_WRITE_FAILED)
    /\ UNCHANGED <<disk, kernel, object, readCache, cacheClock>>

(***************************************************************************)
(* read                                                                    *)
(***************************************************************************)

InFile(file, pid) == 0 <= pid /\ pid < object[file].epid

ReadInvalid(file, pid) ==
    /\ IsOpen(file)
    /\ ~ InFile(file, pid)
    /\ reply' = Reply("read", RC_INVALID_PID)
    /\ UNCHANGED <<disk, kernel, object, readCache, cacheClock>>

ReadHit(file, pid) ==
    /\ IsOpen(file)
    /\ InFile(file, pid)
    /\ Hits(object[file].fd, pid) # {}
    /\ LET i == Min(Hits(object[file].fd, pid))
       IN  /\ readCache' = [readCache EXCEPT ![i].lastAccessed = Tick]
           /\ reply' = PageRead(file, pid, readCache[i].buffer)
    /\ cacheClock' = Tick
    /\ UNCHANGED <<disk, kernel, object>>

ReadMiss(file, pid) ==
    /\ IsOpen(file)
    /\ InFile(file, pid)
    /\ Hits(object[file].fd, pid) = {}
    /\ LET page == disk[file][pid + 1]
       IN  /\ readCache' = [readCache EXCEPT ![ToEvict] =
                               [fd |-> object[file].fd, pid |-> pid,
                                lastAccessed |-> Tick, buffer |-> page]]
           /\ reply' = PageRead(file, pid, page)
    /\ cacheClock' = Tick
    /\ UNCHANGED <<disk, kernel, object>>

\* The slot is already marked as holding the page when the read fails.
ReadFails(file, pid) ==
    /\ IOErrors
    /\ IsOpen(file)
    /\ InFile(file, pid)
    /\ Hits(object[file].fd, pid) = {}
    /\ readCache' = [readCache EXCEPT ![ToEvict] =
                        [@ EXCEPT !.fd = object[file].fd, !.pid = pid,
                                  !.lastAccessed = Tick]]
    /\ reply' = Reply("read", RC_FILE_READ_FAILED)
    /\ cacheClock' = Tick
    /\ UNCHANGED <<disk, kernel, object>>

(***************************************************************************)
(* The specification                                                       *)
(***************************************************************************)

Pid == -1 .. SEEK_LIMIT

Next ==
    \E file \in File :
        \/ \E mode \in {"r", "w"} : Open(file, mode)
        \/ OpenFails(file)
        \/ Close(file)
        \/ Drop(file)
        \/ \E pid \in Pid :
             \/ \E block \in Block : Write(file, pid, block)
             \/ WriteSeekFails(file, pid)
             \/ WriteFails(file, pid)
             \/ ReadInvalid(file, pid)
             \/ ReadHit(file, pid)
             \/ ReadMiss(file, pid)
             \/ ReadFails(file, pid)

Spec == Init /\ [][Next]_vars

(***************************************************************************)
(* Invariants                                                              *)
(***************************************************************************)

ClockRange == -CLOCK_MAX - 1 .. CLOCK_MAX
KernelFile == [mode : {"free"}] \cup [mode : {"r", "w"}, file : File]

TypeOK ==
    /\ disk \in [File -> Seq(Block)]
    /\ kernel \in [Fd -> KernelFile]
    /\ object \in [File -> [fd : Fd \cup {-1}, epid : Nat]]
    /\ readCache \in [Slot -> [fd : Fd \cup {0}, pid : Nat, lastAccessed : ClockRange,
                               buffer : Block \cup {NoBlock}]]
    /\ cacheClock \in ClockRange
    /\ reply \in [op : {"none", "open", "close", "read", "write"}, rc : Int]
                 \cup [op : {"read"}, rc : {0}, file : File, pid : Nat,
                       block : Block \cup {NoBlock}]

Filled(slot) == slot.lastAccessed # 0

\* A filled slot under the descriptor of an open object holds the page that is
\* on the disk: no write, close or reuse of a descriptor number leaves an old
\* page behind.
CacheCoherent ==
    \A file \in File : \A i \in Slot :
        (IsOpen(file) /\ Filled(readCache[i]) /\ readCache[i].fd = object[file].fd)
            => /\ readCache[i].pid < Len(disk[file])
               /\ readCache[i].buffer = disk[file][readCache[i].pid + 1]

\* No page is in two slots: write may stop at the first one it finds.
PageInOneSlot ==
    \A i, j \in Slot :
        (/\ Filled(readCache[i]) /\ Filled(readCache[j])
         /\ readCache[i].fd = readCache[j].fd
         /\ readCache[i].pid = readCache[j].pid) => i = j

\* The cache has no page under a number that the kernel may give to the next
\* file, and that file would inherit.
CachedFdsInUse ==
    \A i \in Slot : Filled(readCache[i]) => readCache[i].fd \notin FreeFds

\* Every open object has a descriptor of its own, which refers to its file,
\* and knows the size of the file.
ObjectsMatchKernel ==
    \A file \in File :
        IsOpen(file) =>
            /\ kernel[object[file].fd] # Free
            /\ kernel[object[file].fd].file = file
            /\ object[file].epid = Len(disk[file])

\* "read a disk page into memory buffer ... 0 if no error" (PageFile.h).
ReadsReturnThePage ==
    (reply.op = "read" /\ reply.rc = 0) =>
        reply.block = disk[reply.file][reply.pid + 1]

\* Through the cache the files look as if there were none.
Abstract == INSTANCE PageStore WITH
    store <- disk,
    opened <- {file \in File : IsOpen(file)}
ImplementsPageStore == Abstract!Spec

=============================================================================
