---------------------------- MODULE PageFileProofs ----------------------------
(***************************************************************************)
(* Theorems about PageFile, for any files, descriptors, cache size, seek   *)
(* limit and clock width.  The argument goes in three layers, each an       *)
(* invariant that the next one uses:                                        *)
(*   1. Sized: the types, and every open object matches the kernel;         *)
(*   2. Tagged: no page is cached twice or under a free descriptor;         *)
(*   3. CacheCoherent, if the kernel does not fail reads, and with it that   *)
(*      every step is one of the store without a cache.                     *)
(***************************************************************************)
EXTENDS PageFile, MinLemmas, SequenceTheorems

(***************************************************************************)
(* The choices a step makes                                                *)
(***************************************************************************)

\* open gets a descriptor that was free.
LEMMA OpenTakesFreeFd ==
    ASSUME FreeFds # {}
    PROVE  Min(FreeFds) \in FreeFds
BY MinOfNaturals, FdsArePositive DEF FreeFds

\* read and write find the slot they look for.
LEMMA FirstHit ==
    ASSUME NEW fd, NEW pid, Hits(fd, pid) # {}
    PROVE  Min(Hits(fd, pid)) \in Hits(fd, pid)
BY MinOfNaturals, CacheHasSlots DEF Hits, Slot

\* A victim exists for every miss, whatever the clock has wrapped to.
LEMMA VictimIsASlot ==
    ASSUME TypeOK
    PROVE  ToEvict \in Slot
<1>1. CASE EmptySlots # {}
    BY <1>1, MinOfNaturals, CacheHasSlots DEF ToEvict, EmptySlots, Slot
<1>2. CASE EmptySlots = {}
  <2> DEFINE Oldest == {i \in Slot : \A j \in Slot :
                 readCache[i].lastAccessed <= readCache[j].lastAccessed}
             Ages   == {readCache[i].lastAccessed : i \in Slot}
  <2>1. \A i \in Slot : readCache[i].lastAccessed \in ClockRange
    BY DEF TypeOK
  <2>2. 1 \in Slot
    BY CacheHasSlots DEF Slot
  <2>3. Ages \in SUBSET Int /\ Ages # {} /\ \A age \in Ages : -CLOCK_MAX - 1 <= age
    BY <2>1, <2>2, ClockMaxIsNat DEF ClockRange
  <2>4. -CLOCK_MAX - 1 \in Int
    BY ClockMaxIsNat
  <2>5. Min(Ages) \in Ages /\ \A age \in Ages : Min(Ages) <= age
    BY <2>3, <2>4, MinOfBounded
  <2>6. PICK i \in Slot : readCache[i].lastAccessed = Min(Ages)
    BY <2>5
  <2>7. i \in Oldest
    BY <2>5, <2>6
  <2>8. Oldest \in SUBSET Nat /\ Oldest # {}
    BY <2>7, CacheHasSlots DEF Slot
  <2>9. Min(Oldest) \in Oldest
    BY <2>8, MinOfNaturals
  <2> QED
    BY <1>2, <2>9 DEF ToEvict
<1> QED
    BY <1>1, <1>2

\* A tick of the clock stays in the range of an int.
LEMMA TickInRange ==
    ASSUME cacheClock \in ClockRange
    PROVE  Tick \in ClockRange
BY ClockMaxIsNat DEF Tick, ClockRange

\* An invalidated slot is a slot.
LEMMA InvalidatedTyped ==
    ASSUME TypeOK, NEW i \in Slot
    PROVE  Invalidated(readCache[i]) \in
               [fd : Fd \cup {0}, pid : Nat, lastAccessed : ClockRange,
                buffer : Block \cup {NoBlock}]
<1>1. readCache[i] \in [fd : Fd \cup {0}, pid : Nat, lastAccessed : ClockRange,
                        buffer : Block \cup {NoBlock}]
    BY DEF TypeOK
<1>2. 0 \in ClockRange
    BY ClockMaxIsNat DEF ClockRange
<1> QED
    BY <1>1, <1>2 DEF Invalidated

\* What a write does to the pages of a file.
LEMMA StoredPages ==
    ASSUME NEW pages \in Seq(Block), NEW pid \in 0 .. Len(pages), NEW block \in Block
    PROVE  /\ Stored(pages, pid, block) \in Seq(Block)
           /\ Len(Stored(pages, pid, block)) =
                IF pid >= Len(pages) THEN pid + 1 ELSE Len(pages)
           /\ \A other \in 0 .. Len(pages) - 1 :
                other # pid => Stored(pages, pid, block)[other + 1] = pages[other + 1]
<1>1. CASE pid < Len(pages)
    BY <1>1, ExceptSeq DEF Stored
<1>2. CASE pid = Len(pages)
    BY <1>2, AppendProperties DEF Stored
<1> QED
    BY <1>1, <1>2

(***************************************************************************)
(* Layer 1: types, and objects that match the kernel                       *)
(***************************************************************************)

Sized == TypeOK /\ ObjectsMatchKernel

LEMMA InitSized == Init => Sized
BY ClockMaxIsNat, EmptySeq DEF Init, Sized, TypeOK, ObjectsMatchKernel, IsOpen, Closed,
    EmptySlot, Free, Reply, KernelFile, ClockRange

LEMMA OpenSized ==
    ASSUME Sized, NEW file \in File, NEW mode \in {"r", "w"}, Open(file, mode)
    PROVE  Sized'
<1> DEFINE fd == Min(FreeFds)
<1>1. fd \in FreeFds /\ fd \in Fd /\ kernel[fd] = Free
    BY OpenTakesFreeFd DEF Open, FreeFds
<1>2. kernel' = [kernel EXCEPT ![fd] = OpenFile(file, mode)]
      /\ object' = [object EXCEPT ![file] = [fd |-> fd, epid |-> Len(disk[file])]]
      /\ UNCHANGED <<disk, readCache, cacheClock>> /\ reply' = Reply("open", 0)
    BY DEF Open
<1>3. TypeOK'
  <2>1. Len(disk[file]) \in Nat
    BY DEF Sized, TypeOK
  <2>2. OpenFile(file, mode) \in KernelFile
    BY DEF OpenFile, KernelFile
  <2> QED
    BY <1>1, <1>2, <2>1, <2>2 DEF Sized, TypeOK, Reply
<1>4. ObjectsMatchKernel'
  <2> SUFFICES ASSUME NEW other \in File, IsOpen(other)'
               PROVE  /\ kernel'[object'[other].fd] # Free
                      /\ kernel'[object'[other].fd].file = other
                      /\ object'[other].epid = Len(disk'[other])
      BY DEF ObjectsMatchKernel
  <2>1. CASE other = file
    BY <1>1, <1>2, <2>1 DEF Sized, TypeOK, OpenFile, Free
  <2>2. CASE other # file
    <3>1. object'[other] = object[other] /\ IsOpen(other)
      BY <1>2, <2>2 DEF Sized, TypeOK, IsOpen
    <3>2. object[other].fd # fd
      BY <1>1, <3>1 DEF Sized, ObjectsMatchKernel
    <3> QED
      BY <1>1, <1>2, <3>1, <3>2 DEF Sized, TypeOK, ObjectsMatchKernel
  <2> QED
    BY <2>1, <2>2
<1> QED
    BY <1>3, <1>4 DEF Sized

\* Closing and dropping take the object off the file and touch no other.
LEMMA CloseSized ==
    ASSUME Sized, NEW file \in File, Close(file)
    PROVE  Sized'
<1> DEFINE fd == object[file].fd
<1>1. fd \in Fd /\ kernel[fd] # Free /\ kernel[fd].file = file
    BY DEF Close, IsOpen, Sized, TypeOK, ObjectsMatchKernel
<1>2. TypeOK'
  <2>1. readCache' \in [Slot -> [fd : Fd \cup {0}, pid : Nat,
                                 lastAccessed : ClockRange,
                                 buffer : Block \cup {NoBlock}]]
    BY InvalidatedTyped DEF Close, Sized, TypeOK
  <2>2. kernel' \in [Fd -> KernelFile]
    BY DEF Close, Free, KernelFile, Sized, TypeOK
  <2> QED
    BY <2>1, <2>2 DEF Close, Closed, Reply, Sized, TypeOK
<1>3. ObjectsMatchKernel'
  <2> SUFFICES ASSUME NEW other \in File, IsOpen(other)'
               PROVE  /\ kernel'[object'[other].fd] # Free
                      /\ kernel'[object'[other].fd].file = other
                      /\ object'[other].epid = Len(disk'[other])
      BY DEF ObjectsMatchKernel
  <2>1. other # file
    BY DEF Close, IsOpen, Closed, Sized, TypeOK
  <2>2. object'[other] = object[other] /\ IsOpen(other)
    BY <2>1 DEF Close, Sized, TypeOK, IsOpen
  <2>3. object[other].fd # fd
    BY <1>1, <2>1, <2>2 DEF Sized, ObjectsMatchKernel
  <2>4. kernel'[object[other].fd] = kernel[object[other].fd]
    BY <2>3 DEF Close, Sized, TypeOK
  <2> QED
    BY <2>2, <2>4 DEF Close, Sized, ObjectsMatchKernel
<1> QED
    BY <1>2, <1>3 DEF Sized

LEMMA DropSized ==
    ASSUME Sized, NEW file \in File, Drop(file)
    PROVE  Sized'
<1>1. TypeOK'
    BY DEF Drop, Closed, Sized, TypeOK
<1>2. ObjectsMatchKernel'
    BY DEF Drop, Closed, IsOpen, Sized, TypeOK, ObjectsMatchKernel
<1> QED
    BY <1>1, <1>2 DEF Sized

\* The end pid of an open object is the size of its file, before and after.
LEMMA WriteSized ==
    ASSUME Sized, NEW file \in File, NEW pid \in Pid, NEW block \in Block,
           Write(file, pid, block)
    PROVE  Sized'
<1> DEFINE hits  == Hits(object[file].fd, pid)
           pages == Stored(disk[file], pid, block)
<1>1. disk[file] \in Seq(Block) /\ object[file].epid = Len(disk[file])
    BY DEF Write, Sized, TypeOK, ObjectsMatchKernel
<1>2. pid \in 0 .. Len(disk[file])
    BY <1>1 DEF Write
<1>3. pages \in Seq(Block)
      /\ Len(pages) = IF pid >= Len(disk[file]) THEN pid + 1 ELSE Len(disk[file])
    BY <1>1, <1>2, StoredPages
<1>4. disk' = [disk EXCEPT ![file] = pages]
    BY DEF Write
<1>5. object' = [object EXCEPT ![file].epid = Len(pages)]
    BY <1>1, <1>3 DEF Write
<1>6. readCache' = IF hits = {} THEN readCache
                   ELSE [readCache EXCEPT ![Min(hits)] = Invalidated(@)]
    BY DEF Write
<1>7. UNCHANGED <<kernel, cacheClock>> /\ reply' = Reply("write", 0)
    BY DEF Write
<1>8. Len(pages) \in Nat
    BY <1>3
<1>9. TypeOK'
  <2>1. disk' \in [File -> Seq(Block)]
    BY <1>3, <1>4 DEF Sized, TypeOK
  <2>2. object' \in [File -> [fd : Fd \cup {-1}, epid : Nat]]
    BY <1>5, <1>8 DEF Sized, TypeOK
  <2>3. readCache' \in [Slot -> [fd : Fd \cup {0}, pid : Nat,
                                 lastAccessed : ClockRange,
                                 buffer : Block \cup {NoBlock}]]
    BY <1>6, InvalidatedTyped DEF Sized, TypeOK
  <2> QED
    BY <1>7, <2>1, <2>2, <2>3 DEF Reply, Sized, TypeOK
<1>10. ObjectsMatchKernel'
    BY <1>4, <1>5, <1>7 DEF Sized, TypeOK, ObjectsMatchKernel, IsOpen
<1> QED
    BY <1>9, <1>10 DEF Sized

\* A read changes cache slots, the clock and the reply only.
LEMMA ReadHitSized ==
    ASSUME Sized, NEW file \in File, NEW pid \in Pid, ReadHit(file, pid)
    PROVE  Sized'
<1> DEFINE i == Min(Hits(object[file].fd, pid))
<1>1. i \in Slot
  <2>1. Hits(object[file].fd, pid) # {}
    BY DEF ReadHit
  <2>2. i \in Hits(object[file].fd, pid)
    BY <2>1, FirstHit
  <2> QED
    BY <2>2 DEF Hits
<1>2. pid \in Nat
    BY SeekLimitIsNat DEF ReadHit, InFile, Pid
<1>3. Tick \in ClockRange
    BY TickInRange DEF Sized, TypeOK
<1>4. TypeOK'
  <2>1. reply' \in [op : {"read"}, rc : {0}, file : File, pid : Nat,
                    block : Block \cup {NoBlock}]
    BY <1>1, <1>2 DEF ReadHit, PageRead, Sized, TypeOK
  <2> QED
    BY <1>1, <1>3, <2>1 DEF ReadHit, Sized, TypeOK
<1>5. ObjectsMatchKernel'
    BY DEF ReadHit, Sized, ObjectsMatchKernel, IsOpen
<1> QED
    BY <1>4, <1>5 DEF Sized

LEMMA ReadMissSized ==
    ASSUME Sized, NEW file \in File, NEW pid \in Pid, ReadMiss(file, pid)
    PROVE  Sized'
<1>1. pid \in Nat
    BY SeekLimitIsNat DEF ReadMiss, InFile, Pid
<1>2. disk[file][pid + 1] \in Block
  <2>1. disk[file] \in Seq(Block) /\ pid + 1 \in 1 .. Len(disk[file])
    BY <1>1 DEF ReadMiss, InFile, Sized, TypeOK, ObjectsMatchKernel
  <2> QED
    BY <2>1, ElementOfSeq
<1>3. Tick \in ClockRange
    BY TickInRange DEF Sized, TypeOK
<1>4. object[file].fd \in Fd
    BY DEF ReadMiss, IsOpen, Sized, TypeOK
<1>5. TypeOK'
  <2>1. reply' \in [op : {"read"}, rc : {0}, file : File, pid : Nat,
                    block : Block \cup {NoBlock}]
    BY <1>1, <1>2 DEF ReadMiss, PageRead
  <2>2. readCache' \in [Slot -> [fd : Fd \cup {0}, pid : Nat,
                                 lastAccessed : ClockRange,
                                 buffer : Block \cup {NoBlock}]]
    BY <1>1, <1>2, <1>3, <1>4 DEF ReadMiss, Sized, TypeOK
  <2> QED
    BY <1>3, <2>1, <2>2 DEF ReadMiss, Sized, TypeOK
<1>6. ObjectsMatchKernel'
    BY DEF ReadMiss, Sized, ObjectsMatchKernel, IsOpen
<1> QED
    BY <1>5, <1>6 DEF Sized

LEMMA ReadFailsSized ==
    ASSUME Sized, NEW file \in File, NEW pid \in Pid, ReadFails(file, pid)
    PROVE  Sized'
<1>1. pid \in Nat
    BY SeekLimitIsNat DEF ReadFails, InFile, Pid
<1>2. Tick \in ClockRange
    BY TickInRange DEF Sized, TypeOK
<1>3. object[file].fd \in Fd
    BY DEF ReadFails, IsOpen, Sized, TypeOK
<1>4. TypeOK'
  <2>1. readCache' \in [Slot -> [fd : Fd \cup {0}, pid : Nat,
                                 lastAccessed : ClockRange,
                                 buffer : Block \cup {NoBlock}]]
    BY <1>1, <1>2, <1>3 DEF ReadFails, Sized, TypeOK
  <2> QED
    BY <1>2, <2>1 DEF ReadFails, Reply, RC_FILE_READ_FAILED, Sized, TypeOK
<1>5. ObjectsMatchKernel'
    BY DEF ReadFails, Sized, ObjectsMatchKernel, IsOpen
<1> QED
    BY <1>4, <1>5 DEF Sized

\* The calls that return an error and change nothing.
Refused(file) ==
    \/ OpenFails(file)
    \/ \E pid \in Pid : \/ WriteSeekFails(file, pid)
                        \/ WriteFails(file, pid)
                        \/ ReadInvalid(file, pid)

LEMMA RefusedChangesNothing ==
    ASSUME NEW file, Refused(file)
    PROVE  /\ UNCHANGED <<disk, kernel, object, readCache, cacheClock>>
           /\ \E op \in {"open", "read", "write"}, rc \in Int \ {0} :
                 reply' = Reply(op, rc)
BY DEF Refused, OpenFails, WriteSeekFails, WriteFails, ReadInvalid, Reply,
       RC_FILE_OPEN_FAILED, RC_FILE_WRITE_FAILED, RC_INVALID_PID

LEMMA RefusedSized ==
    ASSUME Sized, NEW file \in File, Refused(file)
    PROVE  Sized'
<1>1. TypeOK'
    BY RefusedChangesNothing DEF Reply, Sized, TypeOK
<1>2. ObjectsMatchKernel'
    BY RefusedChangesNothing DEF Sized, ObjectsMatchKernel, IsOpen
<1> QED
    BY <1>1, <1>2 DEF Sized

LEMMA StutterSized == Sized /\ UNCHANGED vars => Sized'
<1> SUFFICES ASSUME Sized, UNCHANGED vars PROVE Sized'
    OBVIOUS
<1>1. TypeOK'
    BY DEF vars, Sized, TypeOK
<1>2. ObjectsMatchKernel'
    BY DEF vars, Sized, ObjectsMatchKernel, IsOpen
<1> QED
    BY <1>1, <1>2 DEF Sized

\* The steps of the module, with the refused calls as one case.
LEMMA StepCases ==
    ASSUME Next
    PROVE  \E file \in File :
             \/ \E mode \in {"r", "w"} : Open(file, mode)
             \/ Close(file)
             \/ Drop(file)
             \/ Refused(file)
             \/ \E pid \in Pid :
                  \/ \E block \in Block : Write(file, pid, block)
                  \/ ReadHit(file, pid)
                  \/ ReadMiss(file, pid)
                  \/ ReadFails(file, pid)
BY DEF Next, Refused

LEMMA NextSized == Sized /\ [Next]_vars => Sized'
<1> SUFFICES ASSUME Sized, Next PROVE Sized'
    BY StutterSized
<1> QED
    BY StepCases, OpenSized, CloseSized, DropSized, RefusedSized, WriteSized,
       ReadHitSized, ReadMissSized, ReadFailsSized

THEOREM PageFileSized == Spec => []Sized
BY InitSized, NextSized, PTL DEF Spec

\* Every variable keeps its type, the clock and the access times the width of
\* an int included.
THEOREM PageFileTypeOK == Spec => []TypeOK
<1>1. Sized => TypeOK
    BY DEF Sized
<1> QED
    BY <1>1, PageFileSized, PTL

\* An open object knows the size of its file and has a descriptor for it that
\* no other object shares, whatever is closed, dropped or refused.
THEOREM PageFileObjectsMatchKernel == Spec => []ObjectsMatchKernel
<1>1. Sized => ObjectsMatchKernel
    BY DEF Sized
<1> QED
    BY <1>1, PageFileSized, PTL

(***************************************************************************)
(* Layer 2: the tags of the cache                                          *)
(***************************************************************************)

Tagged == PageInOneSlot /\ CachedFdsInUse

LEMMA InitTagged == Init => Tagged
BY DEF Init, Tagged, PageInOneSlot, CachedFdsInUse, EmptySlot, Filled

\* Slots may be emptied and descriptors taken into use.
LEMMA SlotsMayEmpty ==
    ASSUME Tagged, FreeFds' \subseteq FreeFds,
           \A i \in Slot : Filled(readCache[i])' =>
               /\ Filled(readCache[i])
               /\ readCache'[i].fd = readCache[i].fd
               /\ readCache'[i].pid = readCache[i].pid
    PROVE  Tagged'
<1>1. PageInOneSlot'
    BY DEF Tagged, PageInOneSlot, Filled
<1>2. CachedFdsInUse'
    BY DEF Tagged, CachedFdsInUse, Filled
<1> QED
    BY <1>1, <1>2 DEF Tagged

LEMMA OpenTagged ==
    ASSUME Sized, Tagged, NEW file \in File, NEW mode \in {"r", "w"},
           Open(file, mode)
    PROVE  Tagged'
<1>1. FreeFds' \subseteq FreeFds
    BY OpenTakesFreeFd DEF Open, FreeFds, OpenFile, Free, Sized, TypeOK
<1>2. readCache' = readCache
    BY DEF Open
<1> QED
    BY <1>1, <1>2, SlotsMayEmpty DEF Filled

\* close frees a descriptor and evicts what is cached under it.
LEMMA CloseTagged ==
    ASSUME Sized, Tagged, NEW file \in File, Close(file)
    PROVE  Tagged'
<1> DEFINE fd == object[file].fd
<1>1. FreeFds' \subseteq FreeFds \cup {fd}
    BY DEF Close, FreeFds, Sized, TypeOK
<1>2. \A i \in Slot : Filled(readCache[i])' =>
          readCache'[i] = readCache[i] /\ readCache[i].fd # fd /\ Filled(readCache[i])
  <2> SUFFICES ASSUME NEW i \in Slot, Filled(readCache[i])'
               PROVE  readCache'[i] = readCache[i] /\ readCache[i].fd # fd
                      /\ Filled(readCache[i])
      OBVIOUS
  <2>1. readCache[i] \in [fd : Fd \cup {0}, pid : Nat, lastAccessed : ClockRange,
                          buffer : Block \cup {NoBlock}]
    BY DEF Sized, TypeOK
  <2>2. ~ (readCache[i].fd = fd /\ readCache[i].lastAccessed # 0)
    BY <2>1 DEF Close, Invalidated, Filled
  <2> QED
    BY <2>1, <2>2 DEF Close, Filled
<1>3. PageInOneSlot'
    BY <1>2 DEF Tagged, PageInOneSlot, Filled
<1>4. CachedFdsInUse'
    BY <1>1, <1>2 DEF Tagged, CachedFdsInUse, Filled
<1> QED
    BY <1>3, <1>4 DEF Tagged

\* A write empties the slots that it hits.
LEMMA WriteEmptiesSlots ==
    ASSUME Sized, NEW file \in File, NEW pid \in Pid, NEW block \in Block,
           Write(file, pid, block), NEW i \in Slot, Filled(readCache[i])'
    PROVE  readCache'[i] = readCache[i]
<1> DEFINE hits == Hits(object[file].fd, pid)
<1>1. readCache[i] \in [fd : Fd \cup {0}, pid : Nat, lastAccessed : ClockRange,
                        buffer : Block \cup {NoBlock}]
    BY DEF Sized, TypeOK
<1>2. CASE hits = {}
    BY <1>2 DEF Write
<1>3. CASE hits # {}
  <2>1. Min(hits) \in Slot
    <3>1. Min(hits) \in hits
      BY <1>3, FirstHit
    <3> QED
      BY <3>1 DEF Hits
  <2>2. readCache' = [readCache EXCEPT ![Min(hits)] = Invalidated(@)]
    BY <1>3 DEF Write
  <2>3. i # Min(hits)
    BY <1>1, <2>1, <2>2 DEF Invalidated, Filled, Sized, TypeOK
  <2> QED
    BY <2>1, <2>2, <2>3 DEF Sized, TypeOK
<1> QED
    BY <1>2, <1>3

LEMMA WriteTagged ==
    ASSUME Sized, Tagged, NEW file \in File, NEW pid \in Pid, NEW block \in Block,
           Write(file, pid, block)
    PROVE  Tagged'
<1>1. FreeFds' = FreeFds
    BY DEF Write, FreeFds
<1> QED
    BY <1>1, WriteEmptiesSlots, SlotsMayEmpty DEF Filled

LEMMA ReadHitTagged ==
    ASSUME Sized, Tagged, NEW file \in File, NEW pid \in Pid, ReadHit(file, pid)
    PROVE  Tagged'
<1> DEFINE hit == Min(Hits(object[file].fd, pid))
<1>1. hit \in Slot /\ Filled(readCache[hit])
  <2>1. Hits(object[file].fd, pid) # {}
    BY DEF ReadHit
  <2>2. hit \in Hits(object[file].fd, pid)
    BY <2>1, FirstHit
  <2> QED
    BY <2>2 DEF Hits, Filled
<1>2. readCache' = [readCache EXCEPT ![hit].lastAccessed = Tick]
    BY DEF ReadHit
<1>3. \A i \in Slot : Filled(readCache[i])' =>
          /\ Filled(readCache[i])
          /\ readCache'[i].fd = readCache[i].fd
          /\ readCache'[i].pid = readCache[i].pid
  <2> TAKE i \in Slot
  <2>1. CASE i = hit
    BY <1>1, <1>2, <2>1 DEF Sized, TypeOK
  <2>2. CASE i # hit
    BY <1>1, <1>2, <2>2 DEF Sized, TypeOK, Filled
  <2> QED
    BY <2>1, <2>2
<1>4. FreeFds' \subseteq FreeFds
    BY DEF ReadHit, FreeFds
<1> QED
    BY <1>3, <1>4, SlotsMayEmpty

\* A page that no slot holds is put into one slot, under a descriptor in use.
LEMMA MissTagged ==
    ASSUME Sized, Tagged, NEW file \in File, NEW pid \in Pid, IsOpen(file),
           Hits(object[file].fd, pid) = {}, kernel' = kernel,
           readCache'[ToEvict].fd = object[file].fd,
           readCache'[ToEvict].pid = pid,
           \A i \in Slot \ {ToEvict} : readCache'[i] = readCache[i]
    PROVE  Tagged'
<1> DEFINE fd == object[file].fd
<1>1. fd \notin FreeFds
    BY DEF Sized, ObjectsMatchKernel, FreeFds
<1>2. \A i \in Slot : Filled(readCache[i]) =>
          ~ (readCache[i].fd = fd /\ readCache[i].pid = pid)
    BY DEF Hits, Filled
<1>3. PageInOneSlot'
  <2> SUFFICES ASSUME NEW i \in Slot, NEW j \in Slot,
                      Filled(readCache[i])', Filled(readCache[j])',
                      readCache'[i].fd = readCache'[j].fd,
                      readCache'[i].pid = readCache'[j].pid
               PROVE  i = j
      BY DEF PageInOneSlot
  <2>1. CASE i # ToEvict /\ j # ToEvict
    BY <2>1 DEF Tagged, PageInOneSlot, Filled
  <2>2. CASE i = ToEvict /\ j # ToEvict
    BY <1>2, <2>2 DEF Filled
  <2>3. CASE i # ToEvict /\ j = ToEvict
    BY <1>2, <2>3 DEF Filled
  <2> QED
    BY <2>1, <2>2, <2>3
<1>4. CachedFdsInUse'
    BY <1>1 DEF Tagged, CachedFdsInUse, Filled, FreeFds
<1> QED
    BY <1>3, <1>4 DEF Tagged

LEMMA ReadMissTagged ==
    ASSUME Sized, Tagged, NEW file \in File, NEW pid \in Pid, ReadMiss(file, pid)
    PROVE  Tagged'
<1>1. ToEvict \in Slot
    BY VictimIsASlot DEF Sized
<1>2. /\ readCache'[ToEvict].fd = object[file].fd
      /\ readCache'[ToEvict].pid = pid
      /\ \A i \in Slot \ {ToEvict} : readCache'[i] = readCache[i]
    BY <1>1 DEF ReadMiss, Sized, TypeOK
<1>3. IsOpen(file) /\ Hits(object[file].fd, pid) = {} /\ kernel' = kernel
    BY DEF ReadMiss
<1> QED
    BY <1>2, <1>3, MissTagged

LEMMA ReadFailsTagged ==
    ASSUME Sized, Tagged, NEW file \in File, NEW pid \in Pid, ReadFails(file, pid)
    PROVE  Tagged'
<1>1. ToEvict \in Slot
    BY VictimIsASlot DEF Sized
<1>2. /\ readCache'[ToEvict].fd = object[file].fd
      /\ readCache'[ToEvict].pid = pid
      /\ \A i \in Slot \ {ToEvict} : readCache'[i] = readCache[i]
    BY <1>1 DEF ReadFails, Sized, TypeOK
<1>3. IsOpen(file) /\ Hits(object[file].fd, pid) = {} /\ kernel' = kernel
    BY DEF ReadFails
<1> QED
    BY <1>2, <1>3, MissTagged

LEMMA NextTagged == Sized /\ Tagged /\ [Next]_vars => Tagged'
<1> SUFFICES ASSUME Sized, Tagged, [Next]_vars PROVE Tagged'
    OBVIOUS
<1>1. CASE UNCHANGED <<kernel, readCache>>
    BY <1>1, SlotsMayEmpty DEF FreeFds, Filled
<1>2. CASE UNCHANGED vars
    BY <1>1, <1>2 DEF vars
<1>3. CASE Next
  <2>1. \A file \in File : Refused(file) \/ Drop(file) => Tagged'
    BY <1>1, RefusedChangesNothing DEF Drop
  <2> QED
    BY <1>3, <2>1, StepCases, OpenTagged, CloseTagged, WriteTagged,
       ReadHitTagged, ReadMissTagged, ReadFailsTagged
<1> QED
    BY <1>2, <1>3

\* No page is cached twice, and none under a descriptor number that the kernel
\* may hand out again, also when reads and writes fail.
THEOREM PageFileTagged == Spec => [](PageInOneSlot /\ CachedFdsInUse)
<1>1. Spec => []Tagged
    BY InitTagged, NextTagged, PageFileSized, PTL DEF Spec
<1> QED
    BY <1>1, PTL DEF Tagged

\* The cache never answers for a descriptor that is closed, and so never for a
\* file opened later under the same number.
THEOREM PageFileCachedFdsInUse == Spec => []CachedFdsInUse
BY PageFileTagged, PTL

(***************************************************************************)
(* Layer 3: the contents of the cache                                      *)
(***************************************************************************)

LEMMA InitCoherent == Init => CacheCoherent
BY DEF Init, CacheCoherent, IsOpen, Closed

\* Objects may be closed and slots emptied, as long as nothing is written.
LEMMA SlotsKeepPages ==
    ASSUME CacheCoherent, disk' = disk,
           \A file \in File : IsOpen(file)' =>
               IsOpen(file) /\ object'[file].fd = object[file].fd,
           \A i \in Slot : Filled(readCache[i])' =>
               /\ Filled(readCache[i])
               /\ readCache'[i].fd = readCache[i].fd
               /\ readCache'[i].pid = readCache[i].pid
               /\ readCache'[i].buffer = readCache[i].buffer
    PROVE  CacheCoherent'
BY DEF CacheCoherent

\* Two open objects have two descriptors.
LEMMA FdsDiffer ==
    ASSUME Sized, NEW file \in File, NEW other \in File,
           IsOpen(file), IsOpen(other), object[file].fd = object[other].fd
    PROVE  file = other
BY DEF Sized, ObjectsMatchKernel

\* What open finds in the cache is not under its descriptor.
LEMMA OpenCoherent ==
    ASSUME Sized, Tagged, CacheCoherent, NEW file \in File, NEW mode \in {"r", "w"},
           Open(file, mode)
    PROVE  CacheCoherent'
<1> DEFINE fd == Min(FreeFds)
<1>1. fd \in FreeFds
    BY OpenTakesFreeFd DEF Open
<1>2. object' = [object EXCEPT ![file] = [fd |-> fd, epid |-> Len(disk[file])]]
      /\ UNCHANGED <<disk, readCache>>
    BY DEF Open
<1> SUFFICES ASSUME NEW other \in File, NEW i \in Slot, IsOpen(other)',
                    Filled(readCache[i])', readCache'[i].fd = object'[other].fd
             PROVE  /\ readCache'[i].pid < Len(disk'[other])
                    /\ readCache'[i].buffer = disk'[other][readCache'[i].pid + 1]
    BY DEF CacheCoherent
<1>3. CASE other = file
  <2>1. readCache[i].fd = fd /\ Filled(readCache[i])
    BY <1>2, <1>3 DEF Sized, TypeOK, Filled
  <2> QED
    BY <1>1, <2>1 DEF Tagged, CachedFdsInUse
<1>4. CASE other # file
  <2>1. object'[other] = object[other]
    BY <1>2, <1>4 DEF Sized, TypeOK
  <2> QED
    BY <1>2, <2>1 DEF CacheCoherent, IsOpen, Filled
<1> QED
    BY <1>3, <1>4

LEMMA CloseCoherent ==
    ASSUME Sized, CacheCoherent, NEW file \in File, Close(file)
    PROVE  CacheCoherent'
<1>1. \A other \in File : IsOpen(other)' =>
          IsOpen(other) /\ object'[other].fd = object[other].fd
    BY DEF Close, Closed, IsOpen, Sized, TypeOK
<1>2. \A i \in Slot : Filled(readCache[i])' => readCache'[i] = readCache[i]
  <2> TAKE i \in Slot
  <2>1. readCache[i] \in [fd : Fd \cup {0}, pid : Nat, lastAccessed : ClockRange,
                          buffer : Block \cup {NoBlock}]
    BY DEF Sized, TypeOK
  <2> QED
    BY <2>1 DEF Close, Invalidated, Filled
<1> QED
    BY <1>1, <1>2, SlotsKeepPages DEF Close, Filled

LEMMA DropCoherent ==
    ASSUME Sized, CacheCoherent, NEW file \in File, Drop(file)
    PROVE  CacheCoherent'
<1>1. \A other \in File : IsOpen(other)' =>
          IsOpen(other) /\ object'[other].fd = object[other].fd
    BY DEF Drop, Closed, IsOpen, Sized, TypeOK
<1> QED
    BY <1>1, SlotsKeepPages DEF Drop, Filled

\* Stopping at the first slot that matches is enough: after a write no slot
\* holds the old page.
LEMMA WriteLeavesNoHit ==
    ASSUME Sized, Tagged, NEW file \in File, NEW pid \in Pid, NEW block \in Block,
           Write(file, pid, block), NEW i \in Slot, Filled(readCache[i])',
           readCache[i].fd = object[file].fd
    PROVE  readCache[i].pid # pid
<1> DEFINE hits == Hits(object[file].fd, pid)
<1> SUFFICES ASSUME readCache[i].pid = pid PROVE FALSE
    OBVIOUS
<1>1. readCache'[i] = readCache[i]
    BY WriteEmptiesSlots
<1>2. i \in hits
    BY <1>1 DEF Hits, Filled
<1>3. Min(hits) \in hits
    BY <1>2, FirstHit
<1>4. Min(hits) = i
    BY <1>2, <1>3 DEF Hits, Tagged, PageInOneSlot, Filled
<1>5. readCache' = [readCache EXCEPT ![i] = Invalidated(@)]
    BY <1>2, <1>4 DEF Write
<1>6. readCache'[i].lastAccessed = 0
  <2>1. readCache[i] \in [fd : Fd \cup {0}, pid : Nat, lastAccessed : ClockRange,
                          buffer : Block \cup {NoBlock}]
    BY DEF Sized, TypeOK
  <2>2. readCache'[i] = Invalidated(readCache[i])
    BY <1>5 DEF Sized, TypeOK
  <2> QED
    BY <2>1, <2>2 DEF Invalidated
<1> QED
    BY <1>6 DEF Filled

LEMMA WriteCoherent ==
    ASSUME Sized, Tagged, CacheCoherent, NEW file \in File, NEW pid \in Pid,
           NEW block \in Block, Write(file, pid, block)
    PROVE  CacheCoherent'
<1> DEFINE pages == Stored(disk[file], pid, block)
<1>1. IsOpen(file) /\ disk' = [disk EXCEPT ![file] = pages]
    BY DEF Write
<1>2. \A other \in File : object'[other].fd = object[other].fd
    BY DEF Write, Sized, TypeOK
<1> SUFFICES ASSUME NEW other \in File, NEW i \in Slot, IsOpen(other)',
                    Filled(readCache[i])', readCache'[i].fd = object'[other].fd
             PROVE  /\ readCache'[i].pid < Len(disk'[other])
                    /\ readCache'[i].buffer = disk'[other][readCache'[i].pid + 1]
    BY DEF CacheCoherent
<1>3. readCache'[i] = readCache[i] /\ Filled(readCache[i])
    BY WriteEmptiesSlots DEF Filled
<1>4. IsOpen(other) /\ readCache[i].fd = object[other].fd
    BY <1>2, <1>3 DEF IsOpen
<1>5. /\ readCache[i].pid < Len(disk[other])
      /\ readCache[i].buffer = disk[other][readCache[i].pid + 1]
    BY <1>3, <1>4 DEF CacheCoherent
<1>6. CASE other = file
  <2>1. readCache[i].pid # pid /\ readCache[i].pid \in Nat
    BY <1>4, <1>6, WriteLeavesNoHit DEF Sized, TypeOK
  <2>2. disk[file] \in Seq(Block) /\ pid \in 0 .. Len(disk[file])
    BY <1>1 DEF Write, Sized, TypeOK, ObjectsMatchKernel
  <2>3. Len(disk[file]) \in Nat
    BY <2>2
  <2>4. readCache[i].pid \in 0 .. Len(disk[file]) - 1
    BY <1>5, <1>6, <2>1, <2>3
  <2>5. /\ Len(pages) = IF pid >= Len(disk[file]) THEN pid + 1 ELSE Len(disk[file])
        /\ pages[readCache[i].pid + 1] = disk[file][readCache[i].pid + 1]
    BY <2>1, <2>2, <2>4, StoredPages
  <2>6. disk'[file] = pages
    BY <1>1 DEF Sized, TypeOK
  <2> QED
    BY <1>3, <1>5, <1>6, <2>2, <2>3, <2>4, <2>5, <2>6
<1>7. CASE other # file
  <2>1. disk'[other] = disk[other]
    BY <1>1, <1>7 DEF Sized, TypeOK
  <2> QED
    BY <1>3, <1>5, <2>1
<1> QED
    BY <1>6, <1>7

LEMMA ReadHitCoherent ==
    ASSUME Sized, CacheCoherent, NEW file \in File, NEW pid \in Pid, ReadHit(file, pid)
    PROVE  CacheCoherent'
<1> DEFINE hit == Min(Hits(object[file].fd, pid))
<1>1. hit \in Slot /\ Filled(readCache[hit])
  <2>1. Hits(object[file].fd, pid) # {}
    BY DEF ReadHit
  <2>2. hit \in Hits(object[file].fd, pid)
    BY <2>1, FirstHit
  <2> QED
    BY <2>2 DEF Hits, Filled
<1>2. readCache' = [readCache EXCEPT ![hit].lastAccessed = Tick]
      /\ UNCHANGED <<disk, object>>
    BY DEF ReadHit
<1>3. \A i \in Slot : Filled(readCache[i])' =>
          /\ Filled(readCache[i])
          /\ readCache'[i].fd = readCache[i].fd
          /\ readCache'[i].pid = readCache[i].pid
          /\ readCache'[i].buffer = readCache[i].buffer
  <2> TAKE i \in Slot
  <2>1. CASE i = hit
    BY <1>1, <1>2, <2>1 DEF Sized, TypeOK
  <2>2. CASE i # hit
    BY <1>1, <1>2, <2>2 DEF Sized, TypeOK, Filled
  <2> QED
    BY <2>1, <2>2
<1> QED
    BY <1>2, <1>3, SlotsKeepPages DEF IsOpen

\* A miss fills the slot with the page of the only object that has the tag.
LEMMA ReadMissCoherent ==
    ASSUME Sized, CacheCoherent, NEW file \in File, NEW pid \in Pid, ReadMiss(file, pid)
    PROVE  CacheCoherent'
<1>1. ToEvict \in Slot
    BY VictimIsASlot DEF Sized
<1>2. /\ readCache'[ToEvict].fd = object[file].fd
      /\ readCache'[ToEvict].pid = pid
      /\ readCache'[ToEvict].buffer = disk[file][pid + 1]
      /\ \A i \in Slot \ {ToEvict} : readCache'[i] = readCache[i]
    BY <1>1 DEF ReadMiss, Sized, TypeOK
<1>3. IsOpen(file) /\ pid < Len(disk[file]) /\ UNCHANGED <<disk, object>>
    BY DEF ReadMiss, InFile, Sized, ObjectsMatchKernel
<1> SUFFICES ASSUME NEW other \in File, NEW i \in Slot, IsOpen(other)',
                    Filled(readCache[i])', readCache'[i].fd = object'[other].fd
             PROVE  /\ readCache'[i].pid < Len(disk'[other])
                    /\ readCache'[i].buffer = disk'[other][readCache'[i].pid + 1]
    BY DEF CacheCoherent
<1>4. IsOpen(other)
    BY <1>3 DEF IsOpen
<1>5. CASE i = ToEvict
  <2>1. other = file
    BY <1>2, <1>3, <1>4, <1>5, FdsDiffer
  <2> QED
    BY <1>2, <1>3, <1>5, <2>1
<1>6. CASE i # ToEvict
    BY <1>2, <1>3, <1>4, <1>6 DEF CacheCoherent, Filled
<1> QED
    BY <1>5, <1>6

LEMMA NextCoherent ==
    ASSUME IOErrors = FALSE
    PROVE  Sized /\ Tagged /\ CacheCoherent /\ [Next]_vars => CacheCoherent'
<1> SUFFICES ASSUME Sized, Tagged, CacheCoherent, [Next]_vars PROVE CacheCoherent'
    OBVIOUS
<1>1. CASE UNCHANGED <<disk, object, readCache>>
    BY <1>1, SlotsKeepPages DEF IsOpen, Filled
<1>2. CASE UNCHANGED vars
    BY <1>1, <1>2 DEF vars
<1>3. CASE Next
  <2>1. \A file \in File : Refused(file) => CacheCoherent'
    BY <1>1, RefusedChangesNothing
  <2>2. \A file \in File, pid \in Pid : ~ ReadFails(file, pid)
    BY DEF ReadFails
  <2> QED
    BY <1>3, <2>1, <2>2, StepCases, OpenCoherent, CloseCoherent, DropCoherent,
       WriteCoherent, ReadHitCoherent, ReadMissCoherent
<1> QED
    BY <1>2, <1>3

\* As long as the kernel fails no read, what the cache holds under an open
\* object is what is on the disk.  (A failed read leaves its slot tagged: the
\* hypothesis is needed.)
THEOREM PageFileCacheCoherent ==
    ASSUME IOErrors = FALSE
    PROVE  Spec => []CacheCoherent
<1>1. Spec => []Tagged
    BY InitTagged, NextTagged, PageFileSized, PTL DEF Spec
<1> QED
    BY <1>1, InitCoherent, NextCoherent, PageFileSized, PTL DEF Spec

(***************************************************************************)
(* Refinement: the files are those of a store without a cache              *)
(***************************************************************************)

LEMMA InitIsAbstract == Init => Abstract!Init
BY DEF Init, Abstract!Init, IsOpen, Closed, Reply, Abstract!Reply

LEMMA OpenIsAbstract ==
    ASSUME Sized, NEW file \in File, NEW mode \in {"r", "w"}, Open(file, mode)
    PROVE  Abstract!Open(file)
<1>1. Min(FreeFds) \in FreeFds
    BY OpenTakesFreeFd DEF Open
<1>2. \A fd \in FreeFds : fd > 0
    BY FdsArePositive DEF FreeFds
<1>3. Min(FreeFds) > 0
    BY <1>1, <1>2
<1> QED
    BY <1>3 DEF Open, Abstract!Open, IsOpen, Reply, Abstract!Reply, Sized, TypeOK

LEMMA CloseIsAbstract ==
    ASSUME Sized, NEW file \in File, Close(file)
    PROVE  Abstract!Close(file)
BY DEF Close, Abstract!Close, IsOpen, Closed, Reply, Abstract!Reply, Sized, TypeOK

LEMMA DropIsAbstract ==
    ASSUME Sized, NEW file \in File, Drop(file)
    PROVE  Abstract!Drop(file)
BY DEF Drop, Abstract!Drop, IsOpen, Closed, Sized, TypeOK

LEMMA WriteIsAbstract ==
    ASSUME Sized, NEW file \in File, NEW pid \in Pid, NEW block \in Block,
           Write(file, pid, block)
    PROVE  Abstract!Write(file, pid, block)
<1>1. pid \in 0 .. Len(disk[file])
    BY DEF Write, Sized, ObjectsMatchKernel
<1>2. \A other \in File : object'[other].fd = object[other].fd
    BY DEF Write, Sized, TypeOK
<1>3. {other \in File : IsOpen(other)}' = {other \in File : IsOpen(other)}
    BY <1>2 DEF IsOpen
<1> QED
    BY <1>1, <1>3 DEF Write, Stored, Abstract!Write, Reply, Abstract!Reply

\* A hit returns the page of the disk because the cache is coherent.
LEMMA ReadHitIsAbstract ==
    ASSUME Sized, CacheCoherent, NEW file \in File, NEW pid \in Pid, ReadHit(file, pid)
    PROVE  Abstract!Read(file, pid)
<1> DEFINE hit == Min(Hits(object[file].fd, pid))
<1>1. Hits(object[file].fd, pid) # {} /\ IsOpen(file) /\ InFile(file, pid)
    BY DEF ReadHit
<1>2. hit \in Hits(object[file].fd, pid)
    BY <1>1, FirstHit
<1>3. readCache[hit].buffer = disk[file][pid + 1]
    BY <1>1, <1>2 DEF Hits, CacheCoherent, Filled
<1>4. pid \in 0 .. Len(disk[file]) - 1
    BY <1>1, SeekLimitIsNat DEF InFile, Pid, Sized, TypeOK, ObjectsMatchKernel
<1> QED
    BY <1>1, <1>3, <1>4 DEF ReadHit, PageRead, Abstract!Read, Abstract!PageRead, IsOpen

LEMMA ReadMissIsAbstract ==
    ASSUME Sized, NEW file \in File, NEW pid \in Pid, ReadMiss(file, pid)
    PROVE  Abstract!Read(file, pid)
<1>1. pid \in 0 .. Len(disk[file]) - 1
    BY SeekLimitIsNat DEF ReadMiss, InFile, Pid, Sized, TypeOK, ObjectsMatchKernel
<1> QED
    BY <1>1 DEF ReadMiss, PageRead, Abstract!Read, Abstract!PageRead, IsOpen

LEMMA RefusedIsAbstract ==
    ASSUME Sized, NEW file \in File, Refused(file)
    PROVE  \E op \in {"open", "read", "write"} : Abstract!Fail(op)
<1>1. PICK op \in {"open", "read", "write"}, rc \in Int \ {0} : reply' = Reply(op, rc)
    BY RefusedChangesNothing
<1>2. reply'.rc = rc /\ UNCHANGED <<disk, object>>
    BY <1>1, RefusedChangesNothing DEF Reply
<1>3. Abstract!Fail(op)
    BY <1>1, <1>2 DEF Abstract!Fail, Reply, Abstract!Reply, IsOpen
<1> QED
    BY <1>3

LEMMA NextIsAbstract ==
    ASSUME IOErrors = FALSE
    PROVE  Sized /\ CacheCoherent /\ [Next]_vars => [Abstract!Next]_(Abstract!vars)
<1> SUFFICES ASSUME Sized, CacheCoherent, [Next]_vars
             PROVE  [Abstract!Next]_(Abstract!vars)
    OBVIOUS
<1>1. CASE UNCHANGED vars
    BY <1>1 DEF vars, Abstract!vars, IsOpen
<1>2. CASE Next
  <2>1. \A file \in File, pid \in Pid : ~ ReadFails(file, pid)
    BY DEF ReadFails
  <2>2. PICK file \in File :
             \/ \E mode \in {"r", "w"} : Open(file, mode)
             \/ Close(file)
             \/ Drop(file)
             \/ Refused(file)
             \/ \E pid \in Pid : \/ \E block \in Block : Write(file, pid, block)
                                 \/ ReadHit(file, pid)
                                 \/ ReadMiss(file, pid)
    BY <1>2, <2>1, StepCases
  <2>3. CASE \E mode \in {"r", "w"} : Open(file, mode)
    BY <2>3, OpenIsAbstract DEF Abstract!Next
  <2>4. CASE Close(file) \/ Drop(file)
    BY <2>4, CloseIsAbstract, DropIsAbstract DEF Abstract!Next
  <2>5. CASE Refused(file)
    BY <2>5, RefusedIsAbstract DEF Abstract!Next
  <2>6. CASE \E pid \in Pid : \E block \in Block : Write(file, pid, block)
    BY <2>6, WriteIsAbstract DEF Abstract!Next
  <2>7. CASE \E pid \in Pid : ReadHit(file, pid) \/ ReadMiss(file, pid)
    BY <2>7, ReadHitIsAbstract, ReadMissIsAbstract DEF Abstract!Next
  <2> QED
    BY <2>2, <2>3, <2>4, <2>5, <2>6, <2>7
<1> QED
    BY <1>1, <1>2

\* Reads and writes through the shared cache, over any sequence of opens,
\* closes and dropped objects, are those of a store that has no cache.
THEOREM PageFileImplementsPageStore ==
    ASSUME IOErrors = FALSE
    PROVE  Spec => ImplementsPageStore
<1>1. Spec => []CacheCoherent
    BY PageFileCacheCoherent
<1> QED
    BY <1>1, InitIsAbstract, NextIsAbstract, PageFileSized, PTL
       DEF Spec, ImplementsPageStore, Abstract!Spec
=============================================================================
