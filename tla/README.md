# A TLA+ development of Bruinbase

Bruinbase is a small SQL engine in C++ (`bruinbase/`): tables of `(int key,
string value)` rows in paged files, with a B+tree index on the key.  This
directory holds TLA+ modules that model it from the page cache up to LOAD and
SELECT, the TLC runs that check them on small instances, and theorems about them that TLAPS checks for
every value of the constants.

## 1. Inventory

The program is one thread.  It reads statements from standard input and runs
each to its end; the only things that outlive a statement are the files, and,
inside the process, the page cache and the open descriptors.

| Component | State | Operations | Uses | Hard behaviour | What makes it correct |
|---|---|---|---|---|---|
| `PageFile` | per object: `fd`, `epid`; static: `readCache`, `cacheClock` | `open`, `close`, `read`, `write`, `endPid` | the kernel | descriptor numbers are reused, objects are lost without a close, the clock wraps, kernel errors | reads return what was last written |
| B+tree nodes (`BTLeafNode`, `BTNonLeafNode`) | one page buffer | `insert`, `insertAndSplit`, `locate`, `readEntry`, `locateChildPtr`, `initializeRoot` | `PageFile` | 0xff bytes as end marker, splits of even and odd counts, the next pointer in the way of a shift | keys sorted, no entry lost or doubled |
| `BTreeIndex` | `rootPid`, `treeHeight`, the file | `open`, `close`, `insert`, `locate`, `readForward` | nodes, `PageFile` | an insert is many page writes; recursion with reference arguments; crash between two writes; scans over leaf boundaries | an ordered map, reopened as it was left |
| `RecordFile` | `erid` | `open`, `close`, `append`, `read` | `PageFile` | the end record id is rebuilt from the last page; return codes of `write` | records are where their rid says |
| `SqlEngine` LOAD | none | `load`, `parseLoadLine` | `RecordFile`, `BTreeIndex` | row first, index second; ignored return codes; loads with and without index | table and index hold the same rows |
| `SqlEngine` SELECT | none | `select`, `select_from_index`, `print_tuples`, `_preprocess_selcond`, `find_key` | both | merging of conditions, the start key, early exits | the index scan returns what the table scan would |
| SQL parser | none | generated by bison and flex | `SqlEngine` | | |
| `main`, `Makefile`, tests, data | none | | | | |

`PROJECT.json` lists these components with their status, and under `hazards`
each place of the code where something can go wrong that a test would hardly
reach, with the property that watches it.

## 2. Plan

Modules, in the order in which they are written:

1. `BTreeNode`, `BTreeIndex` over the abstract `OrderedIndex` - the core: done.
2. `PageFile` over the abstract `PageStore` - done.
3. `PageFileProofs`, `BTreeIndexProofs` - `PageFile` with its refinement; of
   `BTreeIndex` the types and the metadata page: done.
4. `RecordFile` over the abstract `RecordStore` - done.
5. `SelCond` and `SelectScan`: the merging of conditions, the start key and the
   early exits, against the meaning of the conditions - done.
6. `Database`: LOAD and SELECT over `RecordFile` and `BTreeIndex`, with errors
   and crashes between the two - done.
7. `RecordFileProofs`, `SelectScanProofs` - every property of the runs of these
   two, with the refinement of `RecordStore`: done.
8. `BTreeChainProofs` - the chain of leaves, the level of every page, and with
   them the refinement of `OrderedIndex`: done.
9. `BTreeOrderProofs` - without crashes, the way down for every key and with it
   sorted nodes, an ascending chain and where a descent lands; half-full
   nodes; what a scan returns; the agreement of tree and chain: done.
10. `DatabaseProofs` - the types, that index entries point at their rows, that
    each row is accounted for, that a SELECT prints no wrong row, and that it
    prints every row that it should: done.

Every invariant, action property and refinement that a passing run checks is
stated by a theorem; the two liveness properties are left to TLC.

How the modules fit together.  `Database` INSTANCEs `RecordFile` and
`BTreeIndex` over its own variables and EXTENDS `SelCond`; `SelectScan` puts an
ideal index under the same `SelCond`, so that many more conditions can be
tried.  `RecordFile` and `BTreeIndex` have pages that read as they were last
written and an end pid that is the number of pages: that is what `PageFile`
gives them, by `ImplementsPageStore` and `ObjectsMatchKernel`.

What no installed prover can do stays with TLC: liveness.  Induction over data
is out of their reach too, but the recursive functions of the properties (the
leaf chain, the levels of the tree, the concatenation of sequences) go by
natural numbers, and there the least number at which something would go wrong
takes its place; see section 5.

## 3. Modules

| Module | Models |
|---|---|
| `BTreeNode` | `BTreeNode.cc`: page formats and node functions, as operators from node to node |
| `BTreeIndex` | `BTreeIndex.cc`: the index file and every call of it, one step per page write |
| `OrderedIndex` | what the index promises: a set of entries that an insert adds to in one step |
| `MCBTreeIndex` | constants of the runs of `BTreeIndex` |
| `PageFile` | `PageFile.cc`: objects, descriptors, cache, clock |
| `PageStore` | what `PageFile.h` promises: sequences of pages, and no cache |
| `MCPageFile` | constants and symmetry of the runs of `PageFile` |
| `RecordFile` | `RecordFile.cc`: the table file, its end rid, appends and reads |
| `RecordStore` | what `RecordFile.h` promises: rows that are added after the others and never change |
| `MCRecordFile` | constants and symmetry of the run of `RecordFile` |
| `SelCond` | conditions: their tests by either scan, merging, the start key, as operators |
| `SelectScan` | a SELECT from its WHERE clause to its answer, by the table or by an ideal index |
| `MCSelectScan` | tables and conditions of the runs of `SelectScan` |
| `Database` | `load`, `select`, `select_from_index` and `print_tuples` over the table and the index file |
| `MCDatabase` | load files and queries of the runs of `Database` |
| `MinLemmas` | proofs about the minimum of a set, at which the loops of the code stop, and the maximum |
| `PageFileProofs` | theorems about `PageFile` |
| `BTreeIndexProofs` | theorems about `BTreeIndex`: types, the metadata page, the room in a node, lemmas about nodes and descents |
| `BTreeChainProofs` | theorems about the leaf chain of `BTreeIndex` and its refinement of `OrderedIndex` |
| `BTreeOrderProofs` | theorems about `BTreeIndex` without crashes: the order of the keys, half-full nodes, scans, the levels of the tree |
| `RecordFileProofs` | theorems about `RecordFile` |
| `DatabaseProofs` | theorems about `Database`, on top of `BTreeOrderProofs` and `SelectScanProofs` |
| `SelectScanProofs` | theorems about `SelCond` and `SelectScan` |

Definitions keep the names of the source.  Next to some definitions there are
faulty forms of them (`CloseWithoutEvict` next to `Close`): each is the
definition with one plausible mistake in it.  They are not part of the
specification; `PROJECT.json` says which property tells which one from the
code.

### BTreeNode

A leaf is `[kind, entries, next]` and a nonleaf `[kind, keys, pids]`; the bytes
in the page are gone, what they mean is kept.  In particular

- the rest of a node is 0xff bytes, so the slot after the last one reads as key
  -1 and pid -1.  The code uses -1 as its end marker, and `LeafSlot`,
  `NonLeafSlot` and `NonLeafPut` treat a stored key -1 (`EndKey`) as the code
  does;
- `_insert` shifts the rest of the page and with it the next pointer away:
  `insert` restores it (`LeafInsert`), `insertAndSplit` gives it to the sibling
  (`UpperHalf`) and leaves the node without (`LowerHalf`) until the caller
  sets it;
- `NonLeafKeyCount` counts pids, as `getKeyCount` does, so a nonleaf without
  keys counts as empty and has its pid overwritten.  `NonLeafCapacity` excludes
  the capacity of one, for which a split would produce such a node.

### BTreeIndex

`disk` is the index file, a sequence of pages.  `rootPid` and `treeHeight` are
the members of the object; `pc`, `ins`, `path`, `splitkey`, `splitpid` and
`newPid` are the running call: `path` is the stack of `_insert` frames, and the
split variables are its reference arguments.  `cursor`, `scanKey` and `scanned`
are a scan; `acked`, `tried` and `crashes` are history.

| Code | Actions |
|---|---|
| `open`, `close` | `Open`, `Close` |
| `insert`, on an empty file | `FirstInsert`, `FetchFirstRoot`, `CommitFirst` (`fetch_new_page` twice, `commit_metadata`) |
| `insert`, otherwise | `Insert` |
| `_insert` down | `Descend` for each level, `OverflowInInsert` when no depth can meet the height |
| `_insert` at a leaf | `InsertInLeaf`, or `FetchLeafSibling`, `WriteLeafSibling`, `WriteLeaf` |
| `_insert` up | `InsertInNonLeaf`, or `FetchNonLeafSibling`, `WriteNonLeafSibling`, `WriteNonLeaf` |
| root split | `FetchNewRoot`, `WriteNewRoot`, `CommitRoot` |
| `locate`, `readForward` | `Locate`, `ReadForward`, `OverflowInLocate` |
| the process dies | `Crash` |

Every page write is the end of a step, so a crash can fall between any two of
them; what was written before it is in the file.  A page write is atomic and
writes reach the file in order, which is what the kernel gives to a process
that is killed (not to a machine that loses power).

What the callers do is part of the model: a load opens the index 'w' and
inserts keys that are not in the table (duplicates are outside of the
contract, `test-script/output.txt`: "no duplicate is allowed"); a select opens
it 'r', locates, and calls `readForward` until `RecordFile::read` rejects the
rid.  A rid that is left over from before (`LeftOver`) or never set is a
choice.

`ImplementsOrderedIndex` maps the leaf chain to the abstract set of entries: of
all the writes of an insert exactly one adds its entry, and a crash before it
leaves the set as it was.

`NodesFit` is about the page format: a node with one entry more than the maximum (70 of
the 85 slots of a page) would never equal the maximum again and never split, and it would
grow until an insert writes over its next pointer.  `ScanExact` says what a scan that
started on a row, or below all rows, has returned (`ReturnedFrom`) when it ends.
`ScanReachesAll` says the same of every start key for which `locate` gives an eid of a
slot, used or not, and is violated: a scan that starts at an unused slot ends there.  For
the other start keys the eid is past the slots, and the first `readForward` returns a
rid that it has not set.

### PageFile

`disk` holds the pages of each file, `kernel` what each descriptor number
refers to, `object` the `fd` and `epid` of the object on each file.  The cache
is `readCache` and `cacheClock`.  `reply` is the return code of the last call,
and the page it returned.

| Code | Actions |
|---|---|
| `open` | `Open` (the lowest free number), `OpenFails` |
| `close` | `Close`: evicts the slots of its number |
| an object that goes out of scope open (`SqlEngine::print_tuples`) | `Drop` |
| `write` | `Write`, `WriteSeekFails` (the offset overflows; returns 1), `WriteFails` |
| `read` | `ReadInvalid`, `ReadHit`, `ReadMiss`, `ReadFails` |

The clock has the width of an `int`: `Tick` goes from `CLOCK_MAX` to
`-CLOCK_MAX - 1` (signed overflow, as the build's two's-complement arithmetic
does it), so it passes through 0, which marks a slot empty.  There is at most
one object on a file at a time, and callers write pages up to the end pid, as
all callers in `bruinbase/` do.

### RecordFile

`disk` is the table file: pages with a record count and slots.  `erid` is the
member of the object, `mode` how it is open; `reply` and `appended` are history:
the last call with its return code, and the rows whose append returned 0.

| Code | Actions |
|---|---|
| `open` | `Open` (`EndRid` is rebuilt from the last page), `OpenFails` |
| `close`, an object that goes away, a process that is killed | `Close` |
| `append` | `AppendRecord`, `AppendPastSeekLimit` (`PageFile::write` returns 1, which is not `< 0`), `AppendInvalidPid`, `AppendFails` |
| `append`, killed after its write | `AppendCutOff` |
| `read` | `Read`, `ReadInvalid`, `ReadFails` |

A record is its key and value; `Truncated` is the cut of `writeSlot` and
`readSlot` to `MAX_VALUE_LENGTH - 1` characters.  After an error of the kernel
`mode` is "failed" and no call follows but the close, as in `SqlEngine.cc`.

`ImplementsRecordStore` maps the slots below the count of each page to the set
of rows.  An append past the seek limit returns 0 and stores nothing;
`HonestReply` maps it to the failed call that it is, and `AppendedReadable` and
`ScanReadsRows` speak of the pages below the limit.

### SelCond and SelectScan

`SelCond` has the code's operators on conditions: `Merge` is
`_preprocess_selcond`, `StartKey` is `find_key`, `Verdict` the `switch` of
`print_tuples` with its `goto out` and `goto nextIter`, and `TableAnswers` the
one of `select`.  Texts are numbered in the order of `strcmp`; `Atoi` is a
function from texts to ints.  Ints have the width that `INT_MAX` gives them, and
`Wrap` is what the arithmetic of the code does past it.  The `intValue` of a
condition on the value is never set by the code: `Junk`.

`SelectScan` runs one SELECT after another: `AddCondition` collects the WHERE
clause, `MergeNext`, `Locate` and `ReadByIndex` are the way by the index,
`ReadTable` the one by the table.  The index is the rows in the order of their
keys; how the real one differs is in `BTreeIndex` and `Database`.

The code does not return the rows that satisfy all conditions in every case;
where it does not is spelled out as `Replaces`, `Swallows`, `Overflows`,
`StartsTooLow` and `StartsTooHigh`, and `PrintsOnlyMatches`, `PrintsAllMatches`
and `MergedAsTight` say that in all other cases it does.

### Database

`stmt` is the point the running statement has reached; everything else is the
state of the two files (`Table!...`, `Index!...`), the local variables of `load`
and `select` that outlive a call (`value`, `query`, `rid`), and history
(`answer`, `skipped`).  A SELECT ends as `"selected"` or `"unopened"` when `select` returns 0,
and as `"failed"` when it does not; `"unopened"` is a SELECT by the index that could not open its
table, which `select_from_index` does not report.  `leaked` counts the descriptors of objects that went away
without a close; `FdLimit` bounds those of the process.

| Code | Actions |
|---|---|
| `load` | `LoadOpensTable`, `LoadFindsNoTable`, `LoadOpensIndex`, `LoadIgnoresOpen`, `LoadLine`, `LoadInserts`, `LoadContinuesInsert`, `LoadFails`, `LoadReturnsError`, `EndLoad` |
| `select`, `select_from_index`, `print_tuples` | `SelectOpensIndex`, `PrintTuplesOpens`, `PrintTuplesFindsNoTable`, `PrintTuplesLocates`, `PrintTuplesLocatesNone`, `FetchTuple`, `PrintTuplesEnds` |
| `select` by the table | `SelectOpensTable`, `ScanTuple`, `ScanFails`, `EndScan` |
| the prompt, the end of the process | `Prompt`, `Quit`, `Crash`, `StackOverflows` |

An insert into the index takes all the steps that `BTreeIndex` gives it, so a
crash may leave the row in the table and any prefix of the page writes in the
index.  `skipped` are the keys of rows that no insert put into the index: loaded
without `WITH INDEX`, loaded while the index could not be opened, cut off by a
crash.  `EachRowAccounted` says that the table is the index, the row on its
way, and these, with none in two of them.  Reads and writes of the table may fail;
of the index only `open` does.

## 4. Runs

All runs check for deadlock.

| Run | Bounds | Shows |
|---|---|---|
| `BTreeGrow` | nodes of 2, keys 1..8, every insertion order | three levels; splits of leaves, inner nodes, roots; order and agreement of nodes, chain and tree |
| `BTreeWide` | nodes of 3, keys 1..9, probes 0..10, `FairSpec` | uneven halves, half-full nodes; scans that start on a row or below all rows; every insert returns |
| `BTreeCrash` | nodes of 2, keys 1..6, one crash | what a crash leaves, on the chain and on the metadata page; no node has more keys than its page holds; refinement of `OrderedIndex` |
| `BTreeGapScan` | nodes of 2, five even keys, probes 0..10 | **violated**: a scan from between two leaves ends at the unused slot that it starts at, and the second leaf is unread |
| `PageFileShared` | 2 files of 2 pages, 2 descriptors, 1 slot, clock -3..2 | reuse of descriptor numbers, eviction, clock wrap; types; refinement of `PageStore` |
| `PageFileFaults` | 2 files, 3 descriptors, 2 slots, any read or write may fail | tags of the cache with a choice of victims, sizes of objects |
| `PageFileReadError` | 1 file, reads may fail | **violated**: the read after a failed one |
| `RecordFile` | pages of 2 records, 3 pages of which the third is past the seek limit, 2 keys, a short and a long value, errors and kills | acknowledged records, the rebuilt end rid, reads out of range; refinement of `RecordStore` |
| `SelectScan` | 3-bit ints, 4 or 6 rows, up to 3 of 30 conditions | merging, start key and early exits keep the meaning of the conditions |
| `SelectReplaced` | two EQ conditions on the key | **violated**: `key = 1 AND key = 2` prints a row |
| `DbFaults` | 4 rows, pages and nodes of 2, 4 descriptors, one crash, any read or write of the table may fail, a line without a comma | index entries point at their rows, no row is lost from the account, no wrong row is printed |
| `DbSelect` | 4 rows, pages and nodes of 2, 5 descriptors, `FairSpec` | both ways of a SELECT that opens its table print each matching row once; every statement ends |

Why the bounds are enough to be interesting.  With two keys to a node the tree
has three levels after seven ascending keys and an inner node splits below
a root; with three keys both parities of a split occur.  Eight keys in every
order put a split at each position of a parent.  Every subset of the keys is a
tree of the run, so the probes of `BTreeWide` fall on rows, between them, and
on the borders of leaves.  One crash reaches every half-done insert, and the
inserts after it work on what it left.  In `PageFile`, two descriptor numbers
and two files are the least with which a number can pass from one file to the
other; four pages for one slot make most misses an eviction of a page
that is read again; three pages for two slots are the least with which a victim
is chosen; a clock of six values wraps, passes 0 and marks slots as older than
they are.  Two pages of two records have a full last page, a partly filled one
and a boundary between them, and the third is the first that cannot be sought.
Three conditions are the least with which two are merged around a third, and
the 3-bit ints have pairs whose difference overflows.  Four rows make an index
of two levels and up to three leaves.  `MaxDepth` bounds the recursion that
never ends: no tree of the runs is that deep.  `Key`, `Block`, `File`, `MaxPages`
and `MaxConds` bound everything else.

### Known divergences

The properties of the three runs marked **violated** are statements of the
repository's own headers that the code does not keep; `findings` in
`PROJECT.json` quotes them.  The passing runs and the theorems say what holds
around them:

- A scan from above all keys of a leaf with a free slot ends at once
  (`BTreeNode.cc:249`, run `BTreeGapScan`): `ScanExact` and `SelectExact` are
  stated for start keys on a row or below all rows.
- A read that fails leaves the tag of its page on the cache slot (`PageFile.cc:164`, run
  `PageFileReadError`): `CacheCoherent` and `ImplementsPageStore` are for kernels that
  fail no read, `PageInOneSlot`, `CachedFdsInUse` and `ObjectsMatchKernel` for all.
- A second EQ or NE condition on the key replaces the first (`SqlEngine.cc:64`, run
  `SelectReplaced`): `Replaces` is one of the exceptions of the properties of `SelectScan`.

The models have these divergences too, and the properties are stated around them:

- A row with the key -1 is taken for the end of its leaf by the next insert, which puts
  larger keys before it (`BTreeNode.cc:87`), so `NodesSorted` is checked without that
  key, and the theorems about the leaf chain assume that it is no key.
- A scan from above all keys of a full leaf reads a row at a RecordId that nothing has
  set, which may be a row that it prints again (`BTreeIndex.cc:299`).  `ScanExact` and
  `SelectExact` leave it out by their start keys, `ScanReachesAll` by `StartsOnSlot`.
- A SELECT by the index that cannot open its table prints nothing and returns 0,
  as `select_from_index` drops the return code of `print_tuples`
  (`SqlEngine.cc:270`).  It takes no error of the kernel: after two SELECTs by the
  index, each of which leaks a descriptor (`SqlEngine.cc:133`), a process that may
  have three has none left for the table of the next.  `SelectExact` is stated for
  SELECTs that have opened their table; the others end as `"unopened"`.
- Past the seek limit, 2^21 pages, `append` returns 0 and a rid for a record that
  it has not written (`PageFile.cc:107`, `RecordFile.cc:209`).
- A condition on the key that follows one on the value with the same comparator
  is merged into it and lost (`SqlEngine.cc:44`).
- A GT bound below a GE bound makes the index scan start at the lower one, where
  the GE condition ends it at once (`SqlEngine.cc:110`); without a lower bound
  it starts at 0, above negative keys (`:263`).
- The table scan compares by the sign of a difference that may overflow
  (`SqlEngine.cc:313`).
- Each SELECT by the index leaks a descriptor (`SqlEngine.cc:133`).  When in the end
  only the index cannot be opened any more, LOAD WITH INDEX loads the rows into the
  table alone and returns 0 (`:399`).
- In the same way `print_tuples` fails with an open table when the index has no entry to
  start from, and SELECT returns 0.  Without a crash that is so only if the index has no
  entry, and if every row is in the index the empty answer is right.
- A read error of the table ends a SELECT by the index like the end of the
  index, with a return code of 0 (`SqlEngine.cc:147`): `SelectExact` is
  checked without errors.
- A line without a comma is loaded with the value of the line before it
  (`SqlEngine.cc:404`).

### Fairness

`FairSpec` assumes weak fairness of the steps of a running call: the program is
one thread that does not wait for anything inside a call.  No fairness is
assumed of calls, opens, closes or crashes.  `Database` has the same for
`EngineStep`, the steps of a running statement; no statement has to be typed.
`StatementsEnd` is checked without kernel errors, as a fair step may also be one
that fails, and a statement must not owe its end to a failure.

## 5. Proofs

`PageFileProofs` holds for any sets of files, descriptors and blocks, any cache
size, seek limit and clock width.  It goes in three layers, each an inductive
invariant relative to the one before:

1. `Sized` - the types, and `ObjectsMatchKernel`: each open object has a
   descriptor of its own that refers to its file, and its end pid is the number
   of pages.  The two need each other: the type of `disk` after a write comes
   from the end pid, and the end pid from the length of the file.
2. `Tagged` - `PageInOneSlot` and `CachedFdsInUse`: a miss tags a slot only
   if no slot has the tag, and only `close` frees a number, after evicting it.
   These hold when reads fail and when the clock wraps.
3. `CacheCoherent` - if the kernel fails no read.  `CachedFdsInUse` covers
   `open` (the number it gets has nothing in the cache), `PageInOneSlot` covers
   `write` (it stops at the first match), `ObjectsMatchKernel` covers `read`
   (no other object has the number).  With it every step is a step of
   `PageStore`, so `Spec => ImplementsPageStore`.

The hypothesis `IOErrors = FALSE` of the third layer is needed:
`PageFileReadError` is the counterexample without it.

`BTreeIndexProofs` holds for any node capacities that `BTreeNode` assumes, any
keys (the end key -1 included), records and probes, and any number of crashes:

1. Lemmas about the nodes: an insertion puts its entry at the slot the scan
   stops at and shifts the rest by one; both halves of a split are nodes again,
   the upper one with an entry (leaf) or a pid more than keys (nonleaf).
2. `Typed` - the types, and `Running`, what the calls rely on between their
   steps.  `TypeOK` alone is not inductive.  An upper half is well-formed only
   if the node that is split is full, which `FetchNonLeafSibling` checked one
   step earlier and no page write has changed since.  An acknowledged entry is
   an entry only if an insert is running.  And no pointer refers to page 0 only
   if no node is ever put there, that is, if the first page of a file is
   fetched exactly when the height is 0.
3. `MetadataKept` - at every step but those before a call of
   `commit_metadata`, page 0 holds the root and the height of the object.  The
   writes of nodes leave page 0 alone because of the types of step 2; `Open`
   takes over what it finds, and what a crash leaves is the metadata of the
   last root or a 0xff page with height -1, from which nothing is written.
4. `NodesFit` - no node has more keys than its page holds, crashes included: an
   insert splits a full node, both halves of a split fit, and nothing else builds a
   node.  The scan below needs it too: `readEntry` tests the eid against the
   capacity before it looks for the end of the entries.

`BTreeChainProofs` goes on from there, for keys other than -1 (hypothesis
`EndKey \notin Key` of each theorem; everything else as before, crashes
included).  Its invariant is `Chained`: `Typed`, and there are a sequence `c` of
pages and levels `lev[p]` of some pages with `Linked(c, lev)`:

- `Chain`: `c` has each of its pages once, starts at page 1, the first leaf, and
  each page's next pointer is the following page of `c`.  A new sibling is not
  in `c` until its left neighbour is written (`WriteLeaf`).
- `Levels`: the leaves with a level 0 are the pages of `c`, and every pointer of a
  page of level `l > 0` goes to a page of level `l - 1`.  Pages without a
  level (a sibling that has been fetched but not linked, or one that a crash has
  left so) may hold anything.  Hence a crash disturbs nothing.
- `MetaLevel`, `RootLevel`: the root has the level that the height says, in the
  object and on the metadata page that the next `open` will read.
- `FrameLevels`: the frames of `_insert` on `path` work one level below each
  other, and a split hands up a page of the level below.  This is why a
  descent reads each page as the kind it is, and why a sibling can be hung into
  its parent.
- `Accounted`: the acknowledged entries, and that of the running insert once its
  write has been made, are on the pages of `c`.

Levels are needed although no property speaks of them: that a leaf is never
reached by a nonleaf's pointer as a nonleaf (and so is never overwritten as one)
is a fact about all ways down, and the level of a page is what makes it a fact
about each pointer.  With the key -1 the levels are lost: `NonLeafPut` overwrites a
pointer there.

`Next` keeps `Linked` with the same `c`, or with one page put into `c` behind
the leaf that is split; `NextLinked` says which, by `Kin`.  For the refinement,
the chain that `BTreeIndex` defines (a recursive function: the page at
each place is the next pointer of the one before) is shown to be `c`: if it were not, there would be
a first place at which the two differ, and one unfolding of the definition
refutes it.  That takes the place of an induction.  Then each page write adds no
entry to the entries of `c` but the one that puts the entry of the running insert
into a leaf or, when it splits, links the sibling: `Spec => ImplementsOrderedIndex`.

`BTreeOrderProofs` adds the order of keys, for any capacities, keys other than -1 and
records, as long as no crash has happened: each theorem is
`Spec => [](crashes = 0 => P)`.  The hypothesis is needed: a crash
between the writes of a split and of the parent leaves a page that is on the chain and
has no pointer to it.  A later key of that page's range goes to the leaf before it, and the
chain no longer ascends.  The invariant, `Ordered`, says that nodes are sorted and that there are
levels `lvl[p]` and ranges `rng[p]`, sets of integers, with `Ranged(lvl, rng)`:

- `PageRange`: a nonleaf hands each key of its range to one of its pointers, the one
  at which `locateChildPtr` stops, and a page's range is what its parent hands
  it; a leaf has entries in its range only, and the range of its next leaf is above
  its own.
- `Rooted`: the range of the root is all integers.
- `OnPath`: the key that a frame of `_insert` works for is in the range of each node
  on `path`.
- `SplitOff`: while a split is on its way up, the new page has a range but no pointer. Its
  keys are *late* (`IsLate`): its parent still hands them to the page that was
  split, and they are left out of that page's range.  So the ranges on a level are
  disjoint at every moment, and what is said about each page stays true between the
  writes of one insert.

A split cuts a range in two at the sibling's first key or at the middle key
(`Cuts`, one lemma for leaves and nonleaves), and the write of the parent gives the
late keys their pointer.  `NodesSorted` is needed next to the ranges, and the ranges
for it: only a key in the range of a node is put there, and in a sorted
node the place where the scan stops is the only one that fits.  `ChainAscending` is a statement about the concatenation of
all leaves: the ranges of two leaves, one before the other, are ordered, and `FlattenInOrder` says that what
is in order piece by piece is in order as a whole.  `DescentLandsRight` follows since the
leaf where a descent ends has the key in its range.

`BTreeIndexHalfFull` has an invariant of its own, `Halves`: the only node that may be
less than half full is the root, and as soon as the root was split, before
the new one is written, it is half full as well.

`BTreeIndexScanExact` needs all of this, and two invariants more.  `Listed` is the other
half of `Accounted`: the leaves hold no entry but the acknowledged ones and that of the
running insert, so that between two inserts they hold exactly the
acknowledged ones (`BTreeIndexNothingElse`).  `ReadRight` is about the running scan:
the cursor faces the next entry to be returned or is behind the last one, and
`scanned` is, in order, what it has passed since the search key.  `LocateFaces` and
`ForwardFaces` are its two steps.  `locate` ends in the leaf with the search key in its
range; if the key is there, or below all, the entry it stops at is the
first that is not smaller.  `readForward` goes on to the next slot, or to the first of the next leaf,
which is there because leaves that are not the only one are not empty (`Halves`),
and whose keys are larger because the ranges are in order.

`BTreeIndexTreeAndChainAgree` needs of the invariant that every page of the file is
in the tree or is the one that a running split has fetched (`Covered`).  A `Row` is a
sequence of pages of one level, in the order of their ranges, that has every key.
There is one such sequence for a level (`RowUnique`), and it has every page of the
level, as ranges are disjoint and not empty.  The root alone is one; the
pointers of the pages of one are the next (`RowBelow`, from `NodeRange` and a lemma on
the concatenation of ordered sequences, `FlattenInOrder`); and the chain is one
(`ChainRow`).  So the last level is the chain, and the levels together list each page of the
file once.

`RecordFileProofs` holds for any records, page sizes and seek limits, with errors and
kills.  `FileInv` is: the types; `PagesFilled`, each page but the last
has `RECORDS_PER_PAGE` records; `EndKnown`, the end rid of an open file is the
first slot behind the last record, unless the file has reached the seek limit and
appends behind it were acknowledged without a write; and `RepliesTrue`, that acknowledged
records below the limit are in their slots and that a read returned a row.  With `PagesFilled` the rebuilt
end rid (`EndRid`) is the one that was lost, and a scan from the first rid to the end
rid meets all rows and nothing else.  Each step is then one of `RecordStore`:
`Spec => ImplementsRecordStore`.

`SelectScanProofs` holds for any rows, conditions and width of the ints.
`ScanInv` relates the merged conditions to those of the query while
they are merged one after another: each comes from the query (`FromQuery`), each
of the query's is as weak as a merged one (`Covered`), no two on the
key have the same comparator (`OnePerComp`); and, while rows are read, that the
position is reached from the start key (`FromStart`) and that every row before it that
satisfies all conditions was printed (`NoneSkipped`).  Each of the named exceptions
is where one of these conjuncts would break; no other is needed.

`DatabaseProofs` holds for any page sizes and node capacities, lines, queries, number of
descriptors and crashes, with errors of the table (its reads and writes, and the opens of both
files; an open index file is taken to be readable and writable).  It takes `BTreeOrderProofs` and `BTreeChainProofs` for the
index file of `Database` (`B`), and its first lemmas (`Same...`) say, operator by
operator, that the instance `Index` is the `BTreeIndex` of those theorems.  Hence each
call that `Database` makes keeps `Chained`, and the refinement of `OrderedIndex`
says what the call adds to the chain: nothing, or the entry of the insert.  The table
gets the same treatment, with the lemmas of `RecordFile` proved for the files that
`Database` has, all of whose pages are below the seek limit.  The invariant `DbInv` is
these two, and

- `Phases`: which file is open in which mode at each point of a statement.  This is
  why a call of a running statement finds its file open, and why no insert is
  half done when a row is appended;
- `OwnTypes`: the types, and that the free descriptors are not fewer than 0;
- `Pointing`: there is a row with the entry's key at the rid of each entry that is
  on the chain or on its way (`InFlight`).  The row is there first, and rows never
  change, so it holds through a crash anywhere;
- `Accounting`: `EachRowAccounted`, and that a key on its way is not also on the chain with
  another rid.  The guard of `LoadLine` (keys are unique) starts it, and a crash
  turns a key on its way into a skipped one.

`DatabaseAnswersMatch` goes on with `Answering`, that each printed row is one of the
table and satisfies the query, and that none is printed before the scan begins.  Its hypothesis
`KeptQueries` is the part of the known divergences that can print a wrong row: no
condition on the key follows one with the same comparator on the value, or, for EQ and NE,
with another number; and no difference of a key and a number overflows.  The queries of `DbFaults`
and `DbSelect` meet it.  The other hypothesis, `InstanceConstants`, is what `RecordFile` and `BTreeIndex`, of
which `Database` has instances, assume of their constants, and that -1 is no key.

`DatabaseTableScanExact` and `DatabaseSelectExact` are about completeness: after a
SELECT that has opened its table and returned 0 each matching row has been printed once.  Two rows never have the same key
(`UniqueKeys`), so "once" is a matter of rows.  By the table, `ByTable` says that the rows that have been
judged are those before `rid` (`Printed`), and `select` stops at nothing before the end rid; this needs
`KeptQueries` only, and holds with errors of the table and crashes in earlier statements.  By the
index, `ByIndex` says the same of the entries that the cursor has passed, which are at least those below the
start key.  It takes from `BTreeOrderProofs` how the cursor moves (`IdxInv` is its invariant for
the index file of `Database`), from `Pointing` that the rid of an entry is that of the row with its key, and from
an instance of `SelectScanProofs` (`Scan`) what the verdict on a row means for the rows behind it: the scan
leaves out a row, or stops, only where no row so passed can match.  At the end every row of the table has been
passed because no key was skipped; and if `locate` fails there is no row at all, as the leaf where it ends
is the only one (`LocateFindsNone`, `NoneByIndex`).  What `SelectExact` excludes, and the
hypotheses of the theorem, are the other known divergences: `StartsOnRow` (the rid that
nothing has set), `StartsRight` (`StartsTooLow` and `StartsTooHigh` of `SelectScan`), the
SELECT that could not open its table, and `IOErrors = FALSE` (a read error of the table ends the scan by the index with a return code of 0).  The
queries of `DbSelect` meet them.

`MinLemmas` proves that the minimum at which each scan of the code stops
exists, and what a stop at it means for the elements before it.

Only model-checked: liveness, `InsertReturns` and `StatementsEnd`.  They rest on the
fairness of the steps of a call and on its steps being enabled, and TLAPS does not reason about
`ENABLED`.

## 6. Not modelled

- The constructor of `RecordFile` that opens a file: nothing calls it.
- Which columns a SELECT prints; `count(*)` counts the rows of `answer`.
- `printTree`, `printBuffer`: debug output.
- The grammar of the parser, syntax errors, `main`: no state between statements.
  The statements and conditions that the parser hands to the engine are actions
  of `SelectScan` and `Database`.
- Short reads and writes, errors of `fstat` and `close`, power failures, pages
  that are written in part.
- Page writes of the index that fail, and reads of pages inside its file that fail:
  `_insert` and `_locate` ignore their return codes (`BTreeIndex.cc:148`, `:163`, `:234`,
  `:244`), so a failed read leaves a node of 0xff bytes that an insert then writes
  back.  No document says what the index owes then.  Every property of `BTreeIndex` and
  of `Database` is about index files whose pages can be read and written.
- The page counters of `PageFile`.
