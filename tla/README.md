# A verification project for flexse

flexse is a search engine with a real-time inverted index. A message queue (`ciqueue`) feeds it
documents; the engine keeps an inverted index in memory and on disk and answers term queries.
This directory holds TLA+ models of the engine and of its queue, the TLC runs that check them and the theorems that
TLAPS proves about them. `PROJECT.json` maps every definition to the source lines it models.

## 1. The system

    writer -> queue files -> sender --TCP--> update_thread -> index_group <- day / history merger
              (filelinkblock) (send_message)      |               ^
                                                  v               |
                                     idmap, bitmaps, attributes   query threads (equeue)

| part | state it keeps | operations | what makes it correct |
|---|---|---|---|
| `index_group` | layers MEM0, MEM1, DAY, DAY2, HIS; files `day/cur`, `his/cur`, `check_point`; flags | insert, swap, dump to day, merge to history, query, restart | a query sees every acknowledged message, in descending order of id, once; the check point never covers what is not on disk; dumps happen |
| `disk_indexer`, `fileblock`, `diskv` | first- and second-level index files, readonly flag | sequential write, `set_finish`, lookup, clear, reopen | finds what was written; recognises half-written files |
| `mem_indexer`, `postinglist`, `memblocks` | hash of linked blocks, block pool | set, get, merge of links | readers see whole lists while the writer merges links; the pool is not overdrawn |
| `update_thread` | position, `need_roll_back` | apply / refuse / drop a message, ask for roll-back | messages applied in order, without a gap |
| sender | read position, offset file, socket | read, send, retry, roll back | every message is delivered; the offset is never ahead |
| `filelinkblock` | queue files, block ids | append, switch file, seek, repair | readers get every message, also across a file switch or a torn write |
| `idmap`, bitmaps, attributes | outer id -> inner id, mod/del bits, cells | add, del, undel | one live inner id per document |
| `equeue`, service threads | epoll set, queue of sockets | event, fetch, free | one thread per socket, none lost |
| `connectmanager` | sockets per server, health | get, free, ping, drop | no socket handed out twice or used after close |
| `algo`, `structmask` | none | filter, rank, or-merge, weight-merge, partial sort; bit fields of a posting | equals its definition |
| `flexse_plugin`, `query_thread` | none between calls | document to postings; query to answer | postings and answers are those of the documents |
| jsoncpp (vendored) | a value | build, write, parse | what is written is what is read; every text is read to its end |

The parts interact through shared memory guarded by `m_mutex` / `m_list_rwlock` (index group), through
plain bools between the two mergers, through TCP between sender and update thread, and through files
that outlive the processes (`cur`, `check_point`, the idmap, the offset file).

Hard behaviours: a condition variable shared by two waiters with different predicates; a timed wait
that expires while the state changes; flags read without a lock; a death between any two file writes;
retries after lost or late answers; replay from a check point; readers without a lock next to a writer; left-overs of
an earlier request in a buffer and in errno; limits of widths, files and pools. `PROJECT.json` lists them, with lines, as hazards.

## 2. Modules

| module | what it is | composed with |
|---|---|---|
| `IndexGroup` | `index_group` with the update thread, both mergers, the files and the death of the process | implements `PostingStore` |
| `PostingStore` | abstract: what a caller of the index group may rely on during one life of the process | |
| `IndexGroupProofs` | the theorems about `IndexGroup`, the refinement of `PostingStore` last | |
| `Delivery` | sender, TCP, `update_thread`, deaths of both processes | implements `Feed` |
| `Feed` | abstract: the engine is fed in order and without gaps | |
| `DeliveryProofs` | the theorems about `Delivery`, the refinement of `Feed` included | |
| `MessageQueue` | the queue files between the queue server and the sender | |
| `MessageQueueProofs` | the theorems about `MessageQueue` | |
| `DocStore` | id map, bitmaps, attributes; update thread, queries, deaths and replay | |
| `DocStoreProofs` | the theorems about `DocStore` | |
| `MemBlocks`, `PostingList` | the block pool; the posting lists in memory, a writer and a reader | `PostingList` extends `MemBlocks` |
| `PostingListProofs` | the theorems about both | |
| `DiskBlocks`, `DiskIndexer` | `fileblock` and `diskv`; the index on disk | `DiskIndexer` extends `DiskBlocks` |
| `DiskIndexerProofs` | the theorems about both | |
| `Service` | `equeue`, the worker threads of both servers, the framing, `ServiceApp` | |
| `ServiceProofs` | the theorems about `Service`: the event queue, then the requests | |
| `ConnectMap` | the connection manager | |
| `ConnectMapProofs` | the theorems about `ConnectMap` | |
| `StructMask`, `Plugin`, `Algo`, `Search` | bit fields; document to postings; the algorithms; from a document to the answer with it | `Search` extends the other three |
| `Json` | jsoncpp as the programs use it | |
| `MC...` | constants for the runs | |

### IndexGroup

An index is a set of postings `<<term, id>>`; a message is its number in the queue. One action is one
critical section or one file operation:

* update thread: `UpdBegin` (a message arrives, `add` allocates an inner id), `UpdTerm` (one round of the
  loop in `set_posting_list`; the answer OK / NEARLY_FULL / FULL is free), `UpdEnd`, and `swap_mem_indexer`
  split into test, sleep, wake and swap, because the day merger resets MEM1 and signals without `m_mutex`;
* day merger: `DayEnter`, `DayTimeout`, `DayExpired` (the timed wait; the deadline and the return
  from it are two steps, since the mutex must be had first), `DayChoose`, `DayTear`/`DayFinish` (`set_finish`
  writes several records), `DayCut`/`DaySetCur` (truncate, then write `cur`), `DayCheckPoint`, `DayInstall`;
* history merger: the same pattern, `HisBegin` to `HisInstall`;
* `Crash`, `Suicide` (the assertion in `_swap_mem_indexer`), `QueryThrows` (a query of a broken index), `Restart`
  (the constructors, and `update_thread` resuming at the check point).

A query takes `m_list_rwlock` for reading, so it sees one state: the set `Visible`, and the order of the
layers, are state functions and not actions. `slow` and `lowPeak` stand for elapsed time and hour of day and are free.
A memory index inserts a posting in one step and a disk index is a set of postings with a state; what is inside them is the
subject of `PostingList` and `DiskIndexer`. A query reads whole lists (the buffer is large enough).

### Delivery

A message is its rank in the queue; block 0 of a file is the position behind the last message of the
file before. A connection carries at most one request. `Fail` happens when the connection is
dead, when the request was taken without an answer, or - only with `Early` - while the engine is still
working (`recv_toms` is 1000 ms in the shipped configuration, while an update can wait for a merge).
`Answer` into a connection the sender has closed may succeed or fail; the answer is lost in both cases.
`Refused` messages are those `update_thread` breaks on. The check point moves as `IndexGroup` moves it: to
some message the index was given. Killing the engine keeps what the check point covers; that this is so is
`Durable` of `IndexGroup`. A status other than OK and ROLL_BACK is never sent by `update_thread`. The
files of the queue, the repair of a torn one and the reader inside a file are in `MessageQueue`.

### MessageQueue

A file is a sequence of cells, a block a head cell and its body cells; a cell names the call of `write_message` it comes from,
so that a check sum holds exactly for a block whose cells are all of one call. The writer takes the mutex and goes to a new file
if needed (`BeginWrite`), writes cell by cell (`WriteCell`), and releases (`EndWrite`). `WriterDies` may come between any two
cells, `Repair` is `check_and_repaire`. The reader polls (`Idle`), leaves a file (`LeaveFile`), reads a head and a body
(`ReadHead`, `ReadBody`, `Return`), or dies of an assertion (`DieAtHead`, `DieAtId`); `ReaderRestart`, `RollBack`
and `Resume` are its seeks.

### DocStore

A message is its number and the value of an attribute is the number of the message that set it. `add` is split at every write
to a mapped file: `SetAttrs`, `SaveCur`, `MapDoc`, `SetMod`, `CopyCell`, `Post`; DELETE and RESTORE set one bit per step (`SetDelBit`).
`Persist` is a dump with its check point; `Death` keeps the mapped files and the postings on disk, and the messages behind the
check point are received again. A query merges (`Merge`) and filters id by id (`Filter`) in between.

### PostingList, MemBlocks

A chain of links per term, filled backwards. `set` is split where a reader can look: data, then `used_size` (`CopyData`, `CopyUsed`), the
write lock, merging in rounds (`Merge`), a new link (`AddLink`), a new head (`AddHead`). `get` is split at every read of `used_size`, since
the build does not optimise: `GetCall` (the bucket, before the lock), `GetLock`, `GetOffset`, `GetCompare`, `GetCopy`. The dump sorts the heads and
iterates, `clear` returns the blocks. `MemBlocks` has the stacks of free blocks and malloc for what the pool does not have.

### DiskIndexer, DiskBlocks

A build clears (`ClearBegin`, `ClearEnd`), sets ascending terms (`SetList`) and writes the second-level index in two steps
(`FinishBegin`, `FinishWrite`); `Restart` is a death and the constructor. `Lookup` finds the milestone, reads the block from the cache or the
files and searches it with the comparison of the code, whose sign is wrong for signatures half the range apart. Signatures have `Bits` bits instead of 64;
`file_no` has `FileBits` instead of 5.

### Service

Clients connect, send a head in one or two pieces and a body, read the answer, and hang up at any time. The main thread takes a batch of events
(`EpollWait`) and handles them one by one: `Accept`, `CloseHup`, `Push`. A worker sleeps or fetches (`Fetch`), receives (`RecvHead`, `RecvHalf`,
`RecvJunk`, `RecvBody`), calls `ServiceApp`, sends, and arms or closes the descriptor. The buffer keeps the head and the body of earlier requests
and errno keeps EAGAIN, as in the code. A closed descriptor may be given to the next client. A request is a message, empty or too big. A text is free:
`Handle` queues it, refuses it, or the process dies of it, since it may be JSON but no object or as long as the buffer (section 6).

### ConnectMap

The servers of the configuration (`Configured`), their cells with sockets, counts and health. A fetch goes to the server chosen first, then by
luck to the others (`Fetch`, `First`, `Lucky`); `FreeSocket` with or without an error; `DelServer`, `AddServer`; `CheckDead` closes idle servers on the way. The peer may
spoil any socket, time passes with `Tick`.

### StructMask, Plugin, Algo, Search

A word is the set of its 1 bits, so that the macros keep their shape. `Plugin` has `add` per field, `Algo` one operator per function. `Search` puts
them in order: `AddBegin`, `AddNext` (one field), `AddDone`; `QueryBegin`, `GetTerms`, `GetFilt`, `Merge`, `Live`, `Copy`, `Page`; `Drop` is a mod or del
bit set by someone else. The segmenter is external: a text is the tokens it gives. A query is refused (`Refuses`) or ends the process (`Dies`, an assertion of jsoncpp
or an exception nobody catches) according to its root, its first term that is not well formed, or its first filter that is not accepted.

### Json

Values, `FastWriter` and `Reader` on tokens. The recursive descent of the reader has its stack as state: one action per token and place
(`ReadValue`, `ReadName`, `ReadColon`, `ReadComma`, `ReadMore`, `ReadSep`, `ReadEnd`), `Recover` after an error. A value is built by calls of `Value`, written and read
back; or the text is free, token by token. Numbers have `IntBits` bits instead of 32.

## 3. Runs

| run | shows | distinct states |
|---|---|---|
| `index_run` | one life: `TypeOK`, `Layered`, `Day2Exclusive`, `Searchable`, refinement of `PostingStore`, `DumpHappens`, `HisMergeHappens` | 168 529 |
| `index_crash` | two deaths at any step: `Durable`, `CheckPointMonotone` | 4.8 M |
| `delivery` | two deaths on each side: `OffsetNotAhead`, refinement of `Feed`, `Delivered` | 105 248 |
| `queue` | `LogIntact`, `RepairFinds`, `NoneSkipped`, `ReaderSafe`, `ReaderAdvances` | 986 338 |
| `docs` | `Converged`, `AttrsExact`, `OneVersion` | 5.2 M |
| `plist` | `PoolSound`, `ListsComplete`, `NoFreedLink`, `AnswerRuns`, `DumpComplete` | 3.9 M |
| `disk` | `FindsAll`, `SurvivesDeath`, `IteratesAll` | 247 750 |
| `service` | `OneOwner`, `AckedIsQueued`, `QueueIsWhatWasSent`, `NoneOversleeps` | 5.2 M |
| `connmap` | `OwnSocket`, `NeverGivenUp` | 2.0 M |
| `search` | `PostingsExact`, `AnswerExact`, `LibraryExact` | 303 283 |
| `json` | `RoundTrip`, `AcceptedIsWritten`, `ParseEnds` | 351 501 |
| `index_durable` | finds `Durable` violated when swaps by FULL are allowed (section 6) | |

**Bounds.**
* Index: two terms are enough for "same list / other list" and for a second-level index of several records, so that
  `set_finish` can be cut short. Three messages allow one posting each in MEM0, MEM1 and below, and a second dump while the first is in
  day/2. `MaxList = 2` makes the cut of a list happen; `index_crash` uses a limit no list reaches, so that a lost message
  cannot hide behind a cut list, and `Results = {"OK"}`, because with FULL and NEARLY_FULL `Durable` fails (`index_durable`).
* Delivery: five messages, one not wanted and one refused, so that a roll-back goes over several; two deaths on each side let a death hit the
  replay after the first. The queue is one file (`FileBlocks = Msgs`) and `Early = FALSE`: without either restriction the feed has gaps (section 6).
* Queue: blocks of 2, 4 and 5 cells, 5 being the maximum, and files of 11; four writes, or three and one seek of the reader: two files, torn
  blocks behind every other, a block of exactly the maximum, and two blocks written over the place of a torn one, so that the reader meets a wrong id.
* Documents: two documents and one with an outer id out of range, four inner ids, three messages: the ids run out, and a death hits the second version of a
  document with a deletion before or after it.
* Posting list: 17 postings of one term let links be merged twice in one set, with a pool that runs out; three terms in two buckets collide, and the
  third finds the head list full. Buffers have no room, too little and enough.
* Disk: all sets of up to five 3-bit signatures, milestones of two, so that blocks, cell files and data files end anywhere; 2-bit file numbers overflow.
* Service: two clients, two requests, two descriptors, two workers. A message may be queued or refused, or kill; the others are empty and too big. Two requests are
  enough for one that is cut off, or fails, and a second one read into what it left in the same buffer.
* Connections: two threads, two servers, two descriptors; one server shared by two resources with different numbers of sockets.
* Search: five documents (two of them refused) of which four may be indexed in any order, 6-bit words; `Keep = 3` makes the cut of the best documents happen. Nine queries have a root, a
  term or a filter that is refused or kills, with the deciding one in front of another that would have done the opposite.
* Json: 8-bit numbers around every limit, free texts of seven tokens, four calls that build a value.

All cfgs switch off the deadlock check: the bounded inputs end, and processes may die for good (an empty `cur` file, the last death, an assertion).

**Fairness.** Threads of a running process are scheduled (weak fairness). A thread blocked on `m_mutex` gets it when it is
released again and again, and a timed wait ends (strong fairness, for the day merger). No fairness on spurious
wakeups, on midnight or on deaths. In `Delivery` neither process stops for ever, a dead engine is started
again, and `update_thread`'s idle timeout does not beat every send (strong fairness of `Send`); nothing is
assumed of deaths and of the check point. In `MessageQueue` server and sender run and a dead server is started again. In `Json` a call of `parse` goes on.

**What the properties say beyond the code.** `Searchable` relates the acknowledged position with all five
layers at every step of two concurrent merges. `Layered` is the strongest order that holds: from `set_finish` of
day/2 to the install step, day/2 repeats MEM1 and DAY, so in this window (and after a death
in it) the answer is not the descending list README:63 speaks of. `HisMergeHappens` speaks of non-empty hand-overs (section 6).
`Converged` and `AttrsExact` compare mapped files that survive a death with a replay that does not know how far the first run came.
`AnswerRuns` says what a reader gets from a list that grows and is merged under it. `OneOwner` is the promise of the comments in `equeue.cpp`.
`AnswerExact` and `PostingsExact` are written from the documents, not from the postings: they define what a term scores and what a page shows.
Where the code has a limit, the property names it as an exception and says that there is no other (section 6 lists these).

## 4. Proofs

The theorems hold for every value of the constants: any terms, messages, documents, clients, threads, sizes and numbers of
deaths. Assumptions are the named `ASSUME`s of the modules, which TLC evaluates in the runs: types and signs of the constants, and

* `Service`: the threads are finitely many;
* `MessageQueue`: a block has a head and a body and fits BLOCK_MAX_SIZE, and such a block a file;
* `PostingList`: a block of the smallest size has room for four cells and the head of a link, as `set` relies on when it merges;
* `DiskIndexer`: a posting list is not empty and fits a data file (MAX_POSTINGLIST_SIZE cells do); that powers of two are numbers and double is said for the provers, which do not compute them;
* `ConnectMap`: `MagicAssumption`, that the multiplier takes the counts of the health check to different remainders (it is odd, the modulus a power of
  two), and that `SeedMod`, to which the seed is cut down, is a common multiple of the lengths of the server lists, so that the code's `seed % length` is what it was.

Two theorems of `Delivery` and two of `IndexGroup` have hypotheses, given below. Every inductive
invariant was checked with TLC, on the bounds of the component's run, before it was proved (`Doubles` of `PostingList` in the form "times 2^k for some k").

**IndexGroup** (`IndexGroupProofs`)

* `TypeCorrect`: `Spec => []TypeOK`. `TypeOK` is inductive with one addition (`TypeInv`): while the update thread is busy,
  `docs` is not empty, since the current message is its last element.
* `CheckPointAdvances`: `Spec => CheckPointMonotone`. Needs `chk <= dumpPos <= pos <= last` (`Ordered`), and that the message in
  work is behind `last` (`PosInv`); `Down` says that a dead process has no thread in the middle of a step.
* `Day2IsExclusive`: `Spec => []Day2Exclusive`. The two unlocked flags hand over a token (`Token`): day/2 may be
  dumped to, or the day merger is on it, or it waits for or is in the history merger - never two of these.
* `LayersStayOrdered`: `SpecRun => []Layered`. The inductive invariant `OrderInv` adds to the order of the layers
  that a merge in progress contains only postings of the layers it replaces (`FromSources`), which index
  it works on (`MergerState`), that new ids are larger than all others (`IdsGrow`), that a pending term has no
  posting yet (`Pending`) and that no index is broken. It is proved for one life: a death in the hand-over window breaks it.
* `AckedIsSearchable`: `SpecRun => []Searchable`, and `IndexImplementsStore`: `SpecRun => ImplementsStore`. `StoreInv` adds to `OrderInv`
  that a merge in progress has written exactly the merge of its sources and that day/2 is empty when it is offered (`Merges`), that ids are allocated
  in the order of messages (`Numbered`), and that what was inserted is visible or its list is full (`Kept`). The argument: every
  step leaves what queries see alone but for a cut (`Trims`), opens a document (`Opens`), inserts one posting at the head of its list (`Inserts`), or ends the life.
  A merge is a cut because the layers are ordered: a posting it drops has `MaxList` newer ones of its term in the same merge. Cuts compose, so a full list stays full.
  Without the order of the layers neither theorem holds: a merge would drop the wrong end of a list.
* `DeathLosesNothing`: `OnlyPeriodic, NeverCut |- Spec => []Durable`, and `AckedSurvivesDeaths`: `OnlyPeriodic, NeverCut |- Spec => []Searchable`, through any
  number of deaths. `OnlyPeriodic` is `Results \subseteq {"OK"}`: with FULL `Durable` is false (section 6). `NeverCut` is `MaxList >= 2 * (Msgs * (MaxCrash + 1))`: a death does not keep the
  layers in order or apart - one at the end of a history merge leaves day/2 to be merged again - so a list that may be cut can lose a document to a repeated one (TLC finds it with `MaxList = 5` in
  `index_crash`). A layer is a set of postings, so a posting that a layer has twice counts once; the limit is one on lists counted in this way.
  `DeathInv` consists of `MergerState` and `Merges` from above, which survive deaths; `Plain` (the update thread never swaps, and MEM1 exists just while it is dumped); `Budget` and `AllFresh`
  (each life allocates at most one id per message, so with `NeverCut` a merge keeps all of both sources); `CurInv` (which directories the two cur files name at each step of the mergers: those
  of DAY and HIS, or of an index that holds all they hold); and `CoverInv` (what covers the messages up to each position: the visible layers those up to `last`, MEM1 and the disk those up to
  the captured `dumpPos`, the disk those up to the check point, with MEM1 between `set_check_point` and the install). The argument: in one life what is read from disk, also together with MEM1, only
  grows (`LayersGrow`); the files a death leaves contain it (`DeathLeaves`), and a restart reads what they contain (`RestartReads`).

**Delivery** (`DeliveryProofs`). `OneFile` says that all messages fit one file or the sender does not die: a
restarted sender begins at the newest file, and without it TLC finds skipped messages (section 6).

* `OffsetNeverAhead`: `OneFile |- Spec => []OffsetNotAhead`. An answer belongs to the request the sender waits for (`Wire`), so the position the
  sender saves with it is that of the message answered; in the engine's first life neither the sender's next message nor any request on the way, those of dead senders included, has a wanted message
  before it that the engine does not have (`FirstLife`).
* `DeliveryImplementsFeed`: `OneFile, ~Early |- Spec => ImplementsFeed`. After a death of the engine the sender is ahead. `AheadFirst` says that what is ahead is the first request the
  engine sees, which it answers with ROLL_BACK; `Rolled`, that afterwards nothing on the way is ahead. With early time-outs `AheadFirst` is false: the roll-back is answered
  into a closed connection.

**MessageQueue** (`MessageQueueProofs`)

* `RepairAlwaysFinds`: `Spec => []RepairFinds`, for deaths at any cell. `Anchored`: the newest file has an anchor, its beginning or the end of a whole block, with at most one block of
  cells behind it; so the search over two block lengths meets the block that ends there. The server goes on behind it, over what is torn.
* `NothingSkipped`: `Spec => []NoneSkipped`. While nothing is torn each file is a row of complete blocks with ids 1, 2, 3, and perhaps the beginning of one more (`Log`), said of
  neighbouring cells so that no walk over the file is needed; the writer is at its end (`WriterAt`), and the reader is between two blocks, has returned all up to its id and
  saw nothing else at its last look (`Reader`).
* `LogStaysIntact`: `Spec => []LogIntact`, for any deaths and seeks. Torn blocks stay in the files and new ones are written over them, so a file is no longer a row of blocks. What remains
  (`LogInv`): the blocks of a file whose check sums hold do not overlap, and each begins where the one before it ends, with the next id (`Tiled`); the writer stands behind all of them (`WriterIn`);
  every cell belongs to a block that is whole at the right place, is being written, or is torn and lacks its last cell (`Placed`), so no torn block becomes whole again; what was acknowledged is whole (`AckedWhole`). `ChainFacts`
  then says that the walk from the beginning meets exactly the blocks whose check sums hold: an induction over offsets, said with sets. `Bounded` and `ReaderBounded` complete the types.
* `ReaderIsSafe`: `Spec => ReaderSafe`. `ReaderIn`: the reader is at a place where a block begins, and each cell it has read is still in the file or belongs to a torn block, in which case it is not the last
  one. So what it returns is one block, as written, or has a cell of a torn block in it.

**Service** (`ServiceProofs`), for any clients, hang-ups and time-outs

* `OneOwnerAlways`: `Spec => []OneOwner`, and `NoLostWakeup`: `Spec => []NoneOversleeps`. `EquInv` says without counting who owns a descriptor (`Owners`): it is open just when someone holds it, no two
  parties hold the same one, and no party holds it twice. Counting comes in only at the end.
* `OkMeansQueued`: `Spec => []AckedIsQueued`, and `QueuedOnce`: `Spec => []QueueIsWhatWasSent`. The answer a client reads was written by a thread that took the request out of a buffer
  with left-overs. `Links` follows it: while a connection is open and no receive failed on it, its stream, the head and the body in the buffer of its thread and its unread answer are
  of the one request its client waits for. `Fresh` (connections are accepted once), `Asks`, `Numbers` and `Unfailed` support this; `CalmOnce` adds that a request that is not yet served is not in the queue.
  `QueuedOnce` does not say that the process lives: `Lives` (in `Calm`) says that if it is dead, some thread was in `ServiceApp` with the head and the body of one message that it had received whole
  (`OwnDeath`). So no left-over of another request and no failed receive is what killed it.

**DocStore** (`DocStoreProofs`), with deaths and replays

* `DocTypes`: `Spec => []TypeOK`; `OneVersionAnswered`: `Spec => []OneVersion`. A version can be found only after the one before it was marked in the bitmap, and marks are not taken back. So the
  invariant says of each id in the posting lists that it is marked, or the id of its document, or just being replaced (`Replaced`, with `Working` and `Owned` for the steps of `add`), and of the query that what
  is left of the list cannot be another version of what passed the filter (`Filtered`). A death between the id map and the mark (`cut`) is the exception the property has.
* `ConvergedHolds`: `Spec => []Converged`, and `AttrsExactHolds`: `Spec => []AttrsExact`. During a replay the mapped files are ahead of `last`: they hold what messages did that come again only later.
  So `DocInv` says nothing of the messages that others overtake: each clause is about a message that is the last of its kind in the whole log, done or not - the last add of a document (`Posted`,
  of the lists up to `last` and, for the next death, of those on disk up to the check point), the last DELETE or RESTORE behind it (`Marked`), the last message that sets an attribute (`Kept`,
  `Written`). What such a message did nothing undoes, and when all messages are done it is what the reference asks for. `Mapped` (one to one, no replaced id, a new id has no marks) keeps
  documents apart; `Home` is the cell that has the attributes while `add` goes from the old id to the new one, `Existing` says that it is not cell 0 (which all new documents share).

**PostingList**, with `MemBlocks` (`PostingListProofs`). One writer and one reader, any pool, any postings, any buffers. `ListInv` has four parts:
`Struct` (each term's head is found in its bucket; a block in use is the first link of one head or the next one of one link; the blocks not in use are each once on their
own stack), `Lock` (the merge holds the lock only while no get is inside; where both are), `Runs` (the cells of a link go on from those of the next, `used_size` counts them, but for
the cell that is copied and not yet shown) and `Sizes` (sizes are the smallest one doubled, they do not shrink along a chain, from the second link on they grow, only the first has room).

* `NoFreedLinkHolds`: `Spec => []NoFreedLink`. Only a merge frees links, and it waits for the gets; the other steps of `set` only add.
* `PoolSoundHolds`: `Spec => []PoolSound`. What a merge frees was led to by nobody but the head and the link it replaces, so no chain keeps a free block; `clear` frees exactly what is in use.
* `ListsCompleteHolds`: `Spec => []ListsComplete`. `Runs` is local to two neighbours. That a whole chain then holds `n` down to 1 is an induction over the walk, said with sets: the
  number of postings left strictly falls, so the walk ends at the last link within as many steps as there are links. `ChainShape`, with the assertion in `set`, follows from `Sizes`.
* `AnswerRunsHolds`: `Spec => []AnswerRuns`. `Reading` says of a get at a link that the answer so far is a run and that the newest posting the link shows is the one below the last of the
  answer (`Meets`). A merge cannot come in between; a posting that is shown while the get reads `used_size` sets `rgrew`, the exception the property has; one shown before is the new newest one.
* `DumpCompleteHolds`: `Spec => []DumpComplete`. `qsort` puts the heads into the one ascending order (`Ascending`), of which `dump` is the beginning and `sorted` the rest (`Delivered`).

**DiskIndexer**, with `DiskBlocks` (`DiskIndexerProofs`), for any sizes of cells, files and milestones. `IndexInv` relates the stage of the build (`Stage`), what cells and data files hold
(`Content`) and the file of the second level; deaths may come at every step.

* `SurvivesDeathHolds`: `Spec => []SurvivesDeath`. What `Stage` says of the file of the second level is what the constructor reads.
* `IteratesAllHolds`: `Spec => []IteratesAll`. Cell `i` is where division and remainder by the cells per file say (`CellPlace`), and what `idx` points to is not overwritten (`Stored`).
* `FindsAllHolds`: `Spec => []FindsAll`. `Level` says which cells the second level names and that the cache holds what the file holds; so the block that is read contains the term if any
  block does. The binary search keeps the place of the term between its ends as long as no two signatures of the block are half the range apart, and an answer is always of the term asked for.

**ConnectMap** (`ConnectMapProofs`), for any configuration, threads, failures and calls of `DelServer`

* `OwnSocketHolds`: `Spec => []OwnSocket`. `PoolInv` says of each record that its count of free cells is right (`Sound`), of cells and descriptors that they correspond one to one (`Own`), and of each
  thread that its socket is in a busy cell of its server (`Held`); the last two until `__CheckDeadServer` has closed sockets of a server it kept (`ghost`).
* `NeverGivenUpHolds`: `Spec => []NeverGivenUp`. `Patient`: after `r` refusals in a row the last `r` failure counts had `r` different remainders below `RetryLine`, so `r <= RetryLine`.

Only model-checked:

* liveness (`Delivered`, `ReaderAdvances`, `DumpHappens` and the like): fairness and ENABLED are outside the prover;
* `Search` and `Json`: `Search` folds and recurses over sequences, so its proofs are inductions over data; `Json` has recursive operators, which the prover does not take.

## 5. Plan

Modelled and checked: everything of section 2. Left: a buffer that is too short for a disk layer (`index_group.cpp:390`), and the limit of the number of files in `fileblock`.

### Not modelled

* Configuration, log, utilities, `ontime_thread` (it only logs), `main` of the sender: start-up, formatting and I/O.
* Word segmentation, signatures of words, `detaildb`: external libraries; a term is an uninterpreted value, and two terms never share a signature.
* bsoncpp and the other vendored code: not called by the engine or the queue. Of jsoncpp the styled writers, the escapes of strings and the reading of
  characters (so, for example, that a lone "-" is read as 0) are left out.
* The tools around the queue (`readBlock`, `queue2line`, `uniq`, `FileOutputer`), the test client, the clients in PHP and Python and the web service: they print or send, and keep no state of the system.

## 6. Where the code departs from its documentation

`index_durable` - the day merger takes the position for the check point when it starts, not when MEM0
was frozen; after a FULL swap a death loses messages ("消息一个不少", FEATURE:4).

The models contain these as well; the properties are stated around them:

* The timed wait of the day merger can expire while the update thread swaps; the comment at `index_group.cpp:114` calls this impossible and the
  assertion below it kills the process (`Suicide`).
* After a periodic dump nobody signals, and an update thread that waits for MEM1 sleeps on (`index_group.cpp:327`).
* A second-level index that was half written is reopened as readable, without files (`index_group.cpp:40-41` and TODO:27 say it is cleared);
  `SurvivesDeath` says when.
* An empty MEM1 can be dumped to day/2; no later dump reaches the history index (TODO:2).
* A restarted sender begins at the newest file, not at its offset (ARCH:14); a roll-back answered into a closed connection counts as done (FEATURE:4).
  `ImplementsFeed` therefore has one file and no early time-out.
* Repair does not cut a torn block off (the comment at `filelinkblock.cpp:108` says it does) and the reader does not look at the check sum: it can return a mixture, or
  die. A block of exactly BLOCK_MAX_SIZE is written but kills the reader. A message written between the size test and the test for a newer file is skipped.
* A death between the id map and the mod bit leaves two live versions of a document; one before the copy of the cell loses its attributes; the constructor of the attribute
  file overwrites its last byte. When the inner ids are exhausted, `add` fails and the sender repeats the message for ever.
* A `get` that reads `used_size` while the first link grows can copy too much (`AnswerRuns` excepts it).
* Signatures 2^63 apart are compared with the wrong sign: a term can be missed, but never taken for another. Data files beyond the width of `file_no` are read from the wrong file.
* A request whose receive failed with errno EAGAIN is served with what the buffer holds (`misled`).
* A body that is JSON but no object, such as `7` or `[]`, ends the queue server: the parser accepts it (`strictRoot_` is off), `is_valid` takes a member of it
  (`service_app.cpp:24`) and the assertion at `json_value.cpp:1025` fails; the default make compiles assertions in, only its `release` target sets NDEBUG (`src/opensrc/jsoncpp/Makefile:9`), and then
  what happens is undefined. `catch (...)` at `service_app.cpp:112` raises SIGKILL as well. A body that fills the buffer exactly, which `xhead.cpp:33` lets pass, gets its
  terminating zero behind the buffer (`service_app.cpp:52`): this may do no harm or kill. `QueueIsWhatWasSent` says that a message does either only with its own text and length (`OwnDeath`).
* The engine dies of such a text (`query_thread.cpp:292`), of a term or a filter that is no object (`:60`, `:201`), and of a filter on a known field whose method
  does not convert to an integer: `asInt()` at `query_thread.cpp:213` throws and nothing catches (`Dies` in `Search`; `AnswerExact` is about answers and says nothing of these).
* `__CheckDeadServer` closes sockets in a copy and keeps them READY in the map when another socket of the server is busy (`ghost`).
* `ConnectManager` does not initialise its list of resources (`connectmanager.cpp:106` fills it from the first free entry on): `Resources` takes it as empty, which is
  what the zero pages of a fresh heap object of this size give.
* The guard of the second position of a term allows values its field cannot hold (`TooFar`). `query_thread.cpp:202` lacks a negation, so a filter needs a method
  that converts to an integer without being one (a real number or a Boolean) to be accepted. The best 2000 are cut before replaced documents are filtered out.
* The JSON reader lets a missing or wrong separator of array elements pass (`badTokenType` at `json_reader.cpp:566` is never true), and shrinking an array with holes
  fails an assertion (`json_value.cpp:966`).
