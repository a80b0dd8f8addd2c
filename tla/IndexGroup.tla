----------------------------- MODULE IndexGroup -----------------------------
(***************************************************************************)
(* The inverted index of flexse: class index_group (utils/indexer/         *)
(* index_group), the three threads that run it - the update thread, the    *)
(* day merger and the history merger - and the files it leaves on disk.    *)
(*                                                                         *)
(* An index is a set of postings <<term, id>>.  The query of a term reads  *)
(* the layers MEM0, MEM1, DAY, DAY2, HIS in this order and concatenates    *)
(* their lists, so the order of the answer is a relation between layers.   *)
(* A message of the queue is its number: (file_no, block_id) pairs are     *)
(* only ever compared, and lexicographically.                              *)
(***************************************************************************)
EXTENDS Integers, Sequences, FiniteSets

CONSTANTS
  Terms,      \* the terms documents are made of
  NoTerm,     \* "no term is pending"
  Msgs,       \* number of messages in the queue (bound)
  TermsOf,    \* TermsOf[m]: the term_map of message m, {} for one without terms
  Results,    \* what postinglist::set may answer: OK, NEARLY_FULL, FULL
  MaxList,    \* MAX_POSTINGLIST_SIZE
  MaxCrash    \* number of process deaths followed by a restart (bound)

ASSUME TermsAssumption == NoTerm \notin Terms
ASSUME MsgsAssumption == Msgs \in Nat /\ TermsOf \in [1..Msgs -> SUBSET Terms]
ASSUME ResultsAssumption == Results \subseteq {"OK", "NEARLY_FULL", "FULL"}
ASSUME BoundsAssumption == MaxList \in Nat \ {0} /\ MaxCrash \in Nat

VARIABLES
  up,        \* the process runs
  mem0,      \* postings of m_index_list[MEM0]
  mem1,      \* postings of m_index_list[MEM1], {} when it is NULL
  hasMem1,   \* m_index_list[MEM1] != NULL
  day,       \* the disk indexers m_day[0..2]
  his,       \* the disk indexers m_his[0..1]
  iday,      \* m_index_list[DAY] = m_day[iday]
  ihis,      \* m_index_list[HIS] = m_his[ihis]
  cday,      \* the file day/cur
  chis,      \* the file his/cur
  chk,       \* the file check_point
  docs,      \* docs[id] = the message inner id was allocated for (idmap, mmapped)
  upc,       \* where the update thread is
  last,      \* update_thread's (last_file_no, last_block_id)
  todo,      \* terms of the current document not inserted yet
  uterm,     \* the term that met FULL, while the thread swaps for it
  nearly,    \* nearly_full
  swapped,   \* have_swap
  pos,       \* (m_file_no, m_block_id)
  dumpPos,   \* (m_dump_file_no, m_dump_block_id)
  dpc,       \* where the day merger is
  dst,       \* the day merger's destination, pdst_indexer = m_day[dst]
  timedout,  \* ret == ETIMEDOUT
  canDay2,   \* m_can_dump_day2
  hisReady,  \* m_his_merge_ready
  slow,      \* m_last_day_merge_timecost > 60
  dayDone,   \* get_cur_day() == m_day2dump_day
  hpc,       \* where the history merger is
  crashes    \* deaths so far

updVars   == <<upc, last, todo, uterm, nearly, swapped, docs, pos>>
memVars   == <<mem0, mem1, hasMem1>>
flagVars  == <<canDay2, hisReady, slow, dayDone>>
dayVars   == <<dpc, dst, timedout, dumpPos>>
diskVars  == <<day, his, iday, ihis, cday, chis, chk>>
vars == <<up, memVars, diskVars, updVars, dayVars, flagVars, hpc, crashes>>

-----------------------------------------------------------------------------
(***************************************************************************)
(* Indexes.  A disk_indexer is "empty" (no second-level index on disk),    *)
(* "writing" (merger is filling it), "torn" (set_finish has written part   *)
(* of the second-level index), "ready", or "broken" (reopened from a torn  *)
(* state: the constructor removes the files but keeps m_second_index, so   *)
(* it is readonly without contents).                                       *)
(***************************************************************************)
Postings == Terms \X (Nat \ {0})
Statuses == {"empty", "writing", "torn", "ready", "broken"}
Indexers == [st : Statuses, post : SUBSET Postings]
NoIndex  == [st |-> "empty", post |-> {}]
NoCur    == -1         \* a cur file truncated and not yet written

\* Mutant: the test inverted.
EmptyInverted(ix) == ix.st \in {"ready", "broken"}

\* disk_indexer::empty(): m_readonly == false.
Empty(ix) == ix.st \notin {"ready", "broken"}

\* What get_posting_list can read: a disk_indexer answers once it is readonly.
Seen(ix) == IF ix.st = "ready" THEN ix.post ELSE {}

\* The second-level index has several records, so writing it can be cut short.
TwoTerms(S) == \E p, q \in S : p[1] # q[1]

\* itget on a source: the newest MaxList postings of each term.
NewestOf(S) ==
  {p \in S : Cardinality({q \in S : q[1] = p[1] /\ q[2] > p[2]}) < MaxList}

\* Mutants: one slot too few for src2; the oldest of src2 kept.
MergedShort(a, b) ==
  NewestOf(a) \cup
  {p \in b : Cardinality({q \in a : q[1] = p[1]})
             + Cardinality({q \in b : q[1] = p[1] /\ q[2] > p[2]}) < MaxList - 1}
MergedOldest(a, b) ==
  NewestOf(a) \cup
  {p \in b : Cardinality({q \in a : q[1] = p[1]})
             + Cardinality({q \in b : q[1] = p[1] /\ q[2] < p[2]}) < MaxList}

\* index_group::merger: the list of src1, then as much of src2 as fits.
Merged(a, b) ==
  NewestOf(a) \cup
  {p \in b : Cardinality({q \in a : q[1] = p[1]})
             + Cardinality({q \in b : q[1] = p[1] /\ q[2] > p[2]}) < MaxList}

Marked(ix, s) == [st |-> s, post |-> ix.post]

\* set_finish: an index without terms stays writable and has no second index.
Finished(ix) == IF ix.post = {} THEN NoIndex ELSE Marked(ix, "ready")

\* set_finish may close ix: one record was written whole, or all of them were.
Finishable(ix) == ix.st = "torn" \/ (ix.st = "writing" /\ ~TwoTerms(ix.post))

\* What a query of all terms finds (get_posting_list visits every layer).
Visible == mem0 \cup mem1 \cup Seen(day[iday]) \cup Seen(day[2]) \cup Seen(his[ihis])

-----------------------------------------------------------------------------
(***************************************************************************)
(* The update thread: set_posting_list, holding m_mutex except in "idle",  *)
(* "sleep" (inside pthread_cond_wait) and "woken" (signalled, m_mutex not  *)
(* back yet).  The day merger's critical sections are single actions, so   *)
(* nobody else is ever seen holding the mutex.                             *)
(***************************************************************************)
MutexFree == upc \in {"idle", "sleep", "woken"}
Uid == Len(docs)
Msg == docs[Uid]

\* pthread_cond_signal(&m_mem_dump_cond), as seen by each possible waiter.
SignalDay == dpc' = IF dpc = "wait" THEN "enter" ELSE dpc
SignalUpd == upc' = IF upc = "sleep" THEN "woken" ELSE upc

\* update_thread takes the next message; add() allocates an inner id when it
\* has terms and enters set_posting_list, otherwise the message is done.
UpdBegin ==
  /\ upc = "idle" /\ last < Msgs
  /\ IF TermsOf[last + 1] = {}
       THEN /\ last' = last + 1
            /\ UNCHANGED <<upc, todo, nearly, swapped, docs>>
       ELSE /\ docs' = Append(docs, last + 1)
            /\ todo' = TermsOf[last + 1]
            /\ nearly' = FALSE /\ swapped' = FALSE
            /\ upc' = "term"
            /\ UNCHANGED last
  /\ UNCHANGED <<uterm, pos, memVars, diskVars, dayVars, flagVars, hpc>>

\* One round of the loop over term_map.
UpdTerm(t, r) ==
  /\ upc = "term" /\ t \in todo
  /\ \/ /\ r \in {"OK", "NEARLY_FULL"}
        /\ mem0' = mem0 \cup {<<t, Uid>>}
        /\ todo' = todo \ {t}
        /\ nearly' = (nearly \/ r = "NEARLY_FULL")
        /\ UNCHANGED <<upc, uterm>>
     \/ /\ r = "FULL" /\ mem0 # {}
        /\ uterm' = t
        /\ upc' = "swap"
        /\ UNCHANGED <<mem0, todo, nearly>>
  /\ UNCHANGED <<last, swapped, docs, pos, mem1, hasMem1, diskVars, dayVars, flagVars, hpc>>

\* After the loop: swap if a list was nearly full, else record the position.
UpdEnd ==
  /\ upc = "term" /\ todo = {}
  /\ IF nearly /\ ~swapped
       THEN upc' = "swap" /\ UNCHANGED <<pos, last>>
       ELSE upc' = "idle" /\ pos' = Msg /\ last' = Msg
  /\ UNCHANGED <<todo, uterm, nearly, swapped, docs, memVars, diskVars, dayVars, flagVars, hpc>>

\* swap_mem_indexer tests MEM1 and goes to sleep: two steps, since the day
\* merger resets MEM1 and signals without holding m_mutex.
UpdTest ==
  /\ upc = "swap" /\ hasMem1
  /\ upc' = "wait"
  /\ UNCHANGED <<last, todo, uterm, nearly, swapped, docs, pos, memVars, diskVars, dayVars, flagVars, hpc>>

UpdSleep ==
  /\ upc = "wait"
  /\ upc' = "sleep"
  /\ UNCHANGED <<last, todo, uterm, nearly, swapped, docs, pos, memVars, diskVars, dayVars, flagVars, hpc>>

\* pthread_cond_wait returns with m_mutex and the loop tests again.
UpdWake ==
  /\ upc = "woken"
  /\ upc' = "swap"
  /\ UNCHANGED <<last, todo, uterm, nearly, swapped, docs, pos, memVars, diskVars, dayVars, flagVars, hpc>>

\* _swap_mem_indexer and the signal, then the rest of set_posting_list: the
\* pending term goes to the new MEM0, or the document is complete.
UpdSwap ==
  /\ upc = "swap" /\ ~hasMem1
  /\ mem1' = mem0 /\ hasMem1' = TRUE
  /\ SignalDay
  /\ IF uterm # NoTerm
       THEN /\ mem0' = {<<uterm, Uid>>}
            /\ todo' = todo \ {uterm}
            /\ swapped' = TRUE
            /\ upc' = "term"
            /\ UNCHANGED <<pos, last>>
       ELSE /\ mem0' = {}
            /\ upc' = "idle"
            /\ pos' = Msg /\ last' = Msg
            /\ UNCHANGED <<todo, swapped>>
  /\ uterm' = NoTerm
  /\ UNCHANGED <<nearly, docs, diskVars, dst, timedout, dumpPos, flagVars, hpc>>

UpdStep ==
  \/ UpdBegin
  \/ \E t \in Terms, r \in Results : UpdTerm(t, r)
  \/ UpdEnd \/ UpdTest \/ UpdSleep \/ UpdWake \/ UpdSwap

\* A spurious wakeup, which POSIX allows for pthread_cond_wait.
UpdSpurious ==
  /\ upc = "sleep"
  /\ upc' = "woken"
  /\ UNCHANGED <<last, todo, uterm, nearly, swapped, docs, pos, memVars, diskVars, dayVars, flagVars, hpc>>

-----------------------------------------------------------------------------
(***************************************************************************)
(* The day merger: update_day_indexer in a loop.                           *)
(***************************************************************************)
\* Mutant: the wait comes before the test of MEM1.
DayEnterWaits ==
  /\ dpc = "enter" /\ MutexFree
  /\ dpc' = "wait"
  /\ UNCHANGED <<timedout, dumpPos, dst, updVars, memVars, diskVars, flagVars, hpc>>

\* Lock m_mutex and test MEM1: wait (the waits release the mutex), or go on.
DayEnter ==
  /\ dpc = "enter" /\ MutexFree
  /\ IF hasMem1
       THEN dpc' = "choose" /\ timedout' = FALSE /\ dumpPos' = pos
       ELSE dpc' = "wait" /\ UNCHANGED <<timedout, dumpPos>>
  /\ UNCHANGED <<dst, updVars, memVars, diskVars, flagVars, hpc>>

\* The deadline passes: pthread_cond_timedwait will return ETIMEDOUT.
DayTimeout ==
  /\ dpc = "wait"
  /\ dpc' = "expired"
  /\ UNCHANGED <<dst, timedout, dumpPos, updVars, memVars, diskVars, flagVars, hpc>>

\* It returns once the mutex is back: nothing to dump, or a periodic dump.
DayExpired ==
  /\ dpc = "expired" /\ MutexFree
  /\ \/ /\ mem0 = {}
        /\ dpc' = "enter"
        /\ UNCHANGED <<memVars, timedout, dumpPos>>
     \/ /\ mem0 # {} /\ ~hasMem1
        /\ mem1' = mem0 /\ hasMem1' = TRUE /\ mem0' = {}
        /\ dpc' = "choose" /\ timedout' = TRUE /\ dumpPos' = pos
  /\ UNCHANGED <<dst, updVars, diskVars, flagVars, hpc>>

\* Mutant: m_can_dump_day2 is not consulted.
NeedDay2Always(lowPeak) == slow \/ (lowPeak /\ ~dayDone)

\* need_to_dump_day2; lowPeak: the hour lies in the dump window.
NeedDay2(lowPeak) == canDay2 /\ (slow \/ (lowPeak /\ ~dayDone))

\* Choose the destination, clear it and begin the merge of MEM1 and DAY.
DayChoose(lowPeak) ==
  /\ dpc = "choose"
  /\ dst' = IF NeedDay2(lowPeak) THEN 2 ELSE 1 - iday
  /\ canDay2' = (canDay2 /\ ~NeedDay2(lowPeak))
  /\ dayDone' = (dayDone \/ NeedDay2(lowPeak))
  /\ day' = [day EXCEPT ![dst'] = [st   |-> "writing",
                                   post |-> Merged(mem1, Seen(day[iday]))]]
  /\ dpc' = "merge"
  /\ UNCHANGED <<timedout, dumpPos, hisReady, slow, updVars, memVars,
                 his, iday, ihis, cday, chis, chk, hpc>>

DayTear ==
  /\ dpc = "merge"
  /\ day[dst].st = "writing" /\ TwoTerms(day[dst].post)
  /\ day' = [day EXCEPT ![dst] = Marked(@, "torn")]
  /\ UNCHANGED <<dayVars, flagVars, updVars, memVars, his, iday, ihis, cday, chis, chk, hpc>>

DayFinish ==
  /\ dpc = "merge" /\ Finishable(day[dst])
  /\ day' = [day EXCEPT ![dst] = Finished(@)]
  /\ dpc' = "merged"
  /\ UNCHANGED <<dst, timedout, dumpPos, flagVars, updVars, memVars,
                 his, iday, ihis, cday, chis, chk, hpc>>

\* Mutant: the digit of the directory.
CurOfDir(d) == d

\* The digit for the cur file: 1 for both day/1 and day/2.
CurOf(d) == IF d = 0 THEN 0 ELSE 1

\* set_cur_no opens day/cur with O_TRUNC and then writes the digit.
DayCut ==
  /\ dpc = "merged"
  /\ cday' = NoCur /\ dpc' = "cut"
  /\ UNCHANGED <<dst, timedout, dumpPos, flagVars, updVars, memVars,
                 day, his, iday, ihis, chis, chk, hpc>>

DaySetCur ==
  /\ dpc = "cut"
  /\ cday' = CurOf(dst) /\ dpc' = "check"
  /\ UNCHANGED <<dst, timedout, dumpPos, flagVars, updVars, memVars,
                 day, his, iday, ihis, chis, chk, hpc>>

\* Mutant: the position of now, not that of the swap.
DayCheckPointNow ==
  /\ dpc = "check"
  /\ chk' = pos /\ dpc' = "install"
  /\ UNCHANGED <<dst, timedout, dumpPos, flagVars, updVars, memVars,
                 day, his, iday, ihis, cday, chis, hpc>>

DayCheckPoint ==
  /\ dpc = "check"
  /\ chk' = dumpPos /\ dpc' = "install"
  /\ UNCHANGED <<dst, timedout, dumpPos, flagVars, updVars, memVars,
                 day, his, iday, ihis, cday, chis, hpc>>

\* Mutant: DAY is cleared only when another directory replaces it.
DayClearedOnSwitch == IF dst = 2 THEN day ELSE [day EXCEPT ![iday] = NoIndex]

\* m_index_list[DAY]->clear().
DayCleared == [day EXCEPT ![iday] = NoIndex]

\* Under the write lock: drop MEM1, clear DAY, hand day/2 to the history
\* merger or make the destination the new DAY; signal unless periodic.
DayInstall(late) ==
  /\ dpc = "install"
  /\ mem1' = {} /\ hasMem1' = FALSE
  /\ day' = DayCleared
  /\ IF dst = 2
       THEN hisReady' = TRUE /\ slow' = FALSE /\ UNCHANGED iday
       ELSE iday' = dst /\ slow' = late /\ UNCHANGED hisReady
  /\ IF timedout THEN UNCHANGED upc ELSE SignalUpd
  /\ dpc' = "enter"
  /\ UNCHANGED <<mem0, dst, timedout, dumpPos, canDay2, dayDone, last, todo, uterm,
                 nearly, swapped, docs, pos, his, ihis, cday, chis, chk, hpc>>

DayStep ==
  \/ DayEnter \/ DayTimeout \/ DayExpired
  \/ \E lowPeak \in BOOLEAN : DayChoose(lowPeak)
  \/ DayTear \/ DayFinish \/ DayCut \/ DaySetCur \/ DayCheckPoint
  \/ \E late \in BOOLEAN : DayInstall(late)

DaySpurious ==
  /\ dpc = "wait"
  /\ dpc' = "enter"
  /\ UNCHANGED <<dst, timedout, dumpPos, updVars, memVars, diskVars, flagVars, hpc>>

\* Midnight: get_cur_day() changes.
NextDay ==
  /\ dayDone /\ dayDone' = FALSE
  /\ UNCHANGED <<canDay2, hisReady, slow, dayVars, updVars, memVars, diskVars, hpc>>

-----------------------------------------------------------------------------
(***************************************************************************)
(* The history merger: update_his_indexer in a loop.                       *)
(***************************************************************************)
HisBegin ==
  /\ hpc = "idle" /\ hisReady /\ ~Empty(day[2])
  /\ his' = [his EXCEPT ![1 - ihis] = [st   |-> "writing",
                                       post |-> Merged(Seen(day[2]), Seen(his[ihis]))]]
  /\ hpc' = "merge"
  /\ UNCHANGED <<day, iday, ihis, cday, chis, chk, memVars, updVars, dayVars, flagVars>>

HisTear ==
  /\ hpc = "merge"
  /\ his[1 - ihis].st = "writing" /\ TwoTerms(his[1 - ihis].post)
  /\ his' = [his EXCEPT ![1 - ihis] = Marked(@, "torn")]
  /\ UNCHANGED <<hpc, day, iday, ihis, cday, chis, chk, memVars, updVars, dayVars, flagVars>>

HisFinish ==
  /\ hpc = "merge" /\ Finishable(his[1 - ihis])
  /\ his' = [his EXCEPT ![1 - ihis] = Finished(@)]
  /\ hpc' = "merged"
  /\ UNCHANGED <<day, iday, ihis, cday, chis, chk, memVars, updVars, dayVars, flagVars>>

HisCut ==
  /\ hpc = "merged"
  /\ chis' = NoCur /\ hpc' = "cut"
  /\ UNCHANGED <<day, his, iday, ihis, cday, chk, memVars, updVars, dayVars, flagVars>>

HisSetCur ==
  /\ hpc = "cut"
  /\ chis' = 1 - ihis /\ hpc' = "install"
  /\ UNCHANGED <<day, his, iday, ihis, cday, chk, memVars, updVars, dayVars, flagVars>>

HisInstall ==
  /\ hpc = "install"
  /\ day' = [day EXCEPT ![2] = NoIndex]
  /\ his' = [his EXCEPT ![ihis] = NoIndex]
  /\ ihis' = 1 - ihis
  /\ hisReady' = FALSE /\ canDay2' = TRUE
  /\ hpc' = "idle"
  /\ UNCHANGED <<slow, dayDone, iday, cday, chis, chk, memVars, updVars, dayVars>>

HisStep == HisBegin \/ HisTear \/ HisFinish \/ HisCut \/ HisSetCur \/ HisInstall

-----------------------------------------------------------------------------
(***************************************************************************)
(* Death and restart of the process.  Memory is lost; the mmapped idmap    *)
(* and the files survive.                                                  *)
(***************************************************************************)
\* The files of an indexer that a later open can make something of.
OnDisk(ix) == IF ix.st \in {"torn", "ready"} THEN ix ELSE NoIndex

Die ==
  /\ up' = FALSE /\ crashes' = crashes + 1
  /\ mem0' = {} /\ mem1' = {} /\ hasMem1' = FALSE
  /\ day' = [d \in 0..2 |-> OnDisk(day[d])]
  /\ his' = [h \in 0..1 |-> OnDisk(his[h])]
  /\ upc' = "idle" /\ todo' = {} /\ uterm' = NoTerm
  /\ nearly' = FALSE /\ swapped' = FALSE
  /\ dpc' = "enter" /\ dst' = 0 /\ timedout' = FALSE
  /\ hpc' = "idle" /\ slow' = FALSE /\ dayDone' = FALSE
  /\ UNCHANGED <<iday, ihis, cday, chis, chk, docs, last, pos, dumpPos, canDay2, hisReady>>

\* The assertion of _swap_mem_indexer: a periodic dump meets MEM1 != NULL.
Suicide == dpc = "expired" /\ MutexFree /\ mem0 # {} /\ hasMem1 /\ Die

\* A query reads a broken indexer: MyThrowAssert(rt_count > 0), never caught.
QueryThrows == (\E d \in {iday, 2} : day[d].st = "broken") /\ Die

Crash == crashes < MaxCrash /\ Die

\* disk_indexer's constructor, then the clear of the unused twin.
Opened(ix) == IF ix.st = "torn" THEN [st |-> "broken", post |-> {}] ELSE ix

\* Mutant: resume from the beginning.
ResumeAtZero == 0

\* get_check_point, in update_thread.
ResumeAt == chk

\* index_group's constructor and the start of update_thread; get_cur_no throws
\* when a cur file is empty, and then the process cannot start.
Restart ==
  /\ ~up /\ crashes <= MaxCrash
  /\ cday # NoCur /\ chis # NoCur
  /\ up' = TRUE
  /\ iday' = cday /\ ihis' = chis
  /\ day' = [d \in 0..2 |-> IF d = 1 - cday THEN NoIndex ELSE Opened(day[d])]
  /\ his' = [h \in 0..1 |-> IF h = 1 - chis THEN NoIndex ELSE Opened(his[h])]
  /\ hisReady' = ~Empty(day'[2]) /\ canDay2' = Empty(day'[2])
  /\ last' = ResumeAt /\ pos' = chk /\ dumpPos' = chk
  /\ UNCHANGED <<memVars, cday, chis, chk, upc, todo, uterm, nearly, swapped, docs,
                 dpc, dst, timedout, slow, dayDone, hpc, crashes>>

-----------------------------------------------------------------------------
Init ==
  /\ up = TRUE /\ crashes = 0
  /\ mem0 = {} /\ mem1 = {} /\ hasMem1 = FALSE
  /\ day = [d \in 0..2 |-> NoIndex] /\ his = [h \in 0..1 |-> NoIndex]
  /\ iday = 0 /\ ihis = 0 /\ cday = 0 /\ chis = 0 /\ chk = 0
  /\ docs = <<>> /\ upc = "idle" /\ last = 0 /\ todo = {} /\ uterm = NoTerm
  /\ nearly = FALSE /\ swapped = FALSE /\ pos = 0 /\ dumpPos = 0
  /\ dpc = "enter" /\ dst = 0 /\ timedout = FALSE
  /\ canDay2 = TRUE /\ hisReady = FALSE /\ slow = FALSE /\ dayDone = FALSE
  /\ hpc = "idle"

\* The steps of the threads of a running process.
Threads ==
  /\ up /\ UNCHANGED <<up, crashes>>
  /\ UpdStep \/ DayStep \/ HisStep \/ NextDay \/ UpdSpurious \/ DaySpurious

NextRun == Threads \/ (up /\ (Suicide \/ QueryThrows))
Next == NextRun \/ (up /\ Crash) \/ Restart

\* One life of the process, and the process with deaths and restarts.
SpecRun == Init /\ [][NextRun]_vars
Spec == Init /\ [][Next]_vars

\* Fairness: no thread stops, a timed wait ends, and the day merger, blocked on
\* m_mutex, gets it if the update thread releases it again and again.
Fairness ==
  /\ WF_vars(Threads /\ UpdStep)
  /\ WF_vars(Threads /\ DayStep)
  /\ SF_vars((Threads /\ (DayEnter \/ DayExpired)) \/ (up /\ Suicide))
  /\ SF_vars(Threads /\ DayTimeout)
  /\ WF_vars(Threads /\ HisStep)
FairSpecRun == SpecRun /\ Fairness

-----------------------------------------------------------------------------
(***************************************************************************)
(* Properties                                                              *)
(***************************************************************************)
\* Types of the variables.
FlagTypes ==
  /\ up \in BOOLEAN /\ hasMem1 \in BOOLEAN /\ nearly \in BOOLEAN /\ swapped \in BOOLEAN
  /\ timedout \in BOOLEAN /\ canDay2 \in BOOLEAN /\ hisReady \in BOOLEAN
  /\ slow \in BOOLEAN /\ dayDone \in BOOLEAN
IndexTypes ==
  /\ mem0 \in SUBSET Postings /\ mem1 \in SUBSET Postings
  /\ day \in [0..2 -> Indexers] /\ his \in [0..1 -> Indexers]
  /\ iday \in 0..1 /\ ihis \in 0..1
  /\ cday \in {0, 1, NoCur} /\ chis \in {0, 1, NoCur}
ThreadTypes ==
  /\ upc \in {"idle", "term", "swap", "wait", "sleep", "woken"}
  /\ dpc \in {"enter", "wait", "expired", "choose", "merge", "merged", "cut", "check", "install"}
  /\ hpc \in {"idle", "merge", "merged", "cut", "install"}
  /\ todo \in SUBSET Terms /\ uterm \in Terms \cup {NoTerm}
  /\ dst \in 0..2 /\ docs \in Seq(1..Msgs) /\ crashes \in Nat
  /\ chk \in 0..Msgs /\ last \in 0..Msgs /\ pos \in 0..Msgs /\ dumpPos \in 0..Msgs
TypeOK == FlagTypes /\ IndexTypes /\ ThreadTypes

\* Every posting of A is newer than every posting of the same term in B.
Above(A, B) == \A p \in A, q \in B : p[1] = q[1] => p[2] > q[2]

\* The layers are in descending order of id, term by term.
Stacked(layers) ==
  \A i, j \in DOMAIN layers : i < j => Above(layers[i], layers[j])

\* The list get_posting_list concatenates is strictly descending, hence without
\* repetition ("postinglist按照ID降序排列").
Descending ==
  Stacked(<<mem0, mem1, Seen(day[iday]), Seen(day[2]), Seen(his[ihis])>>)

\* day/2 is readable from set_finish on, but MEM1 and DAY, which it repeats, are
\* removed only by the install step.
InHandover == dst = 2 /\ dpc \in {"merged", "cut", "check", "install"}

\* Outside that window the order holds; inside it, it holds without day/2.
Layered ==
  /\ Stacked(<<mem0, mem1, Seen(day[iday]), Seen(his[ihis])>>)
  /\ Above(mem0, Seen(day[2]))
  /\ Above(Seen(day[2]), Seen(his[ihis]))
  /\ ~InHandover => Descending

\* The two mergers never work on day/2 at the same time, although the flags
\* m_can_dump_day2 and m_his_merge_ready are read without a lock.
Day2Exclusive ==
  ~(dst = 2 /\ dpc \in {"merge", "merged", "cut", "check", "install"} /\ hpc # "idle")

\* A list of MaxList postings is full; older ones may be cut from it.
ListFull(S, t) == Cardinality({p \in S : p[1] = t}) >= MaxList

\* Message m can be found under its term t in the postings S.
Found(m, t, S) ==
  \/ \E id \in DOMAIN docs : docs[id] = m /\ <<t, id>> \in S
  \/ ListFull(S, t)

\* Every message the update thread has acknowledged is searchable under each of
\* its terms ("更新之后即可查询到数据"), whatever the mergers are doing.
Searchable ==
  up => \A m \in 1..last : \A t \in TermsOf[m] : Found(m, t, Visible)

\* What the constructor would make visible after a death now.
Recoverable == Seen(day[cday]) \cup Seen(day[2]) \cup Seen(his[chis])

\* Messages up to the check point are not replayed, so they must be on disk in
\* indexes a restart opens ("消息一个不少").
Durable ==
  (cday # NoCur /\ chis # NoCur) =>
    \A m \in 1..chk : \A t \in TermsOf[m] : Found(m, t, Recoverable)

\* The check point never moves backwards, across replays too.
CheckPointMonotone == [][chk' >= chk]_vars

\* A swapped memory index is eventually merged to disk.
DumpHappens == (up /\ hasMem1) ~> (~hasMem1 \/ ~up)

\* A dump to day/2 is eventually merged into the history index.
HisMergeHappens ==
  (up /\ hisReady /\ Seen(day[2]) # {}) ~> (~hisReady \/ ~up)

\* One life of the process implements the store of postings.
Store == INSTANCE PostingStore WITH Ids <- 1..Msgs,
           store <- IF up THEN Visible ELSE {}, alive <- up
ImplementsStore == Store!Spec
=============================================================================
