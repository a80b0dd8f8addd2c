-------------------------- MODULE IndexGroupProofs --------------------------
(***************************************************************************)
(* Proofs about IndexGroup.                                                *)
(*                                                                         *)
(* Types, that the check point never moves back and that the mergers       *)
(* exclude each other on day/2, for every set of terms, every message      *)
(* queue and every number of deaths; then, for one life of the process and *)
(* every set of terms, message queue, MAX_POSTINGLIST_SIZE and             *)
(* every answer of the memory index, that the layers stay in order         *)
(* (Layered), that the group implements PostingStore, and that it loses no *)
(* acknowledged document; last, that through any number of deaths a        *)
(* restart finds every message behind the check point, while dumps are     *)
(* periodic and lists are not cut (Durable).                               *)
(***************************************************************************)
EXTENDS IndexGroup, SequenceTheorems, FiniteSetTheorems, WellFoundedInduction, TLAPS

(***************************************************************************)
(* Part 1.  Types.  TypeOK is not inductive: recording the position of a   *)
(* document reads the last element of docs, and the id of a new posting is *)
(* its length, so a document must have been allocated.                     *)
(***************************************************************************)
TypeInv == TypeOK /\ (upc # "idle" => Len(docs) > 0)

\* A merge only copies postings of its two sources.
LEMMA MergedSub == \A A, B : Merged(A, B) \subseteq A \cup B
  BY DEF Merged, NewestOf

\* What the operators on disk indexers return.
LEMMA IndexerTypes ==
  ASSUME NEW ix \in Indexers
  PROVE  /\ Seen(ix) \in SUBSET Postings /\ Seen(ix) \subseteq ix.post
         /\ Finished(ix) \in Indexers
         /\ OnDisk(ix) \in Indexers
         /\ Opened(ix) \in Indexers
         /\ Marked(ix, "torn") \in Indexers
         /\ NoIndex \in Indexers
  BY DEF Indexers, Statuses, Seen, Finished, OnDisk, Opened, NoIndex, Marked

\* The last message of an idmap, and an idmap just extended.
LEMMA LastElement ==
  ASSUME NEW s \in Seq(1..Msgs)
  PROVE  /\ Len(s) \in Nat
         /\ Len(s) > 0 => s[Len(s)] \in 1..Msgs
         /\ \A e \in 1..Msgs : /\ Append(s, e) \in Seq(1..Msgs)
                              /\ Len(Append(s, e)) = Len(s) + 1
                              /\ Append(s, e)[Len(s) + 1] = e
  <1>1. Len(s) \in Nat /\ s \in [1..Len(s) -> 1..Msgs]
    BY LenProperties
  <1>2. Len(s) > 0 => s[Len(s)] \in 1..Msgs
    BY <1>1
  <1>3. ASSUME NEW e \in 1..Msgs
        PROVE  /\ Append(s, e) \in Seq(1..Msgs)
               /\ Len(Append(s, e)) = Len(s) + 1
               /\ Append(s, e)[Len(s) + 1] = e
    BY <1>1
  <1>4. QED
    BY <1>1, <1>2, <1>3

\* A document in progress has an inner id and a message.
LEMMA LastDoc ==
  ASSUME TypeInv, upc # "idle"
  PROVE  Uid \in Nat \ {0} /\ Msg \in 1..Msgs
  <1>1. docs \in Seq(1..Msgs) /\ Len(docs) > 0
    BY DEF TypeInv, TypeOK, ThreadTypes
  <1>2. Len(docs) \in Nat /\ docs[Len(docs)] \in 1..Msgs
    BY <1>1, LastElement
  <1>3. QED
    BY <1>1, <1>2 DEF Uid, Msg

\* The initial state is typed.
LEMMA TypeInit == Init => TypeInv
  <1> SUFFICES ASSUME Init PROVE TypeInv
    OBVIOUS
  <1>1. NoIndex \in Indexers
    BY DEF NoIndex, Indexers, Statuses
  <1>2. FlagTypes
    BY Zenon DEF Init, FlagTypes
  <1>3. IndexTypes
    BY <1>1 DEF Init, IndexTypes
  <1>4. ThreadTypes
    BY MsgsAssumption DEF Init, ThreadTypes
  <1>5. QED
    BY <1>2, <1>3, <1>4 DEF TypeInv, TypeOK, Init

\* Every flag of a running process stays Boolean.
LEMMA FlagStep == FlagTypes /\ Threads => FlagTypes'
  <1> SUFFICES ASSUME FlagTypes, Threads PROVE FlagTypes'
    OBVIOUS
  <1> USE DEF FlagTypes, updVars, memVars, diskVars, dayVars, flagVars
  <1>0. up' = up
    BY DEF Threads
  <1>1. CASE UpdStep
    <2>1. CASE UpdBegin
      BY <1>0, <2>1, Zenon DEF UpdBegin
    <2>2. ASSUME NEW t \in Terms, NEW r \in Results, UpdTerm(t, r) PROVE FlagTypes'
      BY <1>0, <2>2, Zenon DEF UpdTerm
    <2>3a. CASE UpdEnd
      BY <1>0, <2>3a, Zenon DEF UpdEnd
    <2>3b. CASE UpdTest
      BY <1>0, <2>3b, Zenon DEF UpdTest
    <2>3c. CASE UpdSleep
      BY <1>0, <2>3c, Zenon DEF UpdSleep
    <2>3d. CASE UpdWake
      BY <1>0, <2>3d, Zenon DEF UpdWake
    <2>4. CASE UpdSwap
      BY <1>0, <2>4, Zenon DEF UpdSwap
    <2>5. QED
      BY <1>1, <2>1, <2>2, <2>3a, <2>3b, <2>3c, <2>3d, <2>4 DEF UpdStep
  <1>2. CASE DayStep
    <2>1a. CASE DayEnter
      BY <1>0, <2>1a, Zenon DEF DayEnter
    <2>1b. CASE DayTimeout
      BY <1>0, <2>1b, Zenon DEF DayTimeout
    <2>2. CASE DayExpired
      BY <1>0, <2>2, Zenon DEF DayExpired
    <2>3. ASSUME NEW low \in BOOLEAN, DayChoose(low) PROVE FlagTypes'
      BY <1>0, <2>3, Zenon DEF DayChoose
    <2>4a. CASE DayTear
      BY <1>0, <2>4a, Zenon DEF DayTear
    <2>4b. CASE DayFinish
      BY <1>0, <2>4b, Zenon DEF DayFinish
    <2>4c. CASE DayCut
      BY <1>0, <2>4c, Zenon DEF DayCut
    <2>4d. CASE DaySetCur
      BY <1>0, <2>4d, Zenon DEF DaySetCur
    <2>4e. CASE DayCheckPoint
      BY <1>0, <2>4e, Zenon DEF DayCheckPoint
    <2>5. ASSUME NEW late \in BOOLEAN, DayInstall(late) PROVE FlagTypes'
      BY <1>0, <2>5, Zenon DEF DayInstall
    <2>6. QED
      BY <1>2, <2>1a, <2>1b, <2>2, <2>3, <2>4a, <2>4b, <2>4c, <2>4d, <2>4e, <2>5 DEF DayStep
  <1>3. CASE HisStep
    <2>1a. CASE HisBegin
      BY <1>0, <2>1a, Zenon DEF HisBegin
    <2>1b. CASE HisTear
      BY <1>0, <2>1b, Zenon DEF HisTear
    <2>1c. CASE HisFinish
      BY <1>0, <2>1c, Zenon DEF HisFinish
    <2>1d. CASE HisCut
      BY <1>0, <2>1d, Zenon DEF HisCut
    <2>1e. CASE HisSetCur
      BY <1>0, <2>1e, Zenon DEF HisSetCur
    <2>1f. CASE HisInstall
      BY <1>0, <2>1f, Zenon DEF HisInstall
    <2> QED
      BY <1>3, <2>1a, <2>1b, <2>1c, <2>1d, <2>1e, <2>1f DEF HisStep
  <1>4a. CASE NextDay
    BY <1>0, <1>4a, Zenon DEF NextDay
  <1>4b. CASE UpdSpurious
    BY <1>0, <1>4b, Zenon DEF UpdSpurious
  <1>4c. CASE DaySpurious
    BY <1>0, <1>4c, Zenon DEF DaySpurious
  <1>5. QED
    BY <1>1, <1>2, <1>3, <1>4a, <1>4b, <1>4c DEF Threads

\* The update thread keeps the types of indexes and threads.
DataInv == IndexTypes /\ ThreadTypes /\ (upc # "idle" => Len(docs) > 0)

\* The steps of the update thread keep the types of the data.
LEMMA DataUpd == TypeInv /\ Threads /\ (UpdStep \/ UpdSpurious) => DataInv'
  <1> SUFFICES ASSUME TypeInv, Threads, UpdStep \/ UpdSpurious PROVE DataInv'
    OBVIOUS
  <1>0. crashes' = crashes
    BY DEF Threads
  <1> USE DEF updVars, memVars, diskVars, dayVars, flagVars
  <1> USE DEF TypeInv, TypeOK, DataInv, IndexTypes, ThreadTypes
  <1>1. CASE UpdBegin
    <2>1. last + 1 \in 1..Msgs
      BY <1>1, MsgsAssumption DEF UpdBegin
    <2>2. TermsOf[last + 1] \in SUBSET Terms
      BY <2>1, MsgsAssumption
    <2>3. docs \in Seq(1..Msgs) /\ Append(docs, last + 1) \in Seq(1..Msgs)
          /\ Len(Append(docs, last + 1)) > 0
      BY <2>1, LastElement
    <2>4. docs' \in Seq(1..Msgs) /\ (upc' # "idle" => Len(docs') > 0)
      BY <1>1, <2>3 DEF UpdBegin
    <2>5. QED
      BY <1>0, <1>1, <2>1, <2>2, <2>4 DEF UpdBegin
  <1>2. ASSUME NEW t \in Terms, NEW r \in Results, UpdTerm(t, r) PROVE DataInv'
    <2>1. <<t, Uid>> \in Postings
      BY <1>2, LastDoc DEF UpdTerm, Postings
    <2>2. QED
      BY <1>0, <1>2, <2>1 DEF UpdTerm
  <1>3. CASE UpdEnd
    BY <1>0, <1>3, LastDoc DEF UpdEnd
  <1>4. CASE UpdTest \/ UpdSleep \/ UpdWake \/ UpdSpurious
    <2>1. CASE UpdTest
      BY <1>0, <2>1 DEF UpdTest
    <2>2. CASE UpdSleep
      BY <1>0, <2>2 DEF UpdSleep
    <2>3. CASE UpdWake
      BY <1>0, <2>3 DEF UpdWake
    <2>4. CASE UpdSpurious
      BY <1>0, <2>4 DEF UpdSpurious
    <2> QED
      BY <1>4, <2>1, <2>2, <2>3, <2>4
  <1>5. CASE UpdSwap
    <2>1. uterm # NoTerm => <<uterm, Uid>> \in Postings
      BY <1>5, LastDoc DEF UpdSwap, Postings
    <2>2. mem0' \in SUBSET Postings /\ mem1' \in SUBSET Postings
      BY <1>5, <2>1 DEF UpdSwap
    <2>3. last' \in 0..Msgs /\ pos' \in 0..Msgs
      BY <1>5, LastDoc DEF UpdSwap
    <2>4. IndexTypes'
      BY <1>5, <2>2 DEF UpdSwap
    <2>5. dpc' \in {"enter", "wait", "expired", "choose", "merge", "merged", "cut", "check", "install"}
      BY <1>5 DEF UpdSwap, SignalDay
    <2>6. upc' \in {"idle", "term"} /\ todo' \in SUBSET Terms /\ uterm' = NoTerm /\ docs' = docs
      BY <1>5 DEF UpdSwap
    <2>7. upc' # "idle" => Len(docs') > 0
      BY <1>5, <2>6 DEF UpdSwap
    <2>8. ThreadTypes'
      BY <1>0, <1>5, <2>3, <2>5, <2>6 DEF UpdSwap
    <2>9. QED
      BY <2>4, <2>7, <2>8
  <1>6. QED
    BY <1>1, <1>2, <1>3, <1>4, <1>5 DEF UpdStep

\* The day merger keeps them.
LEMMA DataDay == TypeInv /\ Threads /\ (DayStep \/ DaySpurious \/ NextDay) => DataInv'
  <1> SUFFICES ASSUME TypeInv, Threads, DayStep \/ DaySpurious \/ NextDay PROVE DataInv'
    OBVIOUS
  <1>0. crashes' = crashes
    BY DEF Threads
  <1> USE DEF updVars, memVars, diskVars, dayVars, flagVars
  <1> USE DEF TypeInv, TypeOK, DataInv, IndexTypes, ThreadTypes
  <1>1. CASE DayEnter \/ DayTimeout \/ DaySpurious \/ NextDay
    BY <1>0, <1>1 DEF DayEnter, DayTimeout, DaySpurious, NextDay
  <1>2. CASE DayExpired
    BY <1>0, <1>2 DEF DayExpired
  <1>3. ASSUME NEW low \in BOOLEAN, DayChoose(low) PROVE DataInv'
    <2>1. dst' \in 0..2
      BY <1>3 DEF DayChoose
    <2>2. [st |-> "writing", post |-> Merged(mem1, Seen(day[iday]))] \in Indexers
      <3>1. Merged(mem1, Seen(day[iday])) \in SUBSET Postings
        BY MergedSub, IndexerTypes
      <3>2. QED
        BY <3>1 DEF Indexers, Statuses
    <2>3. day' \in [0..2 -> Indexers]
      BY <1>3, <2>1, <2>2 DEF DayChoose
    <2>4. QED
      BY <1>0, <1>3, <2>1, <2>3 DEF DayChoose
  <1>4. CASE DayTear
    <2>1. day' \in [0..2 -> Indexers]
      BY <1>4, IndexerTypes DEF DayTear
    <2>2. QED
      BY <1>0, <1>4, <2>1 DEF DayTear
  <1>5. CASE DayFinish
    <2>1. day' \in [0..2 -> Indexers]
      BY <1>5, IndexerTypes DEF DayFinish
    <2>2. QED
      BY <1>0, <1>5, <2>1 DEF DayFinish
  <1>6. CASE DayCut \/ DaySetCur \/ DayCheckPoint
    <2>1. CASE DayCut
      BY <1>0, <2>1 DEF DayCut
    <2>2. CASE DaySetCur
      BY <1>0, <2>2 DEF DaySetCur, CurOf
    <2>3. CASE DayCheckPoint
      BY <1>0, <2>3 DEF DayCheckPoint
    <2> QED
      BY <1>6, <2>1, <2>2, <2>3
  <1>7. ASSUME NEW late \in BOOLEAN, DayInstall(late) PROVE DataInv'
    <2>1. day' \in [0..2 -> Indexers]
      BY <1>7, IndexerTypes DEF DayInstall, DayCleared
    <2>2. iday' \in 0..1
      BY <1>7 DEF DayInstall
    <2>3. QED
      BY <1>0, <1>7, <2>1, <2>2 DEF DayInstall, SignalUpd
  <1>8. QED
    BY <1>1, <1>2, <1>3, <1>4, <1>5, <1>6, <1>7 DEF DayStep

\* The history merger keeps them.
LEMMA DataHis == TypeInv /\ Threads /\ HisStep => DataInv'
  <1> SUFFICES ASSUME TypeInv, Threads, HisStep PROVE DataInv'
    OBVIOUS
  <1>0. crashes' = crashes
    BY DEF Threads
  <1> USE DEF updVars, memVars, diskVars, dayVars, flagVars
  <1> USE DEF TypeInv, TypeOK, DataInv, IndexTypes, ThreadTypes
  <1>1. CASE HisBegin
    <2>1. Merged(Seen(day[2]), Seen(his[ihis])) \in SUBSET Postings
      BY MergedSub, IndexerTypes
    <2>2. [st |-> "writing", post |-> Merged(Seen(day[2]), Seen(his[ihis]))] \in Indexers
      BY <2>1 DEF Indexers, Statuses
    <2>3. QED
      BY <1>0, <1>1, <2>2 DEF HisBegin
  <1>2. CASE HisTear
    BY <1>0, <1>2, IndexerTypes DEF HisTear
  <1>3. CASE HisFinish
    BY <1>0, <1>3, IndexerTypes DEF HisFinish
  <1>4. CASE HisCut \/ HisSetCur
    BY <1>0, <1>4 DEF HisCut, HisSetCur
  <1>5. CASE HisInstall
    <2>1. NoIndex \in Indexers
      BY DEF NoIndex, Indexers, Statuses
    <2>2. day' \in [0..2 -> Indexers] /\ his' \in [0..1 -> Indexers] /\ ihis' \in 0..1
      BY <1>5, <2>1 DEF HisInstall
    <2>3. QED
      BY <1>0, <1>5, <2>2 DEF HisInstall
  <1>6. QED
    BY <1>1, <1>2, <1>3, <1>4, <1>5 DEF HisStep

\* A death keeps the types.
LEMMA TypeDie == TypeInv /\ Die => TypeInv'
  <1> SUFFICES ASSUME TypeInv, Die PROVE TypeInv'
    OBVIOUS
  <1>1. FlagTypes'
    BY Zenon DEF TypeInv, TypeOK, FlagTypes, Die
  <1>2. IndexTypes'
    BY IndexerTypes DEF TypeInv, TypeOK, IndexTypes, Die
  <1>3. ThreadTypes' /\ (upc' # "idle" => Len(docs') > 0)
    BY DEF TypeInv, TypeOK, ThreadTypes, Die
  <1>4. QED
    BY <1>1, <1>2, <1>3 DEF TypeInv, TypeOK

\* So does a restart.
LEMMA TypeRestart == TypeInv /\ Restart => TypeInv'
  <1> SUFFICES ASSUME TypeInv, Restart PROVE TypeInv'
    OBVIOUS
  <1>1. FlagTypes'
    BY Zenon DEF TypeInv, TypeOK, FlagTypes, Restart, memVars, Empty
  <1>2. IndexTypes'
    BY IndexerTypes DEF TypeInv, TypeOK, IndexTypes, Restart, memVars
  <1>3. ThreadTypes' /\ (upc' # "idle" => Len(docs') > 0)
    BY DEF TypeInv, TypeOK, ThreadTypes, Restart, ResumeAt
  <1>4. QED
    BY <1>1, <1>2, <1>3 DEF TypeInv, TypeOK

\* Every step of the specification keeps TypeInv.
LEMMA TypeNext == TypeInv /\ [Next]_vars => TypeInv'
  <1> SUFFICES ASSUME TypeInv, [Next]_vars PROVE TypeInv'
    OBVIOUS
  <1>1. CASE Threads
    <2>1. FlagTypes'
      BY <1>1, FlagStep DEF TypeInv, TypeOK
    <2>2. DataInv'
      BY <1>1, DataUpd, DataDay, DataHis DEF Threads
    <2>3. QED
      BY <2>1, <2>2 DEF TypeInv, TypeOK, DataInv
  <1>2. CASE Die
    BY <1>2, TypeDie
  <1>3. CASE Restart
    BY <1>3, TypeRestart
  <1>4. CASE UNCHANGED vars
    <2> USE DEF vars, updVars, memVars, diskVars, dayVars, flagVars
    <2>1. FlagTypes'
      BY <1>4, Zenon DEF TypeInv, TypeOK, FlagTypes
    <2>2. IndexTypes' /\ ThreadTypes'
      BY <1>4 DEF TypeInv, TypeOK, IndexTypes, ThreadTypes
    <2>3. QED
      BY <1>4, <2>1, <2>2 DEF TypeInv, TypeOK
  <1>5. QED
    BY <1>1, <1>2, <1>3, <1>4 DEF Next, NextRun, Suicide, QueryThrows, Crash

\* Every variable keeps its type, through deaths and restarts, whatever the
\* order in which the threads of index_group step.
THEOREM TypeCorrect == Spec => []TypeOK
  <1>1. Spec => []TypeInv
    BY TypeInit, TypeNext, PTL DEF Spec
  <1>2. TypeInv => TypeOK
    BY DEF TypeInv
  <1>3. QED
    BY <1>1, <1>2, PTL

(***************************************************************************)
(* Part 2.  Positions.  The four positions in the queue - the check point, *)
(* the one captured for the current dump, the one of MEM0 and the last     *)
(* acknowledged message - are always in this order, and the document being *)
(* inserted is the message after the last.                                 *)
(***************************************************************************)
Ordered == chk <= dumpPos /\ dumpPos <= pos /\ pos <= last
PosInv == Ordered /\ (upc # "idle" => Msg = last + 1)

\* A process that is down has no thread in the middle of its work.
Down == ~up => upc = "idle" /\ dpc = "enter" /\ hpc = "idle"

\* No step wakes a thread of a dead process.
LEMMA DownStep == Down /\ [Next]_vars => Down'
  <1> SUFFICES ASSUME Down, [Next]_vars PROVE Down'
    OBVIOUS
  <1>1. CASE Threads
    BY <1>1, Zenon DEF Threads, Down
  <1>2. CASE Die
    BY <1>2, Zenon DEF Die, Down
  <1>3. CASE Restart
    BY <1>3, Zenon DEF Restart, Down
  <1>4. CASE UNCHANGED vars
    BY <1>4, Zenon DEF Down, vars, updVars, dayVars
  <1>5. QED
    BY <1>1, <1>2, <1>3, <1>4 DEF Next, NextRun, Suicide, QueryThrows, Crash

\* Every step keeps the positions in order, and none moves the check point back.
LEMMA PosStep == TypeInv /\ Down /\ PosInv /\ [Next]_vars => PosInv' /\ chk' >= chk
  <1> SUFFICES ASSUME TypeInv, Down, PosInv, [Next]_vars PROVE PosInv' /\ chk' >= chk
    OBVIOUS
  <1>0. chk \in Int /\ dumpPos \in Int /\ pos \in Int /\ last \in 0..Msgs /\ Msgs \in Nat
    BY MsgsAssumption DEF TypeInv, TypeOK, ThreadTypes
  <1> USE DEF PosInv, Ordered, Msg, Uid
  <1> USE DEF vars, updVars, memVars, diskVars, dayVars, flagVars
  <1>1. CASE UpdBegin
    <2>1. docs \in Seq(1..Msgs) /\ last + 1 \in 1..Msgs
      BY <1>0, <1>1 DEF TypeInv, TypeOK, ThreadTypes, UpdBegin
    <2>2. LET d == Append(docs, last + 1) IN d[Len(d)] = last + 1
      BY <2>1, LastElement
    <2>3. QED
      BY <1>0, <1>1, <2>2 DEF UpdBegin
  <1>2. ASSUME NEW t \in Terms, NEW r \in Results, UpdTerm(t, r) PROVE PosInv' /\ chk' >= chk
    BY <1>0, <1>2 DEF UpdTerm
  <1>3. CASE UpdEnd \/ UpdTest \/ UpdSleep \/ UpdWake \/ UpdSpurious
    BY <1>0, <1>3 DEF UpdEnd, UpdTest, UpdSleep, UpdWake, UpdSpurious
  <1>4. CASE UpdSwap
    BY <1>0, <1>4 DEF UpdSwap
  <1>5. CASE DayEnter \/ DayTimeout \/ DayExpired \/ DaySpurious \/ NextDay
    BY <1>0, <1>5 DEF DayEnter, DayTimeout, DayExpired, DaySpurious, NextDay
  <1>6. ASSUME NEW low \in BOOLEAN, DayChoose(low) PROVE PosInv' /\ chk' >= chk
    BY <1>0, <1>6 DEF DayChoose
  <1>7. CASE DayTear \/ DayFinish \/ DayCut \/ DaySetCur \/ DayCheckPoint
    BY <1>0, <1>7 DEF DayTear, DayFinish, DayCut, DaySetCur, DayCheckPoint
  <1>8. ASSUME NEW late \in BOOLEAN, DayInstall(late) PROVE PosInv' /\ chk' >= chk
    BY <1>0, <1>8 DEF DayInstall, SignalUpd
  <1>9. CASE HisStep
    BY <1>0, <1>9 DEF HisStep, HisBegin, HisTear, HisFinish, HisCut, HisSetCur, HisInstall
  <1>10. CASE Die
    BY <1>0, <1>10 DEF Die
  <1>11. CASE Restart
    <2>1. upc' = "idle"
      BY <1>11, Zenon DEF Down, Restart
    <2>2. QED
      BY <1>0, <1>11, <2>1 DEF Restart, ResumeAt
  <1>12. CASE UNCHANGED vars
    BY <1>0, <1>12
  <1>13. QED
    BY <1>1, <1>2, <1>3, <1>4, <1>5, <1>6, <1>7, <1>8, <1>9, <1>10, <1>11, <1>12
    DEF Next, NextRun, Threads, UpdStep, DayStep, Suicide, QueryThrows, Crash

\* The check point written by set_check_point never moves backwards, across any
\* number of deaths and replays.
THEOREM CheckPointAdvances == Spec => CheckPointMonotone
  <1>1. Init => TypeInv /\ Down /\ PosInv
    BY TypeInit DEF Init, Down, PosInv, Ordered
  <1>2. TypeInv /\ Down /\ PosInv /\ [Next]_vars
          => (TypeInv /\ Down /\ PosInv)' /\ [chk' >= chk]_vars
    BY TypeNext, DownStep, PosStep
  <1>3. QED
    BY <1>1, <1>2, PTL DEF Spec, CheckPointMonotone

(***************************************************************************)
(* Part 3.  day/2 is shared by the two mergers without a lock.  What keeps *)
(* them apart is a token passed between the flags: m_can_dump_day2 offers  *)
(* day/2 to the day merger, m_his_merge_ready to the history merger, and   *)
(* neither is set while the day merger works on it.                        *)
(***************************************************************************)
Busy == {"merge", "merged", "cut", "check", "install"}
OnDay2 == dst = 2 /\ dpc \in Busy
Token ==
  /\ canDay2 => ~hisReady
  /\ hpc # "idle" => hisReady
  /\ OnDay2 => ~canDay2 /\ ~hisReady

\* Every step of either merger, and a death between any two, keeps the token in one hand.
LEMMA TokenStep == TypeInv /\ Down /\ Token /\ [Next]_vars => Token'
  <1> SUFFICES ASSUME TypeInv, Down, Token, [Next]_vars PROVE Token'
    OBVIOUS
  <1> USE DEF Token, OnDay2, Busy
  <1> USE DEF vars, updVars, memVars, diskVars, dayVars, flagVars
  <1>1. CASE UpdBegin \/ UpdEnd \/ UpdTest \/ UpdSleep \/ UpdWake \/ UpdSpurious \/ NextDay
    <2>1. UNCHANGED <<canDay2, hisReady, hpc, dst, dpc>>
      BY <1>1 DEF UpdBegin, UpdEnd, UpdTest, UpdSleep, UpdWake, UpdSpurious, NextDay
    <2>2. QED
      BY <2>1, Zenon
  <1>2. ASSUME NEW t \in Terms, NEW r \in Results, UpdTerm(t, r) PROVE Token'
    BY <1>2, Zenon DEF UpdTerm
  <1>3. CASE UpdSwap
    <2>1. OnDay2' => OnDay2
      BY <1>3 DEF UpdSwap, SignalDay
    <2>2. QED
      BY <1>3, <2>1, Zenon DEF UpdSwap
  <1>4. CASE DayEnter \/ DayTimeout \/ DayExpired \/ DaySpurious
    <2>1. ~OnDay2'
      BY <1>4 DEF DayEnter, DayTimeout, DayExpired, DaySpurious
    <2>2. UNCHANGED <<canDay2, hisReady, hpc>>
      BY <1>4 DEF DayEnter, DayTimeout, DayExpired, DaySpurious
    <2>3. QED
      BY <2>1, <2>2, Zenon
  <1>5. ASSUME NEW low \in BOOLEAN, DayChoose(low) PROVE Token'
    <2>1. CASE NeedDay2(low)
      BY <1>5, <2>1, Zenon DEF DayChoose, NeedDay2
    <2>2. CASE ~NeedDay2(low)
      <3>1. ~OnDay2'
        BY <1>5, <2>2 DEF DayChoose, TypeInv, TypeOK, IndexTypes
      <3>2. QED
        BY <1>5, <3>1, Zenon DEF DayChoose
    <2>3. QED
      BY <2>1, <2>2
  <1>6. CASE DayTear \/ DayFinish \/ DayCut \/ DaySetCur \/ DayCheckPoint
    <2>1. OnDay2' => OnDay2
      BY <1>6 DEF DayTear, DayFinish, DayCut, DaySetCur, DayCheckPoint
    <2>2. UNCHANGED <<canDay2, hisReady, hpc>>
      BY <1>6 DEF DayTear, DayFinish, DayCut, DaySetCur, DayCheckPoint
    <2>3. QED
      BY <2>1, <2>2, Zenon
  <1>7. ASSUME NEW late \in BOOLEAN, DayInstall(late) PROVE Token'
    <2>1. ~OnDay2'
      BY <1>7 DEF DayInstall
    <2>2. dst = 2 => ~canDay2
      BY <1>7, Zenon DEF DayInstall
    <2>3. QED
      BY <1>7, <2>1, <2>2, Zenon DEF DayInstall
  <1>8. CASE HisBegin \/ HisTear \/ HisFinish \/ HisCut \/ HisSetCur
    <2>1. UNCHANGED <<canDay2, hisReady, dst, dpc>> /\ hisReady
      BY <1>8 DEF HisBegin, HisTear, HisFinish, HisCut, HisSetCur
    <2>2. QED
      BY <2>1, Zenon
  <1>9. CASE HisInstall
    <2>1. ~OnDay2
      BY <1>9 DEF HisInstall
    <2>2. QED
      BY <1>9, <2>1, Zenon DEF HisInstall
  <1>10. CASE Die
    BY <1>10 DEF Die
  <1>11. CASE Restart
    <2>1. dpc' = "enter" /\ hpc' = "idle"
      BY <1>11, Zenon DEF Down, Restart
    <2>2. ~OnDay2'
      BY <2>1
    <2>3. QED
      BY <1>11, <2>1, <2>2, Zenon DEF Restart
  <1>12. CASE UNCHANGED vars
    BY <1>12, Zenon
  <1>13. QED
    BY <1>1, <1>2, <1>3, <1>4, <1>5, <1>6, <1>7, <1>8, <1>9, <1>10, <1>11, <1>12
    DEF Next, NextRun, Threads, UpdStep, DayStep, HisStep, Suicide, QueryThrows, Crash

\* The day merger and the history merger never work on day/2 at the same time,
\* although they share it without a lock and a death can fall between any two
\* steps of either.
THEOREM Day2IsExclusive == Spec => []Day2Exclusive
  <1>1. Init => TypeInv /\ Down /\ Token
    BY TypeInit DEF Init, Down, Token, OnDay2, Busy
  <1>2. TypeInv /\ Down /\ Token /\ [Next]_vars => (TypeInv /\ Down /\ Token)'
    BY TypeNext, DownStep, TokenStep
  <1>3. Token => Day2Exclusive
    BY Zenon DEF Token, Day2Exclusive, OnDay2, Busy
  <1>4. QED
    BY <1>1, <1>2, <1>3, PTL DEF Spec

-----------------------------------------------------------------------------
(***************************************************************************)
(* The proof that the layers of index_group stay in order (Layered) during *)
(* one life of the process, for every set of terms, every queue of         *)
(* messages, every MAX_POSTINGLIST_SIZE and every answer of the memory     *)
(* index.                                                                  *)
(***************************************************************************)

(***************************************************************************)
(* The layers a query reads on disk.                                       *)
(***************************************************************************)
DayL  == Seen(day[iday])
Day2L == Seen(day[2])
HisL  == Seen(his[ihis])

(***************************************************************************)
(* The order of the layers, pair by pair.  While day/2 repeats MEM1 and    *)
(* DAY (hand) it is not compared with them.                                *)
(***************************************************************************)
Order(m0, m1, d, d2, h, hand) ==
  /\ Above(m0, m1) /\ Above(m0, d) /\ Above(m0, d2) /\ Above(m0, h)
  /\ Above(m1, d) /\ Above(m1, h) /\ Above(d, h) /\ Above(d2, h)
  /\ hand \/ (Above(m1, d2) /\ Above(d, d2))
InOrder == Order(mem0, mem1, DayL, Day2L, HisL, InHandover)

\* What a merge in progress has written comes from the layers it replaces.
FromSources ==
  /\ dpc \in Busy => day[dst].post \subseteq mem1 \cup DayL
  /\ hpc # "idle" => his[1 - ihis].post \subseteq Day2L \cup HisL

\* The day merger works on an index no query reads as DAY, and has a MEM1;
\* until set_finish the index cannot be read.
MergerState ==
  /\ dpc \in Busy => (dst = 2 \/ dst = 1 - iday) /\ hasMem1
  /\ dpc = "choose" => hasMem1
  /\ dpc = "merge" => day[dst].st \in {"writing", "torn"}
  /\ ~hasMem1 => mem1 = {}

\* No indexer was reopened from torn files.
Unbroken == (\A d \in 0..2 : day[d].st # "broken") /\ (\A h \in 0..1 : his[h].st # "broken")

\* Ids grow: postings are at most as new as the current document, and its
\* pending terms have no posting yet.
Older(S) == \A p \in S : p[2] <= Len(docs) /\ (p[1] \in todo => p[2] < Len(docs))
Fresh(S) == \A p \in S : p[2] <= Len(docs)
IdsGrow ==
  /\ Fresh(mem0) /\ Fresh(mem1) /\ Fresh(DayL) /\ Fresh(Day2L) /\ Fresh(HisL)
  /\ upc # "idle" =>
       Older(mem0) /\ Older(mem1) /\ Older(DayL) /\ Older(Day2L) /\ Older(HisL)
Pending ==
  /\ uterm # NoTerm => uterm \in todo
  /\ upc \in {"idle", "term"} => uterm = NoTerm

OrderInv == InOrder /\ FromSources /\ MergerState /\ Unbroken /\ IdsGrow /\ Pending

-----------------------------------------------------------------------------
\* Above is inherited by subsets and by what a merge takes from two layers.
LEMMA AboveSub ==
  \A A, B, A1, B1 : Above(A, B) /\ A1 \subseteq A /\ B1 \subseteq B => Above(A1, B1)
  BY Zenon DEF Above

\* A union that is above, on the left.
LEMMA AboveLeft ==
  \A A, B, C, S : Above(A, C) /\ Above(B, C) /\ S \subseteq A \cup B => Above(S, C)
  BY Zenon DEF Above

\* A union that is below, on the right.
LEMMA AboveRight ==
  \A A, B, C, S : Above(C, A) /\ Above(C, B) /\ S \subseteq A \cup B => Above(C, S)
  BY Zenon DEF Above

\* An empty layer is in any order.
LEMMA AboveEmpty == \A A : Above({}, A) /\ Above(A, {})
  BY Zenon DEF Above

\* What the operators on disk indexers leave readable.
LEMMA SeenFacts ==
  ASSUME NEW ix \in Indexers
  PROVE  /\ Seen(ix) \subseteq ix.post
         /\ ix.st \in {"writing", "torn"} => Seen(ix) = {}
         /\ Seen(Finished(ix)) \subseteq ix.post
         /\ Finished(ix).post \subseteq ix.post
         /\ Finished(ix).st # "broken"
         /\ Seen(OnDisk(ix)) = Seen(ix)
         /\ OnDisk(ix).st # "broken" \/ ix.st = "broken"
         /\ Marked(ix, "torn").post = ix.post /\ Marked(ix, "torn").st = "torn"
         /\ Seen(NoIndex) = {} /\ NoIndex.post = {} /\ NoIndex.st = "empty"
  BY DEF Indexers, Statuses, Seen, Finished, OnDisk, NoIndex, Marked

\* A posting for a pending term is newer than all others of the term.
LEMMA NewestPosting ==
  ASSUME NEW S \in SUBSET Postings, NEW t \in todo, Older(S)
  PROVE  Above({<<t, Len(docs)>>}, S)
  BY DEF Above, Older

\* Layered says what InOrder says.
LEMMA OrderMeansLayered == InOrder => Layered
  <1> SUFFICES ASSUME InOrder PROVE Layered
    OBVIOUS
  <1> USE DEF InOrder, Order, DayL, Day2L, HisL
  <1>1. Stacked(<<mem0, mem1, Seen(day[iday]), Seen(his[ihis])>>)
    BY DEF Stacked
  <1>2. ~InHandover => Descending
    BY DEF Stacked, Descending
  <1>3. QED
    BY <1>1, <1>2 DEF Layered

-----------------------------------------------------------------------------
\* The layers have the type of postings.
LEMMA LayerTypes ==
  ASSUME IndexTypes
  PROVE  /\ DayL \in SUBSET Postings /\ Day2L \in SUBSET Postings /\ HisL \in SUBSET Postings
         /\ \A d \in 0..2 : day[d] \in Indexers
         /\ \A h \in 0..1 : his[h] \in Indexers
         /\ iday \in 0..1 /\ ihis \in 0..1 /\ 1 - ihis \in 0..1
  <1>1. \A d \in 0..2 : day[d] \in Indexers
    BY DEF IndexTypes
  <1>2. \A h \in 0..1 : his[h] \in Indexers
    BY DEF IndexTypes
  <1>3. iday \in 0..2 /\ ihis \in 0..1 /\ 2 \in 0..2
    BY DEF IndexTypes
  <1>4. QED
    BY <1>1, <1>2, <1>3, IndexerTypes DEF DayL, Day2L, HisL, IndexTypes

\* Steps that change no index keep the order and the sources of the merges.
LEMMA QuietStep ==
  ASSUME InOrder, FromSources, Unbroken,
         UNCHANGED <<mem0, mem1, day, his, iday, ihis>>,
         InHandover => InHandover',
         dpc' \in Busy => dpc \in Busy /\ dst' = dst,
         hpc' # "idle" => hpc # "idle"
  PROVE  InOrder' /\ FromSources' /\ Unbroken' /\ UNCHANGED <<DayL, Day2L, HisL>>
  <1>1. UNCHANGED <<DayL, Day2L, HisL>>
    BY DEF DayL, Day2L, HisL
  <1>2. InOrder'
    BY <1>1 DEF InOrder, Order
  <1>3. FromSources'
    BY <1>1 DEF FromSources
  <1>4. Unbroken'
    BY DEF Unbroken
  <1>5. QED
    BY <1>1, <1>2, <1>3, <1>4

\* Steps that change neither a layer nor the current document keep IdsGrow.
LEMMA QuietIds ==
  ASSUME IdsGrow, UNCHANGED <<mem0, mem1, DayL, Day2L, HisL, docs, todo>>,
         upc' # "idle" => upc # "idle"
  PROVE  IdsGrow'
  BY DEF IdsGrow, Fresh, Older

\* The update thread, except for insertions and swaps.
LEMMA OrderUpdQuiet ==
  ASSUME TypeInv, OrderInv,
         UpdEnd \/ UpdTest \/ UpdSleep \/ UpdWake \/ UpdSpurious
  PROVE  OrderInv'
  <1> USE DEF updVars, memVars, diskVars, dayVars, flagVars
  <1>1. UNCHANGED <<mem0, mem1, hasMem1, day, his, iday, ihis, dst, dpc, hpc, docs, todo, uterm>>
        /\ upc # "idle"
    BY DEF UpdEnd, UpdTest, UpdSleep, UpdWake, UpdSpurious
  <1>2. InOrder' /\ FromSources' /\ Unbroken' /\ UNCHANGED <<DayL, Day2L, HisL>>
    BY <1>1, QuietStep DEF OrderInv, InHandover
  <1>3. IdsGrow'
    BY <1>1, <1>2, QuietIds DEF OrderInv
  <1>4. MergerState'
    BY <1>1 DEF OrderInv, MergerState
  <1>5. Pending'
    BY <1>1 DEF OrderInv, Pending, UpdEnd, UpdTest, UpdSleep, UpdWake, UpdSpurious
  <1>6. QED
    BY <1>2, <1>3, <1>4, <1>5 DEF OrderInv

\* A new document: its id is newer than every posting.
LEMMA OrderUpdBegin ==
  ASSUME TypeInv, OrderInv, UpdBegin
  PROVE  OrderInv'
  <1> USE DEF updVars, memVars, diskVars, dayVars, flagVars
  <1>1. UNCHANGED <<mem0, mem1, hasMem1, day, his, iday, ihis, dst, dpc, hpc, uterm>>
        /\ upc = "idle"
    BY DEF UpdBegin
  <1>2. InOrder' /\ FromSources' /\ Unbroken' /\ UNCHANGED <<DayL, Day2L, HisL>>
    BY <1>1, QuietStep DEF OrderInv, InHandover
  <1>3. Len(docs) \in Nat /\ Len(Append(docs, last + 1)) = Len(docs) + 1
    <2>1. docs \in Seq(1..Msgs) /\ last + 1 \in 1..Msgs
      BY MsgsAssumption DEF TypeInv, TypeOK, ThreadTypes, UpdBegin
    <2>2. QED
      BY <2>1, LastElement
  <1>4. \/ UNCHANGED <<docs, todo>> /\ upc' = "idle"
        \/ Len(docs') = Len(docs) + 1
    BY <1>1, <1>3 DEF UpdBegin
  <1>5. mem0 \in SUBSET Postings /\ mem1 \in SUBSET Postings /\ DayL \in SUBSET Postings
        /\ Day2L \in SUBSET Postings /\ HisL \in SUBSET Postings
    BY LayerTypes DEF TypeInv, TypeOK, IndexTypes
  <1>6. ASSUME NEW S \in SUBSET Postings, Fresh(S), Len(docs') = Len(docs) + 1
        PROVE  \A p \in S : p[2] <= Len(docs') /\ p[2] < Len(docs')
    <2>1. \A p \in S : p[2] \in Nat /\ p[2] <= Len(docs)
      BY <1>6 DEF Postings, Fresh
    <2>2. QED
      BY <1>3, <1>6, <2>1
  <1>7. IdsGrow'
    BY <1>1, <1>2, <1>4, <1>5, <1>6 DEF OrderInv, IdsGrow, Fresh, Older
  <1>8. MergerState'
    BY <1>1 DEF OrderInv, MergerState
  <1>9. Pending'
    BY <1>1 DEF OrderInv, Pending, UpdBegin
  <1>10. QED
    BY <1>2, <1>7, <1>8, <1>9 DEF OrderInv

\* An insertion into MEM0, or a term that met FULL.
LEMMA OrderUpdTerm ==
  ASSUME TypeInv, OrderInv, NEW t \in Terms, NEW r \in Results, UpdTerm(t, r)
  PROVE  OrderInv'
  <1> USE DEF updVars, memVars, diskVars, dayVars, flagVars
  <1> DEFINE New == {<<t, Len(docs)>>}
  <1>1. UNCHANGED <<mem1, hasMem1, day, his, iday, ihis, dst, dpc, hpc, docs>>
        /\ upc # "idle" /\ upc = "term" /\ t \in todo
    BY DEF UpdTerm
  <1>2. UNCHANGED <<DayL, Day2L, HisL, InHandover>>
    BY <1>1 DEF DayL, Day2L, HisL, InHandover
  <1>3. mem0 \in SUBSET Postings /\ mem1 \in SUBSET Postings /\ DayL \in SUBSET Postings
        /\ Day2L \in SUBSET Postings /\ HisL \in SUBSET Postings
    BY LayerTypes DEF TypeInv, TypeOK, IndexTypes
  <1>4. Older(mem0) /\ Older(mem1) /\ Older(DayL) /\ Older(Day2L) /\ Older(HisL)
    BY <1>1 DEF OrderInv, IdsGrow
  <1>5. Above(New, mem1) /\ Above(New, DayL) /\ Above(New, Day2L) /\ Above(New, HisL)
    BY <1>1, <1>3, <1>4, NewestPosting
  <1>6. mem0' \subseteq mem0 \cup New
    BY DEF UpdTerm, Uid
  <1>7. InOrder'
    <2>1. Above(mem0', mem1) /\ Above(mem0', DayL) /\ Above(mem0', Day2L) /\ Above(mem0', HisL)
      BY <1>5, <1>6, AboveLeft, Zenon DEF OrderInv, InOrder, Order
    <2>2. QED
      BY <1>1, <1>2, <2>1 DEF OrderInv, InOrder, Order
  <1>8. FromSources' /\ Unbroken' /\ MergerState'
    BY <1>1, <1>2 DEF OrderInv, FromSources, Unbroken, MergerState
  <1>9. Len(docs) \in Nat
    BY LastElement DEF TypeInv, TypeOK, ThreadTypes
  <1>10. IdsGrow'
    <2>1. todo' \subseteq todo /\ (mem0' = mem0 \/ t \notin todo')
      BY DEF UpdTerm
    <2>2. Older(mem0)' /\ Fresh(mem0)'
      BY <1>1, <1>4, <1>6, <1>9, <2>1 DEF Older, Fresh
    <2>3. Older(mem1)' /\ Older(DayL)' /\ Older(Day2L)' /\ Older(HisL)'
      BY <1>1, <1>2, <1>4, <2>1 DEF Older
    <2>4. Fresh(mem1)' /\ Fresh(DayL)' /\ Fresh(Day2L)' /\ Fresh(HisL)'
      BY <1>1, <1>2, <1>4 DEF Older, Fresh
    <2>5. QED
      BY <2>2, <2>3, <2>4 DEF IdsGrow
  <1>11. Pending'
    BY <1>1 DEF OrderInv, Pending, UpdTerm
  <1>12. QED
    BY <1>7, <1>8, <1>10, <1>11 DEF OrderInv

\* MEM0 becomes MEM1 when there is none: in UpdSwap or in a periodic dump.
\* The new MEM0 is empty or holds one posting newer than all.
LEMMA SwapStep ==
  ASSUME TypeInv, OrderInv, NEW N, ~hasMem1,
         mem1' = mem0, mem0' = N, hasMem1' = TRUE,
         N = {} \/ \E t \in todo : N = {<<t, Len(docs)>>} /\ upc # "idle",
         UNCHANGED <<day, his, iday, ihis, dst, hpc>>,
         dpc' \in Busy \/ InHandover' => dpc \in Busy
  PROVE  /\ InOrder' /\ FromSources' /\ Unbroken' /\ MergerState'
         /\ UNCHANGED <<DayL, Day2L, HisL>> /\ dpc \notin Busy
  <1>1. dpc \notin Busy /\ dpc' \notin Busy /\ dpc' # "merge" /\ ~InHandover'
    BY DEF OrderInv, MergerState, Busy
  <1>2. UNCHANGED <<DayL, Day2L, HisL>>
    BY DEF DayL, Day2L, HisL
  <1>3. mem0 \in SUBSET Postings /\ DayL \in SUBSET Postings
        /\ Day2L \in SUBSET Postings /\ HisL \in SUBSET Postings
    BY LayerTypes DEF TypeInv, TypeOK, IndexTypes
  <1>4. Above(N, mem0) /\ Above(N, DayL) /\ Above(N, Day2L) /\ Above(N, HisL)
    <2>1. CASE N = {}
      BY <2>1, AboveEmpty
    <2>2. ASSUME NEW t \in todo, N = {<<t, Len(docs)>>}, upc # "idle"
          PROVE  Above(N, mem0) /\ Above(N, DayL) /\ Above(N, Day2L) /\ Above(N, HisL)
      BY <1>3, <2>2, NewestPosting DEF OrderInv, IdsGrow
    <2>3. QED
      BY <2>1, <2>2
  <1>5. InOrder'
    <2>1. ~InHandover
      BY <1>1 DEF InHandover, Busy
    <2>2. QED
      BY <1>1, <1>2, <1>4, <2>1 DEF OrderInv, InOrder, Order
  <1>6. FromSources'
    BY <1>1, <1>2 DEF OrderInv, FromSources
  <1>7. Unbroken' /\ MergerState'
    <2>1. Unbroken'
      BY DEF OrderInv, Unbroken
    <2>2. MergerState'
      BY <1>1, Zenon DEF MergerState
    <2>3. QED
      BY <2>1, <2>2
  <1>8. QED
    BY <1>1, <1>2, <1>5, <1>6, <1>7

\* The swap of the update thread.
LEMMA OrderUpdSwap ==
  ASSUME TypeInv, OrderInv, UpdSwap
  PROVE  OrderInv'
  <1> USE DEF updVars, memVars, diskVars, dayVars, flagVars
  <1>1. UNCHANGED <<day, his, iday, ihis, dst, hpc, docs>> /\ upc # "idle" /\ upc = "swap"
        /\ ~hasMem1 /\ mem1' = mem0 /\ hasMem1' = TRUE /\ uterm' = NoTerm
    BY DEF UpdSwap
  <1>2. dpc' \in Busy \/ InHandover' => dpc \in Busy
    BY DEF UpdSwap, SignalDay, Busy, InHandover
  <1>3. \/ /\ mem0' = {} /\ upc' = "idle" /\ todo' = todo
        \/ /\ uterm \in todo /\ mem0' = {<<uterm, Len(docs)>>}
           /\ todo' = todo \ {uterm}
    BY DEF UpdSwap, Uid, OrderInv, Pending
  <1>4. mem0' = {} \/ \E t \in todo : mem0' = {<<t, Len(docs)>>} /\ upc # "idle"
    BY <1>1, <1>3
  <1>5. /\ InOrder' /\ FromSources' /\ Unbroken' /\ MergerState'
        /\ UNCHANGED <<DayL, Day2L, HisL>>
    BY <1>1, <1>2, <1>4, SwapStep
  <1>6. Older(mem0) /\ Older(DayL) /\ Older(Day2L) /\ Older(HisL)
    BY <1>1 DEF OrderInv, IdsGrow
  <1>7. Len(docs) \in Nat
    BY LastElement DEF TypeInv, TypeOK, ThreadTypes
  <1>8. IdsGrow'
    <2>1. Older(mem0)' /\ Fresh(mem0)'
      BY <1>1, <1>3, <1>7 DEF Older, Fresh
    <2>2. todo' \subseteq todo
      BY <1>3
    <2>3. Older(mem1)' /\ Older(DayL)' /\ Older(Day2L)' /\ Older(HisL)'
      BY <1>1, <1>5, <1>6, <2>2 DEF Older
    <2>4. Fresh(mem1)' /\ Fresh(DayL)' /\ Fresh(Day2L)' /\ Fresh(HisL)'
      BY <2>3 DEF Older, Fresh
    <2>5. QED
      BY <2>1, <2>3, <2>4 DEF IdsGrow
  <1>9. Pending'
    BY <1>1 DEF Pending
  <1>10. QED
    BY <1>5, <1>8, <1>9 DEF OrderInv

\* The day merger waiting for work, and its periodic swap.
LEMMA OrderDayWait ==
  ASSUME TypeInv, OrderInv, DayEnter \/ DayTimeout \/ DayExpired \/ DaySpurious \/ NextDay
  PROVE  OrderInv'
  <1> USE DEF updVars, memVars, diskVars, dayVars, flagVars
  <1>1. UNCHANGED <<day, his, iday, ihis, dst, hpc, docs, todo, upc, uterm>>
    BY DEF DayEnter, DayTimeout, DayExpired, DaySpurious, NextDay
  <1>2. Pending'
    BY <1>1 DEF OrderInv, Pending
  <1>3. CASE NextDay \/ DayEnter \/ DayTimeout \/ DaySpurious \/ (DayExpired /\ mem0 = {})
    <2>1. UNCHANGED <<mem0, mem1, hasMem1>> /\ (UNCHANGED dpc \/ dpc' \notin Busy)
          /\ (dpc' = "choose" => dpc = "choose" \/ hasMem1)
      BY <1>3 DEF NextDay, DayEnter, DayTimeout, DaySpurious, DayExpired, Busy
    <2>2. InHandover => InHandover'
      BY <1>3 DEF NextDay, DayEnter, DayTimeout, DaySpurious, DayExpired, InHandover
    <2>3. InOrder' /\ FromSources' /\ Unbroken' /\ UNCHANGED <<DayL, Day2L, HisL>>
      BY <1>1, <2>1, <2>2, QuietStep DEF OrderInv
    <2>4. IdsGrow'
      BY <1>1, <2>1, <2>3, QuietIds DEF OrderInv
    <2>5. MergerState'
      BY <1>1, <2>1 DEF OrderInv, MergerState, Busy
    <2>6. QED
      BY <1>2, <2>3, <2>4, <2>5 DEF OrderInv
  <1>4. CASE DayExpired /\ mem0 # {}
    <2>1. ~hasMem1 /\ mem1' = mem0 /\ mem0' = {} /\ hasMem1' = TRUE /\ dpc' = "choose"
      BY <1>4 DEF DayExpired
    <2>2. dpc' \notin Busy /\ ~InHandover'
      BY <2>1 DEF Busy, InHandover
    <2>3. /\ InOrder' /\ FromSources' /\ Unbroken' /\ MergerState'
          /\ UNCHANGED <<DayL, Day2L, HisL>>
      BY <1>1, <2>1, <2>2, SwapStep
    <2>4. IdsGrow'
      BY <1>1, <2>1, <2>3 DEF OrderInv, IdsGrow, Older, Fresh
    <2>5. QED
      BY <1>2, <2>3, <2>4 DEF OrderInv
  <1>5. QED
    BY <1>3, <1>4

\* A layer that shrinks keeps its ids; so do layers filled from others.
LEMMA IdsFrom ==
  ASSUME IdsGrow, UNCHANGED <<docs, todo>>, upc' # "idle" => upc # "idle",
         mem0' \subseteq mem0, mem1' \subseteq mem1,
         DayL' \subseteq mem1 \cup DayL,
         Day2L' \subseteq mem1 \cup DayL \cup Day2L,
         HisL' \subseteq Day2L \cup HisL
  PROVE  IdsGrow'
  <1>1. Fresh(mem0)' /\ Fresh(mem1)' /\ Fresh(DayL)' /\ Fresh(Day2L)' /\ Fresh(HisL)'
    BY DEF IdsGrow, Fresh
  <1>2. ASSUME upc' # "idle"
        PROVE  Older(mem0)' /\ Older(mem1)' /\ Older(DayL)' /\ Older(Day2L)' /\ Older(HisL)'
    BY <1>2 DEF IdsGrow, Older
  <1>3. QED
    BY <1>1, <1>2 DEF IdsGrow

\* The day merger begins: the destination is the free one of day/0 and day/1, or
\* day/2, which the token leaves to it.
LEMMA OrderDayChoose ==
  ASSUME TypeInv, Token, OrderInv, NEW low \in BOOLEAN, DayChoose(low)
  PROVE  OrderInv'
  <1> USE DEF updVars, memVars, diskVars, dayVars, flagVars
  <1> DEFINE ix == [st |-> "writing", post |-> Merged(mem1, DayL)]
  <1>1. UNCHANGED <<mem0, mem1, hasMem1, his, iday, ihis, hpc, docs, todo, upc, uterm>>
        /\ dpc = "choose" /\ dpc' = "merge" /\ hasMem1
    BY DEF DayChoose, OrderInv, MergerState
  <1>2. day \in [0..2 -> Indexers] /\ iday \in 0..1
    BY DEF TypeInv, TypeOK, IndexTypes
  <1>3. (dst' = 2 \/ dst' = 1 - iday) /\ dst' \in 0..2 /\ dst' # iday
    BY <1>2 DEF DayChoose
  <1>4. dst' = 2 => hpc = "idle"
    <2>1. CASE NeedDay2(low)
      BY <2>1, Zenon DEF NeedDay2, Token
    <2>2. CASE ~NeedDay2(low)
      BY <1>2, <2>2 DEF DayChoose
    <2>3. QED
      BY <2>1, <2>2
  <1>5. day' = [day EXCEPT ![dst'] = ix]
    BY DEF DayChoose, DayL
  <1>6. day'[dst'] = ix /\ \A d \in 0..2 \ {dst'} : day'[d] = day[d]
    BY <1>2, <1>3, <1>5
  <1>7. ix.st = "writing" /\ ix.post = Merged(mem1, DayL) /\ Seen(ix) = {}
    BY DEF Seen
  <1>8. DayL' = DayL /\ HisL' = HisL
    BY <1>1, <1>2, <1>3, <1>6 DEF DayL, HisL
  <1>9. Day2L' = IF dst' = 2 THEN {} ELSE Day2L
    BY <1>6, <1>7 DEF Day2L
  <1>10. ~InHandover /\ ~InHandover'
    BY <1>1 DEF InHandover
  <1>11. InOrder'
    BY <1>1, <1>8, <1>9, <1>10, AboveEmpty DEF OrderInv, InOrder, Order
  <1>12. FromSources'
    <2>1. day'[dst'].post \subseteq mem1' \cup DayL'
      BY <1>1, <1>6, <1>7, <1>8, MergedSub
    <2>2. hpc' # "idle" => his'[1 - ihis'].post \subseteq Day2L' \cup HisL'
      BY <1>1, <1>4, <1>8, <1>9 DEF OrderInv, FromSources
    <2>3. QED
      BY <2>1, <2>2 DEF FromSources
  <1>13. MergerState'
    BY <1>1, <1>3, <1>6, <1>7 DEF OrderInv, MergerState
  <1>14. Unbroken'
    BY <1>1, <1>3, <1>6, <1>7 DEF OrderInv, Unbroken
  <1>15. IdsGrow'
    BY <1>1, <1>8, <1>9, IdsFrom DEF OrderInv
  <1>16. Pending'
    BY <1>1 DEF OrderInv, Pending
  <1>17. QED
    BY <1>11, <1>12, <1>13, <1>14, <1>15, <1>16 DEF OrderInv

\* The day merger writes the second-level index.  From set_finish on, day/2 can
\* be read and holds nothing that MEM1 and DAY do not.
LEMMA OrderDayWrite ==
  ASSUME TypeInv, Token, OrderInv, DayTear \/ DayFinish
  PROVE  OrderInv'
  <1> USE DEF updVars, memVars, diskVars, dayVars, flagVars
  <1>1. UNCHANGED <<mem0, mem1, hasMem1, his, iday, ihis, dst, hpc, docs, todo, upc, uterm>>
        /\ dpc = "merge" /\ dpc' \in {"merge", "merged"}
    BY DEF DayTear, DayFinish
  <1>2. day \in [0..2 -> Indexers] /\ iday \in 0..1 /\ dst \in 0..2
    BY DEF TypeInv, TypeOK, IndexTypes, ThreadTypes
  <1>3. (dst = 2 \/ dst = 1 - iday) /\ dst # iday /\ hasMem1
        /\ day[dst].st \in {"writing", "torn"} /\ day[dst].post \subseteq mem1 \cup DayL
    BY <1>1, <1>2 DEF OrderInv, MergerState, FromSources, Busy
  <1>4. dst = 2 => hpc = "idle"
    BY <1>1, Zenon DEF Token, OnDay2, Busy
  <1>5. \A d \in 0..2 \ {dst} : day'[d] = day[d]
    BY <1>2 DEF DayTear, DayFinish
  <1>6. \/ day'[dst] = Marked(day[dst], "torn") /\ dpc' = "merge"
        \/ day'[dst] = Finished(day[dst]) /\ dpc' = "merged"
    BY <1>1, <1>2 DEF DayTear, DayFinish
  <1>7. day[dst] \in Indexers
    BY <1>2
  <1>8. /\ day'[dst].post \subseteq day[dst].post
        /\ Seen(day'[dst]) \subseteq day[dst].post
        /\ day'[dst].st # "broken"
        /\ dpc' = "merge" => day'[dst].st = "torn" /\ Seen(day'[dst]) = {}
    BY <1>6, <1>7, SeenFacts DEF Seen
  <1>9. DayL' = DayL /\ HisL' = HisL /\ (dst # 2 => Day2L' = Day2L)
    BY <1>1, <1>2, <1>3, <1>5 DEF DayL, HisL, Day2L
  <1>10. dst = 2 => Day2L' \subseteq mem1 \cup DayL
    BY <1>3, <1>8 DEF Day2L
  <1>11. InOrder'
    <2>1. CASE dst = 2 /\ dpc' = "merged"
      <3>1. InHandover'
        BY <1>1, <2>1 DEF InHandover
      <3>2. Above(mem0, mem1) /\ Above(mem0, DayL) /\ Above(mem1, HisL) /\ Above(DayL, HisL)
        BY DEF OrderInv, InOrder, Order
      <3>3. Above(mem0, Day2L')
        BY <1>10, <2>1, <3>2, AboveRight
      <3>4. Above(Day2L', HisL)
        BY <1>10, <2>1, <3>2, AboveLeft
      <3>5. QED
        BY <1>1, <1>9, <3>1, <3>3, <3>4 DEF OrderInv, InOrder, Order
    <2>2. CASE dst = 2 /\ dpc' = "merge"
      <3>1. Day2L' = {}
        BY <1>8, <2>2 DEF Day2L
      <3>2. QED
        BY <1>1, <1>9, <3>1, AboveEmpty DEF OrderInv, InOrder, Order
    <2>3. CASE dst # 2
      <3>1. ~InHandover
        BY <2>3 DEF InHandover
      <3>2. QED
        BY <1>1, <1>9, <2>3, <3>1 DEF OrderInv, InOrder, Order
    <2>4. QED
      BY <1>1, <2>1, <2>2, <2>3
  <1>12. FromSources'
    BY <1>1, <1>3, <1>4, <1>8, <1>9 DEF OrderInv, FromSources
  <1>13. MergerState'
    BY <1>1, <1>3, <1>8 DEF OrderInv, MergerState
  <1>14. Unbroken'
    BY <1>1, <1>2, <1>5, <1>8 DEF OrderInv, Unbroken
  <1>15. IdsGrow'
    BY <1>1, <1>9, <1>10, IdsFrom DEF OrderInv
  <1>16. Pending'
    BY <1>1 DEF OrderInv, Pending
  <1>17. QED
    BY <1>11, <1>12, <1>13, <1>14, <1>15, <1>16 DEF OrderInv

\* Steps of the mergers that only write the cur files and the check point.
LEMMA OrderFiles ==
  ASSUME TypeInv, OrderInv,
         DayCut \/ DaySetCur \/ DayCheckPoint \/ HisCut \/ HisSetCur \/ UNCHANGED vars
  PROVE  OrderInv'
  <1> USE DEF vars, updVars, memVars, diskVars, dayVars, flagVars
  <1>1. UNCHANGED <<mem0, mem1, hasMem1, day, his, iday, ihis, dst, docs, todo, upc, uterm>>
    BY DEF DayCut, DaySetCur, DayCheckPoint, HisCut, HisSetCur
  <1>2. /\ UNCHANGED dpc \/ (dpc \in Busy /\ dpc' \in Busy /\ dpc' # "merge")
        /\ hpc' # "idle" => hpc # "idle"
    BY DEF DayCut, DaySetCur, DayCheckPoint, HisCut, HisSetCur, Busy
  <1>3. InHandover => InHandover'
    BY DEF DayCut, DaySetCur, DayCheckPoint, HisCut, HisSetCur, InHandover
  <1>4. InOrder' /\ FromSources' /\ Unbroken' /\ UNCHANGED <<DayL, Day2L, HisL>>
    BY <1>1, <1>2, <1>3, QuietStep DEF OrderInv
  <1>5. IdsGrow'
    BY <1>1, <1>4, QuietIds DEF OrderInv
  <1>6. MergerState'
    BY <1>1, <1>2 DEF OrderInv, MergerState, Busy
  <1>7. Pending'
    BY <1>1 DEF OrderInv, Pending
  <1>8. QED
    BY <1>4, <1>5, <1>6, <1>7 DEF OrderInv

\* The day merger installs its result: MEM1 and DAY go, the merged index takes
\* the place of DAY or is handed over as day/2.
LEMMA OrderDayInstall ==
  ASSUME TypeInv, Token, OrderInv, NEW late \in BOOLEAN, DayInstall(late)
  PROVE  OrderInv'
  <1> USE DEF updVars, memVars, diskVars, dayVars, flagVars
  <1>1. UNCHANGED <<mem0, his, ihis, dst, hpc, docs, todo, uterm>>
        /\ dpc = "install" /\ dpc' = "enter" /\ mem1' = {} /\ hasMem1' = FALSE
    BY DEF DayInstall
  <1>2. day \in [0..2 -> Indexers] /\ iday \in 0..1 /\ dst \in 0..2
    BY DEF TypeInv, TypeOK, IndexTypes, ThreadTypes
  <1>3. (dst = 2 \/ dst = 1 - iday) /\ dst # iday /\ day[dst].post \subseteq mem1 \cup DayL
    BY <1>1, <1>2 DEF OrderInv, MergerState, FromSources, Busy
  <1>4. day'[iday] = NoIndex /\ \A d \in 0..2 \ {iday} : day'[d] = day[d]
    BY <1>2 DEF DayInstall, DayCleared
  <1>5. iday' = IF dst = 2 THEN iday ELSE dst
    BY DEF DayInstall
  <1>6. Seen(NoIndex) = {} /\ NoIndex.st = "empty"
    BY DEF NoIndex, Seen
  <1>7. Day2L' = Day2L /\ HisL' = HisL
    BY <1>1, <1>2, <1>4 DEF Day2L, HisL
  <1>8. DayL' = IF dst = 2 THEN {} ELSE Seen(day[dst])
    BY <1>2, <1>3, <1>4, <1>5, <1>6 DEF DayL
  <1>9. Seen(day[dst]) \subseteq mem1 \cup DayL
    BY <1>2, <1>3, SeenFacts
  <1>10. ~InHandover'
    BY <1>1 DEF InHandover
  <1>11. InOrder'
    <2>1. Above(mem0, mem1) /\ Above(mem0, DayL) /\ Above(mem1, HisL) /\ Above(DayL, HisL)
      BY DEF OrderInv, InOrder, Order
    <2>2. CASE dst = 2
      BY <1>1, <1>7, <1>8, <1>10, <2>2, AboveEmpty DEF OrderInv, InOrder, Order
    <2>3. CASE dst # 2
      <3>1. ~InHandover
        BY <2>3 DEF InHandover
      <3>2. Above(mem1, Day2L) /\ Above(DayL, Day2L)
        BY <3>1 DEF OrderInv, InOrder, Order
      <3>3. DayL' \subseteq mem1 \cup DayL
        BY <1>8, <1>9, <2>3
      <3>4. Above(mem0, DayL')
        BY <2>1, <3>3, AboveRight
      <3>5. Above(DayL', HisL) /\ Above(DayL', Day2L)
        BY <2>1, <3>2, <3>3, AboveLeft
      <3>6. QED
        BY <1>1, <1>7, <1>10, <3>4, <3>5, AboveEmpty DEF OrderInv, InOrder, Order
    <2>4. QED
      BY <2>2, <2>3
  <1>12. FromSources'
    BY <1>1, <1>7 DEF OrderInv, FromSources, Busy
  <1>13. MergerState'
    BY <1>1 DEF MergerState, Busy
  <1>14. Unbroken'
    BY <1>1, <1>2, <1>4, <1>6 DEF OrderInv, Unbroken
  <1>15. upc' # "idle" => upc # "idle"
    BY DEF DayInstall, SignalUpd
  <1>16. IdsGrow'
    BY <1>1, <1>7, <1>8, <1>9, <1>15, IdsFrom DEF OrderInv
  <1>17. Pending'
    BY <1>1 DEF OrderInv, Pending, DayInstall, SignalUpd
  <1>18. QED
    BY <1>11, <1>12, <1>13, <1>14, <1>16, <1>17 DEF OrderInv

\* The history merger fills the twin of HIS, which no query reads.
LEMMA OrderHisWrite ==
  ASSUME TypeInv, OrderInv, HisBegin \/ HisTear \/ HisFinish
  PROVE  OrderInv'
  <1> USE DEF updVars, memVars, diskVars, dayVars, flagVars
  <1>1. UNCHANGED <<mem0, mem1, hasMem1, day, iday, ihis, dst, dpc, docs, todo, upc, uterm>>
    BY DEF HisBegin, HisTear, HisFinish
  <1>2. his \in [0..1 -> Indexers] /\ ihis \in 0..1 /\ 1 - ihis \in 0..1 /\ 1 - ihis # ihis
    BY DEF TypeInv, TypeOK, IndexTypes
  <1>3. \A h \in 0..1 \ {1 - ihis} : his'[h] = his[h]
    BY <1>2 DEF HisBegin, HisTear, HisFinish
  <1>4. UNCHANGED <<DayL, Day2L, HisL, InHandover>>
    BY <1>1, <1>2, <1>3 DEF DayL, Day2L, HisL, InHandover
  <1>5. his'[1 - ihis].post \subseteq Day2L \cup HisL /\ his'[1 - ihis].st # "broken"
    <2>1. CASE HisBegin
      <3>1. his'[1 - ihis] = [st |-> "writing", post |-> Merged(Day2L, HisL)]
        BY <1>2, <2>1 DEF HisBegin, Day2L, HisL
      <3>2. QED
        BY <3>1, MergedSub
    <2>2. CASE HisTear \/ HisFinish
      <3>1. his[1 - ihis] \in Indexers /\ his[1 - ihis].post \subseteq Day2L \cup HisL
        BY <1>2, <2>2 DEF HisTear, HisFinish, OrderInv, FromSources
      <3>2. his'[1 - ihis] = Marked(his[1 - ihis], "torn") \/ his'[1 - ihis] = Finished(his[1 - ihis])
        BY <1>2, <2>2 DEF HisTear, HisFinish
      <3>3. QED
        BY <3>1, <3>2, SeenFacts
    <2>3. QED
      BY <2>1, <2>2
  <1>6. InOrder'
    BY <1>1, <1>4 DEF OrderInv, InOrder, Order
  <1>7. FromSources'
    BY <1>1, <1>4, <1>5 DEF OrderInv, FromSources
  <1>8. MergerState'
    BY <1>1 DEF OrderInv, MergerState
  <1>9. Unbroken'
    BY <1>1, <1>2, <1>3, <1>5 DEF OrderInv, Unbroken
  <1>10. IdsGrow'
    BY <1>1, <1>4, QuietIds DEF OrderInv
  <1>11. Pending'
    BY <1>1 DEF OrderInv, Pending
  <1>12. QED
    BY <1>6, <1>7, <1>8, <1>9, <1>10, <1>11 DEF OrderInv

\* The history merger installs its result; day/2 and the old HIS go.
LEMMA OrderHisInstall ==
  ASSUME TypeInv, Token, OrderInv, HisInstall
  PROVE  OrderInv'
  <1> USE DEF updVars, memVars, diskVars, dayVars, flagVars
  <1>1. UNCHANGED <<mem0, mem1, hasMem1, iday, dst, dpc, docs, todo, upc, uterm>>
        /\ hpc = "install" /\ hpc' = "idle" /\ ihis' = 1 - ihis
    BY DEF HisInstall
  <1>2. day \in [0..2 -> Indexers] /\ iday \in 0..1 /\ dst \in 0..2
        /\ his \in [0..1 -> Indexers] /\ ihis \in 0..1 /\ 1 - ihis \in 0..1 /\ 1 - ihis # ihis
    BY DEF TypeInv, TypeOK, IndexTypes, ThreadTypes
  <1>3. ~(dst = 2 /\ dpc \in Busy)
    BY <1>1, Zenon DEF Token, OnDay2
  <1>4. ~InHandover /\ ~InHandover'
    BY <1>1, <1>3 DEF InHandover, Busy
  <1>5. /\ day'[2] = NoIndex /\ \A d \in 0..1 : day'[d] = day[d]
        /\ his'[ihis] = NoIndex /\ his'[1 - ihis] = his[1 - ihis]
    BY <1>2 DEF HisInstall
  <1>6. Seen(NoIndex) = {} /\ NoIndex.st = "empty"
    BY DEF NoIndex, Seen
  <1>7. DayL' = DayL /\ Day2L' = {} /\ HisL' = Seen(his[1 - ihis])
    BY <1>1, <1>2, <1>5, <1>6 DEF DayL, Day2L, HisL
  <1>8. HisL' \subseteq Day2L \cup HisL
    <2>1. his[1 - ihis].post \subseteq Day2L \cup HisL
      BY <1>1 DEF OrderInv, FromSources
    <2>2. his[1 - ihis] \in Indexers
      BY <1>2
    <2>3. QED
      BY <1>7, <2>1, <2>2, SeenFacts
  <1>9. InOrder'
    <2>1. /\ Above(mem0, Day2L) /\ Above(mem0, HisL) /\ Above(mem1, Day2L)
          /\ Above(mem1, HisL) /\ Above(DayL, Day2L) /\ Above(DayL, HisL)
      BY <1>4 DEF OrderInv, InOrder, Order
    <2>2. Above(mem0, HisL') /\ Above(mem1, HisL') /\ Above(DayL, HisL')
      BY <1>8, <2>1, AboveRight
    <2>3. QED
      BY <1>1, <1>7, <2>2, AboveEmpty DEF OrderInv, InOrder, Order
  <1>10. FromSources'
    <2>1. dpc' \in Busy => dst # 2 /\ day'[dst] = day[dst]
      BY <1>1, <1>2, <1>3, <1>5
    <2>2. QED
      BY <1>1, <1>7, <2>1 DEF OrderInv, FromSources
  <1>11. MergerState'
    <2>1. dpc = "merge" => dst # 2 /\ day'[dst] = day[dst]
      BY <1>2, <1>3, <1>5 DEF Busy
    <2>2. QED
      BY <1>1, <2>1 DEF OrderInv, MergerState
  <1>12. Unbroken'
    BY <1>2, <1>5, <1>6 DEF OrderInv, Unbroken
  <1>13. IdsGrow'
    BY <1>1, <1>7, <1>8, IdsFrom DEF OrderInv
  <1>14. Pending'
    BY <1>1 DEF OrderInv, Pending
  <1>15. QED
    BY <1>9, <1>10, <1>11, <1>12, <1>13, <1>14 DEF OrderInv

\* The process kills itself only while the day merger has no merge in hand.
LEMMA OrderSuicide ==
  ASSUME TypeInv, OrderInv, Suicide
  PROVE  OrderInv'
  <1>1. mem0' = {} /\ mem1' = {} /\ hasMem1' = FALSE /\ dst' = 0 /\ dpc' = "enter" /\ hpc' = "idle"
        /\ dpc = "expired" /\ upc' = "idle" /\ uterm' = NoTerm /\ UNCHANGED <<iday, ihis, docs>>
    BY DEF Suicide, Die
  <1>2. iday \in 0..1 /\ ihis \in 0..1 /\ (\A d \in 0..2 : day[d] \in Indexers)
        /\ (\A h \in 0..1 : his[h] \in Indexers)
    BY LayerTypes DEF TypeInv, TypeOK, IndexTypes
  <1>3. (\A d \in 0..2 : day'[d] = OnDisk(day[d])) /\ (\A h \in 0..1 : his'[h] = OnDisk(his[h]))
    BY DEF Suicide, Die
  <1>4. UNCHANGED <<DayL, Day2L, HisL>>
    BY <1>1, <1>2, <1>3, SeenFacts DEF DayL, Day2L, HisL
  <1>5. ~InHandover /\ ~InHandover'
    BY <1>1 DEF InHandover
  <1>6. InOrder'
    BY <1>1, <1>4, <1>5, AboveEmpty DEF OrderInv, InOrder, Order
  <1>7. FromSources' /\ MergerState' /\ Pending'
    BY <1>1 DEF FromSources, MergerState, Pending, Busy
  <1>8. Unbroken'
    BY <1>2, <1>3, SeenFacts DEF OrderInv, Unbroken
  <1>9. IdsGrow'
    BY <1>1, <1>4 DEF OrderInv, IdsGrow, Fresh
  <1>10. QED
    BY <1>6, <1>7, <1>8, <1>9 DEF OrderInv

\* Every step of one life of the process keeps OrderInv.
LEMMA OrderStep == TypeInv /\ Token /\ OrderInv /\ [NextRun]_vars => OrderInv'
  <1> SUFFICES ASSUME TypeInv, Token, OrderInv, [NextRun]_vars PROVE OrderInv'
    OBVIOUS
  <1>1. CASE UpdStep \/ UpdSpurious
    BY <1>1, OrderUpdBegin, OrderUpdTerm, OrderUpdQuiet, OrderUpdSwap DEF UpdStep
  <1>2. CASE DayStep \/ DaySpurious \/ NextDay
    BY <1>2, OrderDayWait, OrderDayChoose, OrderDayWrite, OrderFiles, OrderDayInstall DEF DayStep
  <1>3. CASE HisStep
    BY <1>3, OrderHisWrite, OrderFiles, OrderHisInstall DEF HisStep
  <1>4. CASE Suicide
    BY <1>4, OrderSuicide
  <1>5. ~QueryThrows
    BY DEF QueryThrows, OrderInv, Unbroken, TypeInv, TypeOK, IndexTypes
  <1>6. CASE UNCHANGED vars
    BY <1>6, OrderFiles
  <1>7. QED
    BY <1>1, <1>2, <1>3, <1>4, <1>5, <1>6 DEF NextRun, Threads

\* The empty layers are in order.
LEMMA OrderInit == Init => OrderInv
  <1> SUFFICES ASSUME Init PROVE OrderInv
    OBVIOUS
  <1>1. DayL = {} /\ Day2L = {} /\ HisL = {}
    BY DEF Init, DayL, Day2L, HisL, Seen, NoIndex
  <1>2. InOrder
    BY <1>1, AboveEmpty DEF Init, InOrder, Order, InHandover
  <1>3. FromSources /\ MergerState /\ Pending
    BY DEF Init, FromSources, MergerState, Pending, Busy
  <1>4. Unbroken
    BY DEF Init, Unbroken, NoIndex
  <1>5. IdsGrow
    BY <1>1 DEF Init, IdsGrow, Fresh
  <1>6. QED
    BY <1>2, <1>3, <1>4, <1>5 DEF OrderInv

\* During one life of the process the layers a query concatenates are in
\* descending order of id, term by term, except that between set_finish of a
\* dump to day/2 and its installation day/2 repeats what MEM1 and DAY hold:
\* whatever the update thread, the two mergers and the periodic dump do.
THEOREM LayersStayOrdered == SpecRun => []Layered
  <1>1. Init => TypeInv /\ Down /\ Token /\ OrderInv
    BY TypeInit, OrderInit DEF Init, Down, Token, OnDay2, Busy
  <1>2. [NextRun]_vars => [Next]_vars
    BY DEF Next
  <1>3. TypeInv /\ Down /\ Token /\ OrderInv /\ [NextRun]_vars
          => (TypeInv /\ Down /\ Token /\ OrderInv)'
    BY <1>2, TypeNext, DownStep, TokenStep, OrderStep
  <1>4. OrderInv => Layered
    BY OrderMeansLayered DEF OrderInv
  <1>5. QED
    BY <1>1, <1>3, <1>4, PTL DEF SpecRun

-----------------------------------------------------------------------------
(***************************************************************************)
(* The proof that during one life of the process index_group implements    *)
(* PostingStore and loses no acknowledged document, for every set of       *)
(* terms, every queue of messages, every MAX_POSTINGLIST_SIZE and every    *)
(* answer of the memory index.  It adds to the order of the layers         *)
(* (InOrder) what the mergers have written, which id a message             *)
(* has, and what of an inserted document is left.                          *)
(***************************************************************************)

\* Merges in progress have written exactly the merge of their sources, and what queries read changes
\* only when they are installed; day/2 is empty when it is offered to the day merger.
Merges ==
  /\ dpc = "merge" => day[dst].post = Merged(mem1, DayL)
  /\ dpc \in Busy \ {"merge"} => Seen(day[dst]) = Merged(mem1, DayL)
  /\ hpc = "merge" => his[1 - ihis].post = Merged(Day2L, HisL)
  /\ hpc = "merge" => his[1 - ihis].st \in {"writing", "torn"}
  /\ hpc \notin {"idle", "merge"} => Seen(his[1 - ihis]) = Merged(Day2L, HisL)
  /\ canDay2 => Day2L = {}

\* Inner ids are allocated in the order of messages, one for each that has terms.
Numbered == up =>
  /\ Len(docs) <= IF upc = "idle" THEN last ELSE last + 1
  /\ \A m \in 1..last : TermsOf[m] # {} => \E id \in DOMAIN docs : docs[id] = m
  /\ upc = "idle" \/ (upc # "term" /\ uterm = NoTerm) => todo = {}

\* What was inserted is there, or its list is full.
Kept == up =>
  \A id \in DOMAIN docs : \A t \in TermsOf[docs[id]] :
    id # Len(docs) \/ t \notin todo => <<t, id>> \in Visible \/ ListFull(Visible, t)

-----------------------------------------------------------------------------
(***************************************************************************)
(* Part 4.  Lists and how merges cut them.                                 *)
(***************************************************************************)
ListOf(S, t) == {p \in S : p[1] = t}
Newer(S, p) == {q \in S : q[1] = p[1] /\ q[2] > p[2]}

\* A set of postings with ids up to n.
UpTo(S, n) == S \in SUBSET Postings /\ \A p \in S : p[2] <= n

\* T is S without postings that have MaxList newer ones in their list.
Cut(S, T) == T \subseteq S /\ \A p \in S \ T : Cardinality(Newer(S, p)) >= MaxList
\* The list of a term is finite.
LEMMA FiniteList ==
  ASSUME NEW n \in Nat, NEW S, UpTo(S, n), NEW t
  PROVE  IsFiniteSet(ListOf(S, t)) /\ Cardinality(ListOf(S, t)) \in Nat
<1>1. IsFiniteSet({t} \X (1..n))
  <2>1. IsFiniteSet({t})
    BY FS_Singleton
  <2>2. IsFiniteSet(1..n)
    BY FS_Interval
  <2> QED BY <2>1, <2>2, FS_Product
<1>2. ListOf(S, t) \subseteq {t} \X (1..n)
  BY DEF ListOf, UpTo, Postings
<1>3. IsFiniteSet(ListOf(S, t))
  BY <1>1, <1>2, FS_Subset
<1> QED BY <1>3, FS_CardinalityType

\* A part of a finite set is not larger.
LEMMA Smaller ==
  ASSUME NEW A, NEW B, IsFiniteSet(B), A \subseteq B
  PROVE  /\ IsFiniteSet(A) /\ Cardinality(A) \in Nat /\ Cardinality(B) \in Nat
         /\ Cardinality(A) <= Cardinality(B)
BY FS_Subset, FS_CardinalityType

\* The newer postings of a list are part of it.
LEMMA FiniteNewer ==
  ASSUME NEW n \in Nat, NEW S, UpTo(S, n), NEW p
  PROVE  IsFiniteSet(Newer(S, p)) /\ Cardinality(Newer(S, p)) \in Nat
<1>1. Newer(S, p) \subseteq ListOf(S, p[1])
  BY DEF Newer, ListOf
<1> QED BY <1>1, FiniteList, Smaller

\* A larger set has longer lists.
LEMMA FullGrows ==
  ASSUME NEW n \in Nat, NEW S, NEW T, UpTo(T, n), S \subseteq T, NEW t, ListFull(S, t)
  PROVE  ListFull(T, t)
<1>1. ListOf(S, t) \subseteq ListOf(T, t)
  BY DEF ListOf
<1>2. Cardinality(ListOf(S, t)) >= MaxList
  BY DEF ListFull, ListOf
<1>3. Cardinality(ListOf(S, t)) <= Cardinality(ListOf(T, t)) /\ Cardinality(ListOf(S, t)) \in Nat
      /\ Cardinality(ListOf(T, t)) \in Nat
  BY <1>1, FiniteList, Smaller
<1>4. MaxList \in Nat
  BY BoundsAssumption
<1>5. Cardinality(ListOf(T, t)) >= MaxList
  BY <1>2, <1>3, <1>4
<1> QED BY <1>5 DEF ListFull, ListOf

\* index_group::merger drops a posting only when its list is full of newer ones: those of src1 are all
\* newer than those of src2.
LEMMA MergedCuts ==
  ASSUME NEW n \in Nat, NEW A, NEW B, UpTo(A, n), UpTo(B, n), Above(A, B)
  PROVE  Cut(A \cup B, Merged(A, B))
<1>0. UpTo(A \cup B, n) /\ MaxList \in Nat
  BY BoundsAssumption DEF UpTo
<1> SUFFICES ASSUME NEW p \in A \cup B, p \notin Merged(A, B)
             PROVE  Cardinality(Newer(A \cup B, p)) >= MaxList
  BY MergedSub DEF Cut
<1>1. IsFiniteSet(Newer(A \cup B, p)) /\ Cardinality(Newer(A \cup B, p)) \in Nat
  BY <1>0, FiniteNewer
<1>2. CASE p \in A
  <2>1. ~(Cardinality(Newer(A, p)) < MaxList)
    BY <1>2 DEF Merged, NewestOf, Newer
  <2>2. Newer(A, p) \subseteq Newer(A \cup B, p)
    BY DEF Newer
  <2>3. Cardinality(Newer(A, p)) <= Cardinality(Newer(A \cup B, p)) /\ Cardinality(Newer(A, p)) \in Nat
    BY <2>2, <1>1, Smaller
  <2> QED BY <2>1, <2>3, <1>0, <1>1
<1>3. CASE p \in B
  <2> DEFINE X == ListOf(A, p[1])
  <2> DEFINE Y == Newer(B, p)
  <2>1. ~(Cardinality(X) + Cardinality(Y) < MaxList)
    BY <1>3 DEF Merged, Newer, ListOf
  <2>2. IsFiniteSet(X) /\ IsFiniteSet(Y) /\ Cardinality(X) \in Nat /\ Cardinality(Y) \in Nat
    BY FiniteList, FiniteNewer
  <2>3. X \cap Y = {}
    <3> SUFFICES ASSUME NEW q \in X, q \in Y PROVE FALSE
      OBVIOUS
    <3>1. q \in A /\ q \in B
      BY DEF ListOf, Newer
    <3>2. q[2] > q[2] /\ q[2] \in Nat
      BY <3>1 DEF Above, UpTo, Postings
    <3> QED BY <3>2
  <2>4. X \cup Y \subseteq Newer(A \cup B, p)
    BY <1>3 DEF ListOf, Newer, Above
  <2> HIDE DEF X, Y
  <2>5. IsFiniteSet(X \cup Y) /\ Cardinality(X \cup Y) = Cardinality(X) + Cardinality(Y)
    <3>1. Cardinality(X \cap Y) = 0
      BY <2>3, FS_EmptySet
    <3>2. Cardinality(X \cup Y) = Cardinality(X) + Cardinality(Y) - Cardinality(X \cap Y)
      BY <2>2, FS_Union
    <3> QED BY <3>1, <3>2, <2>2, FS_Union
  <2>6. Cardinality(X \cup Y) <= Cardinality(Newer(A \cup B, p))
    BY <2>4, <1>1, Smaller
  <2> QED BY <2>1, <2>2, <2>5, <2>6, <1>0, <1>1
<1> QED BY <1>2, <1>3

\* Of some ids one is the largest.
LEMMA LargestId ==
  ASSUME NEW n \in Nat, NEW S \in SUBSET (0..n), S # {}
  PROVE  \E o \in S : \A p \in S : p <= o
<1> DEFINE D == {d \in 0..n : n - d \in S}
<1>1. D \subseteq Nat /\ D # {}
  <2>1. PICK o \in S : o \in 0..n
    OBVIOUS
  <2>2. n - o \in 0..n /\ n - (n - o) = o
    BY <2>1
  <2> QED BY <2>1, <2>2
<1>2. PICK d \in D : \A e \in D : ~ (<<e, d>> \in OpToRel(<, Nat))
  BY <1>1, NatLessThanWellFounded, WFMin
<1>3. \A e \in D : d <= e
  <2> TAKE e \in D
  <2>1. e \in Nat /\ d \in Nat
    OBVIOUS
  <2>2. ~ (e < d)
    BY <1>2, <2>1 DEF OpToRel
  <2> QED BY <2>1, <2>2
<1>4. n - d \in S
  OBVIOUS
<1>5. \A p \in S : p <= n - d
  <2> TAKE p \in S
  <2>1. p \in 0..n
    OBVIOUS
  <2>2. n - p \in 0..n /\ n - (n - p) = p
    BY <2>1
  <2>3. n - p \in D
    BY <2>1, <2>2
  <2>4. d <= n - p /\ d \in Nat
    BY <1>3, <2>3
  <2> QED BY <2>4, <2>1
<1> QED BY <1>4, <1>5

\* What is cut leaves a full list: the postings above the newest one that was cut are all left.
LEMMA CutLeavesFull ==
  ASSUME NEW n \in Nat, NEW S, NEW T, UpTo(S, n), Cut(S, T), NEW p \in S, p \notin T
  PROVE  ListFull(T, p[1])
<1> DEFINE t == p[1]
<1> DEFINE D == {i \in 0..n : <<t, i>> \in S /\ <<t, i>> \notin T}
<1>1. \A q \in S : q = <<q[1], q[2]>> /\ q[2] \in 0..n
  BY DEF UpTo, Postings
<1>2. D \in SUBSET (0..n) /\ D # {}
  <2>1. p = <<t, p[2]>> /\ p[2] \in 0..n
    BY <1>1
  <2>2. p[2] \in D
    BY <2>1
  <2> QED BY <2>2
<1>3. PICK i \in D : \A j \in D : j <= i
  BY <1>2, LargestId
<1>4. Cardinality(Newer(S, <<t, i>>)) >= MaxList
  BY DEF Cut
<1>5. Newer(S, <<t, i>>) \subseteq ListOf(T, t)
  <2> SUFFICES ASSUME NEW q \in Newer(S, <<t, i>>) PROVE q \in ListOf(T, t)
    OBVIOUS
  <2>1. q \in S /\ q[1] = t /\ q[2] > i
    BY DEF Newer
  <2>2. q = <<t, q[2]>> /\ q[2] \in 0..n
    BY <1>1, <2>1
  <2>3. q[2] \notin D
    BY <2>1, <2>2, <1>2, <1>3
  <2>4. q \in T
    BY <2>1, <2>2, <2>3
  <2> QED BY <2>1, <2>4 DEF ListOf
<1>6. UpTo(T, n)
  BY DEF UpTo, Cut
<1>7. /\ Cardinality(Newer(S, <<t, i>>)) <= Cardinality(ListOf(T, t))
      /\ Cardinality(Newer(S, <<t, i>>)) \in Nat /\ Cardinality(ListOf(T, t)) \in Nat
  BY <1>5, <1>6, FiniteList, Smaller
<1>8. MaxList \in Nat
  BY BoundsAssumption
<1>9. Cardinality(ListOf(T, t)) >= MaxList
  BY <1>4, <1>7, <1>8
<1> QED BY <1>9 DEF ListFull, ListOf

\* A full list stays full when it is cut.
LEMMA CutKeepsFull ==
  ASSUME NEW n \in Nat, NEW S, NEW T, UpTo(S, n), Cut(S, T), NEW t, ListFull(S, t)
  PROVE  ListFull(T, t)
<1>1. CASE \E p \in S : p[1] = t /\ p \notin T
  BY <1>1, CutLeavesFull
<1>2. CASE \A p \in S : p[1] = t => p \in T
  <2>1. {p \in S : p[1] = t} = {p \in T : p[1] = t}
    BY <1>2 DEF Cut
  <2> QED BY <2>1 DEF ListFull
<1> QED BY <1>1, <1>2

\* A merge cuts the whole store when it cuts two of its layers.
LEMMA CutOfParts ==
  ASSUME NEW n \in Nat, NEW V, UpTo(V, n), NEW S, NEW T, Cut(S, T), NEW R, V = R \cup S
  PROVE  Cut(V, R \cup T)
<1> SUFFICES ASSUME NEW p \in V, p \notin R \cup T PROVE Cardinality(Newer(V, p)) >= MaxList
  BY DEF Cut
<1>1. p \in S /\ p \notin T
  OBVIOUS
<1>2. Cardinality(Newer(S, p)) >= MaxList
  BY <1>1 DEF Cut
<1>3. Newer(S, p) \subseteq Newer(V, p)
  BY DEF Newer
<1>4. /\ Cardinality(Newer(S, p)) <= Cardinality(Newer(V, p))
      /\ Cardinality(Newer(S, p)) \in Nat /\ Cardinality(Newer(V, p)) \in Nat
  BY <1>3, FiniteNewer, Smaller
<1> QED BY <1>2, <1>4, BoundsAssumption
(***************************************************************************)
(* Part 5.  What the mergers have written.                                 *)
(***************************************************************************)
\* set_finish makes readable exactly what was written.
LEMMA FinishedSeen ==
  ASSUME NEW ix \in Indexers
  PROVE  Seen(Finished(ix)) = ix.post
BY DEF Indexers, Seen, Finished, NoIndex, Marked

\* Steps that change no disk index and no source of a merge in progress.
LEMMA MergesQuiet ==
  ASSUME Merges, UNCHANGED <<day, his, iday, ihis, canDay2>>,
         dpc' \in Busy => UNCHANGED <<dst, mem1>> /\ dpc \in Busy /\ (dpc' = "merge" <=> dpc = "merge"),
         hpc' # "idle" => hpc # "idle" /\ (hpc' = "merge" <=> hpc = "merge")
  PROVE  Merges'
<1>1. UNCHANGED <<DayL, Day2L, HisL>>
  BY DEF DayL, Day2L, HisL
<1>2. /\ dpc' = "merge" => day'[dst'].post = Merged(mem1', DayL')
      /\ dpc' \in Busy \ {"merge"} => Seen(day'[dst']) = Merged(mem1', DayL')
  BY <1>1 DEF Merges, Busy
<1>3. /\ hpc' = "merge" => his'[1 - ihis'].post = Merged(Day2L', HisL')
      /\ hpc' = "merge" => his'[1 - ihis'].st \in {"writing", "torn"}
      /\ hpc' \notin {"idle", "merge"} => Seen(his'[1 - ihis']) = Merged(Day2L', HisL')
  BY <1>1 DEF Merges
<1>4. canDay2' => Day2L' = {}
  BY <1>1 DEF Merges
<1> QED BY <1>2, <1>3, <1>4 DEF Merges

\* The update thread touches no source of a merge: it swaps only when there is no MEM1.
LEMMA MergesUpd ==
  ASSUME TypeInv, MergerState, Merges, UpdStep \/ UpdSpurious
  PROVE  Merges'
<1> USE DEF updVars, memVars, diskVars, dayVars, flagVars
<1>1. UNCHANGED <<day, his, iday, ihis, canDay2, hpc, dst>>
  BY DEF UpdStep, UpdBegin, UpdTerm, UpdEnd, UpdTest, UpdSleep, UpdWake, UpdSwap, UpdSpurious
<1>2. dpc' \in Busy => dpc' = dpc /\ mem1' = mem1
  <2>1. CASE UpdSwap
    <3>1. dpc \notin Busy
      BY <2>1 DEF UpdSwap, MergerState
    <3>2. dpc' \notin Busy
      BY <2>1, <3>1 DEF UpdSwap, SignalDay, Busy
    <3> QED BY <3>2
  <2>2. CASE ~UpdSwap
    BY <2>2 DEF UpdStep, UpdBegin, UpdTerm, UpdEnd, UpdTest, UpdSleep, UpdWake, UpdSpurious
  <2> QED BY <2>1, <2>2
<1> QED BY <1>1, <1>2, MergesQuiet

\* The steps of the day merger that write no index.
LEMMA MergesDayQuiet ==
  ASSUME TypeInv, MergerState, Merges,
         \/ DayEnter \/ DayTimeout \/ DayExpired \/ DayCut \/ DaySetCur \/ DayCheckPoint
         \/ DaySpurious \/ NextDay \/ UNCHANGED vars
  PROVE  Merges'
<1> USE DEF vars, updVars, memVars, diskVars, dayVars, flagVars
<1>1. UNCHANGED <<day, his, iday, ihis, canDay2, hpc>>
  BY DEF DayEnter, DayTimeout, DayExpired, DayCut, DaySetCur, DayCheckPoint, DaySpurious, NextDay
<1>2. dpc' \in Busy => UNCHANGED <<dst, mem1>> /\ dpc \in Busy /\ (dpc' = "merge" <=> dpc = "merge")
  BY DEF DayEnter, DayTimeout, DayExpired, DayCut, DaySetCur, DayCheckPoint, DaySpurious, NextDay, Busy
<1> QED BY <1>1, <1>2, MergesQuiet

\* A merge begins with its sources; day/2 is taken only while the history merger does not read it.
LEMMA MergesDayChoose ==
  ASSUME TypeInv, Token, MergerState, Merges, NEW low \in BOOLEAN, DayChoose(low)
  PROVE  Merges'
<1> USE DEF updVars, memVars, diskVars, dayVars, flagVars
<1>1. UNCHANGED <<mem1, his, iday, ihis, hpc>> /\ dpc' = "merge"
  BY DEF DayChoose
<1>2. day \in [0..2 -> Indexers] /\ iday \in 0..1
  BY DEF TypeInv, TypeOK, IndexTypes
<1>3. \/ NeedDay2(low) /\ dst' = 2
      \/ ~NeedDay2(low) /\ dst' = 1 - iday
  BY DEF DayChoose
<1>4. dst' \in 0..2 /\ dst' # iday
  BY <1>2, <1>3
<1>5. /\ day'[dst'] = [st |-> "writing", post |-> Merged(mem1, DayL)]
      /\ \A d \in 0..2 \ {dst'} : day'[d] = day[d]
  BY <1>2, <1>4 DEF DayChoose, DayL
<1>6. DayL' = DayL /\ HisL' = HisL
  BY <1>1, <1>2, <1>4, <1>5 DEF DayL, HisL
<1>7. day'[dst'].post = Merged(mem1', DayL')
  BY <1>1, <1>5, <1>6
<1>8. NeedDay2(low) => hpc = "idle" /\ ~canDay2'
  BY Zenon DEF NeedDay2, Token, DayChoose
<1>9. ~NeedDay2(low) => Day2L' = Day2L
  BY <1>2, <1>3, <1>5 DEF Day2L
<1>10. canDay2' => canDay2
  BY Zenon DEF DayChoose
<1>11. canDay2' => Day2L' = {}
  BY <1>8, <1>9, <1>10, <1>3 DEF Merges
<1>12. hpc # "idle" => Day2L' = Day2L
  BY <1>8, <1>9
<1>13. /\ hpc' = "merge" => his'[1 - ihis'].post = Merged(Day2L', HisL')
       /\ hpc' = "merge" => his'[1 - ihis'].st \in {"writing", "torn"}
       /\ hpc' \notin {"idle", "merge"} => Seen(his'[1 - ihis']) = Merged(Day2L', HisL')
  BY <1>1, <1>6, <1>12 DEF Merges
<1> QED BY <1>1, <1>7, <1>11, <1>13 DEF Merges

\* set_finish of a day merge.
LEMMA MergesDayWrite ==
  ASSUME TypeInv, Token, MergerState, Merges, DayTear \/ DayFinish
  PROVE  Merges'
<1> USE DEF updVars, memVars, diskVars, dayVars, flagVars
<1>1. UNCHANGED <<mem1, his, iday, ihis, hpc, dst, canDay2>> /\ dpc = "merge" /\ dpc \in Busy
  BY DEF DayTear, DayFinish, Busy
<1>2. day \in [0..2 -> Indexers] /\ iday \in 0..1 /\ dst \in 0..2
  BY DEF TypeInv, TypeOK, IndexTypes, ThreadTypes
<1>3. dst # iday
  BY <1>1, <1>2 DEF MergerState
<1>4. \A d \in 0..2 \ {dst} : day'[d] = day[d]
  BY <1>2 DEF DayTear, DayFinish
<1>5. DayL' = DayL /\ HisL' = HisL /\ (dst # 2 => Day2L' = Day2L)
  BY <1>1, <1>2, <1>3, <1>4 DEF DayL, HisL, Day2L
<1>6. dst = 2 => hpc = "idle" /\ ~canDay2
  BY <1>1, Zenon DEF Token, OnDay2
<1>7. day[dst] \in Indexers /\ day[dst].post = Merged(mem1, DayL)
  BY <1>1, <1>2 DEF Merges
<1>8. \/ day'[dst] = Marked(day[dst], "torn") /\ dpc' = "merge"
      \/ day'[dst] = Finished(day[dst]) /\ dpc' = "merged"
  BY <1>1, <1>2 DEF DayTear, DayFinish
<1>9. /\ dpc' = "merge" => day'[dst'].post = Merged(mem1', DayL')
      /\ dpc' \in Busy \ {"merge"} => Seen(day'[dst']) = Merged(mem1', DayL')
  BY <1>1, <1>5, <1>7, <1>8, FinishedSeen, SeenFacts
<1>10. /\ hpc' = "merge" => his'[1 - ihis'].post = Merged(Day2L', HisL')
       /\ hpc' = "merge" => his'[1 - ihis'].st \in {"writing", "torn"}
       /\ hpc' \notin {"idle", "merge"} => Seen(his'[1 - ihis']) = Merged(Day2L', HisL')
  BY <1>1, <1>5, <1>6 DEF Merges
<1>11. canDay2' => Day2L' = {}
  BY <1>1, <1>5, <1>6 DEF Merges
<1> QED BY <1>9, <1>10, <1>11 DEF Merges

\* The install of a day merge leaves day/2 and HIS alone.
LEMMA MergesDayInstall ==
  ASSUME TypeInv, Merges, NEW late \in BOOLEAN, DayInstall(late)
  PROVE  Merges'
<1> USE DEF updVars, memVars, diskVars, dayVars, flagVars
<1>1. UNCHANGED <<his, ihis, hpc, canDay2>> /\ dpc' = "enter"
  BY DEF DayInstall
<1>2. day \in [0..2 -> Indexers] /\ iday \in 0..1
  BY DEF TypeInv, TypeOK, IndexTypes
<1>3. Day2L' = Day2L /\ HisL' = HisL
  BY <1>1, <1>2 DEF DayInstall, DayCleared, Day2L, HisL
<1>4. /\ hpc' = "merge" => his'[1 - ihis'].post = Merged(Day2L', HisL')
      /\ hpc' = "merge" => his'[1 - ihis'].st \in {"writing", "torn"}
      /\ hpc' \notin {"idle", "merge"} => Seen(his'[1 - ihis']) = Merged(Day2L', HisL')
  BY <1>1, <1>3 DEF Merges
<1>5. canDay2' => Day2L' = {}
  BY <1>1, <1>3 DEF Merges
<1> QED BY <1>1, <1>4, <1>5 DEF Merges, Busy

\* The history merger writes exactly the merge of day/2 and HIS.
LEMMA MergesHisWrite ==
  ASSUME TypeInv, Merges, HisBegin \/ HisTear \/ HisFinish \/ HisCut \/ HisSetCur
  PROVE  Merges'
<1> USE DEF updVars, memVars, diskVars, dayVars, flagVars
<1>1. UNCHANGED <<mem1, day, iday, ihis, dst, dpc, canDay2>>
  BY DEF HisBegin, HisTear, HisFinish, HisCut, HisSetCur
<1>2. his \in [0..1 -> Indexers] /\ ihis \in 0..1 /\ 1 - ihis \in 0..1 /\ 1 - ihis # ihis
  BY DEF TypeInv, TypeOK, IndexTypes
<1>3. his'[ihis] = his[ihis]
  BY <1>2 DEF HisBegin, HisTear, HisFinish, HisCut, HisSetCur
<1>4. UNCHANGED <<DayL, Day2L, HisL>>
  BY <1>1, <1>3 DEF DayL, Day2L, HisL
<1>5. /\ hpc' = "merge" => his'[1 - ihis].post = Merged(Day2L, HisL)
      /\ hpc' = "merge" => his'[1 - ihis].st \in {"writing", "torn"}
      /\ hpc' \notin {"idle", "merge"} => Seen(his'[1 - ihis]) = Merged(Day2L, HisL)
  <2>1. CASE HisBegin
    <3>1. his'[1 - ihis] = [st |-> "writing", post |-> Merged(Day2L, HisL)] /\ hpc' = "merge"
      BY <1>2, <2>1 DEF HisBegin, Day2L, HisL
    <3> QED BY <3>1
  <2>2. CASE HisTear \/ HisFinish
    <3>1. his[1 - ihis] \in Indexers /\ his[1 - ihis].post = Merged(Day2L, HisL)
      BY <1>2, <2>2 DEF HisTear, HisFinish, Merges
    <3>2. \/ his'[1 - ihis] = Marked(his[1 - ihis], "torn") /\ hpc' = "merge"
          \/ his'[1 - ihis] = Finished(his[1 - ihis]) /\ hpc' = "merged"
      BY <1>2, <2>2 DEF HisTear, HisFinish
    <3> QED BY <3>1, <3>2, FinishedSeen, SeenFacts
  <2>3. CASE HisCut \/ HisSetCur
    BY <2>3 DEF HisCut, HisSetCur, Merges
  <2> QED BY <2>1, <2>2, <2>3
<1>6. /\ dpc' = "merge" => day'[dst'].post = Merged(mem1', DayL')
      /\ dpc' \in Busy \ {"merge"} => Seen(day'[dst']) = Merged(mem1', DayL')
  BY <1>1, <1>4 DEF Merges
<1>7. canDay2' => Day2L' = {}
  BY <1>1, <1>4 DEF Merges
<1> QED BY <1>1, <1>4, <1>5, <1>6, <1>7 DEF Merges

\* The install of a history merge: day/2, which the day merger does not work on, is empty.
LEMMA MergesHisInstall ==
  ASSUME TypeInv, Token, MergerState, Merges, HisInstall
  PROVE  Merges'
<1> USE DEF updVars, memVars, diskVars, dayVars, flagVars
<1>1. UNCHANGED <<mem1, iday, dst, dpc>> /\ hpc = "install" /\ hpc' = "idle"
  BY DEF HisInstall
<1>2. day \in [0..2 -> Indexers] /\ iday \in 0..1 /\ dst \in 0..2
  BY DEF TypeInv, TypeOK, IndexTypes, ThreadTypes
<1>3. ~(dst = 2 /\ dpc \in Busy)
  BY <1>1, Zenon DEF Token, OnDay2
<1>4. day'[2] = NoIndex /\ \A d \in 0..1 : day'[d] = day[d]
  BY <1>2 DEF HisInstall
<1>5. DayL' = DayL /\ Day2L' = {}
  BY <1>1, <1>2, <1>4 DEF DayL, Day2L, Seen, NoIndex
<1>6. dpc \in Busy => dst \in 0..1
  BY <1>2, <1>3
<1>7. /\ dpc' = "merge" => day'[dst'].post = Merged(mem1', DayL')
      /\ dpc' \in Busy \ {"merge"} => Seen(day'[dst']) = Merged(mem1', DayL')
  BY <1>1, <1>4, <1>5, <1>6 DEF Merges, Busy
<1> QED BY <1>1, <1>5, <1>7 DEF Merges

\* A death ends every merge.
LEMMA MergesDie ==
  ASSUME TypeInv, Merges, Die
  PROVE  Merges'
<1>1. dpc' = "enter" /\ hpc' = "idle" /\ canDay2' = canDay2 /\ day'[2] = OnDisk(day[2])
  BY DEF Die
<1>2. Day2L' = Day2L
  BY <1>1, SeenFacts DEF Day2L, TypeInv, TypeOK, IndexTypes
<1>3. canDay2' => Day2L' = {}
  BY <1>1, <1>2 DEF Merges
<1> QED BY <1>1, <1>3 DEF Merges, Busy

\* Every step of one life of the process keeps Merges.
LEMMA MergesStep == TypeInv /\ Token /\ OrderInv /\ Merges /\ [NextRun]_vars => Merges'
<1> SUFFICES ASSUME TypeInv, Token, OrderInv, Merges, [NextRun]_vars PROVE Merges'
  OBVIOUS
<1>0. MergerState
  BY DEF OrderInv
<1>1. CASE UpdStep \/ UpdSpurious
  BY <1>0, <1>1, MergesUpd
<1>2. CASE DayStep \/ DaySpurious \/ NextDay
  BY <1>0, <1>2, MergesDayQuiet, MergesDayChoose, MergesDayWrite, MergesDayInstall DEF DayStep
<1>3. CASE HisStep
  BY <1>0, <1>3, MergesHisWrite, MergesHisInstall DEF HisStep
<1>4. CASE Suicide \/ QueryThrows
  BY <1>4, MergesDie DEF Suicide, QueryThrows
<1>5. CASE UNCHANGED vars
  BY <1>0, <1>5, MergesDayQuiet
<1> QED BY <1>1, <1>2, <1>3, <1>4, <1>5 DEF NextRun, Threads

-----------------------------------------------------------------------------
\* The idmap as a function, and extended by one.
LEMMA IdMap ==
  ASSUME NEW s \in Seq(1..Msgs)
  PROVE  /\ Len(s) \in Nat /\ DOMAIN s = 1..Len(s)
         /\ \A e \in 1..Msgs :
              /\ DOMAIN Append(s, e) = 1..(Len(s) + 1) /\ Len(Append(s, e)) = Len(s) + 1
              /\ Append(s, e)[Len(s) + 1] = e
              /\ \A i \in 1..Len(s) : Append(s, e)[i] = s[i]
<1>1. Len(s) \in Nat /\ DOMAIN s = 1..Len(s)
  BY LenProperties
<1>2. ASSUME NEW e \in 1..Msgs
      PROVE  /\ DOMAIN Append(s, e) = 1..(Len(s) + 1) /\ Len(Append(s, e)) = Len(s) + 1
             /\ Append(s, e)[Len(s) + 1] = e
             /\ \A i \in 1..Len(s) : Append(s, e)[i] = s[i]
  <2>1. Append(s, e) \in Seq(1..Msgs) /\ Len(Append(s, e)) = Len(s) + 1
    BY LastElement
  <2>2. DOMAIN Append(s, e) = 1..(Len(s) + 1)
    BY <2>1, LenProperties
  <2>3. Append(s, e)[Len(s) + 1] = e /\ \A i \in 1..Len(s) : Append(s, e)[i] = s[i]
    BY <1>1
  <2> QED BY <2>1, <2>2, <2>3
<1> QED BY <1>1, <1>2

\* Steps of a thread that neither begin nor end a document.
LEMMA NumberedQuiet ==
  ASSUME Numbered, up, UNCHANGED <<docs, last>>, upc' = "idle" <=> upc = "idle",
         upc' = "idle" \/ (upc' # "term" /\ uterm' = NoTerm) => todo' = {}
  PROVE  Numbered'
BY DEF Numbered

\* A document ends: its message is the next one, and its id the last one.
LEMMA NumberedEnd ==
  ASSUME TypeInv, PosInv, Numbered, up, upc # "idle", todo = {},
         docs' = docs, last' = Msg, upc' = "idle", todo' = {}
  PROVE  Numbered'
<1>1. docs \in Seq(1..Msgs) /\ last \in Nat
  BY DEF TypeInv, TypeOK, ThreadTypes
<1>2. last' = last + 1 /\ docs[Len(docs)] = last + 1 /\ Len(docs) > 0
  BY DEF PosInv, Msg, Uid, TypeInv
<1>3. Len(docs) \in DOMAIN docs /\ Len(docs) \in Nat
  BY <1>1, <1>2, IdMap
<1>4. Len(docs) <= last + 1
  BY DEF Numbered
<1>5. \A m \in 1..last' : TermsOf[m] # {} => \E id \in DOMAIN docs : docs[id] = m
  <2> TAKE m \in 1..last'
  <2>1. m \in 1..last \/ m = last + 1
    BY <1>1, <1>2
  <2> QED BY <2>1, <1>2, <1>3 DEF Numbered
<1> QED BY <1>2, <1>4, <1>5 DEF Numbered

\* A document begins, or a message without terms is skipped.
LEMMA NumberedBegin ==
  ASSUME TypeInv, Numbered, up, UpdBegin
  PROVE  Numbered'
<1>1. docs \in Seq(1..Msgs) /\ last \in Nat /\ last + 1 \in 1..Msgs
  BY MsgsAssumption DEF TypeInv, TypeOK, ThreadTypes, UpdBegin
<1>2. upc = "idle" /\ todo = {} /\ Len(docs) <= last /\ Len(docs) \in Nat
  BY <1>1, IdMap DEF Numbered, UpdBegin
<1>3. CASE TermsOf[last + 1] = {}
  <2>1. last' = last + 1 /\ UNCHANGED <<upc, todo, docs>>
    BY <1>3 DEF UpdBegin
  <2>2. \A m \in 1..last' : m \in 1..last \/ m = last + 1
    BY <1>1, <2>1
  <2>3. \A m \in 1..last' : TermsOf[m] # {} => \E id \in DOMAIN docs : docs[id] = m
    BY <1>3, <2>2 DEF Numbered
  <2>4. Len(docs) <= last'
    BY <1>1, <1>2, <2>1
  <2> QED BY <1>2, <2>1, <2>3, <2>4 DEF Numbered
<1>4. CASE TermsOf[last + 1] # {}
  <2>1. docs' = Append(docs, last + 1) /\ last' = last /\ upc' = "term"
    BY <1>4 DEF UpdBegin
  <2>2. Len(docs') <= last' + 1
    BY <1>1, <1>2, <2>1, IdMap
  <2>3. \A id \in DOMAIN docs : id \in DOMAIN docs' /\ docs'[id] = docs[id]
    <3>1. DOMAIN docs = 1..Len(docs) /\ DOMAIN docs' = 1..(Len(docs) + 1)
      BY <1>1, <2>1, IdMap
    <3>2. \A i \in 1..Len(docs) : docs'[i] = docs[i]
      BY <1>1, <2>1, IdMap
    <3> QED BY <3>1, <3>2, <1>2
  <2>4. \A m \in 1..last' : TermsOf[m] # {} => \E id \in DOMAIN docs' : docs'[id] = m
    BY <2>1, <2>3 DEF Numbered
  <2> QED BY <2>1, <2>2, <2>4 DEF Numbered
<1> QED BY <1>3, <1>4

\* Every step of one life of the process keeps Numbered.
LEMMA NumberedStep ==
  TypeInv /\ PosInv /\ OrderInv /\ Numbered /\ [NextRun]_vars => Numbered'
<1> SUFFICES ASSUME TypeInv, PosInv, OrderInv, Numbered, [NextRun]_vars PROVE Numbered'
  OBVIOUS
<1> USE DEF updVars
<1>1. CASE up /\ UpdBegin
  BY <1>1, NumberedBegin
<1>2. ASSUME up, NEW t \in Terms, NEW r \in Results, UpdTerm(t, r) PROVE Numbered'
  <2>1. UNCHANGED <<docs, last>> /\ upc = "term" /\ upc' # "idle"
    BY <1>2 DEF UpdTerm
  <2>2. upc' # "term" => uterm' # NoTerm
    BY <1>2, TermsAssumption DEF UpdTerm
  <2> QED BY <1>2, <2>1, <2>2, NumberedQuiet
<1>3. CASE up /\ UpdEnd
  <2>1. upc = "term" /\ todo = {} /\ UNCHANGED <<docs, todo>>
    BY <1>3 DEF UpdEnd
  <2>2. CASE upc' = "idle"
    <3>1. last' = Msg
      BY <1>3, <2>2 DEF UpdEnd
    <3> QED BY <1>3, <2>1, <2>2, <3>1, NumberedEnd
  <2>3. CASE upc' # "idle"
    <3>1. last' = last
      BY <1>3, <2>3 DEF UpdEnd
    <3> QED BY <1>3, <2>1, <2>3, <3>1, NumberedQuiet
  <2> QED BY <2>2, <2>3
<1>4. CASE up /\ (UpdTest \/ UpdSleep \/ UpdWake \/ UpdSpurious)
  <2>1. UNCHANGED <<docs, last, todo, uterm>> /\ upc \notin {"idle", "term"} /\ upc' # "idle"
    BY <1>4 DEF UpdTest, UpdSleep, UpdWake, UpdSpurious
  <2>2. uterm = NoTerm => todo = {}
    BY <1>4, <2>1 DEF Numbered
  <2> QED BY <1>4, <2>1, <2>2, NumberedQuiet
<1>5. CASE up /\ UpdSwap
  <2>1. upc = "swap" /\ docs' = docs
    BY <1>5 DEF UpdSwap
  <2>2. CASE uterm = NoTerm
    <3>1. last' = Msg /\ upc' = "idle" /\ todo' = todo
      BY <1>5, <2>2 DEF UpdSwap
    <3>2. todo = {}
      BY <1>5, <2>1, <2>2 DEF Numbered
    <3> QED BY <1>5, <2>1, <3>1, <3>2, NumberedEnd
  <2>3. CASE uterm # NoTerm
    <3>1. last' = last /\ upc' = "term"
      BY <1>5, <2>3 DEF UpdSwap
    <3> QED BY <1>5, <2>1, <3>1, NumberedQuiet
  <2> QED BY <2>2, <2>3
<1>6. CASE up /\ (DayStep \/ DaySpurious \/ HisStep \/ NextDay \/ UNCHANGED vars)
  <2>1. UNCHANGED <<docs, last, todo, uterm>>
    BY <1>6 DEF DayStep, DayEnter, DayTimeout, DayExpired, DayChoose, DayTear, DayFinish, DayCut,
      DaySetCur, DayCheckPoint, DayInstall, DaySpurious, NextDay, vars,
      HisStep, HisBegin, HisTear, HisFinish, HisCut, HisSetCur, HisInstall
  <2>2. upc' = upc \/ (upc = "sleep" /\ upc' = "woken")
    BY <1>6 DEF DayStep, DayEnter, DayTimeout, DayExpired, DayChoose, DayTear, DayFinish, DayCut,
      DaySetCur, DayCheckPoint, DayInstall, SignalUpd, DaySpurious, NextDay, vars,
      HisStep, HisBegin, HisTear, HisFinish, HisCut, HisSetCur, HisInstall
  <2>3. upc' = "idle" \/ (upc' # "term" /\ uterm' = NoTerm) => todo' = {}
    BY <1>6, <2>1, <2>2 DEF Numbered
  <2> QED BY <1>6, <2>1, <2>2, <2>3, NumberedQuiet
<1>7. CASE Suicide \/ QueryThrows
  BY <1>7 DEF Suicide, QueryThrows, Die, Numbered
<1>8. CASE ~up /\ UNCHANGED vars
  BY <1>8 DEF Numbered, vars
<1> QED BY <1>1, <1>2, <1>3, <1>4, <1>5, <1>6, <1>7, <1>8 DEF NextRun, Threads, UpdStep
(***************************************************************************)
(* Part 6.  What a step does to the answer of a query: nothing or a cut, a *)
(* new document with none of its postings yet, or one posting inserted at  *)
(* the head of its list.                                                   *)
(***************************************************************************)
Trims   == Cut(Visible, Visible') /\ UNCHANGED <<docs, todo>>
Opens   == /\ Visible' = Visible /\ todo = {} /\ last + 1 \in 1..Msgs
           /\ docs' = Append(docs, last + 1) /\ todo' = TermsOf[last + 1]
Inserts == \E t \in todo :
             /\ Visible' = Visible \cup {<<t, Uid>>} /\ Above({<<t, Uid>>}, Visible)
             /\ todo' = todo \ {t} /\ docs' = docs /\ upc # "idle"

\* What a query sees, layer by layer, with ids that were allocated.
LEMMA VisibleLayers ==
  ASSUME TypeInv, OrderInv
  PROVE  /\ Visible = mem0 \cup mem1 \cup DayL \cup Day2L \cup HisL
         /\ UpTo(Visible, Len(docs)) /\ Len(docs) \in Nat
<1>1. Visible = mem0 \cup mem1 \cup DayL \cup Day2L \cup HisL
  BY DEF Visible, DayL, Day2L, HisL
<1>2. mem0 \in SUBSET Postings /\ mem1 \in SUBSET Postings /\ DayL \in SUBSET Postings
      /\ Day2L \in SUBSET Postings /\ HisL \in SUBSET Postings
  BY LayerTypes DEF TypeInv, TypeOK, IndexTypes
<1>3. Fresh(mem0) /\ Fresh(mem1) /\ Fresh(DayL) /\ Fresh(Day2L) /\ Fresh(HisL)
  BY DEF OrderInv, IdsGrow
<1>4. UpTo(Visible, Len(docs))
  BY <1>1, <1>2, <1>3 DEF UpTo, Fresh
<1>5. Len(docs) \in Nat
  BY LastElement DEF TypeInv, TypeOK, ThreadTypes
<1> QED BY <1>1, <1>4, <1>5

\* The same for the next state.
LEMMA VisibleNext == Visible' = mem0' \cup mem1' \cup DayL' \cup Day2L' \cup HisL'
BY DEF Visible, DayL, Day2L, HisL

\* A set is a cut of itself.
LEMMA CutSame == \A S : Cut(S, S)
BY DEF Cut

\* A step that leaves the layers together as they are.
LEMMA TrimsSame ==
  ASSUME Visible' = Visible, UNCHANGED <<docs, todo>>
  PROVE  Trims
BY CutSame DEF Trims

\* A posting of a pending term is the newest of its list, whatever layer the list is in.
LEMMA InsertNewest ==
  ASSUME TypeInv, OrderInv, upc # "idle", NEW t \in todo
  PROVE  Above({<<t, Uid>>}, Visible)
<1>1. mem0 \in SUBSET Postings /\ mem1 \in SUBSET Postings /\ DayL \in SUBSET Postings
      /\ Day2L \in SUBSET Postings /\ HisL \in SUBSET Postings
  BY LayerTypes DEF TypeInv, TypeOK, IndexTypes
<1>2. Older(mem0) /\ Older(mem1) /\ Older(DayL) /\ Older(Day2L) /\ Older(HisL)
  BY DEF OrderInv, IdsGrow
<1>3. /\ Above({<<t, Uid>>}, mem0) /\ Above({<<t, Uid>>}, mem1) /\ Above({<<t, Uid>>}, DayL)
      /\ Above({<<t, Uid>>}, Day2L) /\ Above({<<t, Uid>>}, HisL)
  BY <1>1, <1>2, NewestPosting DEF Uid
<1> QED BY <1>3, VisibleLayers DEF Above

\* The update thread: documents and insertions; a swap moves a layer.
LEMMA EffectUpd ==
  ASSUME TypeInv, OrderInv, Numbered, up, UpdStep \/ UpdSpurious
  PROVE  Trims \/ Opens \/ Inserts
<1> USE DEF updVars, memVars, diskVars
<1>0. UNCHANGED <<day, his, iday, ihis>>
  BY DEF UpdStep, UpdBegin, UpdTerm, UpdEnd, UpdTest, UpdSleep, UpdWake, UpdSwap, UpdSpurious
<1>1. UNCHANGED <<DayL, Day2L, HisL>>
  BY <1>0 DEF DayL, Day2L, HisL
<1>2. ASSUME UNCHANGED <<mem0, mem1>> PROVE Visible' = Visible
  BY <1>1, <1>2, VisibleNext, VisibleLayers
<1>3. CASE UpdBegin
  <2>1. Visible' = Visible
    BY <1>2, <1>3 DEF UpdBegin
  <2>2. todo = {} /\ last + 1 \in 1..Msgs
    BY <1>3, MsgsAssumption DEF UpdBegin, Numbered, TypeInv, TypeOK, ThreadTypes
  <2>3. \/ UNCHANGED <<docs, todo>>
        \/ docs' = Append(docs, last + 1) /\ todo' = TermsOf[last + 1]
    BY <1>3 DEF UpdBegin
  <2> QED BY <2>1, <2>2, <2>3, TrimsSame DEF Opens
<1>4. ASSUME NEW t \in Terms, NEW r \in Results, UpdTerm(t, r) PROVE Trims \/ Inserts
  <2>1. upc # "idle" /\ t \in todo /\ docs' = docs /\ mem1' = mem1
    BY <1>4 DEF UpdTerm
  <2>2. \/ mem0' = mem0 \cup {<<t, Uid>>} /\ todo' = todo \ {t}
        \/ UNCHANGED <<mem0, todo>>
    BY <1>4 DEF UpdTerm
  <2>3. CASE mem0' = mem0 \cup {<<t, Uid>>} /\ todo' = todo \ {t}
    <3>1. Visible' = Visible \cup {<<t, Uid>>}
      BY <1>1, <2>1, <2>3, VisibleNext, VisibleLayers
    <3> QED BY <2>1, <2>3, <3>1, InsertNewest DEF Inserts
  <2>4. CASE UNCHANGED <<mem0, todo>>
    BY <1>2, <2>1, <2>4, TrimsSame
  <2> QED BY <2>2, <2>3, <2>4
<1>5. CASE UpdEnd \/ UpdTest \/ UpdSleep \/ UpdWake \/ UpdSpurious
  <2>1. UNCHANGED <<mem0, mem1, docs, todo>>
    BY <1>5 DEF UpdEnd, UpdTest, UpdSleep, UpdWake, UpdSpurious
  <2> QED BY <1>2, <2>1, TrimsSame
<1>6. CASE UpdSwap
  <2>1. upc # "idle" /\ mem1 = {} /\ mem1' = mem0 /\ docs' = docs
    BY <1>6 DEF UpdSwap, OrderInv, MergerState
  <2>2. CASE uterm = NoTerm
    <3>1. mem0' = {} /\ todo' = todo
      BY <1>6, <2>2 DEF UpdSwap
    <3>2. Visible' = Visible
      BY <1>1, <2>1, <3>1, VisibleNext, VisibleLayers
    <3> QED BY <2>1, <3>1, <3>2, TrimsSame
  <2>3. CASE uterm # NoTerm
    <3>1. mem0' = {<<uterm, Uid>>} /\ todo' = todo \ {uterm} /\ uterm \in todo
      BY <1>6, <2>3 DEF UpdSwap, OrderInv, Pending
    <3>2. Visible' = Visible \cup {<<uterm, Uid>>}
      BY <1>1, <2>1, <3>1, VisibleNext, VisibleLayers
    <3> QED BY <2>1, <3>1, <3>2, InsertNewest DEF Inserts
  <2> QED BY <2>2, <2>3
<1> QED BY <1>3, <1>4, <1>5, <1>6 DEF UpdStep

\* The waits of the day merger and its steps on files; a periodic dump moves a layer.
LEMMA EffectDayQuiet ==
  ASSUME TypeInv, OrderInv,
         \/ DayEnter \/ DayTimeout \/ DayExpired \/ DayCut \/ DaySetCur \/ DayCheckPoint
         \/ DaySpurious \/ NextDay \/ HisCut \/ HisSetCur \/ UNCHANGED vars
  PROVE  Trims
<1> USE DEF vars, updVars, memVars, diskVars
<1>1. UNCHANGED <<day, his, iday, ihis, docs, todo>>
  BY DEF DayEnter, DayTimeout, DayExpired, DayCut, DaySetCur, DayCheckPoint, DaySpurious, NextDay,
    HisCut, HisSetCur
<1>2. UNCHANGED <<DayL, Day2L, HisL>>
  BY <1>1 DEF DayL, Day2L, HisL
<1>3. \/ UNCHANGED <<mem0, mem1>>
      \/ mem1 = {} /\ mem1' = mem0 /\ mem0' = {}
  BY DEF DayEnter, DayTimeout, DayExpired, DayCut, DaySetCur, DayCheckPoint, DaySpurious, NextDay,
    HisCut, HisSetCur, OrderInv, MergerState
<1>4. Visible' = Visible
  BY <1>2, <1>3, VisibleNext, VisibleLayers
<1> QED BY <1>1, <1>4, TrimsSame

\* The day merger clears and fills an index that holds nothing a query would miss.
LEMMA EffectDayWrite ==
  ASSUME TypeInv, Token, OrderInv, Merges,
         (\E low \in BOOLEAN : DayChoose(low)) \/ DayTear \/ DayFinish
  PROVE  Trims
<1> USE DEF updVars, memVars, diskVars
<1>1. UNCHANGED <<mem0, mem1, his, iday, ihis, docs, todo>> /\ dst' \in 0..2
  BY DEF DayChoose, DayTear, DayFinish, TypeInv, TypeOK, ThreadTypes, IndexTypes, dayVars
<1>2. day \in [0..2 -> Indexers] /\ iday \in 0..1
  BY DEF TypeInv, TypeOK, IndexTypes
<1>3. \A d \in 0..2 \ {dst'} : day'[d] = day[d]
  BY <1>1, <1>2 DEF DayChoose, DayTear, DayFinish, dayVars
<1>4. dst' # iday
  BY <1>2 DEF DayChoose, DayTear, DayFinish, dayVars, OrderInv, MergerState, Busy
<1>5. DayL' = DayL /\ HisL' = HisL /\ (dst' # 2 => Day2L' = Day2L)
  BY <1>1, <1>2, <1>3, <1>4 DEF DayL, HisL, Day2L
<1>6. dst' = 2 => Day2L = {} /\ Day2L' \subseteq mem1 \cup DayL
  <2> SUFFICES ASSUME dst' = 2 PROVE Day2L = {} /\ Day2L' \subseteq mem1 \cup DayL
    OBVIOUS
  <2>1. ASSUME NEW low \in BOOLEAN, DayChoose(low) PROVE Day2L = {} /\ Day2L' \subseteq mem1 \cup DayL
    <3>1. NeedDay2(low)
      BY <1>2, <2>1 DEF DayChoose
    <3>2. canDay2
      BY <3>1, Zenon DEF NeedDay2
    <3>3. day'[2] = [st |-> "writing", post |-> Merged(mem1, Seen(day[iday]))]
      BY <1>1, <1>2, <2>1 DEF DayChoose
    <3>4. Day2L' = {}
      BY <3>3 DEF Day2L, Seen
    <3> QED BY <3>2, <3>4 DEF Merges
  <2>2. CASE DayTear \/ DayFinish
    <3>1. dst = 2 /\ dpc = "merge" /\ dpc \in Busy
      BY <2>2 DEF DayTear, DayFinish, dayVars, Busy
    <3>2. day[2].st \in {"writing", "torn"} /\ day[2].post \subseteq mem1 \cup DayL /\ day[2] \in Indexers
      BY <1>2, <3>1 DEF OrderInv, MergerState, FromSources
    <3>3. day'[2] = Marked(day[2], "torn") \/ day'[2] = Finished(day[2])
      BY <1>2, <2>2, <3>1 DEF DayTear, DayFinish
    <3>4. Seen(Marked(day[2], "torn")) = {}
      BY DEF Seen, Marked
    <3> QED BY <3>2, <3>3, <3>4, SeenFacts DEF Day2L
  <2> QED BY <2>1, <2>2
<1>7. Visible' = Visible
  BY <1>1, <1>5, <1>6, VisibleNext, VisibleLayers
<1> QED BY <1>1, <1>7, TrimsSame

\* The install of a day merge replaces MEM1 and DAY by their merge.
LEMMA EffectDayInstall ==
  ASSUME TypeInv, Token, OrderInv, Merges, NEW late \in BOOLEAN, DayInstall(late)
  PROVE  Trims
<1> USE DEF updVars, memVars, diskVars
<1>1. UNCHANGED <<mem0, his, ihis, dst, docs, todo>> /\ dpc = "install" /\ mem1' = {}
  BY DEF DayInstall
<1>2. day \in [0..2 -> Indexers] /\ iday \in 0..1 /\ dst \in 0..2
  BY DEF TypeInv, TypeOK, IndexTypes, ThreadTypes
<1>3. (dst = 2 \/ dst = 1 - iday) /\ dst # iday /\ Seen(day[dst]) = Merged(mem1, DayL)
  BY <1>1, <1>2 DEF OrderInv, MergerState, Merges, Busy
<1>4. day'[iday] = NoIndex /\ \A d \in 0..2 \ {iday} : day'[d] = day[d]
  BY <1>2 DEF DayInstall, DayCleared
<1>5. iday' = IF dst = 2 THEN iday ELSE dst
  BY DEF DayInstall
<1>6. Seen(NoIndex) = {}
  BY DEF NoIndex, Seen
<1>7. Day2L' = Day2L /\ HisL' = HisL
  BY <1>1, <1>2, <1>4 DEF Day2L, HisL
<1>8. \/ dst = 2 /\ DayL' = {} /\ Day2L = Merged(mem1, DayL)
      \/ DayL' = Merged(mem1, DayL)
  BY <1>2, <1>3, <1>4, <1>5, <1>6 DEF DayL, Day2L
<1>9. UpTo(Visible, Len(docs)) /\ Len(docs) \in Nat
  BY VisibleLayers
<1>10. Cut(mem1 \cup DayL, Merged(mem1, DayL))
  <2>1. Above(mem1, DayL)
    BY DEF OrderInv, InOrder, Order
  <2>2. UpTo(mem1, Len(docs)) /\ UpTo(DayL, Len(docs))
    BY <1>9, VisibleLayers DEF UpTo
  <2> QED BY <1>9, <2>1, <2>2, MergedCuts
<1>11. Visible' = (mem0 \cup Day2L \cup HisL) \cup Merged(mem1, DayL)
  BY <1>1, <1>7, <1>8, VisibleNext
<1>12. Visible = (mem0 \cup Day2L \cup HisL) \cup (mem1 \cup DayL)
  BY VisibleLayers
<1>13. Cut(Visible, Visible')
  BY <1>9, <1>10, <1>11, <1>12, CutOfParts
<1> QED BY <1>1, <1>13 DEF Trims

\* The history merger fills the twin of HIS, which no query reads.
LEMMA EffectHisWrite ==
  ASSUME TypeInv, OrderInv, HisBegin \/ HisTear \/ HisFinish
  PROVE  Trims
<1> USE DEF updVars, memVars
<1>1. UNCHANGED <<mem0, mem1, day, iday, ihis, docs, todo>>
  BY DEF HisBegin, HisTear, HisFinish
<1>2. his \in [0..1 -> Indexers] /\ ihis \in 0..1 /\ 1 - ihis # ihis
  BY DEF TypeInv, TypeOK, IndexTypes
<1>3. his'[ihis] = his[ihis]
  BY <1>2 DEF HisBegin, HisTear, HisFinish
<1>4. UNCHANGED <<DayL, Day2L, HisL>>
  BY <1>1, <1>3 DEF DayL, Day2L, HisL
<1>5. Visible' = Visible
  BY <1>1, <1>4, VisibleNext, VisibleLayers
<1> QED BY <1>1, <1>5, TrimsSame

\* Its install replaces day/2 and HIS by their merge.
LEMMA EffectHisInstall ==
  ASSUME TypeInv, Token, OrderInv, Merges, HisInstall
  PROVE  Trims
<1> USE DEF updVars, memVars
<1>1. UNCHANGED <<mem0, mem1, iday, docs, todo>> /\ hpc = "install" /\ ihis' = 1 - ihis
  BY DEF HisInstall
<1>2. day \in [0..2 -> Indexers] /\ iday \in 0..1
      /\ his \in [0..1 -> Indexers] /\ ihis \in 0..1 /\ 1 - ihis \in 0..1 /\ 1 - ihis # ihis
  BY DEF TypeInv, TypeOK, IndexTypes
<1>3. /\ day'[2] = NoIndex /\ \A d \in 0..1 : day'[d] = day[d]
      /\ his'[1 - ihis] = his[1 - ihis]
  BY <1>2 DEF HisInstall
<1>4. Seen(NoIndex) = {}
  BY DEF NoIndex, Seen
<1>5. DayL' = DayL /\ Day2L' = {} /\ HisL' = Merged(Day2L, HisL)
  BY <1>1, <1>2, <1>3, <1>4 DEF DayL, Day2L, HisL, Merges
<1>6. UpTo(Visible, Len(docs)) /\ Len(docs) \in Nat
  BY VisibleLayers
<1>7. Cut(Day2L \cup HisL, Merged(Day2L, HisL))
  <2>1. Above(Day2L, HisL)
    BY DEF OrderInv, InOrder, Order
  <2>2. UpTo(Day2L, Len(docs)) /\ UpTo(HisL, Len(docs))
    BY <1>6, VisibleLayers DEF UpTo
  <2> QED BY <1>6, <2>1, <2>2, MergedCuts
<1>8. Visible' = (mem0 \cup mem1 \cup DayL) \cup Merged(Day2L, HisL)
  BY <1>1, <1>5, VisibleNext
<1>9. Visible = (mem0 \cup mem1 \cup DayL) \cup (Day2L \cup HisL)
  BY VisibleLayers
<1>10. Cut(Visible, Visible')
  BY <1>6, <1>7, <1>8, <1>9, CutOfParts
<1> QED BY <1>1, <1>10 DEF Trims

\* What a step of one life of the process does to the answer of a query.
LEMMA StepEffect ==
  ASSUME TypeInv, Token, OrderInv, Merges, Numbered, up, [NextRun]_vars
  PROVE  Trims \/ Opens \/ Inserts \/ Die
<1>1. CASE UpdStep \/ UpdSpurious
  BY <1>1, EffectUpd
<1>2. CASE DayStep \/ DaySpurious \/ NextDay
  BY <1>2, EffectDayQuiet, EffectDayWrite, EffectDayInstall DEF DayStep
<1>3. CASE HisStep
  BY <1>3, EffectDayQuiet, EffectHisWrite, EffectHisInstall DEF HisStep
<1>4. CASE Suicide \/ QueryThrows
  BY <1>4 DEF Suicide, QueryThrows
<1>5. CASE UNCHANGED vars
  BY <1>5, EffectDayQuiet
<1> QED BY <1>1, <1>2, <1>3, <1>4, <1>5 DEF NextRun, Threads
(***************************************************************************)
(* Part 7.  The theorems.                                                  *)
(***************************************************************************)
StoreInv ==
  TypeInv /\ Down /\ Token /\ PosInv /\ OrderInv /\ Merges /\ Numbered /\ Kept

\* A cut keeps what was inserted, or leaves its list full.
LEMMA KeptTrims ==
  ASSUME TypeInv, OrderInv, Kept, up, Trims
  PROVE  Kept'
<1>1. Cut(Visible, Visible') /\ UNCHANGED <<docs, todo>>
  BY DEF Trims
<1>2. UpTo(Visible, Len(docs)) /\ Len(docs) \in Nat
  BY VisibleLayers
<1> SUFFICES ASSUME NEW id \in DOMAIN docs, NEW t \in TermsOf[docs[id]],
                    id # Len(docs) \/ t \notin todo
             PROVE  <<t, id>> \in Visible' \/ ListFull(Visible', t)
  BY <1>1 DEF Kept
<1>3. <<t, id>> \in Visible \/ ListFull(Visible, t)
  BY DEF Kept
<1>4. CASE <<t, id>> \in Visible /\ <<t, id>> \notin Visible'
  <2>1. ListFull(Visible', <<t, id>>[1])
    BY <1>1, <1>2, <1>4, CutLeavesFull
  <2> QED BY <2>1
<1>5. CASE ListFull(Visible, t)
  BY <1>1, <1>2, <1>5, CutKeepsFull
<1> QED BY <1>3, <1>4, <1>5

\* A new document has all its terms pending, and the one before has none.
LEMMA KeptOpens ==
  ASSUME TypeInv, Kept, up, Opens
  PROVE  Kept'
<1>1. docs \in Seq(1..Msgs) /\ last + 1 \in 1..Msgs /\ docs' = Append(docs, last + 1)
  BY DEF Opens, TypeInv, TypeOK, ThreadTypes
<1>2. /\ Len(docs) \in Nat /\ DOMAIN docs = 1..Len(docs) /\ DOMAIN docs' = 1..(Len(docs) + 1)
      /\ Len(docs') = Len(docs) + 1 /\ docs'[Len(docs) + 1] = last + 1
      /\ \A i \in 1..Len(docs) : docs'[i] = docs[i]
  BY <1>1, IdMap
<1>3. Visible' = Visible /\ todo = {} /\ todo' = TermsOf[last + 1]
  BY DEF Opens
<1> SUFFICES ASSUME NEW id \in DOMAIN docs', NEW t \in TermsOf[docs'[id]],
                    id # Len(docs') \/ t \notin todo'
             PROVE  <<t, id>> \in Visible' \/ ListFull(Visible', t)
  BY DEF Kept
<1>4. id # Len(docs) + 1
  BY <1>2, <1>3
<1>5. id \in DOMAIN docs /\ docs'[id] = docs[id]
  BY <1>2, <1>4
<1> QED BY <1>3, <1>5 DEF Kept

\* An insertion keeps what was there and adds one posting.
LEMMA KeptInserts ==
  ASSUME TypeInv, OrderInv, Kept, up, Inserts
  PROVE  Kept'
<1>1. PICK s \in todo : /\ Visible' = Visible \cup {<<s, Uid>>}
                        /\ todo' = todo \ {s} /\ docs' = docs /\ upc # "idle"
  BY DEF Inserts
<1>2. UpTo(Visible, Len(docs)) /\ Len(docs) \in Nat
  BY VisibleLayers
<1>3. s \in Terms /\ Uid \in Nat \ {0} /\ Uid = Len(docs)
  BY <1>1, LastDoc DEF TypeInv, TypeOK, ThreadTypes, Uid
<1>4. UpTo(Visible', Len(docs))
  BY <1>1, <1>2, <1>3 DEF UpTo, Postings
<1> SUFFICES ASSUME NEW id \in DOMAIN docs, NEW t \in TermsOf[docs[id]],
                    id # Len(docs) \/ t \notin todo'
             PROVE  <<t, id>> \in Visible' \/ ListFull(Visible', t)
  BY <1>1 DEF Kept
<1>5. CASE id = Len(docs) /\ t = s
  BY <1>1, <1>3, <1>5
<1>6. CASE id # Len(docs) \/ t # s
  <2>1. id # Len(docs) \/ t \notin todo
    BY <1>1, <1>6
  <2>2. <<t, id>> \in Visible \/ ListFull(Visible, t)
    BY <2>1 DEF Kept
  <2>3. CASE <<t, id>> \in Visible
    BY <1>1, <2>3
  <2>4. CASE ListFull(Visible, t)
    BY <1>1, <1>2, <1>4, <2>4, FullGrows
  <2> QED BY <2>2, <2>3, <2>4
<1> QED BY <1>5, <1>6

\* Every step of one life of the process keeps StoreInv.
LEMMA StoreStep == StoreInv /\ [NextRun]_vars => StoreInv'
<1> SUFFICES ASSUME StoreInv, [NextRun]_vars PROVE StoreInv'
  OBVIOUS
<1>1. [Next]_vars
  BY DEF Next
<1>2. TypeInv' /\ Down' /\ Token' /\ PosInv'
  BY <1>1, TypeNext, DownStep, TokenStep, PosStep DEF StoreInv
<1>3. OrderInv' /\ Merges' /\ Numbered'
  BY OrderStep, MergesStep, NumberedStep DEF StoreInv
<1>4. Kept'
  <2>1. CASE ~up
    BY <2>1 DEF NextRun, Threads, Kept, vars
  <2>2. CASE up
    <3>1. Trims \/ Opens \/ Inserts \/ Die
      BY <2>2, StepEffect DEF StoreInv
    <3>2. CASE Die
      BY <3>2 DEF Die, Kept
    <3> QED BY <2>2, <3>1, <3>2, KeptTrims, KeptOpens, KeptInserts DEF StoreInv
  <2> QED BY <2>1, <2>2
<1> QED BY <1>2, <1>3, <1>4 DEF StoreInv

\* An index without documents: nothing is seen, nothing is being merged.
LEMMA StoreInit == Init => StoreInv /\ Visible = {}
<1> SUFFICES ASSUME Init PROVE StoreInv /\ Visible = {}
  OBVIOUS
<1>1. DayL = {} /\ Day2L = {} /\ HisL = {}
  BY DEF Init, DayL, Day2L, HisL, Seen, NoIndex
<1>2. TypeInv /\ OrderInv
  BY TypeInit, OrderInit
<1>3. Visible = {}
  BY <1>1, <1>2, VisibleLayers DEF Init
<1>4. Down /\ Token
  BY DEF Init, Down, Token, OnDay2, Busy
<1>5. PosInv
  BY DEF Init, PosInv, Ordered
<1>6. Merges
  BY <1>1 DEF Init, Merges, Busy
<1>7. Numbered /\ Kept
  BY DEF Init, Numbered, Kept
<1> QED BY <1>2, <1>3, <1>4, <1>5, <1>6, <1>7 DEF StoreInv

\* Every acknowledged message has an id, and its terms are no longer pending.
LEMMA StoreMeansSearchable == StoreInv => Searchable
<1> SUFFICES ASSUME StoreInv, up, NEW m \in 1..last, NEW t \in TermsOf[m]
             PROVE  Found(m, t, Visible)
  BY DEF Searchable
<1>1. PICK id \in DOMAIN docs : docs[id] = m
  BY DEF StoreInv, Numbered
<1>2. id # Len(docs) \/ t \notin todo
  <2>1. CASE upc = "idle"
    BY <2>1 DEF StoreInv, Numbered
  <2>2. CASE upc # "idle"
    <3>1. docs[Len(docs)] = last + 1 /\ last \in Nat
      BY <2>2 DEF StoreInv, PosInv, Msg, Uid, TypeInv, TypeOK, ThreadTypes
    <3> QED BY <1>1, <3>1
  <2> QED BY <2>1, <2>2
<1>3. <<t, id>> \in Visible \/ ListFull(Visible, t)
  BY <1>1, <1>2 DEF StoreInv, Kept
<1> QED BY <1>1, <1>3 DEF Found

\* A document that the update thread has acknowledged is found under each of its terms by every query
\* of the rest of that life of the process, unless MAX_POSTINGLIST_SIZE documents of the term are
\* found: no swap, merge, install or periodic dump loses it on its way through the five layers.
THEOREM AckedIsSearchable == SpecRun => []Searchable
<1>1. Init => StoreInv
  BY StoreInit
<1> QED BY <1>1, StoreStep, StoreMeansSearchable, PTL DEF SpecRun

\* The abstract store, an instance with its own FiniteSets, counts in the same way.
LEMMA SameCount == \A S : Store!Cardinality(S) = Cardinality(S)
BY Zenon DEF Cardinality, Store!Cardinality

\* A step of the process is a step of the abstract store.
LEMMA StoreSimulated == StoreInv /\ [NextRun]_vars => [Store!Next]_(Store!vars)
<1> SUFFICES ASSUME StoreInv, [NextRun]_vars PROVE [Store!Next]_(Store!vars)
  OBVIOUS
<1> DEFINE now == IF up THEN Visible ELSE {}
<1>1. CASE ~up
  <2>1. UNCHANGED vars
    BY <1>1 DEF NextRun, Threads
  <2>2. up' = up /\ Visible' = Visible
    BY <2>1 DEF vars, memVars, diskVars, Visible
  <2> QED BY <2>2 DEF Store!vars
<1>2. CASE up /\ Die
  <2>1. up = TRUE /\ up' = FALSE
    BY <1>2 DEF Die, StoreInv, TypeInv, TypeOK, FlagTypes
  <2> QED BY <2>1 DEF Store!Next, Store!Stop
<1>3. CASE up /\ ~Die
  <2>1. up' = up
    BY <1>3 DEF NextRun, Threads, Suicide, QueryThrows, vars
  <2>2. Trims \/ Opens \/ Inserts
    BY <1>3, StepEffect DEF StoreInv
  <2>3. CASE Trims
    <3>1. Visible' \subseteq Visible
          /\ \A p \in Visible \ Visible' :
               Cardinality({q \in Visible : q[1] = p[1] /\ q[2] > p[2]}) >= MaxList
      BY <2>3 DEF Trims, Cut, Newer
    <3>2. now = Visible /\ now' = Visible'
      BY <1>3, <2>1
    <3>3. /\ now' \subseteq now
          /\ \A p \in now \ now' :
               Store!Cardinality({q \in now : q[1] = p[1] /\ q[2] > p[2]}) >= MaxList
      BY <3>1, <3>2, SameCount
    <3>4. Store!Trim
      BY <1>3, <2>1, <3>3, Zenon DEF Store!Trim
    <3> QED BY <3>4 DEF Store!Next
  <2>4. CASE Opens
    BY <2>1, <2>4 DEF Opens, Store!vars
  <2>5. CASE Inserts
    <3>1. PICK t \in todo : /\ Visible' = Visible \cup {<<t, Uid>>} /\ Above({<<t, Uid>>}, Visible)
                            /\ upc # "idle"
      BY <2>5 DEF Inserts
    <3>2. t \in Terms /\ Uid \in 1..Msgs
      <4>1. t \in Terms
        BY DEF StoreInv, TypeInv, TypeOK, ThreadTypes
      <4>2. Uid \in Nat \ {0} /\ Msg \in 1..Msgs
        BY <3>1, LastDoc DEF StoreInv
      <4>3. Uid <= last + 1 /\ Msg = last + 1 /\ last \in Nat
        BY <1>3, <3>1 DEF StoreInv, Numbered, PosInv, Uid, TypeInv, TypeOK, ThreadTypes
      <4> QED BY <4>1, <4>2, <4>3, MsgsAssumption
    <3>3. \A p \in Visible : p[1] = t => p[2] < Uid
      <4>1. \A p \in Visible : p[2] \in Nat
        BY VisibleLayers DEF StoreInv, UpTo, Postings
      <4>2. \A p \in Visible : t = p[1] => Uid > p[2]
        BY <3>1 DEF Above
      <4> QED BY <4>1, <4>2, <3>2
    <3>4. Store!Insert(t, Uid)
      BY <1>3, <2>1, <3>1, <3>3 DEF Store!Insert
    <3> QED BY <3>2, <3>4 DEF Store!Next
  <2> QED BY <2>2, <2>3, <2>4, <2>5
<1> QED BY <1>1, <1>2, <1>3

\* During one life of the process index_group is one list of postings per term: an insertion is visible
\* at once as the head of its list, and a posting leaves only when MAX_POSTINGLIST_SIZE newer ones are
\* there; no query sees the layers, the merges or the order of their installs.
THEOREM IndexImplementsStore == SpecRun => ImplementsStore
<1>1. Init => StoreInv
  BY StoreInit
<1>2. Init => Store!Init
  BY StoreInit DEF Init, Store!Init
<1> QED BY <1>1, <1>2, StoreStep, StoreSimulated, PTL DEF SpecRun, ImplementsStore, Store!Spec

-----------------------------------------------------------------------------
(***************************************************************************)
(* Part 8.  Deaths.  No message behind the check point is lost, in memory  *)
(* or on disk, through any number of deaths between any two steps, when    *)
(* every dump is periodic and no list is long enough to be cut.  Neither   *)
(* condition can be dropped: a swap by FULL lets the check point overtake  *)
(* MEM1, and after a death one layer may repeat what another holds, so     *)
(* that a list of MaxList postings holds fewer documents.                  *)
(***************************************************************************)
\* No memory list ever fills up: MEM0 is only swapped by the timer.
OnlyPeriodic == Results \subseteq {"OK"}

\* A merge of two lists fits in MAX_POSTINGLIST_SIZE, whatever is replayed.
NeverCut == MaxList >= 2 * (Msgs * (MaxCrash + 1))

\* The update thread never swaps, and what it has inserted is still in MEM0:
\* MEM1 exists exactly while the day merger dumps it.
Plain ==
  /\ upc \in {"idle", "term"} /\ uterm = NoTerm /\ ~nearly
  /\ hasMem1 => dpc \in {"choose"} \cup Busy
  /\ upc = "term" => \A t \in TermsOf[Msg] \ todo : <<t, Uid>> \in mem0

\* Every life allocates at most one inner id for each message.
Budget ==
  /\ up => crashes <= MaxCrash
  /\ Len(docs) <= Msgs * crashes + (IF ~up THEN 0 ELSE IF upc = "idle" THEN last ELSE last + 1)

\* Every posting, readable or not, belongs to a document.
DayPosted == UNION {day[d].post : d \in 0..2}
HisPosted == UNION {his[h].post : h \in 0..1}
AllPosted == mem0 \cup mem1 \cup DayPosted \cup HisPosted
AllFresh == UpTo(AllPosted, Len(docs))

\* With the idmap d, the postings S hold messages 1 to n under each of their terms.
Covers(d, n, S) ==
  \A m \in 1..n : \A t \in TermsOf[m] : \E id \in DOMAIN d : d[id] = m /\ <<t, id>> \in S

\* What a running process reads from disk.
Disk == DayL \cup Day2L \cup HisL

\* What the files named by day/cur and his/cur hold, whenever a death strikes.
CurInv == up =>
  /\ dpc \notin {"cut", "check", "install"} => cday \in {0, 1} /\ (cday = iday \/ DayL = {})
  /\ dpc = "cut" => cday = NoCur
  /\ dpc \in {"check", "install"} => cday = CurOf(dst)
  /\ hpc \in {"idle", "merge", "merged"} => chis = ihis
  /\ hpc = "cut" => chis = NoCur
  /\ hpc = "install" => chis = 1 - ihis

\* What holds the messages up to each of the three positions.
CoverInv ==
  /\ up => Covers(docs, last, Visible)
  /\ dpc \in {"choose"} \cup Busy => Covers(docs, dumpPos, mem1 \cup Disk)
  /\ up => Covers(docs, chk, mem1 \cup Disk)
  /\ up /\ dpc # "install" => Covers(docs, chk, Disk)
  /\ ~up /\ cday # NoCur /\ chis # NoCur => Covers(docs, chk, Recoverable)

-----------------------------------------------------------------------------
\* The state of the mergers through every step, deaths and restarts included.
LEMMA MergerNext == TypeInv /\ Down /\ Token /\ MergerState /\ [Next]_vars => MergerState'
<1> SUFFICES ASSUME TypeInv, Down, Token, MergerState, [Next]_vars PROVE MergerState'
  OBVIOUS
<1> USE DEF vars, updVars, memVars, diskVars, dayVars, flagVars
<1>1. CASE UpdStep \/ UpdSpurious
  <2>1. UNCHANGED <<day, iday, dst>>
    BY <1>1 DEF UpdStep, UpdBegin, UpdTerm, UpdEnd, UpdTest, UpdSleep, UpdWake, UpdSwap, UpdSpurious
  <2>2. CASE UpdSwap
    <3>1. dpc \notin {"choose"} \cup Busy
      BY <2>2 DEF UpdSwap, MergerState
    <3>2. dpc' \notin {"choose"} \cup Busy /\ hasMem1'
      BY <2>2, <3>1 DEF UpdSwap, SignalDay, Busy
    <3> QED BY <3>2 DEF MergerState, Busy
  <2>3. CASE ~UpdSwap
    <3>1. UNCHANGED <<dpc, mem1, hasMem1>>
      BY <1>1, <2>3 DEF UpdStep, UpdBegin, UpdTerm, UpdEnd, UpdTest, UpdSleep, UpdWake, UpdSpurious
    <3> QED BY <2>1, <3>1 DEF MergerState
  <2> QED BY <2>2, <2>3
<1>2. CASE DayEnter \/ DayTimeout \/ DayExpired \/ DaySpurious \/ NextDay
  BY <1>2 DEF DayEnter, DayTimeout, DayExpired, DaySpurious, NextDay, MergerState, Busy
<1>3. ASSUME NEW low \in BOOLEAN, DayChoose(low) PROVE MergerState'
  <2>1. day \in [0..2 -> Indexers] /\ iday \in 0..1
    BY DEF TypeInv, TypeOK, IndexTypes
  <2>2. (dst' = 2 \/ dst' = 1 - iday) /\ dst' \in 0..2
    BY <1>3, <2>1 DEF DayChoose
  <2>3. day'[dst'].st = "writing"
    BY <1>3, <2>1, <2>2 DEF DayChoose
  <2>4. hasMem1 /\ UNCHANGED <<hasMem1, mem1, iday>> /\ dpc' = "merge"
    BY <1>3 DEF DayChoose, MergerState
  <2> QED BY <2>2, <2>3, <2>4 DEF MergerState
<1>4. CASE DayTear \/ DayFinish
  <2>1. day \in [0..2 -> Indexers] /\ dst \in 0..2 /\ dpc \in Busy
    BY <1>4 DEF TypeInv, TypeOK, IndexTypes, ThreadTypes, DayTear, DayFinish, Busy
  <2>2. dpc' = "merge" => day'[dst].st = "torn"
    BY <1>4, <2>1, SeenFacts DEF DayTear, DayFinish
  <2>3. UNCHANGED <<hasMem1, mem1, iday, dst>> /\ dpc' # "choose"
    BY <1>4 DEF DayTear, DayFinish
  <2> QED BY <2>1, <2>2, <2>3 DEF MergerState
<1>5. CASE DayCut \/ DaySetCur \/ DayCheckPoint
  BY <1>5 DEF DayCut, DaySetCur, DayCheckPoint, MergerState, Busy
<1>6. ASSUME NEW late \in BOOLEAN, DayInstall(late) PROVE MergerState'
  BY <1>6 DEF DayInstall, MergerState, Busy
<1>7. CASE HisStep
  <2>1. UNCHANGED <<dpc, hasMem1, mem1, iday, dst>>
    BY <1>7 DEF HisStep, HisBegin, HisTear, HisFinish, HisCut, HisSetCur, HisInstall
  <2>2. UNCHANGED day \/ (HisInstall /\ day' = [day EXCEPT ![2] = NoIndex])
    BY <1>7 DEF HisStep, HisBegin, HisTear, HisFinish, HisCut, HisSetCur, HisInstall
  <2>3. dpc = "merge" => day'[dst] = day[dst]
    <3>1. CASE UNCHANGED day
      BY <3>1
    <3>2. CASE HisInstall /\ day' = [day EXCEPT ![2] = NoIndex]
      <4>1. ~OnDay2
        BY <3>2, Zenon DEF HisInstall, Token
      <4>2. day \in [0..2 -> Indexers] /\ dst \in 0..2
        BY DEF TypeInv, TypeOK, IndexTypes, ThreadTypes
      <4> QED BY <3>2, <4>1, <4>2 DEF OnDay2, Busy
    <3> QED BY <2>2, <3>1, <3>2
  <2> QED BY <2>1, <2>3 DEF MergerState
<1>8. CASE Die
  BY <1>8 DEF Die, MergerState, Busy
<1>9. CASE Restart
  <2>1. dpc' = "enter" /\ UNCHANGED <<mem1, hasMem1>>
    BY <1>9 DEF Restart, Down
  <2> QED BY <2>1 DEF MergerState, Busy
<1>10. CASE UNCHANGED vars
  BY <1>10 DEF MergerState
<1> QED BY <1>1, <1>2, <1>3, <1>4, <1>5, <1>6, <1>7, <1>8, <1>9, <1>10
  DEF Next, NextRun, Threads, DayStep, Suicide, QueryThrows, Crash

\* What reopening an indexer leaves readable.
LEMMA OpenedFacts ==
  ASSUME NEW ix \in Indexers
  PROVE  /\ Seen(Opened(ix)) = Seen(ix) /\ Opened(ix).post \subseteq ix.post
         /\ Empty(Opened(ix)) => Seen(ix) = {}
         /\ OnDisk(ix).post \subseteq ix.post
BY DEF Indexers, Statuses, Seen, Opened, Empty, OnDisk, NoIndex

\* Merges through every step, deaths and restarts included.
LEMMA MergesNext == TypeInv /\ Down /\ Token /\ MergerState /\ Merges /\ [Next]_vars => Merges'
<1> SUFFICES ASSUME TypeInv, Down, Token, MergerState, Merges, [Next]_vars PROVE Merges'
  OBVIOUS
<1>1. CASE UpdStep \/ UpdSpurious
  BY <1>1, MergesUpd
<1>2. CASE DayStep \/ DaySpurious \/ NextDay
  BY <1>2, MergesDayQuiet, MergesDayChoose, MergesDayWrite, MergesDayInstall DEF DayStep
<1>3. CASE HisStep
  BY <1>3, MergesHisWrite, MergesHisInstall DEF HisStep
<1>4. CASE Die
  BY <1>4, MergesDie
<1>5. CASE Restart
  <2>1. dpc' = "enter" /\ hpc' = "idle"
    BY <1>5 DEF Restart, Down
  <2>2. day[2] \in Indexers /\ cday \in {0, 1}
    BY <1>5 DEF Restart, TypeInv, TypeOK, IndexTypes
  <2>3. day'[2] = Opened(day[2]) /\ canDay2' = Empty(day'[2])
    BY <1>5, <2>2 DEF Restart
  <2>4. Empty(day'[2]) => Day2L' = {}
    BY <2>2, <2>3, OpenedFacts DEF Day2L
  <2> QED BY <2>1, <2>3, <2>4 DEF Merges, Busy
<1>6. CASE UNCHANGED vars
  BY <1>6, MergesDayQuiet
<1> QED BY <1>1, <1>2, <1>3, <1>4, <1>5, <1>6
  DEF Next, NextRun, Threads, Suicide, QueryThrows, Crash

-----------------------------------------------------------------------------
\* The update thread never swaps, and loses none of the terms it has inserted.
LEMMA PlainNext ==
  ASSUME OnlyPeriodic, TypeInv, Down, MergerState, Plain, [Next]_vars
  PROVE  Plain'
<1> USE DEF vars, updVars, memVars, diskVars, dayVars, flagVars
<1>1. CASE UpdBegin
  <2>1. /\ UNCHANGED <<uterm, hasMem1, dpc>> /\ upc' \in {"idle", "term"}
        /\ ~nearly'
    <3>1. UNCHANGED <<uterm, hasMem1, dpc>> /\ upc' \in {"idle", "term"}
      BY <1>1 DEF UpdBegin, Plain
    <3>2. ~nearly'
      BY <1>1, Zenon DEF UpdBegin, Plain
    <3> QED BY <3>1, <3>2
  <2>2. CASE TermsOf[last + 1] = {}
    <3>1. upc' = "idle"
      BY <1>1, <2>2 DEF UpdBegin
    <3> QED BY <2>1, <3>1 DEF Plain
  <2>3. CASE TermsOf[last + 1] # {}
    <3>1. docs' = Append(docs, last + 1) /\ todo' = TermsOf[last + 1]
      BY <1>1, <2>3 DEF UpdBegin
    <3>2. docs \in Seq(1..Msgs) /\ last + 1 \in 1..Msgs
      BY <1>1, MsgsAssumption DEF TypeInv, TypeOK, ThreadTypes, UpdBegin
    <3>3. Msg' = last + 1
      BY <3>1, <3>2, LastElement DEF Msg, Uid
    <3>4. TermsOf[Msg'] \ todo' = {}
      BY <3>1, <3>3
    <3> QED BY <2>1, <3>4 DEF Plain
  <2> QED BY <2>2, <2>3
<1>2. ASSUME NEW t \in Terms, NEW r \in Results, UpdTerm(t, r) PROVE Plain'
  <2>1. r = "OK"
    BY DEF OnlyPeriodic
  <2>2. UNCHANGED <<upc, uterm, hasMem1, dpc, docs>> /\ ~nearly'
    BY <1>2, <2>1, Zenon DEF UpdTerm, Plain
  <2>3. mem0' = mem0 \cup {<<t, Uid>>} /\ todo' = todo \ {t} /\ upc = "term"
    BY <1>2, <2>1 DEF UpdTerm
  <2>4. Msg' = Msg /\ Uid' = Uid
    BY <2>2 DEF Msg, Uid
  <2>5. \A s \in TermsOf[Msg] \ todo' : <<s, Uid>> \in mem0'
    BY <2>3 DEF Plain
  <2> QED BY <2>2, <2>4, <2>5 DEF Plain
<1>3. CASE UpdEnd
  BY <1>3 DEF UpdEnd, Plain
<1>4. CASE UpdTest \/ UpdSleep \/ UpdWake \/ UpdSwap \/ UpdSpurious
  BY <1>4 DEF UpdTest, UpdSleep, UpdWake, UpdSwap, UpdSpurious, Plain
<1>5. CASE DayEnter \/ DayTimeout \/ DayExpired \/ DaySpurious \/ NextDay
  <2>1. UNCHANGED <<upc, uterm, nearly, docs, todo>>
    BY <1>5 DEF DayEnter, DayTimeout, DayExpired, DaySpurious, NextDay
  <2>2. hasMem1' => dpc' \in {"choose"} \cup Busy
    BY <1>5 DEF DayEnter, DayTimeout, DayExpired, DaySpurious, NextDay, Plain, Busy
  <2>3. upc = "term" => mem0' = mem0
    BY <1>5 DEF DayEnter, DayTimeout, DayExpired, DaySpurious, NextDay, MutexFree
  <2>4. Msg' = Msg /\ Uid' = Uid
    BY <2>1 DEF Msg, Uid
  <2> QED BY <2>1, <2>2, <2>3, <2>4 DEF Plain
<1>6. ASSUME NEW low \in BOOLEAN, DayChoose(low) PROVE Plain'
  BY <1>6 DEF DayChoose, Plain, Busy, Msg, Uid
<1>7. CASE DayTear \/ DayFinish \/ DayCut \/ DaySetCur \/ DayCheckPoint
  BY <1>7 DEF DayTear, DayFinish, DayCut, DaySetCur, DayCheckPoint, Plain, Busy, Msg, Uid
<1>8. ASSUME NEW late \in BOOLEAN, DayInstall(late) PROVE Plain'
  BY <1>8 DEF DayInstall, SignalUpd, Plain, Msg, Uid
<1>9. CASE HisStep
  BY <1>9 DEF HisStep, HisBegin, HisTear, HisFinish, HisCut, HisSetCur, HisInstall, Plain, Msg, Uid
<1>10. CASE Die
  BY <1>10 DEF Die, Plain
<1>11. CASE Restart
  <2>1. upc = "idle"
    BY <1>11 DEF Restart, Down
  <2> QED BY <1>11, <2>1 DEF Restart, Plain
<1>12. CASE UNCHANGED vars
  BY <1>12 DEF Plain, Msg, Uid
<1> QED BY <1>1, <1>2, <1>3, <1>4, <1>5, <1>6, <1>7, <1>8, <1>9, <1>10, <1>11, <1>12
  DEF Next, NextRun, Threads, UpdStep, DayStep, Suicide, QueryThrows, Crash

\* The ids that one more death adds.
LEMMA OneMoreLife ==
  ASSUME NEW n \in Nat, NEW c \in Nat, NEW d \in Nat, NEW k \in 0..n, d <= n * c + k
  PROVE  d <= n * (c + 1)
BY SMT

\* The inner ids stay within the budget.
LEMMA BudgetNext ==
  ASSUME OnlyPeriodic, TypeInv, PosInv, Down, Plain, Budget, [Next]_vars
  PROVE  Budget'
<1> USE DEF vars, updVars, memVars, diskVars, dayVars, flagVars
<1>0. /\ docs \in Seq(1..Msgs) /\ last \in 0..Msgs /\ chk \in 0..Msgs /\ Msgs \in Nat
      /\ crashes \in Nat /\ MaxCrash \in Nat /\ Len(docs) \in Nat
  BY MsgsAssumption, BoundsAssumption, LenProperties DEF TypeInv, TypeOK, ThreadTypes
<1>1. PICK used \in Nat : used = Msgs * crashes
  BY <1>0
<1>2. CASE up /\ up' /\ crashes' = crashes /\ UNCHANGED <<docs, upc, last>>
  BY <1>2, Zenon DEF Budget
<1>3. CASE up /\ up' /\ crashes' = crashes /\ UpdBegin
  <2>1. CASE TermsOf[last + 1] = {}
    <3>1. last' = last + 1 /\ UNCHANGED <<upc, docs>> /\ upc = "idle"
      BY <1>3, <2>1 DEF UpdBegin
    <3> QED BY <1>0, <1>1, <1>3, <3>1 DEF Budget
  <2>2. CASE TermsOf[last + 1] # {}
    <3>1. docs' = Append(docs, last + 1) /\ upc' = "term" /\ upc = "idle" /\ last' = last
      BY <1>3, <2>2 DEF UpdBegin
    <3>2. last + 1 \in 1..Msgs
      BY <1>0, <1>3 DEF UpdBegin
    <3>3. Len(docs') = Len(docs) + 1
      BY <1>0, <3>1, <3>2, LastElement
    <3> QED BY <1>0, <1>1, <1>3, <3>1, <3>3 DEF Budget
  <2> QED BY <2>1, <2>2
<1>4. CASE up /\ up' /\ crashes' = crashes /\ UpdEnd
  <2>1. upc = "term" /\ upc' = "idle" /\ last' = Msg /\ docs' = docs
    BY <1>4, Zenon DEF UpdEnd, Plain
  <2>2. last' = last + 1
    BY <2>1 DEF PosInv
  <2> QED BY <1>0, <1>1, <1>4, <2>1, <2>2 DEF Budget
<1>5. CASE up /\ Die
  <2>1. upc # "idle" => last + 1 \in 0..Msgs
    BY <1>0, LastDoc DEF PosInv
  <2>2. PICK k \in 0..Msgs : Len(docs) <= Msgs * crashes + k
    <3>1. CASE upc = "idle"
      BY <1>0, <1>5, <3>1 DEF Budget
    <3>2. CASE upc # "idle"
      BY <1>5, <2>1, <3>2 DEF Budget
    <3> QED BY <3>1, <3>2
  <2>3. Len(docs) <= Msgs * (crashes + 1)
    BY <1>0, <2>2, OneMoreLife
  <2>4. ~up' /\ crashes' = crashes + 1 /\ docs' = docs
    BY <1>5 DEF Die
  <2>5. Msgs * (crashes + 1) \in Nat
    BY <1>0
  <2> QED BY <1>0, <2>3, <2>4, <2>5 DEF Budget
<1>6. CASE Restart
  <2>1. ~up /\ crashes' = crashes /\ crashes <= MaxCrash /\ docs' = docs /\ last' = chk
    BY <1>6 DEF Restart, ResumeAt
  <2>2. upc' = "idle"
    BY <1>6 DEF Restart, Down
  <2> QED BY <1>0, <1>1, <2>1, <2>2 DEF Budget
<1>7. CASE UNCHANGED vars
  BY <1>7, Zenon DEF Budget
<1>8. CASE up /\ Threads
  <2>1. up' /\ crashes' = crashes
    BY <1>8, Zenon DEF Threads
  <2>2. UpdBegin \/ UpdEnd \/ UNCHANGED <<docs, upc, last>>
    BY <1>8 DEF Threads, OnlyPeriodic, UpdStep, UpdTerm, UpdTest, UpdSleep, UpdWake, UpdSwap,
      UpdSpurious, Plain,
      DayStep, DayEnter, DayTimeout, DayExpired, DayChoose, DayTear, DayFinish, DayCut, DaySetCur,
      DayCheckPoint, DayInstall, SignalUpd, DaySpurious, NextDay,
      HisStep, HisBegin, HisTear, HisFinish, HisCut, HisSetCur, HisInstall
  <2> QED BY <1>2, <1>3, <1>4, <1>8, <2>1, <2>2
<1> QED BY <1>5, <1>6, <1>7, <1>8 DEF Next, NextRun, Threads, Suicide, QueryThrows, Crash

-----------------------------------------------------------------------------
\* Sets of postings with bounded ids.
LEMMA UpToSub ==
  \A S, T : \A n, k \in Nat : UpTo(S, n) /\ T \subseteq S /\ n <= k => UpTo(T, k)
<1> TAKE S, T
<1> TAKE n \in Nat, k \in Nat
<1> HAVE UpTo(S, n) /\ T \subseteq S /\ n <= k
<1>1. T \in SUBSET Postings
  BY DEF UpTo
<1>2. ASSUME NEW p \in T PROVE p[2] <= k
  <2>1. p[2] <= n /\ p[2] \in Nat
    BY <1>1, <1>2 DEF UpTo, Postings
  <2> QED BY <2>1
<1> QED BY <1>1, <1>2 DEF UpTo

\* A list of postings with ids up to n holds at most n of them.
LEMMA ShortList ==
  ASSUME NEW n \in Nat, NEW S, UpTo(S, n), NEW t
  PROVE  IsFiniteSet(ListOf(S, t)) /\ Cardinality(ListOf(S, t)) <= n
<1>1. IsFiniteSet({t}) /\ Cardinality({t}) = 1
  BY FS_Singleton
<1>2. IsFiniteSet(1..n) /\ Cardinality(1..n) = n
  BY FS_Interval
<1>3. IsFiniteSet({t} \X (1..n)) /\ Cardinality({t} \X (1..n)) = n
  <2>1. PICK A, B : A = {t} /\ B = 1..n
    OBVIOUS
  <2>2. IsFiniteSet(A) /\ IsFiniteSet(B) /\ Cardinality(A) = 1 /\ Cardinality(B) = n
    BY <1>1, <1>2, <2>1, Zenon
  <2>3. IsFiniteSet(A \X B) /\ Cardinality(A \X B) = Cardinality(A) * Cardinality(B)
    BY <2>2, FS_Product, Zenon
  <2>4. Cardinality(A) * Cardinality(B) = n
    BY <2>2
  <2> QED
    BY <2>1, <2>3, <2>4, Zenon
<1>4. ListOf(S, t) \subseteq {t} \X (1..n)
  BY DEF ListOf, UpTo, Postings
<1>5. Cardinality(ListOf(S, t)) <= Cardinality({t} \X (1..n)) /\ IsFiniteSet(ListOf(S, t))
  BY <1>3, <1>4, Smaller
<1> QED BY <1>3, <1>5

\* Fewer than n of them are newer than one of the list.
LEMMA FewerNewer ==
  ASSUME NEW n \in Nat, NEW S, UpTo(S, n), NEW p \in S
  PROVE  /\ Cardinality(Newer(S, p)) \in Nat /\ Cardinality(ListOf(S, p[1])) \in Nat
         /\ Cardinality(Newer(S, p)) < n
<1>1. /\ IsFiniteSet(ListOf(S, p[1])) /\ Cardinality(ListOf(S, p[1])) <= n
      /\ Cardinality(ListOf(S, p[1])) \in Nat
  BY ShortList, FS_CardinalityType
<1>2. p \in ListOf(S, p[1])
  BY DEF ListOf
<1>3. Newer(S, p) \subseteq ListOf(S, p[1]) \ {p}
  BY DEF Newer, ListOf, UpTo, Postings
<1>4. /\ IsFiniteSet(ListOf(S, p[1]) \ {p})
      /\ Cardinality(ListOf(S, p[1]) \ {p}) = Cardinality(ListOf(S, p[1])) - 1
  BY <1>1, <1>2, FS_RemoveElement
<1>5. /\ Cardinality(Newer(S, p)) \in Nat
      /\ Cardinality(Newer(S, p)) <= Cardinality(ListOf(S, p[1]) \ {p})
  BY <1>3, <1>4, Smaller
<1> QED BY <1>1, <1>4, <1>5

\* A merge keeps everything when twice the number of ids fits in a list.
LEMMA MergedAll ==
  ASSUME NEW n \in Nat, NEW A, NEW B, UpTo(A, n), UpTo(B, n), MaxList >= 2 * n
  PROVE  Merged(A, B) = A \cup B
<1>0. MaxList \in Nat
  BY BoundsAssumption
<1>1. ASSUME NEW p \in A PROVE p \in NewestOf(A)
  <2>1. Cardinality(Newer(A, p)) \in Nat /\ Cardinality(Newer(A, p)) < n
    BY FewerNewer
  <2>2. Cardinality(Newer(A, p)) < MaxList
    BY <1>0, <2>1
  <2> QED BY <2>2 DEF NewestOf, Newer
<1>2. ASSUME NEW p \in B
      PROVE  Cardinality(ListOf(A, p[1])) + Cardinality(Newer(B, p)) < MaxList
  <2>1. Cardinality(Newer(B, p)) \in Nat /\ Cardinality(Newer(B, p)) < n
    BY FewerNewer
  <2>2. Cardinality(ListOf(A, p[1])) \in Nat /\ Cardinality(ListOf(A, p[1])) <= n
    BY ShortList, FiniteList
  <2> QED BY <1>0, <2>1, <2>2
<1>3. A \cup B \subseteq Merged(A, B)
  BY <1>1, <1>2 DEF Merged, ListOf, Newer
<1> QED BY <1>3, MergedSub

\* No step makes a posting that was not there, but for that of the current document.
LEMMA PostedNext ==
  ASSUME TypeInv, Merges, [Next]_vars
  PROVE  \/ AllPosted' \subseteq AllPosted
         \/ \E t \in Terms : upc # "idle" /\ docs' = docs /\ AllPosted' \subseteq AllPosted \cup {<<t, Uid>>}
<1> USE DEF vars, updVars, memVars, diskVars, dayVars, flagVars
<1>0. /\ day \in [0..2 -> Indexers] /\ his \in [0..1 -> Indexers] /\ iday \in 0..1 /\ ihis \in 0..1
      /\ dst \in 0..2
  BY DEF TypeInv, TypeOK, IndexTypes, ThreadTypes
<1>1. /\ mem0 \subseteq AllPosted /\ mem1 \subseteq AllPosted
      /\ \A d \in 0..2 : day[d].post \subseteq AllPosted
      /\ \A h \in 0..1 : his[h].post \subseteq AllPosted
  <2>1. \A d \in 0..2 : day[d].post \subseteq DayPosted
    BY DEF DayPosted
  <2>2. \A h \in 0..1 : his[h].post \subseteq HisPosted
    BY DEF HisPosted
  <2> QED BY <2>1, <2>2 DEF AllPosted
<1>2. ASSUME NEW S, mem0' \subseteq S, mem1' \subseteq S,
             \A d \in 0..2 : day'[d].post \subseteq S,
             \A h \in 0..1 : his'[h].post \subseteq S
      PROVE  AllPosted' \subseteq S
  <2>1. DayPosted' \subseteq S
    BY <1>2 DEF DayPosted
  <2>2. HisPosted' \subseteq S
    BY <1>2 DEF HisPosted
  <2> QED BY <1>2, <2>1, <2>2 DEF AllPosted
<1>3. CASE UpdStep \/ UpdSpurious
  <2>1. UNCHANGED <<day, his>> /\ (mem1' = mem1 \/ mem1' = mem0)
    BY <1>3 DEF UpdStep, UpdBegin, UpdTerm, UpdEnd, UpdTest, UpdSleep, UpdWake, UpdSwap, UpdSpurious
  <2>2. \/ mem0' \subseteq mem0
        \/ upc # "idle" /\ docs' = docs /\ \E t \in Terms : mem0' \subseteq mem0 \cup {<<t, Uid>>}
    <3>1. CASE UpdSwap
      <4>1. upc # "idle" /\ docs' = docs /\ uterm \in Terms \cup {NoTerm}
        BY <3>1 DEF UpdSwap, TypeInv, TypeOK, ThreadTypes
      <4>2. mem0' = {} \/ (uterm # NoTerm /\ mem0' = {<<uterm, Uid>>})
        BY <3>1 DEF UpdSwap
      <4> QED BY <4>1, <4>2
    <3>2. ASSUME NEW t \in Terms, NEW r \in Results, UpdTerm(t, r)
          PROVE  mem0' \subseteq mem0 \cup {<<t, Uid>>} /\ upc # "idle" /\ docs' = docs
      BY <3>2 DEF UpdTerm
    <3>3. CASE UpdBegin \/ UpdEnd \/ UpdTest \/ UpdSleep \/ UpdWake \/ UpdSpurious
      BY <3>3 DEF UpdBegin, UpdEnd, UpdTest, UpdSleep, UpdWake, UpdSpurious
    <3> QED BY <1>3, <3>1, <3>2, <3>3 DEF UpdStep
  <2>3. CASE mem0' \subseteq mem0
    BY <1>1, <1>2, <2>1, <2>3
  <2>4. ASSUME NEW t \in Terms, mem0' \subseteq mem0 \cup {<<t, Uid>>}
        PROVE  AllPosted' \subseteq AllPosted \cup {<<t, Uid>>}
    <3> DEFINE S == AllPosted \cup {<<t, Uid>>}
    <3>1. mem0' \subseteq S /\ mem1' \subseteq S
      BY <1>1, <2>1, <2>4
    <3>2. \A d \in 0..2 : day'[d].post \subseteq S
      BY <1>1, <2>1
    <3>3. \A h \in 0..1 : his'[h].post \subseteq S
      BY <1>1, <2>1
    <3> QED BY <1>2, <3>1, <3>2, <3>3
  <2> QED BY <2>2, <2>3, <2>4
<1>4. CASE \/ DayEnter \/ DayTimeout \/ DayExpired \/ DayCut \/ DaySetCur \/ DayCheckPoint
           \/ DaySpurious \/ NextDay \/ UNCHANGED vars
  <2>1. UNCHANGED <<day, his>>
    BY <1>4 DEF DayEnter, DayTimeout, DayExpired, DayCut, DaySetCur, DayCheckPoint, DaySpurious, NextDay
  <2>2. mem0' \subseteq mem0 /\ (mem1' = mem1 \/ mem1' = mem0)
    BY <1>4 DEF DayEnter, DayTimeout, DayExpired, DayCut, DaySetCur, DayCheckPoint, DaySpurious, NextDay
  <2> QED BY <1>1, <1>2, <2>1, <2>2
<1>5. CASE \/ \E low \in BOOLEAN : DayChoose(low)
           \/ DayTear \/ DayFinish \/ \E late \in BOOLEAN : DayInstall(late)
  <2>1. UNCHANGED <<mem0, his>> /\ mem1' \subseteq mem1
    BY <1>5 DEF DayChoose, DayTear, DayFinish, DayInstall
  <2>2. ASSUME NEW d \in 0..2, NEW low \in BOOLEAN, DayChoose(low) PROVE day'[d].post \subseteq AllPosted
    <3>1. day'[d].post = day[d].post \/ day'[d].post = Merged(mem1, DayL)
      BY <1>0, <2>2 DEF DayChoose, DayL
    <3>2. DayL \subseteq day[iday].post
      BY <1>0, IndexerTypes DEF DayL
    <3> QED BY <1>0, <1>1, <3>1, <3>2, MergedSub
  <2>3. ASSUME NEW d \in 0..2, DayTear \/ DayFinish PROVE day'[d].post \subseteq AllPosted
    <3>1. \/ day'[d] = day[d] \/ day'[d] = Marked(day[d], "torn") \/ day'[d] = Finished(day[d])
      BY <1>0, <2>3 DEF DayTear, DayFinish
    <3> QED BY <1>0, <1>1, <3>1, SeenFacts
  <2>4. ASSUME NEW d \in 0..2, NEW late \in BOOLEAN, DayInstall(late) PROVE day'[d].post \subseteq AllPosted
    <3>1. day'[d] = day[d] \/ day'[d] = NoIndex
      BY <1>0, <2>4 DEF DayInstall, DayCleared
    <3> QED BY <1>1, <3>1 DEF NoIndex
  <2> QED BY <1>1, <1>2, <1>5, <2>1, <2>2, <2>3, <2>4
<1>6. CASE HisStep
  <2>1. UNCHANGED <<mem0, mem1>>
    BY <1>6 DEF HisStep, HisBegin, HisTear, HisFinish, HisCut, HisSetCur, HisInstall
  <2>2. ASSUME NEW h \in 0..1, HisBegin PROVE his'[h].post \subseteq AllPosted
    <3>1. his'[h].post = his[h].post \/ his'[h].post = Merged(Day2L, HisL)
      BY <1>0, <2>2 DEF HisBegin, Day2L, HisL
    <3>2. Day2L \subseteq day[2].post /\ HisL \subseteq his[ihis].post
      BY <1>0, IndexerTypes DEF Day2L, HisL
    <3> QED BY <1>0, <1>1, <3>1, <3>2, MergedSub
  <2>3. ASSUME NEW h \in 0..1, HisTear \/ HisFinish PROVE his'[h].post \subseteq AllPosted
    <3>1. \/ his'[h] = his[h] \/ his'[h] = Marked(his[h], "torn") \/ his'[h] = Finished(his[h])
      BY <1>0, <2>3 DEF HisTear, HisFinish
    <3> QED BY <1>0, <1>1, <3>1, SeenFacts
  <2>4. ASSUME NEW h \in 0..1, HisCut \/ HisSetCur \/ HisInstall PROVE his'[h].post \subseteq AllPosted
    <3>1. his'[h] = his[h] \/ his'[h] = NoIndex
      BY <1>0, <2>4 DEF HisCut, HisSetCur, HisInstall
    <3> QED BY <1>1, <3>1 DEF NoIndex
  <2>5. ASSUME NEW d \in 0..2 PROVE day'[d].post \subseteq AllPosted
    <3>1. day'[d] = day[d] \/ day'[d] = NoIndex
      BY <1>0, <1>6 DEF HisStep, HisBegin, HisTear, HisFinish, HisCut, HisSetCur, HisInstall
    <3> QED BY <1>1, <3>1 DEF NoIndex
  <2> QED BY <1>1, <1>2, <1>6, <2>1, <2>2, <2>3, <2>4, <2>5 DEF HisStep
<1>7. CASE Die
  <2>1. ASSUME NEW d \in 0..2 PROVE day'[d].post \subseteq AllPosted
    <3>1. day'[d] = OnDisk(day[d])
      BY <1>7 DEF Die
    <3> QED BY <1>0, <1>1, <3>1, OpenedFacts
  <2>2. ASSUME NEW h \in 0..1 PROVE his'[h].post \subseteq AllPosted
    <3>1. his'[h] = OnDisk(his[h])
      BY <1>7 DEF Die
    <3> QED BY <1>0, <1>1, <3>1, OpenedFacts
  <2>3. mem0' = {} /\ mem1' = {}
    BY <1>7 DEF Die
  <2> QED BY <1>2, <2>1, <2>2, <2>3
<1>8. CASE Restart
  <2>1. ASSUME NEW d \in 0..2 PROVE day'[d].post \subseteq AllPosted
    <3>1. day'[d] = Opened(day[d]) \/ day'[d] = NoIndex
      BY <1>8 DEF Restart
    <3> QED BY <1>0, <1>1, <3>1, OpenedFacts DEF NoIndex
  <2>2. ASSUME NEW h \in 0..1 PROVE his'[h].post \subseteq AllPosted
    <3>1. his'[h] = Opened(his[h]) \/ his'[h] = NoIndex
      BY <1>8 DEF Restart
    <3> QED BY <1>0, <1>1, <3>1, OpenedFacts DEF NoIndex
  <2>3. mem0' = mem0 /\ mem1' = mem1
    BY <1>8 DEF Restart
  <2> QED BY <1>1, <1>2, <2>1, <2>2, <2>3
<1> QED BY <1>3, <1>4, <1>5, <1>6, <1>7, <1>8
  DEF Next, NextRun, Threads, DayStep, Suicide, QueryThrows, Crash

\* The idmap only grows.
LEMMA DocsGrow ==
  ASSUME TypeInv, [Next]_vars
  PROVE  /\ \A id \in DOMAIN docs : id \in DOMAIN docs' /\ docs'[id] = docs[id]
         /\ Len(docs) \in Nat /\ Len(docs') \in Nat /\ Len(docs) <= Len(docs')
<1> USE DEF vars, updVars, memVars, diskVars, dayVars, flagVars
<1>0. docs \in Seq(1..Msgs) /\ last \in Nat /\ Len(docs) \in Nat /\ DOMAIN docs = 1..Len(docs)
  BY IdMap DEF TypeInv, TypeOK, ThreadTypes
<1>1. CASE docs' = docs
  BY <1>0, <1>1
<1>2. CASE docs' # docs
  <2>1. UpdBegin
    BY <1>2 DEF Next, NextRun, Threads, UpdStep, UpdTerm, UpdEnd, UpdTest, UpdSleep, UpdWake, UpdSwap,
      UpdSpurious, DayStep, DayEnter, DayTimeout, DayExpired, DayChoose, DayTear, DayFinish, DayCut,
      DaySetCur, DayCheckPoint, DayInstall, SignalUpd, DaySpurious, NextDay, Restart, Die,
      HisStep, HisBegin, HisTear, HisFinish, HisCut, HisSetCur, HisInstall, Suicide, QueryThrows, Crash
  <2>2. docs' = Append(docs, last + 1) /\ last + 1 \in 1..Msgs
    BY <1>0, <1>2, <2>1, MsgsAssumption DEF UpdBegin
  <2>3. /\ DOMAIN docs' = 1..(Len(docs) + 1) /\ Len(docs') = Len(docs) + 1
        /\ \A i \in 1..Len(docs) : docs'[i] = docs[i]
    BY <1>0, <2>2, IdMap
  <2> QED BY <1>0, <2>3
<1> QED BY <1>1, <1>2

\* Every posting keeps belonging to a document.
LEMMA FreshNext ==
  ASSUME TypeInv, Merges, AllFresh, [Next]_vars
  PROVE  AllFresh'
<1>1. Len(docs) \in Nat /\ Len(docs') \in Nat /\ Len(docs) <= Len(docs')
  BY DocsGrow
<1>2. CASE AllPosted' \subseteq AllPosted
  BY <1>1, <1>2, UpToSub DEF AllFresh
<1>3. ASSUME NEW t \in Terms, upc # "idle", docs' = docs, AllPosted' \subseteq AllPosted \cup {<<t, Uid>>}
      PROVE  AllFresh'
  <2>1. Uid \in Nat \ {0} /\ Uid = Len(docs)
    BY <1>3, LastDoc DEF Uid
  <2>2. UpTo(AllPosted \cup {<<t, Uid>>}, Len(docs))
    BY <2>1 DEF AllFresh, UpTo, Postings
  <2> QED BY <1>1, <1>3, <2>2, UpToSub DEF AllFresh
<1> QED BY <1>2, <1>3, PostedNext

\* The ids of the lives that have begun are part of those of all lives.
LEMMA FewerLives ==
  ASSUME NEW n \in Nat, NEW c \in Nat, NEW k \in Nat, c <= k
  PROVE  n * (c + 1) <= n * (k + 1)
<1>1. PICK r \in Nat : k = c + r
  <2>1. k - c \in Nat /\ k = c + (k - c)
    OBVIOUS
  <2> QED BY <2>1
<1>2. n * (k + 1) = n * (c + 1) + n * r /\ n * r \in Nat /\ n * (c + 1) \in Nat
  BY <1>1
<1> QED BY <1>2

\* The layers of a running process are merged without loss.
LEMMA NothingCut ==
  ASSUME NeverCut, TypeInv, PosInv, Budget, AllFresh, up
  PROVE  Merged(mem1, DayL) = mem1 \cup DayL /\ Merged(Day2L, HisL) = Day2L \cup HisL
<1>1. /\ docs \in Seq(1..Msgs) /\ last \in 0..Msgs /\ Msgs \in Nat
      /\ crashes \in Nat /\ MaxCrash \in Nat /\ Len(docs) \in Nat
  BY MsgsAssumption, BoundsAssumption, LenProperties DEF TypeInv, TypeOK, ThreadTypes
<1>2. PICK k \in 0..Msgs : Len(docs) <= Msgs * crashes + k
  <2>1. CASE upc = "idle"
    BY <1>1, <2>1 DEF Budget
  <2>2. CASE upc # "idle"
    <3>1. last + 1 \in 0..Msgs
      BY <1>1, <2>2, LastDoc DEF PosInv
    <3> QED BY <2>2, <3>1 DEF Budget
  <2> QED BY <2>1, <2>2
<1>3. Len(docs) <= Msgs * (crashes + 1)
  BY <1>1, <1>2, OneMoreLife
<1>4. crashes <= MaxCrash
  BY DEF Budget
<1>5. Msgs * (crashes + 1) <= Msgs * (MaxCrash + 1)
  BY <1>1, <1>4, FewerLives
<1>6. MaxList >= 2 * Len(docs)
  <2>1. PICK x \in Nat, y \in Nat : x = Msgs * (crashes + 1) /\ y = Msgs * (MaxCrash + 1)
    <3>1. Msgs * (crashes + 1) \in Nat /\ Msgs * (MaxCrash + 1) \in Nat
      BY <1>1
    <3> QED BY <3>1
  <2>2. Len(docs) <= x /\ x <= y
    BY <1>3, <1>5, <2>1
  <2>3. MaxList >= 2 * y
    BY <2>1 DEF NeverCut
  <2>4. MaxList \in Nat
    BY BoundsAssumption
  <2> QED BY <1>1, <2>2, <2>3, <2>4
<1>7. /\ day[iday] \in Indexers /\ day[2] \in Indexers /\ his[ihis] \in Indexers
      /\ iday \in 0..2 /\ 2 \in 0..2 /\ ihis \in 0..1
  BY DEF TypeInv, TypeOK, IndexTypes
<1>8. /\ DayL \subseteq AllPosted /\ Day2L \subseteq AllPosted
      /\ HisL \subseteq AllPosted /\ mem1 \subseteq AllPosted
  <2>1. DayL \subseteq DayPosted /\ Day2L \subseteq DayPosted
    BY <1>7, IndexerTypes DEF DayPosted, DayL, Day2L
  <2>2. HisL \subseteq HisPosted
    BY <1>7, IndexerTypes DEF HisPosted, HisL
  <2> QED BY <2>1, <2>2 DEF AllPosted
<1>9. /\ UpTo(mem1, Len(docs)) /\ UpTo(DayL, Len(docs))
      /\ UpTo(Day2L, Len(docs)) /\ UpTo(HisL, Len(docs))
  BY <1>1, <1>8, UpToSub DEF AllFresh
<1> QED BY <1>1, <1>6, <1>9, MergedAll

-----------------------------------------------------------------------------
\* Merges in progress hold all of their sources.
Whole ==
  /\ Merged(mem1, DayL) = mem1 \cup DayL
  /\ Merged(Day2L, HisL) = Day2L \cup HisL

\* Steps that write no disk index.
LEMMA LayersQuiet ==
  ASSUME UNCHANGED <<day, his, iday, ihis>>
  PROVE  UNCHANGED <<DayL, Day2L, HisL, Disk>>
BY DEF DayL, Day2L, HisL, Disk

\* A day merge in progress adds at most day/2 to what is read.
LEMMA LayersDayWrite ==
  ASSUME TypeInv, MergerState, Merges,
         (\E low \in BOOLEAN : DayChoose(low)) \/ DayTear \/ DayFinish
  PROVE  DayL' = DayL /\ Disk \subseteq Disk'
<1>1. day \in [0..2 -> Indexers] /\ iday \in 0..1 /\ dst \in 0..2
  BY DEF TypeInv, TypeOK, IndexTypes, ThreadTypes
<1>2. UNCHANGED <<his, iday, ihis>>
  BY DEF DayChoose, DayTear, DayFinish
<1>3. dst' \in 0..2 /\ dst' # iday /\ \A d \in 0..2 \ {dst'} : day'[d] = day[d]
  <2>1. ASSUME NEW low \in BOOLEAN, DayChoose(low)
        PROVE  dst' \in 0..2 /\ dst' # iday /\ \A d \in 0..2 \ {dst'} : day'[d] = day[d]
    <3>1. dst' \in 0..2 /\ dst' # iday
      BY <1>1, <2>1 DEF DayChoose
    <3> QED BY <1>1, <2>1, <3>1 DEF DayChoose
  <2>2. CASE DayTear \/ DayFinish
    <3>1. dst' = dst /\ dpc \in Busy
      BY <2>2 DEF DayTear, DayFinish, dayVars, Busy
    <3>2. dst # iday
      BY <1>1, <3>1 DEF MergerState
    <3> QED BY <1>1, <2>2, <3>1, <3>2 DEF DayTear, DayFinish
  <2> QED BY <2>1, <2>2
<1>4. dst' = 2 => Day2L = {}
  <2>1. ASSUME NEW low \in BOOLEAN, DayChoose(low), dst' = 2 PROVE Day2L = {}
    <3>1. NeedDay2(low)
      BY <1>1, <2>1 DEF DayChoose
    <3>2. canDay2
      BY <3>1, Zenon DEF NeedDay2
    <3> QED BY <3>2 DEF Merges
  <2>2. ASSUME DayTear \/ DayFinish, dst' = 2 PROVE Day2L = {}
    <3>1. dst = 2 /\ dpc = "merge"
      BY <2>2 DEF DayTear, DayFinish, dayVars
    <3> QED BY <1>1, <3>1, SeenFacts DEF MergerState, Day2L
  <2> QED BY <2>1, <2>2
<1>5. DayL' = DayL /\ HisL' = HisL
  BY <1>1, <1>2, <1>3 DEF DayL, HisL
<1>6. Day2L \subseteq Day2L'
  <2>1. dst' # 2 => Day2L' = Day2L
    BY <1>3 DEF Day2L
  <2> QED BY <1>4, <2>1
<1> QED BY <1>5, <1>6 DEF Disk

\* The install of a day merge moves MEM1 and DAY to disk.
LEMMA LayersDayInstall ==
  ASSUME TypeInv, MergerState, Merges, Whole, NEW late \in BOOLEAN, DayInstall(late)
  PROVE  /\ mem1 \cup Disk \subseteq Disk'
         /\ IF dst = 2 THEN DayL' = {} ELSE iday' = dst /\ dst \in {0, 1}
<1>1. day \in [0..2 -> Indexers] /\ iday \in 0..1 /\ dst \in 0..2 /\ dpc \in Busy \ {"merge"}
  BY DEF TypeInv, TypeOK, IndexTypes, ThreadTypes, DayInstall, Busy
<1>2. Seen(day[dst]) = mem1 \cup DayL
  BY <1>1 DEF Merges, Whole
<1>3. dst # iday /\ (dst = 2 \/ dst \in {0, 1})
  BY <1>1 DEF MergerState
<1>4. day' = [day EXCEPT ![iday] = NoIndex] /\ UNCHANGED <<his, ihis>>
  BY DEF DayInstall, DayCleared
<1>5. HisL' = HisL /\ Day2L' = Day2L /\ day'[dst] = day[dst]
  BY <1>1, <1>3, <1>4 DEF HisL, Day2L
<1>6. CASE dst = 2
  <2>1. iday' = iday
    BY <1>6 DEF DayInstall
  <2>2. DayL' = {}
    BY <1>1, <1>4, <2>1 DEF DayL, Seen, NoIndex
  <2>3. Day2L = mem1 \cup DayL
    BY <1>2, <1>6 DEF Day2L
  <2> QED BY <1>5, <1>6, <2>2, <2>3 DEF Disk
<1>7. CASE dst # 2
  <2>1. iday' = dst
    BY <1>7 DEF DayInstall
  <2>2. DayL' = mem1 \cup DayL
    BY <1>2, <1>5, <2>1 DEF DayL
  <2> QED BY <1>3, <1>5, <1>7, <2>1, <2>2 DEF Disk
<1> QED BY <1>6, <1>7

\* The history merger writes an index that nobody reads, then moves day/2 and HIS there.
LEMMA LayersHis ==
  ASSUME TypeInv, Merges, Whole, HisStep
  PROVE  /\ DayL' = DayL /\ Disk \subseteq Disk'
         /\ UNCHANGED <<mem0, mem1, iday, cday, chk, last, docs, dst, dpc, dumpPos, upc>>
<1>1. UNCHANGED <<mem0, mem1, iday, cday, chk, last, docs, dst, dpc, dumpPos, upc>>
  BY DEF HisStep, HisBegin, HisTear, HisFinish, HisCut, HisSetCur, HisInstall,
    memVars, updVars, dayVars, flagVars
<1>2. /\ day \in [0..2 -> Indexers] /\ his \in [0..1 -> Indexers] /\ iday \in 0..1 /\ ihis \in 0..1
      /\ 1 - ihis \in 0..1 /\ 1 - ihis # ihis
  BY DEF TypeInv, TypeOK, IndexTypes
<1>3. CASE HisInstall
  <2>1. /\ day' = [day EXCEPT ![2] = NoIndex] /\ his' = [his EXCEPT ![ihis] = NoIndex]
        /\ ihis' = 1 - ihis /\ hpc = "install"
    BY <1>3 DEF HisInstall
  <2>2. DayL' = DayL
    BY <1>1, <1>2, <2>1 DEF DayL
  <2>3. his'[1 - ihis] = his[1 - ihis]
    BY <1>2, <2>1
  <2>4. HisL' = Day2L \cup HisL
    BY <2>1, <2>3 DEF HisL, Merges, Whole
  <2> QED BY <1>1, <2>2, <2>4 DEF Disk
<1>4. CASE ~HisInstall
  <2>1. UNCHANGED <<day, ihis>> /\ his'[ihis] = his[ihis]
    BY <1>2, <1>4 DEF HisStep, HisBegin, HisTear, HisFinish, HisCut, HisSetCur
  <2>2. DayL' = DayL /\ Day2L' = Day2L /\ HisL' = HisL
    BY <1>1, <2>1 DEF DayL, Day2L, HisL
  <2> QED BY <1>1, <2>2 DEF Disk
<1> QED BY <1>3, <1>4

-----------------------------------------------------------------------------
\* The cur files name what a query reads, or an index that has replaced it, at every step.
LEMMA CurNext ==
  ASSUME TypeInv, Down, MergerState, Merges, Token, up => Whole, CurInv, [Next]_vars
  PROVE  CurInv'
<1> USE DEF vars, updVars, memVars, diskVars, dayVars, flagVars
<1>1. ASSUME up, UNCHANGED <<cday, chis, iday, ihis, dst>>, DayL' = DayL, hpc' = hpc,
             dpc' = dpc \/ {dpc, dpc'} \subseteq {"enter", "wait", "expired", "choose", "merge", "merged"}
      PROVE  CurInv'
  BY <1>1 DEF CurInv
<1>2. CASE up /\ (UpdStep \/ UpdSpurious)
  <2>1. UNCHANGED <<day, his, cday, chis, iday, ihis, dst, hpc>>
    BY <1>2 DEF UpdStep, UpdBegin, UpdTerm, UpdEnd, UpdTest, UpdSleep, UpdWake, UpdSwap, UpdSpurious
  <2>2. dpc' = dpc \/ (dpc = "wait" /\ dpc' = "enter")
    BY <1>2 DEF UpdStep, UpdBegin, UpdTerm, UpdEnd, UpdTest, UpdSleep, UpdWake, UpdSwap, UpdSpurious,
      SignalDay
  <2> QED BY <1>1, <1>2, <2>1, <2>2, LayersQuiet
<1>3. CASE up /\ (DayEnter \/ DayTimeout \/ DayExpired \/ DaySpurious \/ NextDay)
  <2>1. UNCHANGED <<day, his, cday, chis, iday, ihis, dst, hpc>>
    BY <1>3 DEF DayEnter, DayTimeout, DayExpired, DaySpurious, NextDay
  <2>2. dpc' = dpc \/ {dpc, dpc'} \subseteq {"enter", "wait", "expired", "choose", "merge", "merged"}
    BY <1>3 DEF DayEnter, DayTimeout, DayExpired, DaySpurious, NextDay
  <2> QED BY <1>1, <1>3, <2>1, <2>2, LayersQuiet
<1>4. CASE up /\ ((\E low \in BOOLEAN : DayChoose(low)) \/ DayTear \/ DayFinish)
  <2>1. DayL' = DayL
    BY <1>4, LayersDayWrite
  <2>2. UNCHANGED <<cday, chis, iday, ihis, hpc>>
    BY <1>4 DEF DayChoose, DayTear, DayFinish
  <2>3. {dpc, dpc'} \subseteq {"choose", "merge", "merged"}
    BY <1>4 DEF DayChoose, DayTear, DayFinish
  <2> QED BY <1>4, <2>1, <2>2, <2>3 DEF CurInv
<1>5. CASE up /\ DayCut
  <2>1. UNCHANGED <<chis, iday, ihis, hpc>> /\ dpc' = "cut" /\ cday' = NoCur
    BY <1>5 DEF DayCut
  <2> QED BY <1>5, <2>1 DEF CurInv
<1>6. CASE up /\ DaySetCur
  <2>1. UNCHANGED <<chis, iday, ihis, hpc, dst>> /\ dpc' = "check" /\ cday' = CurOf(dst)
    BY <1>6 DEF DaySetCur
  <2> QED BY <1>6, <2>1 DEF CurInv
<1>7. CASE up /\ DayCheckPoint
  <2>1. UNCHANGED <<cday, chis, iday, ihis, hpc, dst>> /\ dpc' = "install" /\ dpc = "check"
    BY <1>7 DEF DayCheckPoint
  <2> QED BY <1>7, <2>1 DEF CurInv
<1>8. ASSUME up, NEW late \in BOOLEAN, DayInstall(late) PROVE CurInv'
  <2>1. UNCHANGED <<cday, chis, ihis, hpc>> /\ dpc' = "enter" /\ dpc = "install"
    BY <1>8 DEF DayInstall
  <2>2. IF dst = 2 THEN DayL' = {} ELSE iday' = dst /\ dst \in {0, 1}
    BY <1>8, LayersDayInstall
  <2>3. cday = CurOf(dst)
    BY <1>8, <2>1 DEF CurInv
  <2>4. cday' \in {0, 1} /\ (cday' = iday' \/ DayL' = {})
    BY <2>1, <2>2, <2>3 DEF CurOf
  <2>5. /\ hpc' \in {"idle", "merge", "merged"} => chis' = ihis'
        /\ hpc' = "cut" => chis' = NoCur
        /\ hpc' = "install" => chis' = 1 - ihis'
    BY <1>8, <2>1 DEF CurInv
  <2> QED BY <2>1, <2>4, <2>5 DEF CurInv
<1>9. CASE up /\ HisStep
  <2>1. DayL' = DayL /\ UNCHANGED <<iday, cday, dst, dpc>>
    BY <1>9, LayersHis
  <2>2. /\ dpc' \notin {"cut", "check", "install"} => cday' \in {0, 1} /\ (cday' = iday' \/ DayL' = {})
        /\ dpc' = "cut" => cday' = NoCur
        /\ dpc' \in {"check", "install"} => cday' = CurOf(dst')
    BY <1>9, <2>1 DEF CurInv
  <2>3. /\ hpc' \in {"idle", "merge", "merged"} => chis' = ihis'
        /\ hpc' = "cut" => chis' = NoCur
        /\ hpc' = "install" => chis' = 1 - ihis'
    BY <1>9 DEF CurInv, HisStep, HisBegin, HisTear, HisFinish, HisCut, HisSetCur, HisInstall
  <2> QED BY <2>2, <2>3 DEF CurInv
<1>10. CASE Die
  BY <1>10 DEF Die, CurInv
<1>11. CASE Restart
  <2>1. dpc' = "enter" /\ hpc' = "idle"
    BY <1>11 DEF Restart, Down
  <2>2. cday' = cday /\ cday \in {0, 1} /\ iday' = cday /\ ihis' = chis /\ chis' = chis
    BY <1>11 DEF Restart, TypeInv, TypeOK, IndexTypes
  <2> QED BY <2>1, <2>2 DEF CurInv
<1>12. CASE UNCHANGED vars
  BY <1>12 DEF CurInv, DayL
<1> QED BY <1>2, <1>3, <1>4, <1>5, <1>6, <1>7, <1>8, <1>9, <1>10, <1>11, <1>12
  DEF Next, NextRun, Threads, DayStep, Suicide, QueryThrows, Crash

-----------------------------------------------------------------------------
\* More documents, more postings and fewer messages keep the messages covered.
LEMMA CoversMore ==
  \A d, e, S, T : \A n, k \in Nat :
    /\ Covers(d, n, S) /\ S \subseteq T /\ k <= n
    /\ \A id \in DOMAIN d : id \in DOMAIN e /\ e[id] = d[id]
    => Covers(e, k, T)
<1> TAKE d, e, S, T
<1> TAKE n \in Nat, k \in Nat
<1> HAVE /\ Covers(d, n, S) /\ S \subseteq T /\ k <= n
         /\ \A id \in DOMAIN d : id \in DOMAIN e /\ e[id] = d[id]
<1>1. ASSUME NEW m \in 1..k, NEW t \in TermsOf[m]
      PROVE  \E id \in DOMAIN e : e[id] = m /\ <<t, id>> \in T
  <2>1. m \in 1..n
    OBVIOUS
  <2>2. PICK id \in DOMAIN d : d[id] = m /\ <<t, id>> \in S
    BY <2>1, Zenon DEF Covers
  <2> QED BY <2>2
<1> QED BY <1>1 DEF Covers

\* What a query of a running process reads, now and in the next state.
LEMMA VisibleIs == Visible = mem0 \cup mem1 \cup Disk
BY DEF Visible, Disk, DayL, Day2L, HisL

\* The same of the next state.
LEMMA VisibleWillBe == Visible' = mem0' \cup mem1' \cup Disk'
BY DEF Visible, Disk, DayL, Day2L, HisL

\* While the process runs, what is read from disk only grows, and so does it
\* with MEM1, and with both memory indexes.
LEMMA LayersGrow ==
  ASSUME OnlyPeriodic, TypeInv, MergerState, Merges, Plain, up => Whole, Threads
  PROVE  /\ Disk \subseteq Disk' /\ mem1 \cup Disk \subseteq mem1' \cup Disk'
         /\ Visible \subseteq Visible'
<1> USE DEF updVars, memVars, diskVars, dayVars, flagVars
<1>0. up
  BY DEF Threads
<1>1. CASE UpdStep \/ UpdSpurious
  <2>1. UNCHANGED <<day, his, iday, ihis, mem1>> /\ mem0 \subseteq mem0'
    BY <1>1 DEF UpdStep, UpdBegin, UpdTerm, UpdEnd, UpdTest, UpdSleep, UpdWake, UpdSwap, UpdSpurious, Plain
  <2> QED BY <2>1, LayersQuiet, VisibleIs, VisibleWillBe
<1>2. CASE DayEnter \/ DayTimeout \/ DayExpired \/ DayCut \/ DaySetCur \/ DayCheckPoint
           \/ DaySpurious \/ NextDay
  <2>1. UNCHANGED <<day, his, iday, ihis>>
    BY <1>2 DEF DayEnter, DayTimeout, DayExpired, DayCut, DaySetCur, DayCheckPoint, DaySpurious, NextDay
  <2>2. UNCHANGED <<mem0, mem1>> \/ (mem1 = {} /\ mem1' = mem0)
    BY <1>2 DEF DayEnter, DayTimeout, DayExpired, DayCut, DaySetCur, DayCheckPoint, DaySpurious, NextDay,
      MergerState
  <2> QED BY <2>1, <2>2, LayersQuiet, VisibleIs, VisibleWillBe
<1>3. CASE (\E low \in BOOLEAN : DayChoose(low)) \/ DayTear \/ DayFinish
  <2>1. UNCHANGED <<mem0, mem1>>
    BY <1>3 DEF DayChoose, DayTear, DayFinish
  <2> QED BY <1>3, <2>1, LayersDayWrite, VisibleIs, VisibleWillBe
<1>4. ASSUME NEW late \in BOOLEAN, DayInstall(late)
      PROVE  /\ Disk \subseteq Disk' /\ mem1 \cup Disk \subseteq mem1' \cup Disk'
             /\ Visible \subseteq Visible'
  <2>1. mem0' = mem0 /\ mem1 \cup Disk \subseteq Disk'
    BY <1>0, <1>4, LayersDayInstall DEF DayInstall
  <2> QED BY <2>1, VisibleIs, VisibleWillBe
<1>5. CASE HisStep
  <2>1. UNCHANGED <<mem0, mem1>> /\ Disk \subseteq Disk'
    BY <1>0, <1>5, LayersHis
  <2> QED BY <2>1, VisibleIs, VisibleWillBe
<1> QED BY <1>1, <1>2, <1>3, <1>4, <1>5 DEF Threads, DayStep

\* What a death leaves contains what the process reads from disk, and MEM1 once
\* the check point has passed it.
LEMMA DeathLeaves ==
  ASSUME TypeInv, MergerState, Merges, Whole, CurInv, up, cday # NoCur, chis # NoCur
  PROVE  Disk \subseteq Recoverable /\ (dpc = "install" => mem1 \cup Disk \subseteq Recoverable)
<1>1. HisL \subseteq Seen(his[chis])
  <2>1. hpc \in {"idle", "merge", "merged", "cut", "install"}
    BY DEF TypeInv, TypeOK, ThreadTypes
  <2>2. CASE hpc = "install"
    BY <2>2 DEF CurInv, Merges, Whole
  <2>3. CASE hpc # "install"
    BY <2>1, <2>3 DEF CurInv, HisL
  <2> QED BY <2>2, <2>3
<1>2. CASE dpc \notin {"cut", "check", "install"}
  <2>1. DayL \subseteq Seen(day[cday])
    BY <1>2 DEF CurInv, DayL
  <2> QED BY <1>1, <1>2, <2>1 DEF Recoverable, Disk, Day2L
<1>3. CASE dpc \in {"check", "install"}
  <2>1. Seen(day[dst]) = mem1 \cup DayL /\ cday = CurOf(dst) /\ (dst = 2 \/ dst = 1 - iday)
    BY <1>3 DEF Merges, Whole, CurInv, MergerState, Busy
  <2>2. dst \in {0, 1} => cday = dst
    BY <2>1 DEF CurOf
  <2>3. dst \in 0..2
    BY DEF TypeInv, TypeOK, ThreadTypes
  <2>4. mem1 \cup DayL \subseteq Seen(day[cday]) \cup Day2L
    BY <2>1, <2>2, <2>3 DEF Day2L
  <2> QED BY <1>1, <2>4 DEF Recoverable, Disk, Day2L
<1>4. dpc # "cut"
  BY DEF CurInv
<1> QED BY <1>2, <1>3, <1>4

\* The messages before the check point are on disk, where a restart finds them.
LEMMA CoveredOnDisk ==
  ASSUME TypeInv, MergerState, Merges, up => Whole, CurInv, CoverInv, cday # NoCur, chis # NoCur
  PROVE  Covers(docs, chk, Recoverable)
<1>0. chk \in Nat
  BY MsgsAssumption DEF TypeInv, TypeOK, ThreadTypes
<1>1. CASE up /\ dpc = "install"
  BY <1>0, <1>1, DeathLeaves, CoversMore DEF CoverInv
<1>2. CASE up /\ dpc # "install"
  BY <1>0, <1>2, DeathLeaves, CoversMore DEF CoverInv
<1>3. CASE ~up
  BY <1>3 DEF CoverInv
<1> QED BY <1>1, <1>2, <1>3

\* A document ends with all of its terms in MEM0; a message without terms needs none.
LEMMA CoversLast ==
  ASSUME OnlyPeriodic, TypeInv, TypeInv', PosInv, MergerState, Merges, Plain, up => Whole, CoverInv,
         Threads
  PROVE  Covers(docs', last', Visible')
<1> USE DEF updVars, memVars, diskVars, dayVars, flagVars
<1>0. /\ up /\ Covers(docs, last, Visible) /\ Visible \subseteq Visible' /\ last \in Nat /\ last' \in Nat
      /\ \A id \in DOMAIN docs : id \in DOMAIN docs' /\ docs'[id] = docs[id]
      /\ docs \in Seq(1..Msgs)
  <2>1. up /\ [Next]_vars
    BY DEF Threads, Next, NextRun
  <2>2. last \in Nat /\ last' \in Nat /\ docs \in Seq(1..Msgs)
    BY MsgsAssumption DEF TypeInv, TypeOK, ThreadTypes
  <2> QED BY <2>1, <2>2, LayersGrow, DocsGrow DEF CoverInv
<1>1. Covers(docs', last, Visible')
  BY <1>0, CoversMore
<1>2. CASE last' = last
  BY <1>1, <1>2
<1>3. ASSUME last' = last + 1,
             \A t \in TermsOf[last + 1] :
               \E id \in DOMAIN docs' : docs'[id] = last + 1 /\ <<t, id>> \in Visible'
      PROVE  Covers(docs', last', Visible')
  <2>1. \A m \in 1..last' : m \in 1..last \/ m = last + 1
    BY <1>0, <1>3
  <2> QED BY <1>1, <1>3, <2>1 DEF Covers
<1>4. CASE UpdBegin /\ TermsOf[last + 1] = {}
  BY <1>3, <1>4 DEF UpdBegin
<1>5. CASE UpdBegin /\ TermsOf[last + 1] # {}
  BY <1>2, <1>5 DEF UpdBegin
<1>6. CASE UpdEnd
  <2>1. upc = "term" /\ todo = {} /\ last' = Msg /\ docs' = docs
    <3>1. ~nearly
      BY Zenon DEF Plain
    <3> QED BY <1>6, <3>1 DEF UpdEnd
  <2>2. Msg = last + 1 /\ Uid \in Nat \ {0} /\ Uid = Len(docs)
    BY <2>1, LastDoc DEF PosInv, Uid
  <2>3. Uid \in DOMAIN docs' /\ docs'[Uid] = last + 1
    BY <1>0, <2>1, <2>2, IdMap DEF Msg
  <2>4. \A t \in TermsOf[last + 1] : <<t, Uid>> \in Visible'
    BY <1>0, <2>1, <2>2, VisibleIs DEF Plain
  <2> QED BY <1>3, <2>1, <2>2, <2>3, <2>4
<1>7. CASE ~UpdBegin /\ ~UpdEnd
  <2>1. last' = last
    BY <1>7 DEF Threads, UpdStep, UpdTerm, UpdTest, UpdSleep, UpdWake, UpdSwap,
      UpdSpurious, DayStep, DayEnter, DayTimeout, DayExpired, DayChoose, DayTear, DayFinish, DayCut,
      DaySetCur, DayCheckPoint, DayInstall, SignalUpd, DaySpurious, NextDay,
      HisStep, HisBegin, HisTear, HisFinish, HisCut, HisSetCur, HisInstall, Plain
  <2> QED BY <1>2, <2>1
<1> QED BY <1>4, <1>5, <1>6, <1>7

\* The position captured with a dump is covered by MEM1 and the disk until the install.
LEMMA CoversDump ==
  ASSUME OnlyPeriodic, TypeInv, TypeInv', PosInv, MergerState, Merges, Plain, up => Whole, CoverInv,
         Threads, dpc' \in {"choose"} \cup Busy
  PROVE  Covers(docs', dumpPos', mem1' \cup Disk')
<1> USE DEF updVars, memVars, diskVars, dayVars, flagVars
<1>0. /\ up /\ mem1 \cup Disk \subseteq mem1' \cup Disk'
      /\ pos \in Nat /\ dumpPos \in Nat /\ dumpPos' \in Nat /\ last \in Nat /\ pos <= last
      /\ \A id \in DOMAIN docs : id \in DOMAIN docs' /\ docs'[id] = docs[id]
  <2>1. up /\ [Next]_vars
    BY DEF Threads, Next, NextRun
  <2>2. pos \in Nat /\ dumpPos \in Nat /\ dumpPos' \in Nat /\ last \in Nat
    BY MsgsAssumption DEF TypeInv, TypeOK, ThreadTypes
  <2> QED BY <2>1, <2>2, LayersGrow, DocsGrow DEF PosInv, Ordered
<1>1. CASE dpc \in {"choose"} \cup Busy /\ dumpPos' = dumpPos
  BY <1>0, <1>1, CoversMore DEF CoverInv
<1>2. CASE DayExpired
  <2>1. mem1' = mem0 /\ mem1 = {} /\ dumpPos' = pos /\ UNCHANGED <<day, his, iday, ihis>>
    BY <1>2 DEF DayExpired, MergerState, Busy
  <2>2. Visible \subseteq mem1' \cup Disk'
    BY <2>1, LayersQuiet, VisibleIs
  <2> QED BY <1>0, <2>1, <2>2, CoversMore DEF CoverInv
<1>3. CASE ~DayExpired
  <2>1. ~DayEnter
    BY DEF DayEnter, Plain, Busy
  <2>2. dpc \in {"choose"} \cup Busy /\ dumpPos' = dumpPos
    BY <1>3, <2>1 DEF Threads, UpdStep, UpdBegin, UpdTerm, UpdEnd, UpdTest, UpdSleep, UpdWake, UpdSwap,
      SignalDay, UpdSpurious, DayStep, DayTimeout, DayChoose, DayTear, DayFinish, DayCut,
      DaySetCur, DayCheckPoint, DayInstall, DaySpurious, NextDay,
      HisStep, HisBegin, HisTear, HisFinish, HisCut, HisSetCur, HisInstall, Busy
  <2> QED BY <1>1, <2>2
<1> QED BY <1>2, <1>3

\* The check point is covered by what is on disk, and by MEM1 between
\* set_check_point and the install.
LEMMA CoversCheckPoint ==
  ASSUME OnlyPeriodic, TypeInv, TypeInv', MergerState, Merges, Plain, up => Whole, CoverInv, Threads
  PROVE  /\ Covers(docs', chk', mem1' \cup Disk')
         /\ dpc' # "install" => Covers(docs', chk', Disk')
<1> USE DEF updVars, memVars, diskVars, dayVars, flagVars
<1>0. /\ up /\ mem1 \cup Disk \subseteq mem1' \cup Disk' /\ Disk \subseteq Disk'
      /\ chk \in Nat /\ dumpPos \in Nat
      /\ \A id \in DOMAIN docs : id \in DOMAIN docs' /\ docs'[id] = docs[id]
  <2>1. up /\ [Next]_vars
    BY DEF Threads, Next, NextRun
  <2>2. chk \in Nat /\ dumpPos \in Nat
    BY MsgsAssumption DEF TypeInv, TypeOK, ThreadTypes
  <2> QED BY <2>1, <2>2, LayersGrow, DocsGrow
<1>1. CASE DayCheckPoint
  <2>1. chk' = dumpPos /\ dpc = "check" /\ dpc' = "install"
    BY <1>1 DEF DayCheckPoint
  <2> QED BY <1>0, <2>1, CoversMore DEF CoverInv, Busy
<1>2. ASSUME NEW late \in BOOLEAN, DayInstall(late)
      PROVE  Covers(docs', chk', mem1' \cup Disk') /\ Covers(docs', chk', Disk')
  <2>1. chk' = chk
    BY <1>2 DEF DayInstall
  <2>2. mem1 \cup Disk \subseteq Disk'
    BY <1>0, <1>2, LayersDayInstall
  <2>3. Covers(docs, chk, mem1 \cup Disk)
    BY <1>0 DEF CoverInv
  <2>4. Covers(docs', chk, mem1' \cup Disk')
    BY <1>0, <2>3, CoversMore
  <2>5. Covers(docs', chk, Disk')
    BY <1>0, <2>2, <2>3, CoversMore
  <2> QED BY <2>1, <2>4, <2>5
<1>3. CASE ~DayCheckPoint /\ ~(\E late \in BOOLEAN : DayInstall(late))
  <2>1. chk' = chk
    BY <1>3 DEF Threads, UpdStep, UpdBegin, UpdTerm, UpdEnd, UpdTest, UpdSleep, UpdWake, UpdSwap,
      UpdSpurious, DayStep, DayEnter, DayTimeout, DayExpired, DayChoose, DayTear, DayFinish, DayCut,
      DaySetCur, DaySpurious, NextDay,
      HisStep, HisBegin, HisTear, HisFinish, HisCut, HisSetCur, HisInstall
  <2>2. dpc' # "install" => dpc # "install"
    BY <1>3 DEF Threads, UpdStep, UpdBegin, UpdTerm, UpdEnd, UpdTest, UpdSleep, UpdWake, UpdSwap,
      SignalDay, UpdSpurious, DayStep, DayEnter, DayTimeout, DayExpired, DayChoose, DayTear, DayFinish,
      DayCut, DaySetCur, DaySpurious, NextDay,
      HisStep, HisBegin, HisTear, HisFinish, HisCut, HisSetCur, HisInstall
  <2> QED BY <1>0, <2>1, <2>2, CoversMore DEF CoverInv
<1> QED BY <1>1, <1>2, <1>3

\* A death leaves the files as they are; what a restart opens is what they hold.
LEMMA DeathKeeps ==
  ASSUME TypeInv, Die, cday # NoCur, chis # NoCur
  PROVE  Recoverable' = Recoverable
<1>1. cday \in 0..2 /\ 2 \in 0..2 /\ chis \in 0..1
  BY DEF TypeInv, TypeOK, IndexTypes
<1>2. day[cday] \in Indexers /\ day[2] \in Indexers /\ his[chis] \in Indexers
  BY <1>1 DEF TypeInv, TypeOK, IndexTypes
<1>3. /\ day'[cday] = OnDisk(day[cday]) /\ day'[2] = OnDisk(day[2])
      /\ his'[chis] = OnDisk(his[chis]) /\ cday' = cday /\ chis' = chis
  BY <1>1 DEF Die
<1> QED BY <1>2, <1>3, SeenFacts DEF Recoverable

\* A restart reads all that the files held.
LEMMA RestartReads ==
  ASSUME TypeInv, Restart
  PROVE  Recoverable \subseteq Disk'
<1>1. cday \in {0, 1} /\ chis \in {0, 1}
  BY DEF Restart, TypeInv, TypeOK, IndexTypes
<1>2. day[cday] \in Indexers /\ day[2] \in Indexers /\ his[chis] \in Indexers
  BY <1>1 DEF TypeInv, TypeOK, IndexTypes
<1>3. /\ day'[cday] = Opened(day[cday]) /\ day'[2] = Opened(day[2])
      /\ his'[chis] = Opened(his[chis]) /\ iday' = cday /\ ihis' = chis
  BY <1>1 DEF Restart
<1> QED BY <1>2, <1>3, OpenedFacts DEF Recoverable, Disk, DayL, Day2L, HisL

\* Every step keeps the messages where CoverInv says.
LEMMA CoverNext ==
  ASSUME OnlyPeriodic, TypeInv, TypeInv', PosInv, Down, MergerState, Merges, Plain, up => Whole,
         CurInv, CoverInv, [Next]_vars
  PROVE  CoverInv'
<1>0. chk \in Nat
  BY MsgsAssumption DEF TypeInv, TypeOK, ThreadTypes
<1>1. CASE Threads
  <2>1. up'
    BY <1>1 DEF Threads
  <2> QED BY <1>1, <2>1, CoversLast, CoversDump, CoversCheckPoint DEF CoverInv
<1>2. CASE Die
  <2>1. ~up' /\ dpc' = "enter" /\ UNCHANGED <<docs, chk, cday, chis>>
    BY <1>2 DEF Die
  <2>2. ASSUME cday # NoCur, chis # NoCur PROVE Covers(docs', chk', Recoverable')
    BY <1>2, <2>1, <2>2, DeathKeeps, CoveredOnDisk
  <2> QED BY <2>1, <2>2 DEF CoverInv, Busy
<1>3. CASE Restart
  <2>1. /\ up' /\ dpc' = "enter" /\ last' = chk /\ chk' = chk /\ docs' = docs
        /\ cday # NoCur /\ chis # NoCur
    BY <1>3 DEF Restart, ResumeAt, Down
  <2>2. Covers(docs, chk, Recoverable)
    BY <2>1, CoveredOnDisk
  <2>3. Recoverable \subseteq Disk'
    BY <1>3, RestartReads
  <2>4. Covers(docs, chk, Disk')
    BY <1>0, <2>2, <2>3, CoversMore
  <2>5. Covers(docs, chk, mem1' \cup Disk')
    BY <1>0, <2>2, <2>3, CoversMore
  <2>6. Covers(docs, chk, Visible')
    <3>1. Recoverable \subseteq Visible'
      BY <2>3, VisibleWillBe
    <3> QED BY <1>0, <2>2, <3>1, CoversMore
  <2> QED BY <2>1, <2>4, <2>5, <2>6 DEF CoverInv, Busy
<1>4. CASE UNCHANGED vars
  <2>1. UNCHANGED <<up, dpc, docs, last, dumpPos, chk, mem0, mem1, day, his, iday, ihis, cday, chis>>
    BY <1>4 DEF vars, updVars, memVars, diskVars, dayVars
  <2>2. Visible' = Visible /\ Disk' = Disk /\ Recoverable' = Recoverable
    BY <2>1 DEF Visible, Disk, DayL, Day2L, HisL, Recoverable
  <2> QED BY <2>1, <2>2 DEF CoverInv
<1> QED BY <1>1, <1>2, <1>3, <1>4 DEF Next, NextRun, Suicide, QueryThrows, Crash

-----------------------------------------------------------------------------
(***************************************************************************)
(* The invariant of lives and deaths.                                      *)
(***************************************************************************)
DeathInv ==
  /\ TypeInv /\ Down /\ PosInv /\ Token
  /\ MergerState /\ Merges /\ Plain /\ Budget /\ AllFresh /\ CurInv /\ CoverInv

\* Every step, of a thread or a death or a restart, keeps the invariant.
LEMMA DeathStep ==
  ASSUME OnlyPeriodic, NeverCut, DeathInv, [Next]_vars
  PROVE  DeathInv'
<1> USE DEF DeathInv
<1>1. TypeInv' /\ Down' /\ PosInv' /\ Token'
  BY TypeNext, DownStep, PosStep, TokenStep
<1>2. up => Whole
  BY NothingCut DEF Whole
<1>3. MergerState' /\ Merges'
  BY MergerNext, MergesNext
<1>4. Plain' /\ Budget' /\ AllFresh'
  BY PlainNext, BudgetNext, FreshNext
<1>5. CurInv' /\ CoverInv'
  BY <1>1, <1>2, CurNext, CoverNext
<1> QED BY <1>1, <1>3, <1>4, <1>5

\* The invariant holds in the beginning.
LEMMA DeathInit == Init => DeathInv
<1> SUFFICES ASSUME Init PROVE DeathInv
  OBVIOUS
<1>1. TypeInv /\ Down /\ PosInv /\ Token
  <2>1. TypeInv
    BY TypeInit
  <2>2. Down /\ PosInv
    BY DEF Init, Down, PosInv, Ordered
  <2>3. Token
    BY DEF Init, Token, OnDay2, Busy
  <2> QED BY <2>1, <2>2, <2>3
<1>2. DayL = {} /\ Day2L = {} /\ HisL = {}
  BY DEF Init, DayL, Day2L, HisL, Seen, NoIndex
<1>3. MergerState /\ Merges /\ Plain
  BY <1>2 DEF Init, MergerState, Merges, Plain, Busy
<1>4. Budget
  BY MsgsAssumption, BoundsAssumption DEF Init, Budget
<1>5. AllFresh
  <2>1. DayPosted = {} /\ HisPosted = {}
    BY DEF Init, DayPosted, HisPosted, NoIndex
  <2> QED BY <2>1 DEF Init, AllFresh, AllPosted, UpTo
<1>6. CurInv
  BY DEF Init, CurInv
<1>7. CoverInv
  <2>1. last = 0 /\ chk = 0 /\ up /\ dpc = "enter"
    BY DEF Init
  <2>2. Covers(docs, last, Visible)
    BY <2>1 DEF Covers
  <2>3. Covers(docs, chk, mem1 \cup Disk) /\ Covers(docs, chk, Disk)
    BY <2>1 DEF Covers
  <2> QED BY <2>1, <2>2, <2>3 DEF CoverInv, Busy
<1> QED BY <1>1, <1>3, <1>4, <1>5, <1>6, <1>7 DEF DeathInv

\* No message before the check point is lost by a death: wherever it falls - in
\* the middle of writing an index, of a cur file, between the cur file and the
\* check point, or during the replay after an earlier death - the indexes that
\* index_group's constructor opens hold every message that will not be replayed.
THEOREM DeathLosesNothing ==
  ASSUME OnlyPeriodic, NeverCut
  PROVE  Spec => []Durable
<1>1. DeathInv => Durable
  <2> SUFFICES ASSUME DeathInv, cday # NoCur, chis # NoCur,
                      NEW m \in 1..chk, NEW t \in TermsOf[m]
               PROVE  Found(m, t, Recoverable)
    BY DEF Durable
  <2>1. up => Whole
    BY NothingCut DEF DeathInv, Whole
  <2>2. Covers(docs, chk, Recoverable)
    BY <2>1, CoveredOnDisk DEF DeathInv
  <2> QED BY <2>2 DEF Covers, Found
<1>2. Init => DeathInv
  BY DeathInit
<1>3. DeathInv /\ [Next]_vars => DeathInv'
  BY DeathStep
<1> QED BY <1>1, <1>2, <1>3, PTL DEF Spec

\* Nor is one that was acknowledged and is replayed: in every life, whatever
\* the earlier ones left behind, a query finds the acknowledged messages.
THEOREM AckedSurvivesDeaths ==
  ASSUME OnlyPeriodic, NeverCut
  PROVE  Spec => []Searchable
<1>1. DeathInv => Searchable
  BY DEF DeathInv, CoverInv, Covers, Searchable, Found
<1>2. Init => DeathInv
  BY DeathInit
<1>3. DeathInv /\ [Next]_vars => DeathInv'
  BY DeathStep
<1> QED BY <1>1, <1>2, <1>3, PTL DEF Spec
=============================================================================
