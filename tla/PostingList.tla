---------------------------- MODULE PostingList -----------------------------
(***************************************************************************)
(* The posting lists in memory (utils/postinglist, utils/mem_indexer): a   *)
(* hash table of terms, each with a chain of memory links that are filled  *)
(* backwards, newest posting first.  One update thread sets, query threads *)
(* get at the same time; only the merging of links takes the lock for      *)
(* writing.  The build has no optimisation, so every mention of used_size  *)
(* in get is a read of its own.                                            *)
(*                                                                         *)
(* The n-th posting of a term is the number n.                             *)
(***************************************************************************)
EXTENDS MemBlocks, SequencesExt

CONSTANTS
  Keys,       \* signatures of terms
  Buckets,    \* m_bucket_size
  HeadMax,    \* m_headlist_size
  WaterLine,  \* HEAD_LIST_WATER_LINE
  CellSize,   \* m_postinglist_cell_size
  LinkHead,   \* sizeof(mem_link_t)
  Lens,       \* lengths of the buffers given to get, in cells
  MaxSets     \* postings set per key (bound)

ASSUME ListAssumption ==
  /\ Keys \subseteq Nat \ {0} /\ MaxSets \in [Keys -> Nat]
  /\ Lens \subseteq Nat /\ {Buckets, CellSize, HeadMax} \subseteq Nat \ {0}
  /\ LinkHead \in Nat /\ Base >= 4 * CellSize + LinkHead

VARIABLES
  bucket,    \* m_bucket, 0 is END_OF_LIST
  heads,     \* m_headlist up to m_headlist_used
  link,      \* block -> mem_link_t, for the blocks that are one
  readonly,  \* m_readonly
  locked,    \* m_mutex is held for writing
  wpc,       \* set: the next step
  wkey,      \* its key
  count,     \* history: postings set per key
  ret,       \* what set returned last
  rpc,       \* get: the next step
  rkey,      \* its key
  rhead,     \* head_list_offset
  rlink,     \* mem_link, Null at the end
  roff,      \* used_size when coffset was computed
  rbig,      \* left_size > used_size
  rleft,     \* left_size in cells; -1 when it fell below zero (2^32 - ...)
  res,       \* the buffer
  rfrom,     \* history: postings of the key when get began
  rgrew,     \* history: used_size grew between two reads of it
  sorted,    \* m_headlist_sort, from m_headlist_sort_it on
  dump       \* history: what the iteration has delivered

wVars == <<bucket, heads, link, readonly, locked, wpc, wkey, count, ret, stack, extra>>
rVars == <<rpc, rkey, rhead, rlink, roff, rbig, rleft, res, rfrom, rgrew>>
iVars == <<sorted, dump>>
vars == <<wVars, rVars, iVars>>

Null == <<>>
Junk == -1

\* The offset of a key's head, going from offset o; 0 if it is not there.
Find(k, o) ==
  LET from[i \in 0..Len(heads)] ==
        IF i = 0 THEN 0 ELSE IF heads[i].key = k THEN i ELSE from[heads[i].next]
  IN from[o]

Bucket(k) == k % Buckets
\* The term's first link.
First(k) == heads[Find(k, bucket[Bucket(k)])].link

\* Free bytes of a link.
Room(l) == l.self - l.used * CellSize - LinkHead

HasRoom(l) == Room(l) >= CellSize

\* memlinkcopy: the cells go in front of those that are there.
Filled(l, cells) == [l EXCEPT !.used = @ + Len(cells), !.cells = cells \o @]
\* memlinknew.
NewLink(size, next) == [self |-> size, used |-> 0, next |-> next, cells |-> <<>>]

\* The memory with l in block b.
Linked(b, l) == [x \in DOMAIN link \cup {b} |-> IF x = b THEN l ELSE link[x]]

-----------------------------------------------------------------------------
(***************************************************************************)
(* set, in the update thread.                                              *)
(***************************************************************************)
Return(k, r) ==
  wpc' = "idle" /\ wkey' = 0 /\ ret' = r /\ count' = [count EXCEPT ![k] = @ + 1]
Result(n) == IF HeadMax - n >= WaterLine THEN "OK" ELSE "NEARLY_FULL"

\* The search for the term decides what is to do.
SetCall(k) ==
  /\ wpc = "idle" /\ count[k] < MaxSets[k]
  /\ LET o == Find(k, bucket[Bucket(k)]) IN
       \/ /\ readonly \/ (o = 0 /\ Len(heads) = HeadMax)
          /\ readonly' = TRUE /\ ret' = "FULL" /\ UNCHANGED <<wpc, wkey>>
       \/ /\ ~readonly /\ o = 0 /\ Len(heads) < HeadMax
          /\ wpc' = "newhead" /\ wkey' = k /\ UNCHANGED <<readonly, ret>>
       \/ /\ ~readonly /\ o # 0
          /\ wpc' = IF HasRoom(link[heads[o].link]) THEN "copy" ELSE "lock"
          /\ wkey' = k /\ UNCHANGED <<readonly, ret>>
  /\ UNCHANGED <<bucket, heads, link, locked, count, stack, extra, rVars, iVars>>

\* memlinkcopy into the first link, without the lock: the data first,
CopyData ==
  /\ wpc = "copy" /\ wpc' = "used"
  /\ link' = [link EXCEPT ![First(wkey)].cells = <<count[wkey] + 1>> \o @]
  /\ UNCHANGED <<bucket, heads, readonly, locked, wkey, count, ret, stack, extra, rVars, iVars>>

\* then used_size.  A get that stands between its reads of used_size is caught out.
CopyUsed ==
  /\ wpc = "used" /\ Return(wkey, Result(Len(heads)))
  /\ link' = [link EXCEPT ![First(wkey)].used = @ + 1]
  /\ rgrew' = (rgrew \/ (rpc \in {"cond", "take"} /\ rlink = First(wkey)))
  /\ UNCHANGED <<bucket, heads, readonly, locked, stack, extra, iVars,
                 rpc, rkey, rhead, rlink, roff, rbig, rleft, res, rfrom>>

\* Mutant: the writer does not wait for the readers.
NoReadersNeeded == TRUE

\* pthread_rwlock_wrlock waits until no get is inside.
NoReaders == rpc \in {"idle", "lock", "done"}

WriteLock ==
  /\ wpc = "lock" /\ NoReaders
  /\ locked' = TRUE /\ wpc' = "merge"
  /\ UNCHANGED <<bucket, heads, link, readonly, wkey, count, ret, stack, extra, rVars, iVars>>

Mergeable(b) == link[b].next # Null /\ link[link[b].next].self = link[b].self

\* Mutant: the newer link is copied first.
MergedSwapped(b) ==
  LET n == link[b].next
  IN Filled(Filled(NewLink(2 * link[b].self, link[n].next), link[b].cells), link[n].cells)

\* Two links of one size become one of twice the size, the older one copied first.
Merged(b) ==
  LET n == link[b].next
  IN Filled(Filled(NewLink(2 * link[b].self, link[n].next), link[n].cells), link[b].cells)

\* One round of the merge loop, under the lock: the new link replaces the two, they go back
\* to the pool, and the posting is copied if it fits now.
Merge ==
  /\ wpc = "merge" /\ Mergeable(First(wkey))
  /\ LET b == First(wkey)
         m == Allocated(2 * link[b].self)
         l == Merged(b)
         fits == HasRoom(l)
         old == {b, link[b].next}
     IN /\ heads' = [heads EXCEPT ![Find(wkey, bucket[Bucket(wkey)])].link = m]
        /\ link' = [x \in (DOMAIN link \ old) \cup {m} |->
                      IF x # m THEN link[x]
                      ELSE IF fits THEN Filled(l, <<count[wkey] + 1>>) ELSE l]
        /\ PoolStep(2 * link[b].self, <<link[b].next, b>>)
        /\ IF fits THEN Return(wkey, Result(Len(heads))) /\ locked' = FALSE
                   ELSE UNCHANGED <<wpc, wkey, ret, count, locked>>
  /\ UNCHANGED <<bucket, readonly, rVars, iVars>>

\* Nothing more to merge: the lock is released.
MergeEnds ==
  /\ wpc = "merge" /\ ~Mergeable(First(wkey))
  /\ locked' = FALSE /\ wpc' = "newlink"
  /\ UNCHANGED <<bucket, heads, link, readonly, wkey, count, ret, stack, extra, rVars, iVars>>

\* A new link of the smallest size, filled before it is hung in front, without the lock.
AddLink ==
  /\ wpc = "newlink" /\ Return(wkey, Result(Len(heads)))
  /\ LET m == Allocated(Base) IN
       /\ link' = Linked(m, Filled(NewLink(Base, First(wkey)), <<count[wkey] + 1>>))
       /\ heads' = [heads EXCEPT ![Find(wkey, bucket[Bucket(wkey)])].link = m]
  /\ PoolStep(Base, <<>>)
  /\ UNCHANGED <<bucket, readonly, locked, rVars, iVars>>

\* A new term: head, link and data before the bucket shows it.
AddHead ==
  /\ wpc = "newhead" /\ Return(wkey, Result(Len(heads) + 1))
  /\ LET m == Allocated(Base) IN
       /\ link' = Linked(m, Filled(NewLink(Base, Null), <<count[wkey] + 1>>))
       /\ heads' = Append(heads, [key |-> wkey, next |-> bucket[Bucket(wkey)], link |-> m])
  /\ bucket' = [bucket EXCEPT ![Bucket(wkey)] = Len(heads')]
  /\ PoolStep(Base, <<>>)
  /\ UNCHANGED <<readonly, locked, rVars, iVars>>

-----------------------------------------------------------------------------
(***************************************************************************)
(* get, in a query thread.                                                 *)
(***************************************************************************)
\* The bucket is read before the lock is taken.
GetCall(k, n) ==
  /\ rpc = "idle"
  /\ rpc' = "lock" /\ rkey' = k /\ rhead' = bucket[Bucket(k)] /\ rleft' = n
  /\ res' = <<>> /\ rfrom' = count[k] /\ rgrew' = FALSE
  /\ UNCHANGED <<wVars, iVars, rlink, roff, rbig>>

\* The lock, and the term's first link as it is now.
GetLock ==
  /\ rpc = "lock" /\ ~locked
  /\ LET o == Find(rkey, rhead) IN
       IF o = 0 THEN rpc' = "done" /\ UNCHANGED rlink
                ELSE rpc' = "link" /\ rlink' = heads[o].link
  /\ rhead' = 0
  /\ UNCHANGED <<wVars, iVars, rkey, roff, rbig, rleft, res, rfrom, rgrew>>

\* First read of used_size.
GetOffset ==
  /\ rpc = "link" /\ rlink # Null /\ rleft # 0
  /\ roff' = link[rlink].used /\ rpc' = "cond"
  /\ UNCHANGED <<wVars, iVars, rkey, rhead, rlink, rbig, rleft, res, rfrom, rgrew>>

\* Mutant: a buffer that is just full counts as too small.
ExceedsOrEqual(left, n) == left = -1 \/ left >= n - 1

Exceeds(left, n) == left = -1 \/ left > n

\* Second read.
GetCompare ==
  /\ rpc = "cond" /\ rpc' = "take"
  /\ rbig' = Exceeds(rleft, link[rlink].used)
  /\ UNCHANGED <<wVars, iVars, rkey, rhead, rlink, roff, rleft, res, rfrom, rgrew>>

\* Third read, and the copy from the offset computed with the first.
GetCopy ==
  /\ rpc = "take" /\ rpc' = "link"
  /\ LET l == link[rlink]
         n == IF rbig THEN l.used ELSE rleft
         cell(k) == LET i == Len(l.cells) - roff + k
                    IN IF i <= Len(l.cells) THEN l.cells[i] ELSE Junk
     IN /\ res' = res \o [k \in 1..n |-> cell(k)]
        /\ rleft' = IF Exceeds(rleft, n) \/ rleft = n
                      THEN IF rleft = -1 THEN -1 ELSE rleft - n
                      ELSE -1
        /\ rlink' = l.next
  /\ roff' = 0 /\ rbig' = FALSE
  /\ UNCHANGED <<wVars, iVars, rkey, rhead, rfrom, rgrew>>

\* The end of the chain, or of the buffer: unlock.
GetEnds ==
  /\ rpc = "link" /\ (rlink = Null \/ rleft = 0)
  /\ rpc' = "done"
  /\ UNCHANGED <<wVars, iVars, rkey, rhead, rlink, roff, rbig, rleft, res, rfrom, rgrew>>

\* The caller has the answer.
GetReturned ==
  /\ rpc = "done" /\ rpc' = "idle" /\ res' = <<>> /\ rlink' = Null /\ rleft' = 0
  /\ rkey' = 0 /\ rhead' = 0 /\ rfrom' = 0 /\ rgrew' = FALSE
  /\ UNCHANGED <<wVars, iVars, roff, rbig>>

-----------------------------------------------------------------------------
(***************************************************************************)
(* The dump of the index: iteration over a list that is set no more, then  *)
(* clear.                                                                  *)
(***************************************************************************)
\* The postings of a chain that begins with block b, link after link.
Contents(b) ==
  LET walk[n \in 0..Cardinality(DOMAIN link)] ==
        IF n = 0 THEN [at |-> b, list |-> <<>>]
        ELSE IF walk[n - 1].at = Null THEN walk[n - 1]
        ELSE LET l == link[walk[n - 1].at]
             IN [at |-> l.next, list |-> walk[n - 1].list \o l.cells]
  IN walk[Cardinality(DOMAIN link)].list

\* Mutant: the heads are left in the order of their insertion.
InInsertionOrder(hs) == hs

\* qsort by signature.
Sorted(hs) ==
  CHOOSE s \in [1..Len(hs) -> Range(hs)] :
    \A i, j \in 1..Len(hs) : i < j => s[i].key < s[j].key

\* begin().  The update thread uses another list by now.
Begin ==
  /\ wpc = "idle" /\ sorted = <<>> /\ dump = <<>> /\ heads # <<>>
  /\ readonly' = TRUE /\ sorted' = Sorted(heads)
  /\ UNCHANGED <<bucket, heads, link, locked, wpc, wkey, count, ret, stack, extra, rVars, dump>>

\* itget() and next().
ItNext ==
  /\ sorted # <<>>
  /\ sorted' = Tail(sorted)
  /\ dump' = Append(dump, [key |-> Head(sorted).key,
                           list |-> Contents(First(Head(sorted).key))])
  /\ UNCHANGED <<wVars, rVars>>

\* clear(), when no thread uses the list: all links go back to the pool.
Clear ==
  /\ wpc = "idle" /\ rpc = "idle" /\ sorted = <<>> /\ dump # <<>>
  /\ PoolStep(0, SetToSeq(DOMAIN link))
  /\ bucket' = [i \in 0..Buckets - 1 |-> 0] /\ heads' = <<>> /\ link' = <<>>
  /\ readonly' = FALSE /\ count' = [k \in Keys |-> 0] /\ dump' = <<>>
  /\ UNCHANGED <<locked, wpc, wkey, ret, rVars, sorted>>

-----------------------------------------------------------------------------
Init ==
  /\ PoolInit
  /\ bucket = [i \in 0..Buckets - 1 |-> 0] /\ heads = <<>> /\ link = <<>>
  /\ readonly = FALSE /\ locked = FALSE /\ wpc = "idle" /\ wkey = 0
  /\ count = [k \in Keys |-> 0] /\ ret = "OK"
  /\ rpc = "idle" /\ rkey = 0 /\ rhead = 0 /\ rlink = Null /\ roff = 0
  /\ rbig = FALSE /\ rleft = 0 /\ res = <<>> /\ rfrom = 0 /\ rgrew = FALSE
  /\ sorted = <<>> /\ dump = <<>>

Set == (\E k \in Keys : SetCall(k)) \/ CopyData \/ CopyUsed \/ WriteLock \/ Merge \/ MergeEnds
         \/ AddLink \/ AddHead
Get == (\E k \in Keys, n \in Lens : GetCall(k, n)) \/ GetLock \/ GetOffset \/ GetCompare
         \/ GetCopy \/ GetEnds \/ GetReturned
Dump == Begin \/ ItNext \/ Clear

Next == Set \/ Get \/ Dump

Spec == Init /\ [][Next]_vars

-----------------------------------------------------------------------------
(***************************************************************************)
(* Properties                                                              *)
(***************************************************************************)
\* Types of the variables.
TypeOK ==
  /\ bucket \in [0..Buckets - 1 -> 0..Len(heads)]
  /\ \A i \in DOMAIN heads :
       heads[i].key \in Keys /\ heads[i].next \in 0..i - 1 /\ heads[i].link \in DOMAIN link
  /\ \A b \in DOMAIN link :
       link[b].next \in DOMAIN link \cup {Null} /\ Room(link[b]) >= 0
         /\ Len(link[b].cells) \in {link[b].used, link[b].used + 1}
  /\ readonly \in BOOLEAN /\ locked \in BOOLEAN /\ rbig \in BOOLEAN /\ rgrew \in BOOLEAN
  /\ wpc \in {"idle", "copy", "used", "lock", "merge", "newlink", "newhead"}
  /\ ret \in {"OK", "NEARLY_FULL", "FULL"}
  /\ rpc \in {"idle", "lock", "link", "cond", "take", "done"}
  /\ wkey \in Keys \cup {0} /\ rkey \in Keys \cup {0} /\ \A k \in Keys : count[k] \in 0..MaxSets[k]
  /\ rhead \in 0..HeadMax /\ rleft \in Nat \cup {-1} /\ rfrom \in Nat

\* The blocks on the stacks.
OnStacks == UNION {Range(stack[c]) : c \in Cats}

\* The variables have their types; the blocks of the pool are in the chains or on their
\* stacks, none twice and none lost, and a block from malloc is in a chain: over merges,
\* dumps and clears nothing leaks.
PoolSound ==
  /\ TypeOK
  /\ \A c \in Cats : IsInjective(stack[c]) /\ \A i \in DOMAIN stack[c] : stack[c][i][1] = c
  /\ PoolBlocks = OnStacks \cup (DOMAIN link \ extra)
  /\ \A c \in Cats : Range(stack[c]) \cap DOMAIN link = {}
  /\ extra \subseteq DOMAIN link

\* Along a chain the links get no smaller and only the first has room for a posting; when
\* nothing can be merged the first is smaller than the second (the assertion in set).
ChainShape ==
  /\ \A b \in DOMAIN link : link[b].next # Null =>
       /\ link[b].self <= link[link[b].next].self
       /\ Room(link[link[b].next]) < CellSize
  /\ wpc = "newlink" => LET l == link[First(wkey)]
                         IN l.next # Null => l.self < link[l.next].self

\* Every posting set is there, newest first, whatever was merged, in a chain of that shape.
ListsComplete ==
  /\ ChainShape
  /\ wpc = "idle" => \A i \in DOMAIN heads :
       Contents(heads[i].link) = [n \in 1..count[heads[i].key] |-> count[heads[i].key] + 1 - n]

\* A get finds no link that went back to the pool: merging waits for it.
NoFreedLink == rpc \in {"link", "cond", "take"} /\ rlink # Null => rlink \in DOMAIN link

\* An answer is a run of postings, newest first, that begins with one that was the newest
\* during the get, and ends with the first one or where the buffer ends, which is never
\* overrun - unless the first link grew between the reads of its used_size.
AnswerRuns ==
  ~rgrew =>
    /\ rleft # -1
    /\ rpc = "done" =>
         /\ \A i \in 1..Len(res) - 1 : res[i + 1] = res[i] - 1
         /\ res # <<>> => res[1] \in rfrom..count[rkey]
         /\ res # <<>> /\ rleft # 0 => Last(res) = 1
         /\ res = <<>> => rfrom = 0 \/ rleft = 0

\* The dump delivers every term once, ascending, with its whole list: the disk index depends
\* on the order.
DumpComplete ==
  (dump # <<>> /\ sorted = <<>>) =>
    /\ {dump[i].key : i \in DOMAIN dump} = {heads[i].key : i \in DOMAIN heads}
    /\ \A i \in DOMAIN dump :
         /\ i > 1 => dump[i - 1].key < dump[i].key
         /\ Len(dump[i].list) = count[dump[i].key]
=============================================================================
