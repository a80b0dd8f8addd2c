------------------------- MODULE PostingListProofs --------------------------
(***************************************************************************)
(* Theorems about the posting lists in memory, for any keys, buckets,      *)
(* blocks of the pool, cells and lengths of a buffer: the pool loses no    *)
(* block, every chain holds every posting of its term, a get meets no      *)
(* freed link and answers a run of postings, and the dump is complete.     *)
(*                                                                         *)
(* The invariant ListInv has four parts: the hash table, the chains and    *)
(* the pool (Struct), the lock and the position of the get (Lock), what    *)
(* the cells of a chain hold (Runs), and the sizes along it (Sizes).       *)
(* Reading and Dumping go on top of it.                                    *)
(***************************************************************************)
EXTENDS PostingList, SequenceTheorems, FiniteSetTheorems, WellFoundedInduction, TLAPS

\* Blocks, heads and links.
Blk == Nat \X Nat
HeadSet == [key : Keys, next : Nat, link : Blk]
LinkSet == [self : Nat \ {0}, used : Nat, next : Blk \cup {Null}, cells : Seq(Nat)]

\* The pool, for given stacks, blocks from malloc and blocks in use.
Pool(st, ex, D) ==
  /\ st \in [Cats -> Seq(PoolBlocks)]
  /\ \A c \in Cats : IsInjective(st[c]) /\ \A i \in DOMAIN st[c] : st[c][i][1] = c
  /\ D \ ex \subseteq PoolBlocks
  /\ \A x \in PoolBlocks : x \in D \/ \E c \in Cats : x \in Range(st[c])
  /\ \A c \in Cats : Range(st[c]) \cap D = {}
  /\ ex \subseteq D /\ IsFiniteSet(ex) /\ \A x \in ex : x \in {0} \X Nat

\* Find, for given heads.
FindIn(hs, k, o) ==
  LET from[i \in 0..Len(hs)] ==
        IF i = 0 THEN 0 ELSE IF hs[i].key = k THEN i ELSE from[hs[i].next]
  IN from[o]

\* The offset of a key's head, 0 if it has none.
SpotIn(hs, bk, k) == FindIn(hs, k, bk[Bucket(k)])

\* The update thread's head, and its first link.
MyHead == SpotIn(heads, bucket, wkey)
MyLink == heads[MyHead].link

\* The types of what the update thread writes.
Types ==
  /\ heads \in Seq(HeadSet) /\ Len(heads) <= HeadMax
  /\ \A i \in DOMAIN heads : heads[i].next < i
  /\ bucket \in [0..Buckets - 1 -> 0..Len(heads)]
  /\ link \in [DOMAIN link -> LinkSet] /\ DOMAIN link \subseteq Blk
  /\ count \in [Keys -> Nat] /\ \A k \in Keys : count[k] <= MaxSets[k]
  /\ wpc \in {"idle", "copy", "used", "lock", "merge", "newlink", "newhead"}
  /\ wkey \in Keys \cup {0}
  /\ wpc # "idle" => wkey \in Keys /\ count[wkey] < MaxSets[wkey]
  /\ ret \in {"OK", "NEARLY_FULL", "FULL"} /\ readonly \in BOOLEAN

\* The update thread holds on to a term that has a head.
Busy == wpc \in {"copy", "used", "lock", "merge", "newlink"}

\* Each term's head is found; the update thread holds on to its own.
Table ==
  /\ \A i \in DOMAIN heads : SpotIn(heads, bucket, heads[i].key) = i
  /\ \A k \in Keys : count[k] > 0 => SpotIn(heads, bucket, k) # 0
  /\ Busy => MyHead # 0
  /\ wpc = "newhead" => MyHead = 0 /\ Len(heads) < HeadMax

\* Some head or link leads to block b.
Owned(hs, ln, b) ==
  (\E i \in DOMAIN hs : hs[i].link = b) \/ (\E a \in DOMAIN ln : ln[a].next = b)

\* Every block in use is the first link of one head or the next one of one link.
Chains ==
  /\ \A i \in DOMAIN heads : heads[i].link \in DOMAIN link
  /\ \A b \in DOMAIN link : link[b].next \in DOMAIN link \cup {Null}
  /\ \A i, j \in DOMAIN heads : heads[i].link = heads[j].link => i = j
  /\ \A a, b \in DOMAIN link : link[a].next = link[b].next /\ link[a].next # Null => a = b
  /\ \A i \in DOMAIN heads : \A b \in DOMAIN link : heads[i].link # link[b].next
  /\ \A b \in DOMAIN link : Owned(heads, link, b)

\* y is x, doubled some number of times: every set with x that is closed under doubling has y.
Doubles(x, y) ==
  \A S \in SUBSET Nat : x \in S /\ (\A s \in S : 2 * s \in S) => y \in S

\* Sizes are the base size doubled; along a chain they do not shrink, from the second link on
\* they grow, and only the first link has room for a posting.
Sizes ==
  /\ \A b \in DOMAIN link : Room(link[b]) >= 0 /\ Doubles(Base, link[b].self)
  /\ \A b \in DOMAIN link : link[b].next # Null =>
       /\ Doubles(link[b].self, link[link[b].next].self)
       /\ Room(link[link[b].next]) < CellSize
  /\ \A a, b \in DOMAIN link : link[a].next = b /\ link[b].next # Null =>
       Doubles(2 * link[b].self, link[link[b].next].self)
  /\ wpc \in {"copy", "used"} => HasRoom(link[MyLink])
  /\ wpc \in {"lock", "merge", "newlink"} => ~HasRoom(link[MyLink])
  /\ wpc = "newlink" /\ link[MyLink].next # Null => link[link[MyLink].next].self # link[MyLink].self

\* The posting whose data is there and whose used_size is not: one of a term, and one of a link.
Pending(k) == IF wpc = "used" /\ wkey = k THEN 1 ELSE 0
Hidden(b) == IF wpc = "used" /\ MyLink = b THEN 1 ELSE 0

\* The first posting below those of link b, 0 if there is none.
Below(ln, b) == IF ln[b].next = Null THEN 0 ELSE ln[ln[b].next].cells[1]

\* Cells that begin, at the back, with posting f, and go on without a gap.
RunOf(c, f) == Len(c) >= 1 /\ \A j \in 1..Len(c) : c[j] = f + Len(c) - j

\* A link's cells go on from those of the next one, and used_size counts them; the first link's
\* newest is the last posting set.
Runs ==
  /\ \A b \in DOMAIN link : /\ RunOf(link[b].cells, Below(link, b) + 1)
                            /\ Len(link[b].cells) = link[b].used + Hidden(b) /\ link[b].used >= 1
  /\ \A i \in DOMAIN heads :
       link[heads[i].link].cells[1] = count[heads[i].key] + Pending(heads[i].key)

\* The lock keeps the merge and the gets apart, so that a get's link is in use.
Lock ==
  /\ locked = (wpc = "merge") /\ (locked => NoReaders)
  /\ rpc \in {"idle", "lock", "link", "cond", "take", "done"}
  /\ rhead \in 0..Len(heads) /\ (rpc = "idle" => rhead = 0)
  /\ rpc \in {"cond", "take"} => rlink # Null
  /\ rpc \in {"link", "cond", "take"} => rlink \in DOMAIN link \cup {Null}
  /\ rpc # "idle" => rkey \in Keys
  /\ rkey \in Keys \cup {0} /\ rfrom \in Nat /\ rbig \in BOOLEAN /\ rgrew \in BOOLEAN
  /\ rleft \in Nat \cup {-1} /\ (rpc = "take" /\ ~rbig => rleft # -1)
  /\ rpc \in {"cond", "take"} => rleft # 0

\* The newest posting of a link that its used_size shows.
Newest(b) == Below(link, b) + link[b].used

\* Postings in descending order, without a gap.
Down(r) == r \in Seq(Nat) /\ \A i \in 1..Len(r) - 1 : r[i + 1] = r[i] - 1

\* A get at link b: it is of the get's term, and goes on where the answer ends.
Meets(b) ==
  /\ \A i \in DOMAIN heads : heads[i].link = b => heads[i].key = rkey /\ (rleft # 0 => res = <<>>)
  /\ rleft # 0 => IF res = <<>> THEN Newest(b) \in rfrom..count[rkey]
                                ELSE res[Len(res)] = Newest(b) + 1

\* What a get has found so far, unless its link grew between two reads: a run of postings from
\* one that was the newest during the get, and the link it is at goes on where the run ends.
Reading ==
  /\ rpc \in {"idle", "lock"} => res = <<>> /\ rgrew = FALSE
  /\ rpc = "lock" => rfrom <= count[rkey] /\ (rfrom > 0 => FindIn(heads, rkey, rhead) # 0)
  /\ rpc \in {"link", "cond", "take"} /\ ~rgrew =>
       IF rlink # Null THEN Meets(rlink) ELSE rleft # 0 => res # <<>> /\ res[Len(res)] = 1
  /\ rpc \in {"cond", "take"} /\ ~rgrew => roff = link[rlink].used
  /\ rpc = "take" /\ ~rgrew => rbig = (rleft > link[rlink].used)
  /\ ~rgrew => /\ rleft # -1 /\ Down(res) /\ (res # <<>> => res[1] \in rfrom..count[rkey])
               /\ rpc = "done" /\ rleft # 0 => IF res = <<>> THEN rfrom = 0 ELSE res[Len(res)] = 1

\* The heads hs, every one once, by ascending key.
Ascending(s, hs) ==
  /\ s \in [1..Len(hs) -> Range(hs)]
  /\ \A i, j \in 1..Len(hs) : i < j => s[i].key < s[j].key

\* Of s the first ones are delivered, in order, and the others are to come.
Delivered(s, out, rest) ==
  /\ Len(out) + Len(rest) = Len(heads)
  /\ \A i \in 1..Len(out) : out[i].key = s[i].key
  /\ \A i \in 1..Len(rest) : rest[i] = s[i + Len(out)]

\* The iteration delivers the terms in one ascending order, the rest of it being to come.
Dumping ==
  /\ sorted \in Seq(HeadSet) /\ dump \in Seq([key : Keys, list : Seq(Nat)])
  /\ sorted # <<>> \/ dump # <<>> =>
       /\ readonly = TRUE /\ wpc = "idle"
       /\ \E s : Ascending(s, heads) /\ Delivered(s, dump, sorted)
  /\ \A i \in 1..Len(dump) : Len(dump[i].list) = count[dump[i].key]
-----------------------------------------------------------------------------
(***************************************************************************)
(* Numbers, blocks and finite sets.                                        *)
(***************************************************************************)
\* A set of natural numbers that is not empty has a least element.
LEMMA Least ==
  ASSUME NEW S \in SUBSET Nat, S # {}
  PROVE  \E x \in S : \A y \in S : x <= y
<1>1. PICK x \in S : \A y \in S : ~(<<y, x>> \in OpToRel(<, Nat))
  BY NatLessThanWellFounded, WFMin
<1>2. \A y \in S : ~(y < x)
  BY <1>1 DEF OpToRel
<1> QED
  BY <1>2

\* Induction over the natural numbers, for a set of them.
LEMMA Induction ==
  ASSUME NEW S, 0 \in S, \A n \in Nat : n \in S => n + 1 \in S
  PROVE  Nat \subseteq S
<1> DEFINE Bad == {n \in Nat : n \notin S}
<1> SUFFICES ASSUME Bad # {} PROVE FALSE
  OBVIOUS
<1>1. Bad \in SUBSET Nat
  OBVIOUS
<1>2. PICK x \in Bad : \A y \in Bad : x <= y
  <2> HIDE DEF Bad
  <2> QED
    BY <1>1, Least
<1>3. x \in Nat /\ x \notin S /\ x # 0
  OBVIOUS
<1>4. x - 1 \in Nat /\ ~(x <= x - 1)
  BY <1>3
<1>5. x - 1 \in S
  BY <1>2, <1>4
<1>6. (x - 1) + 1 \in S
  BY <1>4, <1>5
<1> QED
  BY <1>3, <1>6

\* The categories are numbered from 1; blocks of the pool carry their category.
LEMMA BlockFacts ==
  /\ Cats \subseteq Nat \ {0} /\ Null \notin Blk
  /\ \A x \in PoolBlocks : x \in Blk /\ x[1] \in Cats
  /\ \A x \in Blk : x # <<>>
<1>1. Counts \in Seq(Nat \ {0})
  BY PoolAssumption
<1>2. Cats = 1..Len(Counts) /\ Len(Counts) \in Nat
  BY <1>1 DEF Cats
<1>3. ASSUME NEW x \in PoolBlocks PROVE x \in Blk /\ x[1] \in Cats
  <2>1. PICK c \in Cats : x \in {<<c, n>> : n \in 1..Counts[c]}
    BY DEF PoolBlocks
  <2>2. PICK n \in 1..Counts[c] : x = <<c, n>>
    BY <2>1
  <2>3. Counts[c] \in Nat
    BY <1>1, <1>2
  <2> QED
    BY <1>2, <2>2, <2>3 DEF Blk
<1>4. \A x \in Blk : x # <<>>
  BY DEF Blk
<1> QED
  BY <1>2, <1>3, <1>4 DEF Null

\* An interval that begins with 1 has as many elements as it says.
LEMMA IntervalCard ==
  ASSUME NEW n \in Nat
  PROVE  IsFiniteSet(1..n) /\ Cardinality(1..n) = n
<1>1. 1 \in Int /\ n \in Int
  OBVIOUS
<1>2. IsFiniteSet(1..n) /\ Cardinality(1..n) = IF 1 > n THEN 0 ELSE n - 1 + 1
  BY <1>1, FS_Interval
<1> QED
  BY <1>2

\* malloc has a block that is not in use.
LEMMA MallocFinds ==
  ASSUME NEW ex, IsFiniteSet(ex)
  PROVE  \E n \in 1..Cardinality(ex) + 1 : <<0, n>> \notin ex
<1> SUFFICES ASSUME \A n \in 1..Cardinality(ex) + 1 : <<0, n>> \in ex PROVE FALSE
  OBVIOUS
<1>1. Cardinality(ex) \in Nat
  BY FS_CardinalityType
<1> DEFINE N == Cardinality(ex) + 1
<1>2. N \in Nat
  BY <1>1
<1> DEFINE f == [n \in 1..N |-> <<0, n>>]
<1>3. f \in [1..N -> ex] /\ \A a, b \in 1..N : f[a] = f[b] => a = b
  OBVIOUS
<1>4. f \in Injection(1..N, ex)
  BY <1>3 DEF Injection, IsInjective
<1>5. Cardinality(1..N) <= Cardinality(ex)
  <2> HIDE DEF f, N
  <2> QED
    BY <1>4, FS_Injection
<1>6. Cardinality(1..N) = N
  <2> HIDE DEF N
  <2> QED
    BY <1>2, IntervalCard
<1> QED
  BY <1>1, <1>5, <1>6

\* The first n categories have finitely many blocks.
FirstBlocks(n) == {x \in PoolBlocks : x[1] <= n}

\* The pool is finite.
LEMMA PoolFinite == IsFiniteSet(PoolBlocks)
<1>1. Counts \in Seq(Nat \ {0})
  BY PoolAssumption
<1>2. Cats = 1..Len(Counts) /\ Len(Counts) \in Nat
  BY <1>1 DEF Cats
<1> DEFINE S == {n \in Nat : IsFiniteSet(FirstBlocks(n))}
<1>3. 0 \in S
  <2>1. \A x \in PoolBlocks : x[1] \in Nat \ {0}
    BY BlockFacts
  <2>2. FirstBlocks(0) = {}
    BY <2>1 DEF FirstBlocks
  <2> QED
    BY <2>2, FS_EmptySet
<1>4. ASSUME NEW n \in Nat, n \in S PROVE n + 1 \in S
  <2>1. IsFiniteSet(FirstBlocks(n))
    BY <1>4
  <2>2. CASE n + 1 \in Cats
    <3> DEFINE N == Counts[n + 1]
               B == {<<n + 1, m>> : m \in 1..N}
               f == [m \in 1..N |-> <<n + 1, m>>]
    <3>1. N \in Nat
      BY <1>1, <1>2, <2>2
    <3>2. f \in Surjection(1..N, B)
      BY DEF Surjection
    <3>3. IsFiniteSet(1..N)
      <4> HIDE DEF N
      <4> QED
        BY <3>1, IntervalCard
    <3>4. IsFiniteSet(B)
      <4> HIDE DEF f, B, N
      <4> QED
        BY <3>2, <3>3, FS_Surjection
    <3>5. FirstBlocks(n + 1) \subseteq FirstBlocks(n) \cup B
      <4> SUFFICES ASSUME NEW x \in PoolBlocks, x[1] <= n + 1, ~(x[1] <= n) PROVE x \in B
        BY DEF FirstBlocks
      <4>1. PICK c \in Cats : x \in {<<c, m>> : m \in 1..Counts[c]}
        BY DEF PoolBlocks
      <4>2. PICK m \in 1..Counts[c] : x = <<c, m>>
        BY <4>1
      <4>3. c = n + 1
        BY <1>2, <4>2
      <4> QED
        BY <4>2, <4>3
    <3>6. IsFiniteSet(FirstBlocks(n) \cup B)
      <4> HIDE DEF B
      <4> QED
        BY <2>1, <3>4, FS_Union
    <3>7. IsFiniteSet(FirstBlocks(n + 1))
      <4> HIDE DEF B
      <4> QED
        BY <3>5, <3>6, FS_Subset
    <3> QED
      BY <3>7
  <2>3. CASE n + 1 \notin Cats
    <3>1. FirstBlocks(n + 1) \subseteq FirstBlocks(n)
      BY <1>2, <2>3, BlockFacts DEF FirstBlocks
    <3>2. IsFiniteSet(FirstBlocks(n + 1))
      BY <2>1, <3>1, FS_Subset
    <3> QED
      BY <3>2
  <2> QED
    BY <2>2, <2>3
<1>5. Nat \subseteq S
  <2> HIDE DEF S
  <2> QED
    BY <1>3, <1>4, Induction
<1>6. IsFiniteSet(FirstBlocks(Len(Counts)))
  BY <1>2, <1>5
<1>7. PoolBlocks \subseteq FirstBlocks(Len(Counts))
  BY <1>2, BlockFacts DEF FirstBlocks
<1> QED
  BY <1>6, <1>7, FS_Subset
-----------------------------------------------------------------------------
(***************************************************************************)
(* The pool: what AllocMem and FreeMem do to the stacks and the blocks in  *)
(* use.                                                                    *)
(***************************************************************************)
\* A stack without its top.
LEMMA TailRange ==
  ASSUME NEW T, NEW s \in Seq(T), s # <<>>, IsInjective(s)
  PROVE  /\ Tail(s) \in Seq(T) /\ IsInjective(Tail(s)) /\ Range(s) = Range(Tail(s)) \cup {Head(s)}
         /\ Head(s) \in T /\ Head(s) \notin Range(Tail(s)) /\ Head(s) = s[1]
         /\ \A i \in DOMAIN Tail(s) : i + 1 \in DOMAIN s /\ Tail(s)[i] = s[i + 1]
<1>1. /\ Tail(s) \in Seq(T) /\ Len(Tail(s)) = Len(s) - 1 /\ Len(s) \in Nat \ {0}
      /\ \A i \in 1..Len(Tail(s)) : Tail(s)[i] = s[i + 1]
      /\ Head(s) = s[1] /\ DOMAIN s = 1..Len(s) /\ DOMAIN Tail(s) = 1..Len(Tail(s))
  OBVIOUS
<1>2. \A i \in DOMAIN Tail(s) : i + 1 \in DOMAIN s /\ Tail(s)[i] = s[i + 1]
  BY <1>1
<1>3. IsInjective(Tail(s))
  BY <1>1, <1>2 DEF IsInjective
<1>4. 1 \in DOMAIN s
  BY <1>1
<1>5. Head(s) \notin Range(Tail(s))
  <2> SUFFICES ASSUME NEW i \in DOMAIN Tail(s), s[1] = Tail(s)[i] PROVE FALSE
    BY <1>1 DEF Range
  <2>1. i \in Nat /\ i >= 1
    BY <1>1
  <2>2. 1 = i + 1
    BY <1>2, <1>4 DEF IsInjective
  <2> QED
    BY <2>1, <2>2
<1>6. ASSUME NEW x \in Range(s) PROVE x \in Range(Tail(s)) \cup {Head(s)}
  <2>1. PICK i \in DOMAIN s : x = s[i]
    BY DEF Range
  <2>2. CASE i = 1
    BY <1>1, <2>1, <2>2
  <2>3. CASE i # 1
    <3>1. i - 1 \in DOMAIN Tail(s) /\ (i - 1) + 1 = i
      BY <1>1, <2>3
    <3>2. Tail(s)[i - 1] = s[i]
      BY <1>2, <3>1
    <3> QED
      BY <2>1, <3>1, <3>2 DEF Range
  <2> QED
    BY <2>2, <2>3
<1>7. Range(Tail(s)) \cup {Head(s)} \subseteq Range(s)
  BY <1>1, <1>2, <1>4 DEF Range
<1>8. Head(s) \in T
  BY <1>1
<1> QED
  BY <1>1, <1>2, <1>3, <1>5, <1>6, <1>7, <1>8

\* A stack with a new top.
LEMMA PushRange ==
  ASSUME NEW T, NEW s \in Seq(T), NEW x \in T, IsInjective(s), x \notin Range(s)
  PROVE  /\ <<x>> \o s \in Seq(T) /\ IsInjective(<<x>> \o s) /\ Range(<<x>> \o s) = Range(s) \cup {x}
         /\ \A i \in DOMAIN (<<x>> \o s) : (<<x>> \o s)[i] = x \/ \E j \in DOMAIN s : (<<x>> \o s)[i] = s[j]
<1> DEFINE t == <<x>> \o s
<1>1. /\ t \in Seq(T) /\ Len(t) = Len(s) + 1 /\ Len(s) \in Nat /\ t[1] = x
      /\ \A i \in 2..Len(s) + 1 : t[i] = s[i - 1]
      /\ DOMAIN s = 1..Len(s) /\ DOMAIN t = 1..Len(t)
  OBVIOUS
<1> HIDE DEF t
<1>2. \A i \in DOMAIN t : i = 1 \/ (i - 1 \in DOMAIN s /\ t[i] = s[i - 1])
  BY <1>1
<1>3. \A j \in DOMAIN s : s[j] # x
  BY DEF Range
<1>4. ASSUME NEW a \in DOMAIN t, NEW b \in DOMAIN t, t[a] = t[b] PROVE a = b
  <2>1. a \in Nat /\ b \in Nat
    BY <1>1
  <2>2. CASE a = 1
    BY <1>1, <1>2, <1>3, <1>4, <2>2
  <2>3. CASE b = 1
    BY <1>1, <1>2, <1>3, <1>4, <2>3
  <2>4. CASE a # 1 /\ b # 1
    <3>1. a - 1 = b - 1
      BY <1>2, <1>4, <2>4 DEF IsInjective
    <3> QED
      BY <2>1, <3>1
  <2> QED
    BY <2>2, <2>3, <2>4
<1>5. \A j \in DOMAIN s : j + 1 \in DOMAIN t /\ t[j + 1] = s[j]
  <2> TAKE j \in DOMAIN s
  <2>1. j \in Nat /\ j + 1 \in 2..Len(s) + 1 /\ (j + 1) - 1 = j
    BY <1>1
  <2> QED
    BY <1>1, <2>1
<1>6. Range(t) = Range(s) \cup {x}
  <2>1. 1 \in DOMAIN t
    BY <1>1
  <2> QED
    BY <1>1, <1>2, <1>5, <2>1 DEF Range
<1> QED
  BY <1>1, <1>2, <1>4, <1>6 DEF IsInjective, t

\* The stacks without block m.
Taken(st, m) == [c \in Cats |-> IF m[1] = c THEN Tail(st[c]) ELSE st[c]]

\* m is what AllocMem can return: the top of a stack, or new.
Free(st, ex, m) ==
  \/ m \in {0} \X Nat /\ m \notin ex
  \/ m[1] \in Cats /\ st[m[1]] # <<>> /\ m = Head(st[m[1]])

\* AllocMem returns a block that is not in use, and the pool stays sound.
LEMMA TakeKeeps ==
  ASSUME NEW st, NEW ex, NEW D, NEW m, Pool(st, ex, D), Free(st, ex, m)
  PROVE  /\ m \notin D /\ m \in Blk
         /\ Pool(Taken(st, m), IF m[1] = 0 THEN ex \cup {m} ELSE ex, D \cup {m})
<1>0. /\ st \in [Cats -> Seq(PoolBlocks)]
      /\ \A c \in Cats : IsInjective(st[c]) /\ \A i \in DOMAIN st[c] : st[c][i][1] = c
      /\ D \ ex \subseteq PoolBlocks
      /\ \A x \in PoolBlocks : x \in D \/ \E c \in Cats : x \in Range(st[c])
      /\ \A c \in Cats : Range(st[c]) \cap D = {}
      /\ ex \subseteq D /\ IsFiniteSet(ex) /\ \A x \in ex : x \in {0} \X Nat
  BY DEF Pool
<1>1. 0 \notin Cats
  BY BlockFacts
<1>a. \A y \in D : y \in ex \/ y \in PoolBlocks
  BY <1>0
<1>2. CASE m \in {0} \X Nat /\ m \notin ex
  <2>1. m[1] = 0 /\ m \in Blk
    BY <1>2 DEF Blk
  <2>2. m \notin PoolBlocks
    BY <1>1, <2>1, BlockFacts
  <2>3. m \notin D
    BY <1>a, <1>2, <2>2
  <2>4. Taken(st, m) = st
    BY <1>0, <1>1, <2>1 DEF Taken
  <2>5. IsFiniteSet(ex \cup {m})
    BY <1>0, FS_AddElement
  <2>6. (D \cup {m}) \ (ex \cup {m}) \subseteq PoolBlocks
    BY <1>0
  <2>7. \A c \in Cats : Range(st[c]) \cap (D \cup {m}) = {}
    <3>1. \A c \in Cats : Range(st[c]) \subseteq PoolBlocks
      BY <1>0 DEF Range
    <3> QED
      BY <1>0, <2>2, <3>1
  <2>8. Pool(st, ex \cup {m}, D \cup {m})
    BY <1>0, <1>2, <2>5, <2>6, <2>7 DEF Pool
  <2> QED
    BY <2>1, <2>3, <2>4, <2>8
<1>3. CASE m[1] \in Cats /\ st[m[1]] # <<>> /\ m = Head(st[m[1]])
  <2> DEFINE k == m[1]
             t == Taken(st, m)
  <2>1. k \in Cats /\ st[k] \in Seq(PoolBlocks) /\ st[k] # <<>> /\ IsInjective(st[k]) /\ m = Head(st[k]) /\ k # 0
    BY <1>0, <1>1, <1>3
  <2>2. /\ Tail(st[k]) \in Seq(PoolBlocks) /\ IsInjective(Tail(st[k]))
        /\ Range(st[k]) = Range(Tail(st[k])) \cup {m} /\ m \in PoolBlocks /\ m \notin Range(Tail(st[k]))
        /\ \A i \in DOMAIN Tail(st[k]) : i + 1 \in DOMAIN st[k] /\ Tail(st[k])[i] = st[k][i + 1]
    BY <2>1, TailRange
  <2>3. m \in Blk /\ m \notin D
    BY <1>0, <2>1, <2>2, BlockFacts
  <2>4. \A c \in Cats : c # k => t[c] = st[c]
    BY DEF Taken
  <2>5. t[k] = Tail(st[k]) /\ t \in [Cats -> Seq(PoolBlocks)]
    BY <1>0, <2>1, <2>2 DEF Taken
  <2> HIDE DEF t
  <2>6. ASSUME NEW c \in Cats
        PROVE  /\ IsInjective(t[c]) /\ \A i \in DOMAIN t[c] : t[c][i][1] = c
               /\ m \notin Range(t[c]) /\ Range(t[c]) \subseteq Range(st[c])
    <3>1. CASE c = k
      <4>1. \A i \in DOMAIN t[k] : t[k][i][1] = k
        BY <1>0, <2>1, <2>2, <2>5
      <4>2. IsInjective(t[k]) /\ m \notin Range(t[k]) /\ Range(t[k]) \subseteq Range(st[k])
        BY <2>2, <2>5
      <4> HIDE DEF k
      <4> QED
        BY <3>1, <4>1, <4>2
    <3>2. CASE c # k
      <4>1. \A x \in Range(st[c]) : x[1] = c
        BY <1>0 DEF Range
      <4> QED
        BY <1>0, <2>4, <3>2, <4>1
    <3> QED
      BY <3>1, <3>2
  <2>7. \A c \in Cats : Range(st[c]) \subseteq Range(t[c]) \cup {m}
    <3> HIDE DEF k
    <3> QED
      BY <2>1, <2>2, <2>4, <2>5
  <2>8. (D \cup {m}) \ ex \subseteq PoolBlocks
    BY <1>0, <2>2
  <2>9. \A y \in PoolBlocks : y \in D \cup {m} \/ \E c \in Cats : y \in Range(t[c])
    BY <1>0, <2>7
  <2>10. \A c \in Cats : Range(t[c]) \cap (D \cup {m}) = {}
    BY <1>0, <2>6
  <2>11. Pool(t, ex, D \cup {m})
    BY <1>0, <2>3, <2>5, <2>6, <2>8, <2>9, <2>10 DEF Pool
  <2> QED
    BY <2>1, <2>3, <2>11 DEF t
<1> QED
  BY <1>2, <1>3 DEF Free

\* FreeMem of a block in use keeps the pool sound.
LEMMA PushKeeps ==
  ASSUME NEW st, NEW ex, NEW D, NEW x \in D, Pool(st, ex, D)
  PROVE  Pool(Pushed(st, x), ex \ {y \in {x} : \A c \in Cats : ~BelongsTo(y, c)}, D \ {x})
<1>0. /\ st \in [Cats -> Seq(PoolBlocks)]
      /\ \A c \in Cats : IsInjective(st[c]) /\ \A i \in DOMAIN st[c] : st[c][i][1] = c
      /\ D \ ex \subseteq PoolBlocks
      /\ \A y \in PoolBlocks : y \in D \/ \E c \in Cats : y \in Range(st[c])
      /\ \A c \in Cats : Range(st[c]) \cap D = {}
      /\ ex \subseteq D /\ IsFiniteSet(ex) /\ \A y \in ex : y \in {0} \X Nat
  BY DEF Pool
<1>1. 0 \notin Cats
  BY BlockFacts
<1>a. \A y \in D : y \in ex \/ y \in PoolBlocks
  BY <1>0
<1>2. CASE x \in ex
  <2>1. x[1] = 0
    BY <1>0, <1>2
  <2>2. Pushed(st, x) = st
    BY <1>0, <1>1, <2>1 DEF Pushed, BelongsTo
  <2>3. {y \in {x} : \A c \in Cats : ~BelongsTo(y, c)} = {x}
    BY <1>1, <2>1 DEF BelongsTo
  <2>4. IsFiniteSet(ex \ {x})
    BY <1>0, FS_RemoveElement
  <2>5. (D \ {x}) \ (ex \ {x}) \subseteq PoolBlocks /\ x \notin PoolBlocks
    BY <1>0, <1>1, <1>2, <2>1, BlockFacts
  <2>6. Pool(st, ex \ {x}, D \ {x})
    BY <1>0, <2>4, <2>5 DEF Pool
  <2> QED
    BY <2>2, <2>3, <2>6
<1>3. CASE x \notin ex
  <2> DEFINE k == x[1]
             t == Pushed(st, x)
  <2>1. x \in PoolBlocks /\ k \in Cats
    BY <1>a, <1>3, BlockFacts
  <2>2. {y \in {x} : \A c \in Cats : ~BelongsTo(y, c)} = {}
    BY <2>1 DEF BelongsTo
  <2>3. x \notin Range(st[k]) /\ st[k] \in Seq(PoolBlocks) /\ IsInjective(st[k])
    BY <1>0, <2>1
  <2>4. /\ <<x>> \o st[k] \in Seq(PoolBlocks) /\ IsInjective(<<x>> \o st[k])
        /\ Range(<<x>> \o st[k]) = Range(st[k]) \cup {x}
        /\ \A i \in DOMAIN (<<x>> \o st[k]) :
             (<<x>> \o st[k])[i] = x \/ \E j \in DOMAIN st[k] : (<<x>> \o st[k])[i] = st[k][j]
    BY <2>1, <2>3, PushRange
  <2>5. t[k] = <<x>> \o st[k] /\ t \in [Cats -> Seq(PoolBlocks)] /\ \A c \in Cats : c # k => t[c] = st[c]
    BY <1>0, <2>1, <2>4 DEF Pushed, BelongsTo
  <2> HIDE DEF t
  <2>6. ASSUME NEW c \in Cats
        PROVE  /\ IsInjective(t[c]) /\ \A i \in DOMAIN t[c] : t[c][i][1] = c
               /\ Range(t[c]) \subseteq Range(st[c]) \cup {x} /\ Range(st[c]) \subseteq Range(t[c])
    <3>1. CASE c = k
      <4>1. \A j \in DOMAIN st[k] : st[k][j][1] = k
        BY <1>0, <2>1
      <4>2. \A i \in DOMAIN t[k] : t[k][i] = x \/ \E j \in DOMAIN st[k] : t[k][i] = st[k][j]
        BY <2>4, <2>5
      <4>3. \A i \in DOMAIN t[k] : t[k][i][1] = k
        BY <4>1, <4>2
      <4>4. IsInjective(t[k]) /\ Range(t[k]) = Range(st[k]) \cup {x}
        BY <2>4, <2>5
      <4> HIDE DEF k
      <4> QED
        BY <3>1, <4>3, <4>4
    <3>2. CASE c # k
      BY <1>0, <2>5, <3>2
    <3> QED
      BY <3>1, <3>2
  <2>7. x \in Range(t[k])
    BY <2>4, <2>5
  <2>8. (D \ {x}) \ ex \subseteq PoolBlocks
    BY <1>0
  <2>9. \A y \in PoolBlocks : y \in D \ {x} \/ \E c \in Cats : y \in Range(t[c])
    <3> HIDE DEF k
    <3> QED
      BY <1>0, <2>1, <2>6, <2>7
  <2>10. \A c \in Cats : Range(t[c]) \cap (D \ {x}) = {}
    BY <1>0, <2>6
  <2>11. Pool(t, ex, D \ {x})
    BY <1>0, <1>3, <2>5, <2>6, <2>8, <2>9, <2>10 DEF Pool
  <2>12. ex \ {} = ex
    OBVIOUS
  <2> QED
    BY <2>2, <2>11, <2>12 DEF t
<1> QED
  BY <1>2, <1>3

\* One FreeMem after the other.
FreeStep(st, freed, f, i) == IF i = 0 THEN st ELSE Pushed(f[i - 1], freed[i])

\* PushedAll is what its recursion says.
LEMMA PushedAllIs ==
  ASSUME NEW st, NEW freed, Len(freed) \in Nat
  PROVE  \E f : PushedAll(st, freed) = f[Len(freed)]
                  /\ \A i \in 0..Len(freed) : f[i] = FreeStep(st, freed, f, i)
<1> DEFINE S == {n \in Nat : \E f : \A i \in 0..n : f[i] = FreeStep(st, freed, f, i)}
<1>1. 0 \in S
  <2> DEFINE f == [i \in 0..0 |-> st]
  <2>1. \A i \in 0..0 : f[i] = FreeStep(st, freed, f, i)
    BY DEF FreeStep
  <2> QED
    BY <2>1
<1>2. ASSUME NEW n \in Nat, n \in S PROVE n + 1 \in S
  <2>1. PICK f : \A i \in 0..n : f[i] = FreeStep(st, freed, f, i)
    BY <1>2
  <2> DEFINE g == [i \in 0..n + 1 |-> IF i <= n THEN f[i] ELSE FreeStep(st, freed, f, n + 1)]
  <2>2. ASSUME NEW i \in 0..n + 1 PROVE g[i] = FreeStep(st, freed, g, i)
    <3>1. i # 0 => g[i - 1] = f[i - 1]
      OBVIOUS
    <3>2. FreeStep(st, freed, g, i) = FreeStep(st, freed, f, i)
      BY <3>1 DEF FreeStep
    <3>3. CASE i <= n
      BY <2>1, <3>2, <3>3
    <3>4. CASE i = n + 1
      BY <3>2, <3>4
    <3> QED
      BY <3>3, <3>4
  <2> HIDE DEF g
  <2> QED
    BY <2>2
<1>3. Nat \subseteq S
  <2> HIDE DEF S
  <2> QED
    BY <1>1, <1>2, Induction
<1>4. PICK f : \A i \in 0..Len(freed) : f[i] = FreeStep(st, freed, f, i)
  BY <1>3
<1> DEFINE g == [i \in 0..Len(freed) |-> f[i]]
           F == CHOOSE h : h = [i \in 0..Len(freed) |-> IF i = 0 THEN st ELSE Pushed(h[i - 1], freed[i])]
<1>5. g = [i \in 0..Len(freed) |-> IF i = 0 THEN st ELSE Pushed(g[i - 1], freed[i])]
  <2>1. ASSUME NEW i \in 0..Len(freed) PROVE g[i] = IF i = 0 THEN st ELSE Pushed(g[i - 1], freed[i])
    <3>1. i # 0 => g[i - 1] = f[i - 1]
      OBVIOUS
    <3> QED
      BY <1>4, <3>1 DEF FreeStep
  <2> QED
    BY <2>1
<1>6. F = [i \in 0..Len(freed) |-> IF i = 0 THEN st ELSE Pushed(F[i - 1], freed[i])]
  <2> HIDE DEF g
  <2> QED
    BY <1>5
<1>7. PushedAll(st, freed) = F[Len(freed)]
  BY DEF PushedAll
<1> HIDE DEF F
<1>8. \A i \in 0..Len(freed) : F[i] = FreeStep(st, freed, F, i)
  BY <1>6 DEF FreeStep
<1> QED
  BY <1>7, <1>8

\* FreeMem of different blocks in use keeps the pool sound.
LEMMA PushAllKeeps ==
  ASSUME NEW st, NEW ex, NEW D, Pool(st, ex, D), NEW freed \in Seq(D), IsInjective(freed)
  PROVE  Pool(PushedAll(st, freed), ex \ {x \in Range(freed) : \A c \in Cats : ~BelongsTo(x, c)},
              D \ Range(freed))
<1>1. Len(freed) \in Nat /\ DOMAIN freed = 1..Len(freed) /\ \A i \in 1..Len(freed) : freed[i] \in D
  OBVIOUS
<1>2. PICK f : /\ PushedAll(st, freed) = f[Len(freed)]
               /\ \A i \in 0..Len(freed) : f[i] = FreeStep(st, freed, f, i)
  BY <1>1, PushedAllIs
<1> DEFINE Upto(n) == {freed[j] : j \in 1..n}
           Gone(n) == {x \in Upto(n) : \A c \in Cats : ~BelongsTo(x, c)}
           S == {n \in Nat : n <= Len(freed) => Pool(f[n], ex \ Gone(n), D \ Upto(n))}
<1>3. 0 \in S
  <2>1. f[0] = st
    BY <1>1, <1>2 DEF FreeStep
  <2>2. Upto(0) = {} /\ Gone(0) = {}
    OBVIOUS
  <2>3. ex \ Gone(0) = ex /\ D \ Upto(0) = D
    BY <2>2
  <2> QED
    BY <2>1, <2>3
<1>4. ASSUME NEW n \in Nat, n \in S PROVE n + 1 \in S
  <2> SUFFICES ASSUME n + 1 <= Len(freed) PROVE Pool(f[n + 1], ex \ Gone(n + 1), D \ Upto(n + 1))
    OBVIOUS
  <2>1. Pool(f[n], ex \ Gone(n), D \ Upto(n))
    BY <1>1, <1>4
  <2> DEFINE x == freed[n + 1]
  <2>2. f[n + 1] = Pushed(f[n], x)
    <3>1. n + 1 \in 0..Len(freed) /\ n + 1 # 0 /\ (n + 1) - 1 = n
      BY <1>1
    <3> QED
      BY <1>2, <3>1 DEF FreeStep
  <2>3. x \in D \ Upto(n)
    <3>1. n + 1 \in 1..Len(freed)
      BY <1>1
    <3>2. ASSUME NEW j \in 1..n, freed[j] = x PROVE FALSE
      <4>1. j \in 1..Len(freed)
        BY <1>1
      <4>2. j = n + 1
        BY <1>1, <3>1, <3>2, <4>1 DEF IsInjective
      <4> QED
        BY <4>2
    <3> QED
      BY <1>1, <3>1, <3>2
  <2>4. Pool(Pushed(f[n], x), (ex \ Gone(n)) \ {y \in {x} : \A c \in Cats : ~BelongsTo(y, c)},
             (D \ Upto(n)) \ {x})
    <3> HIDE DEF x, Upto, Gone
    <3> QED
      BY <2>1, <2>3, PushKeeps
  <2>5. Upto(n + 1) = Upto(n) \cup {x}
    <3>1. 1..n + 1 = (1..n) \cup {n + 1}
      OBVIOUS
    <3> QED
      BY <3>1
  <2>6. Gone(n + 1) = Gone(n) \cup {y \in {x} : \A c \in Cats : ~BelongsTo(y, c)}
    <3> HIDE DEF x, Upto
    <3> QED
      BY <2>5
  <2>7. /\ ex \ Gone(n + 1) = (ex \ Gone(n)) \ {y \in {x} : \A c \in Cats : ~BelongsTo(y, c)}
        /\ D \ Upto(n + 1) = (D \ Upto(n)) \ {x}
    <3> HIDE DEF x, Upto, Gone
    <3> QED
      BY <2>5, <2>6
  <2> QED
    BY <2>2, <2>4, <2>7
<1>5. Nat \subseteq S
  <2> HIDE DEF S
  <2> QED
    BY <1>3, <1>4, Induction
<1>6. Pool(f[Len(freed)], ex \ Gone(Len(freed)), D \ Upto(Len(freed)))
  <2>1. Len(freed) \in S
    <3> HIDE DEF S
    <3> QED
      BY <1>1, <1>5
  <2> HIDE DEF Upto, Gone
  <2> QED
    BY <1>1, <2>1
<1>7. Upto(Len(freed)) = Range(freed)
  BY <1>1 DEF Range
<1>8. Gone(Len(freed)) = {x \in Range(freed) : \A c \in Cats : ~BelongsTo(x, c)}
  <2> HIDE DEF Upto
  <2> QED
    BY <1>7
<1> QED
  BY <1>2, <1>6, <1>7, <1>8

\* What AllocMem returns was free.
LEMMA AllocatedFree ==
  ASSUME NEW D, Pool(stack, extra, D), NEW size
  PROVE  Free(stack, extra, Allocated(size))
<1>1. CASE From(size) # {}
  <2> DEFINE c == CHOOSE x \in From(size) : TRUE
  <2>1. c \in From(size)
    BY <1>1
  <2>2. Allocated(size) = Head(stack[c])
    BY <1>1 DEF Allocated
  <2> HIDE DEF c
  <2>3. c \in Cats /\ stack[c] # <<>>
    BY <2>1 DEF From
  <2>4. stack[c] \in Seq(PoolBlocks) /\ \A i \in DOMAIN stack[c] : stack[c][i][1] = c
    BY <2>3 DEF Pool
  <2>5. 1 \in DOMAIN stack[c] /\ Head(stack[c]) = stack[c][1]
    BY <2>3, <2>4
  <2>6. Allocated(size)[1] = c
    BY <2>2, <2>4, <2>5
  <2> QED
    BY <2>2, <2>3, <2>6 DEF Free
<1>2. CASE From(size) = {}
  <2>1. IsFiniteSet(extra)
    BY DEF Pool
  <2> DEFINE n == CHOOSE n \in 1..Cardinality(extra) + 1 : <<0, n>> \notin extra
  <2>2. n \in 1..Cardinality(extra) + 1 /\ <<0, n>> \notin extra
    BY <2>1, MallocFinds
  <2>3. Allocated(size) = <<0, n>>
    BY <1>2 DEF Allocated
  <2> HIDE DEF n
  <2>4. Cardinality(extra) \in Nat
    BY <2>1, FS_CardinalityType
  <2> QED
    BY <2>2, <2>3, <2>4 DEF Free
<1> QED
  BY <1>1, <1>2

\* AllocMem and then FreeMem of some blocks in use.
LEMMA StepAllocates ==
  ASSUME NEW D, Pool(stack, extra, D), NEW size, size # 0, NEW m, m = Allocated(size),
         NEW freed \in Seq(D), IsInjective(freed), PoolStep(size, freed)
  PROVE  /\ m \notin D /\ m \in Blk
         /\ Pool(stack', extra', (D \cup {m}) \ Range(freed))
<1>1. Free(stack, extra, m)
  BY AllocatedFree
<1> DEFINE ex == IF m[1] = 0 THEN extra \cup {m} ELSE extra
<1>2. /\ m \notin D /\ m \in Blk
      /\ Pool(Taken(stack, m), ex, D \cup {m})
  BY <1>1, TakeKeeps
<1>3. m # <<>>
  BY <1>2, BlockFacts
<1>4. /\ stack' = PushedAll(Taken(stack, m), freed)
      /\ extra' = ex \ {x \in Range(freed) : \A c \in Cats : ~BelongsTo(x, c)}
  BY <1>3 DEF PoolStep, Taken
<1>5. freed \in Seq(D \cup {m})
  OBVIOUS
<1> HIDE DEF ex
<1>6. Pool(PushedAll(Taken(stack, m), freed),
           ex \ {x \in Range(freed) : \A c \in Cats : ~BelongsTo(x, c)}, (D \cup {m}) \ Range(freed))
  BY <1>2, <1>5, PushAllKeeps
<1> QED
  BY <1>2, <1>4, <1>6

\* FreeMem of some blocks in use.
LEMMA StepFrees ==
  ASSUME NEW D, Pool(stack, extra, D), NEW freed \in Seq(D), IsInjective(freed), PoolStep(0, freed)
  PROVE  Pool(stack', extra', D \ Range(freed))
<1>1. [c \in Cats |-> stack[c]] = stack
  BY DEF Pool
<1>2. /\ stack' = PushedAll(stack, freed)
      /\ extra' = extra \ {x \in Range(freed) : \A c \in Cats : ~BelongsTo(x, c)}
  BY <1>1 DEF PoolStep
<1> QED
  BY <1>2, PushAllKeeps

\* At the beginning all blocks of the pool are on their stacks.
LEMMA PoolBegins == PoolInit => Pool(stack, extra, {})
<1> SUFFICES ASSUME PoolInit PROVE Pool(stack, extra, {})
  OBVIOUS
<1>1. stack = [c \in Cats |-> [n \in 1..Counts[c] |-> <<c, Counts[c] - n + 1>>]] /\ extra = {}
  BY DEF PoolInit
<1>2. \A c \in Cats : Counts[c] \in Nat
  BY PoolAssumption DEF Cats
<1>3. ASSUME NEW c \in Cats
      PROVE  /\ stack[c] \in Seq(PoolBlocks) /\ IsInjective(stack[c])
             /\ \A i \in DOMAIN stack[c] : stack[c][i][1] = c
             /\ {<<c, n>> : n \in 1..Counts[c]} \subseteq Range(stack[c])
  <2> DEFINE N == Counts[c]
             s == [n \in 1..N |-> <<c, N - n + 1>>]
  <2>1. N \in Nat /\ stack[c] = s
    BY <1>1, <1>2
  <2>2. \A n \in 1..N : <<c, n>> \in PoolBlocks
    BY DEF PoolBlocks
  <2>3. s \in [1..N -> PoolBlocks]
    <3>1. \A n \in 1..N : N - n + 1 \in 1..N
      BY <2>1
    <3> QED
      BY <2>2, <3>1
  <2>4. s \in Seq(PoolBlocks)
    <3> HIDE DEF s, N
    <3> QED
      BY <2>1, <2>3
  <2>5. IsInjective(s)
    BY <2>1 DEF IsInjective
  <2>6. \A i \in DOMAIN s : s[i][1] = c
    OBVIOUS
  <2>7. ASSUME NEW n \in 1..N PROVE <<c, n>> \in Range(s)
    <3>1. N - n + 1 \in 1..N /\ N - (N - n + 1) + 1 = n
      BY <2>1
    <3>2. s[N - n + 1] = <<c, n>>
      BY <3>1
    <3> QED
      BY <3>1, <3>2 DEF Range
  <2> HIDE DEF s
  <2> QED
    BY <2>1, <2>4, <2>5, <2>6, <2>7
<1>4. \A x \in PoolBlocks : \E c \in Cats : x \in Range(stack[c])
  <2> SUFFICES ASSUME NEW c \in Cats, NEW n \in 1..Counts[c] PROVE <<c, n>> \in Range(stack[c])
    BY DEF PoolBlocks
  <2> QED
    BY <1>3
<1>5. stack \in [Cats -> Seq(PoolBlocks)]
  BY <1>1, <1>3
<1>6. IsFiniteSet({})
  BY FS_EmptySet
<1> QED
  BY <1>1, <1>3, <1>4, <1>5, <1>6 DEF Pool
-----------------------------------------------------------------------------
(***************************************************************************)
(* The search for a term.                                                  *)
(***************************************************************************)
\* Every head leads to an earlier one.
Backward(hs) == Len(hs) \in Nat /\ \A i \in 1..Len(hs) : hs[i].next \in 0..i - 1

\* One step of FindIn's function f.
FindStep(hs, k, f, i) == IF i = 0 THEN 0 ELSE IF hs[i].key = k THEN i ELSE f[hs[i].next]

\* FindIn is what its recursion says.
LEMMA FindInStep ==
  ASSUME NEW hs, Backward(hs), NEW k
  PROVE  \E f : /\ \A o \in 0..Len(hs) : FindIn(hs, k, o) = f[o]
                /\ \A i \in 0..Len(hs) : f[i] = FindStep(hs, k, f, i)
<1>0. Len(hs) \in Nat /\ \A i \in 1..Len(hs) : hs[i].next \in 0..i - 1
  BY DEF Backward
<1> DEFINE S == {n \in Nat : \E f : \A i \in 0..Len(hs) : i <= n => f[i] = FindStep(hs, k, f, i)}
<1>1. 0 \in S
  <2> DEFINE f == [i \in 0..Len(hs) |-> 0]
  <2>1. \A i \in 0..Len(hs) : i <= 0 => f[i] = FindStep(hs, k, f, i)
    BY <1>0 DEF FindStep
  <2> QED
    BY <2>1
<1>2. ASSUME NEW n \in Nat, n \in S PROVE n + 1 \in S
  <2>1. PICK f : \A i \in 0..Len(hs) : i <= n => f[i] = FindStep(hs, k, f, i)
    BY <1>2
  <2> DEFINE g == [i \in 0..Len(hs) |-> IF i <= n THEN f[i] ELSE FindStep(hs, k, f, i)]
  <2>2. ASSUME NEW i \in 0..Len(hs), i <= n + 1 PROVE g[i] = FindStep(hs, k, g, i)
    <3>1. CASE i = 0
      BY <2>1, <3>1 DEF FindStep
    <3>2. CASE i # 0
      <4>1. i \in 1..Len(hs)
        BY <1>0, <3>2
      <4>2. hs[i].next \in 0..i - 1
        BY <1>0, <4>1
      <4>3. hs[i].next \in 0..Len(hs) /\ hs[i].next <= n
        BY <1>0, <2>2, <4>1, <4>2
      <4>4. g[hs[i].next] = f[hs[i].next]
        BY <4>3
      <4>5. g[i] = FindStep(hs, k, f, i)
        BY <2>1, <2>2
      <4> HIDE DEF g
      <4> QED
        BY <4>4, <4>5 DEF FindStep
    <3> QED
      BY <3>1, <3>2
  <2> HIDE DEF g
  <2> QED
    BY <2>2
<1>3. Nat \subseteq S
  <2> HIDE DEF S
  <2> QED
    BY <1>1, <1>2, Induction
<1>4. PICK f : \A i \in 0..Len(hs) : f[i] = FindStep(hs, k, f, i)
  <2>1. Len(hs) \in S
    <3> HIDE DEF S
    <3> QED
      BY <1>0, <1>3
  <2>2. PICK f : \A i \in 0..Len(hs) : i <= Len(hs) => f[i] = FindStep(hs, k, f, i)
    BY <2>1
  <2>3. \A i \in 0..Len(hs) : f[i] = FindStep(hs, k, f, i)
    BY <1>0, <2>2
  <2> QED
    BY <2>3
<1> DEFINE g == [i \in 0..Len(hs) |-> f[i]]
           F == CHOOSE h : h = [i \in 0..Len(hs) |->
                                  IF i = 0 THEN 0 ELSE IF hs[i].key = k THEN i ELSE h[hs[i].next]]
<1>5. ASSUME NEW i \in 0..Len(hs)
      PROVE  g[i] = IF i = 0 THEN 0 ELSE IF hs[i].key = k THEN i ELSE g[hs[i].next]
  <2>1. CASE i = 0
    BY <1>4, <2>1 DEF FindStep
  <2>2. CASE i # 0
    <3>1. i \in 1..Len(hs)
      BY <1>0, <2>2
    <3>2. hs[i].next \in 0..Len(hs)
      BY <1>0, <3>1
    <3>3. g[hs[i].next] = f[hs[i].next] /\ g[i] = f[i]
      BY <3>2
    <3> HIDE DEF g
    <3> QED
      BY <1>4, <2>2, <3>3 DEF FindStep
  <2> QED
    BY <2>1, <2>2
<1>6. g = [i \in 0..Len(hs) |-> IF i = 0 THEN 0 ELSE IF hs[i].key = k THEN i ELSE g[hs[i].next]]
  BY <1>5
<1>7. F = [i \in 0..Len(hs) |-> IF i = 0 THEN 0 ELSE IF hs[i].key = k THEN i ELSE F[hs[i].next]]
  <2> HIDE DEF g
  <2> QED
    BY <1>6
<1>8. \A o \in 0..Len(hs) : FindIn(hs, k, o) = F[o]
  BY DEF FindIn
<1> HIDE DEF F
<1>9. \A i \in 0..Len(hs) : F[i] = FindStep(hs, k, F, i)
  BY <1>7 DEF FindStep
<1> QED
  BY <1>8, <1>9

\* The search from an offset looks at its head and goes on.
LEMMA FindInIs ==
  ASSUME NEW hs, Backward(hs), NEW k, NEW o \in 0..Len(hs)
  PROVE  FindIn(hs, k, o) = IF o = 0 THEN 0 ELSE IF hs[o].key = k THEN o ELSE FindIn(hs, k, hs[o].next)
<1>1. PICK f : /\ \A i \in 0..Len(hs) : FindIn(hs, k, i) = f[i]
               /\ \A i \in 0..Len(hs) : f[i] = FindStep(hs, k, f, i)
  BY FindInStep
<1>2. CASE o = 0
  BY <1>1, <1>2 DEF FindStep
<1>3. CASE o # 0
  <2>1. o \in 1..Len(hs)
    BY <1>3 DEF Backward
  <2>2. hs[o].next \in 0..Len(hs)
    BY <2>1 DEF Backward
  <2> QED
    BY <1>1, <1>3, <2>2 DEF FindStep
<1> QED
  BY <1>2, <1>3

\* It ends at a head of the key, or at none.
LEMMA FindInRange ==
  ASSUME NEW hs, Backward(hs), NEW k, NEW o \in 0..Len(hs)
  PROVE  /\ FindIn(hs, k, o) \in 0..o
         /\ FindIn(hs, k, o) # 0 => hs[FindIn(hs, k, o)].key = k
<1> DEFINE Fine(i) == /\ FindIn(hs, k, i) \in 0..i
                      /\ FindIn(hs, k, i) # 0 => hs[FindIn(hs, k, i)].key = k
           Bad == {i \in Nat : i \in 0..Len(hs) /\ ~Fine(i)}
<1>1. Bad = {}
  <2> SUFFICES ASSUME Bad # {} PROVE FALSE
    OBVIOUS
  <2>1. Bad \in SUBSET Nat
    OBVIOUS
  <2>2. PICK x \in Bad : \A y \in Bad : x <= y
    <3> HIDE DEF Bad
    <3> QED
      BY <2>1, Least
  <2>3. x \in Nat /\ x \in 0..Len(hs) /\ ~Fine(x)
    BY <2>2
  <2>4. FindIn(hs, k, x) = IF x = 0 THEN 0 ELSE IF hs[x].key = k THEN x ELSE FindIn(hs, k, hs[x].next)
    BY <2>3, FindInIs
  <2>5. x # 0 /\ hs[x].key # k
    BY <2>3, <2>4
  <2>6. hs[x].next \in 0..x - 1 /\ Len(hs) \in Nat
    BY <2>3, <2>5 DEF Backward
  <2>7. hs[x].next \in Nat /\ hs[x].next \in 0..Len(hs) /\ ~(x <= hs[x].next)
    BY <2>3, <2>6
  <2>8. Fine(hs[x].next)
    BY <2>2, <2>7
  <2>9. FindIn(hs, k, x) = FindIn(hs, k, hs[x].next)
    BY <2>4, <2>5
  <2>10. \A n : n \in 0..hs[x].next => n \in 0..x
    BY <2>3, <2>6
  <2>11. Fine(x)
    BY <2>8, <2>9, <2>10
  <2> QED
    BY <2>3, <2>11
<1>2. o \in Nat
  BY DEF Backward
<1> QED
  BY <1>1, <1>2

\* It does not depend on later heads, nor on the links.
LEMMA FindInSame ==
  ASSUME NEW hs, NEW gs, Backward(hs), Backward(gs), NEW k, Len(hs) <= Len(gs),
         \A i \in 1..Len(hs) : gs[i].key = hs[i].key /\ gs[i].next = hs[i].next
  PROVE  \A o \in 0..Len(hs) : FindIn(gs, k, o) = FindIn(hs, k, o)
<1> DEFINE Bad == {i \in Nat : i \in 0..Len(hs) /\ FindIn(gs, k, i) # FindIn(hs, k, i)}
<1>0. Len(hs) \in Nat /\ Len(gs) \in Nat
  BY DEF Backward
<1>1. Bad = {}
  <2> SUFFICES ASSUME Bad # {} PROVE FALSE
    OBVIOUS
  <2>1. Bad \in SUBSET Nat
    OBVIOUS
  <2>2. PICK x \in Bad : \A y \in Bad : x <= y
    <3> HIDE DEF Bad
    <3> QED
      BY <2>1, Least
  <2>3. x \in Nat /\ x \in 0..Len(hs) /\ x \in 0..Len(gs) /\ FindIn(gs, k, x) # FindIn(hs, k, x)
    BY <1>0, <2>2
  <2>4. FindIn(hs, k, x) = IF x = 0 THEN 0 ELSE IF hs[x].key = k THEN x ELSE FindIn(hs, k, hs[x].next)
    BY <2>3, FindInIs
  <2>5. FindIn(gs, k, x) = IF x = 0 THEN 0 ELSE IF gs[x].key = k THEN x ELSE FindIn(gs, k, gs[x].next)
    BY <2>3, FindInIs
  <2>6. x # 0
    BY <2>3, <2>4, <2>5
  <2>7. gs[x].key = hs[x].key /\ gs[x].next = hs[x].next
    BY <2>3, <2>6
  <2>8. FindIn(gs, k, hs[x].next) # FindIn(hs, k, hs[x].next)
    BY <2>3, <2>4, <2>5, <2>6, <2>7
  <2>9. hs[x].next \in 0..x - 1
    BY <2>3, <2>6 DEF Backward
  <2>10. hs[x].next \in Nat /\ hs[x].next \in 0..Len(hs) /\ ~(x <= hs[x].next)
    BY <1>0, <2>3, <2>9
  <2>11. hs[x].next \in Bad
    BY <2>8, <2>10
  <2> HIDE DEF Bad
  <2> QED
    BY <2>2, <2>10, <2>11
<1>2. \A o \in 0..Len(hs) : o \in Nat
  BY <1>0
<1> QED
  BY <1>1, <1>2

\* The model's Find is this one.
LEMMA FindIsFindIn == \A k, o : Find(k, o) = FindIn(heads, k, o)
  BY DEF Find, FindIn

-----------------------------------------------------------------------------
(***************************************************************************)
(* The sizes of links.                                                     *)
(***************************************************************************)
\* Doubling comes back to itself, goes on, and makes nothing smaller.
LEMMA DoublesFacts ==
  /\ \A x : Doubles(x, x)
  /\ \A x, y \in Nat : Doubles(x, y) => Doubles(x, 2 * y) /\ x <= y
  /\ \A x, y \in Nat : Doubles(x, y) /\ x # y => Doubles(2 * x, y)
<1>1. \A x : Doubles(x, x)
  BY DEF Doubles
<1>2. ASSUME NEW x \in Nat, NEW y \in Nat, Doubles(x, y) PROVE Doubles(x, 2 * y)
  BY <1>2 DEF Doubles
<1>3. ASSUME NEW x \in Nat, NEW y \in Nat, Doubles(x, y) PROVE x <= y
  <2> DEFINE S == {n \in Nat : x <= n}
  <2>1. S \in SUBSET Nat /\ x \in S /\ \A s \in S : 2 * s \in S
    OBVIOUS
  <2>2. y \in S
    <3> HIDE DEF S
    <3> QED
      BY <1>3, <2>1 DEF Doubles
  <2> QED
    BY <2>2
<1>4. ASSUME NEW x \in Nat, NEW y \in Nat, Doubles(x, y), x # y PROVE Doubles(2 * x, y)
  <2> SUFFICES ASSUME NEW S \in SUBSET Nat, 2 * x \in S, \A s \in S : 2 * s \in S PROVE y \in S
    BY DEF Doubles
  <2> DEFINE R == S \cup {x}
  <2>1. R \in SUBSET Nat /\ x \in R /\ \A s \in R : 2 * s \in R
    OBVIOUS
  <2>2. y \in R
    <3> HIDE DEF R
    <3> QED
      BY <1>4, <2>1 DEF Doubles
  <2> QED
    BY <1>4, <2>2
<1> QED
  BY <1>1, <1>2, <1>3, <1>4
-----------------------------------------------------------------------------
(***************************************************************************)
(* The update thread's head and links.                                     *)
(***************************************************************************)
\* The constants are numbers.
LEMMA ConstantFacts ==
  /\ Base \in Nat \ {0} /\ CellSize \in Nat \ {0} /\ LinkHead \in Nat /\ Base >= CellSize + LinkHead
  /\ \A k \in Keys : k \in Nat \ {0} /\ Bucket(k) \in 0..Buckets - 1
  /\ 0 \notin Keys /\ Buckets \in Nat \ {0} /\ HeadMax \in Nat
<1>1. /\ Base \in Nat \ {0} /\ CellSize \in Nat \ {0} /\ LinkHead \in Nat /\ Base >= 4 * CellSize + LinkHead
      /\ Keys \subseteq Nat \ {0} /\ Buckets \in Nat \ {0} /\ HeadMax \in Nat
  BY PoolAssumption, ListAssumption
<1>2. \A k \in Keys : Bucket(k) \in 0..Buckets - 1
  BY <1>1 DEF Bucket
<1> QED
  BY <1>1, <1>2

\* The heads, one by one.
LEMMA HeadFacts ==
  ASSUME Types
  PROVE  /\ Len(heads) \in Nat /\ DOMAIN heads = 1..Len(heads) /\ Backward(heads)
         /\ \A i \in DOMAIN heads : heads[i] \in HeadSet
         /\ \A k \in Keys : bucket[Bucket(k)] \in 0..Len(heads)
<1>1. /\ heads \in Seq(HeadSet) /\ \A i \in DOMAIN heads : heads[i].next < i
      /\ bucket \in [0..Buckets - 1 -> 0..Len(heads)]
  BY DEF Types
<1>2. Len(heads) \in Nat /\ DOMAIN heads = 1..Len(heads) /\ \A i \in DOMAIN heads : heads[i] \in HeadSet
  BY <1>1
<1>3. \A i \in 1..Len(heads) : heads[i].next \in 0..i - 1
  BY <1>1, <1>2 DEF HeadSet
<1>4. \A k \in Keys : bucket[Bucket(k)] \in 0..Len(heads)
  BY <1>1, ConstantFacts
<1> QED
  BY <1>2, <1>3, <1>4 DEF Backward

\* First, said with the head.
LEMMA FirstIs ==
  /\ \A k : First(k) = heads[SpotIn(heads, bucket, k)].link
  /\ \A k : Find(k, bucket[Bucket(k)]) = SpotIn(heads, bucket, k)
  /\ First(wkey) = MyLink /\ Find(wkey, bucket[Bucket(wkey)]) = MyHead
<1>1. \A k : Find(k, bucket[Bucket(k)]) = SpotIn(heads, bucket, k)
  BY FindIsFindIn DEF SpotIn
<1>2. \A k : First(k) = heads[SpotIn(heads, bucket, k)].link
  BY <1>1 DEF First
<1> QED
  BY <1>1, <1>2 DEF MyLink, MyHead

\* The head of the term that the update thread sets.
LEMMA MyFacts ==
  ASSUME Types, Table, Chains, Busy
  PROVE  /\ MyHead \in DOMAIN heads /\ heads[MyHead].key = wkey /\ wkey \in Keys
         /\ MyLink \in DOMAIN link /\ MyLink = heads[MyHead].link /\ MyLink \in Blk
         /\ count[wkey] \in Nat /\ count[wkey] < MaxSets[wkey]
         /\ \A b \in DOMAIN link : link[b] \in LinkSet
<1>1. wkey \in Keys /\ count[wkey] < MaxSets[wkey]
  BY DEF Types, Busy
<1>2. MyHead # 0
  BY DEF Table
<1>3. Backward(heads) /\ bucket[Bucket(wkey)] \in 0..Len(heads) /\ Len(heads) \in Nat /\ DOMAIN heads = 1..Len(heads)
  BY <1>1, HeadFacts
<1>4. /\ FindIn(heads, wkey, bucket[Bucket(wkey)]) \in 0..bucket[Bucket(wkey)]
      /\ FindIn(heads, wkey, bucket[Bucket(wkey)]) # 0 =>
           heads[FindIn(heads, wkey, bucket[Bucket(wkey)])].key = wkey
  BY <1>3, FindInRange
<1>5. MyHead \in DOMAIN heads /\ heads[MyHead].key = wkey
  BY <1>2, <1>3, <1>4 DEF MyHead, SpotIn
<1>6. MyLink \in DOMAIN link /\ MyLink = heads[MyHead].link
  BY <1>5 DEF Chains, MyLink
<1>7. \A b \in DOMAIN link : link[b] \in LinkSet
  BY DEF Types
<1>8. MyLink \in Blk /\ count[wkey] \in Nat
  BY <1>1, <1>6 DEF Types
<1> QED
  BY <1>1, <1>5, <1>6, <1>7, <1>8

\* Cells go in front.
LEMMA FilledIs ==
  ASSUME NEW l \in LinkSet, NEW d \in Seq(Nat), NEW f, f = Filled(l, d)
  PROVE  /\ f \in LinkSet /\ f.self = l.self /\ f.next = l.next
         /\ f.used = l.used + Len(d) /\ f.cells = d \o l.cells
<1>1. f = [l EXCEPT !.used = l.used + Len(d), !.cells = d \o l.cells]
  BY DEF Filled
<1>2. /\ l.self \in Nat \ {0} /\ l.next \in Blk \cup {Null} /\ l.used \in Nat /\ l.cells \in Seq(Nat)
      /\ l.used + Len(d) \in Nat /\ d \o l.cells \in Seq(Nat)
  BY DEF LinkSet
<1> QED
  BY <1>1, <1>2 DEF LinkSet

\* A new link is empty.
LEMMA NewLinkIs ==
  ASSUME NEW s \in Nat \ {0}, NEW n \in Blk \cup {Null}, NEW f, f = NewLink(s, n)
  PROVE  f \in LinkSet /\ f.self = s /\ f.next = n /\ f.used = 0 /\ f.cells = <<>>
<1>1. f = [self |-> s, used |-> 0, next |-> n, cells |-> <<>>]
  BY DEF NewLink
<1>2. <<>> \in Seq(Nat)
  OBVIOUS
<1> QED
  BY <1>1, <1>2 DEF LinkSet

\* A link of one posting.
LEMMA OnePosting ==
  ASSUME NEW s \in Nat \ {0}, NEW n \in Blk \cup {Null}, NEW c \in Nat,
         NEW f, f = Filled(NewLink(s, n), <<c>>)
  PROVE  f \in LinkSet /\ f.self = s /\ f.next = n /\ f.used = 1 /\ f.cells = <<c>>
<1>1. PICK l, d : l = NewLink(s, n) /\ d = <<c>>
  OBVIOUS
<1>2. l \in LinkSet /\ l.self = s /\ l.next = n /\ l.used = 0 /\ l.cells = <<>>
  BY <1>1, NewLinkIs
<1>3. d \in Seq(Nat) /\ Len(d) = 1 /\ d \o <<>> = d
  BY <1>1
<1>4. f = Filled(l, d)
  BY <1>1
<1>5. /\ f \in LinkSet /\ f.self = l.self /\ f.next = l.next
      /\ f.used = l.used + Len(d) /\ f.cells = d \o l.cells
  BY <1>2, <1>3, <1>4, FilledIs
<1> QED
  BY <1>1, <1>2, <1>3, <1>5

\* Another link for a head changes no search.
LEMMA Relinked ==
  ASSUME Types, NEW o \in DOMAIN heads, NEW m \in Blk, heads' = [heads EXCEPT ![o].link = m]
  PROVE  /\ heads' \in Seq(HeadSet) /\ Len(heads') = Len(heads) /\ DOMAIN heads' = DOMAIN heads
         /\ \A i \in DOMAIN heads : /\ heads'[i].key = heads[i].key /\ heads'[i].next = heads[i].next
                                    /\ heads'[i].link = IF i = o THEN m ELSE heads[i].link
         /\ \A k : \A i \in 0..Len(heads) : FindIn(heads', k, i) = FindIn(heads, k, i)
         /\ \A k \in Keys : SpotIn(heads', bucket, k) = SpotIn(heads, bucket, k)
<1>1. /\ heads \in Seq(HeadSet) /\ Len(heads) \in Nat /\ DOMAIN heads = 1..Len(heads) /\ Backward(heads)
      /\ \A i \in DOMAIN heads : heads[i] \in HeadSet
  BY HeadFacts DEF Types
<1>2. /\ Len(heads') = Len(heads) /\ DOMAIN heads' = DOMAIN heads
      /\ \A i \in DOMAIN heads : heads'[i] = IF i = o THEN [heads[i] EXCEPT !.link = m] ELSE heads[i]
  BY <1>1
<1>3. \A i \in DOMAIN heads : /\ heads'[i] \in HeadSet /\ heads'[i].key = heads[i].key /\ heads'[i].next = heads[i].next
                              /\ heads'[i].link = IF i = o THEN m ELSE heads[i].link
  <2> TAKE i \in DOMAIN heads
  <2>1. heads[i] \in HeadSet
    BY <1>1
  <2>2. heads'[i] = IF i = o THEN [heads[i] EXCEPT !.link = m] ELSE heads[i]
    BY <1>2
  <2> QED
    BY <2>1, <2>2 DEF HeadSet
<1>4. heads' \in Seq(HeadSet)
  <2>1. heads' \in [1..Len(heads) -> HeadSet]
    BY <1>1, <1>2, <1>3
  <2> QED
    BY <1>1, <2>1
<1>5. Backward(heads')
  BY <1>1, <1>2, <1>3 DEF Backward
<1>6. ASSUME NEW k PROVE \A i \in 0..Len(heads) : FindIn(heads', k, i) = FindIn(heads, k, i)
  <2>1. \A i \in 1..Len(heads) : heads'[i].key = heads[i].key /\ heads'[i].next = heads[i].next
    BY <1>1, <1>3
  <2>2. Len(heads) <= Len(heads')
    BY <1>1, <1>2
  <2> QED
    <3>1. PICK gs, hs : gs = heads' /\ hs = heads
      OBVIOUS
    <3>2. Backward(hs) /\ Backward(gs) /\ Len(hs) <= Len(gs)
      BY <1>1, <1>5, <2>2, <3>1
    <3>3. \A i \in 1..Len(hs) : gs[i].key = hs[i].key /\ gs[i].next = hs[i].next
      BY <2>1, <3>1
    <3>4. \A i \in 0..Len(hs) : FindIn(gs, k, i) = FindIn(hs, k, i)
      BY <3>2, <3>3, FindInSame
    <3> QED
      BY <3>1, <3>4
<1>7. \A k \in Keys : SpotIn(heads', bucket, k) = SpotIn(heads, bucket, k)
  BY <1>6, HeadFacts DEF SpotIn
<1> QED
  BY <1>2, <1>3, <1>4, <1>6, <1>7
-----------------------------------------------------------------------------
(***************************************************************************)
(* The structure - types, heads, chains and pool - and set.                *)
(***************************************************************************)
\* The blocks in use are those of the chains.
Struct == Types /\ Table /\ Chains /\ Pool(stack, extra, DOMAIN link)

\* The effect of hanging a new link of one posting of key k before link n.
Hung(m, n, k) ==
  /\ m \notin DOMAIN link /\ m \in Blk /\ DOMAIN link' = DOMAIN link \cup {m}
  /\ \A b \in DOMAIN link' : link'[b] \in LinkSet
  /\ \A b \in DOMAIN link : link'[b] = link[b]
  /\ link'[m].self = Base /\ link'[m].next = n /\ link'[m].used = 1 /\ link'[m].cells = <<count[k] + 1>>
  /\ link' = [b \in DOMAIN link' |-> link'[b]]

\* What is common to the two ways of hanging a link.
LEMMA LinkHung ==
  ASSUME Struct, NEW k \in Keys, NEW n \in Blk \cup {Null}, NEW m, m = Allocated(Base),
         link' = Linked(m, Filled(NewLink(Base, n), <<count[k] + 1>>)), PoolStep(Base, <<>>)
  PROVE  Hung(m, n, k) /\ Pool(stack', extra', DOMAIN link')
<1>1. Base # 0 /\ Base \in Nat \ {0} /\ count[k] + 1 \in Nat
  <2>1. count[k] \in Nat
    BY DEF Struct, Types
  <2>2. Base \in Nat \ {0}
    BY ConstantFacts
  <2> QED
    BY <2>1, <2>2
<1>2. <<>> \in Seq(DOMAIN link) /\ IsInjective(<<>>) /\ Range(<<>>) = {}
  BY DEF IsInjective, Range
<1>3. /\ m \notin DOMAIN link /\ m \in Blk
      /\ Pool(stack', extra', (DOMAIN link \cup {m}) \ Range(<<>>))
  <2>1. PICK fr : fr = <<>>
    OBVIOUS
  <2>2. fr \in Seq(DOMAIN link) /\ IsInjective(fr) /\ PoolStep(Base, fr)
    BY <1>2, <2>1
  <2>3. /\ m \notin DOMAIN link /\ m \in Blk
        /\ Pool(stack', extra', (DOMAIN link \cup {m}) \ Range(fr))
    BY <1>1, <2>2, StepAllocates DEF Struct
  <2> QED
    BY <2>1, <2>3
<1>4. PICK l : l = Filled(NewLink(Base, n), <<count[k] + 1>>)
  OBVIOUS
<1>5. l \in LinkSet /\ l.self = Base /\ l.next = n /\ l.used = 1 /\ l.cells = <<count[k] + 1>>
  <2>1. PICK c : c = count[k] + 1
    OBVIOUS
  <2>2. c \in Nat /\ l = Filled(NewLink(Base, n), <<c>>)
    BY <1>1, <1>4, <2>1
  <2>3. l \in LinkSet /\ l.self = Base /\ l.next = n /\ l.used = 1 /\ l.cells = <<c>>
    BY <1>1, <2>2, OnePosting
  <2> QED
    BY <2>1, <2>3
<1>6. link' = [b \in DOMAIN link \cup {m} |-> IF b = m THEN l ELSE link[b]]
  BY <1>4 DEF Linked
<1>7. DOMAIN link' = DOMAIN link \cup {m} /\ link'[m] = l /\ \A b \in DOMAIN link : link'[b] = link[b]
  BY <1>3, <1>6
<1>8. \A b \in DOMAIN link' : link'[b] \in LinkSet
  BY <1>5, <1>7 DEF Struct, Types
<1>9. link' = [b \in DOMAIN link' |-> link'[b]]
  BY <1>6
<1>10. (DOMAIN link \cup {m}) \ Range(<<>>) = DOMAIN link'
  BY <1>2, <1>7
<1>11. Pool(stack', extra', DOMAIN link')
  BY <1>3, <1>10
<1>12. /\ link'[m].self = Base /\ link'[m].next = n /\ link'[m].used = 1 /\ link'[m].cells = <<count[k] + 1>>
  BY <1>5, <1>7
<1> QED
  BY <1>3, <1>7, <1>8, <1>9, <1>11, <1>12 DEF Hung

\* A set is over: the pc, the key and the count.
LEMMA Returned ==
  ASSUME Types, wpc # "idle", NEW r \in {"OK", "NEARLY_FULL", "FULL"}, Return(wkey, r)
  PROVE  /\ wpc' = "idle" /\ wkey' = 0 /\ ret' = r
         /\ count' \in [Keys -> Nat] /\ \A k \in Keys : count'[k] <= MaxSets[k]
         /\ \A k \in Keys : count'[k] = IF k = wkey THEN count[k] + 1 ELSE count[k]
<1>1. /\ wkey \in Keys /\ count[wkey] < MaxSets[wkey] /\ count \in [Keys -> Nat]
      /\ \A k \in Keys : count[k] <= MaxSets[k]
  BY DEF Types
<1>2. \A k \in Keys : MaxSets[k] \in Nat
  BY ListAssumption
<1>3. count' = [count EXCEPT ![wkey] = count[wkey] + 1]
  BY DEF Return
<1>4. \A k \in Keys : count'[k] = IF k = wkey THEN count[k] + 1 ELSE count[k]
  BY <1>1, <1>3
<1>5. \A k \in Keys : count'[k] <= MaxSets[k]
  BY <1>1, <1>2, <1>4
<1> QED
  BY <1>1, <1>3, <1>4, <1>5 DEF Return

\* Result answers one of the three.
LEMMA ResultIs == \A n : Result(n) \in {"OK", "NEARLY_FULL", "FULL"}
  BY DEF Result

\* Hanging a link in front of the chain.
LEMMA AddLinkFacts ==
  ASSUME Struct, AddLink
  PROVE  /\ \E m : Hung(m, MyLink, wkey) /\ heads' = [heads EXCEPT ![MyHead].link = m]
         /\ Pool(stack', extra', DOMAIN link') /\ Busy /\ wpc = "newlink" /\ wpc' = "idle" /\ wkey' = 0
         /\ bucket' = bucket /\ readonly' = readonly
         /\ ret' \in {"OK", "NEARLY_FULL", "FULL"}
         /\ count' \in [Keys -> Nat] /\ \A k \in Keys : count'[k] <= MaxSets[k]
         /\ \A k \in Keys : count'[k] = IF k = wkey THEN count[k] + 1 ELSE count[k]
<1>1. Types /\ Table /\ Chains /\ Busy /\ wpc = "newlink"
  BY DEF Struct, AddLink, Busy
<1>2. wkey \in Keys /\ MyLink \in Blk
  BY <1>1, MyFacts
<1>3. PICK m : m = Allocated(Base)
  OBVIOUS
<1>4. /\ link' = Linked(m, Filled(NewLink(Base, MyLink), <<count[wkey] + 1>>)) /\ PoolStep(Base, <<>>)
      /\ heads' = [heads EXCEPT ![MyHead].link = m] /\ bucket' = bucket /\ readonly' = readonly
  BY <1>3, FirstIs DEF AddLink
<1>5. Hung(m, MyLink, wkey) /\ Pool(stack', extra', DOMAIN link')
  BY <1>2, <1>3, <1>4, LinkHung
<1>6. Return(wkey, Result(Len(heads)))
  BY DEF AddLink
<1>7. PICK r : r = Result(Len(heads))
  OBVIOUS
<1>8. r \in {"OK", "NEARLY_FULL", "FULL"} /\ Return(wkey, r)
  BY <1>6, <1>7, ResultIs
<1>9. /\ wpc' = "idle" /\ wkey' = 0 /\ ret' = r
      /\ count' \in [Keys -> Nat] /\ \A k \in Keys : count'[k] <= MaxSets[k]
      /\ \A k \in Keys : count'[k] = IF k = wkey THEN count[k] + 1 ELSE count[k]
  BY <1>1, <1>8, Returned
<1> QED
  BY <1>1, <1>4, <1>5, <1>8, <1>9

\* The structure after that.
LEMMA StructAddLink ==
  ASSUME Struct, AddLink
  PROVE  Struct'
<1>1. /\ Pool(stack', extra', DOMAIN link') /\ Busy /\ wpc = "newlink" /\ wpc' = "idle" /\ wkey' = 0
      /\ bucket' = bucket /\ readonly' = readonly
      /\ ret' \in {"OK", "NEARLY_FULL", "FULL"}
      /\ count' \in [Keys -> Nat] /\ \A k \in Keys : count'[k] <= MaxSets[k]
      /\ \A k \in Keys : count'[k] = IF k = wkey THEN count[k] + 1 ELSE count[k]
  BY AddLinkFacts
<1>2. PICK m : Hung(m, MyLink, wkey) /\ heads' = [heads EXCEPT ![MyHead].link = m]
  BY AddLinkFacts
<1>3. Types /\ Table /\ Chains
  BY DEF Struct
<1>4. /\ MyHead \in DOMAIN heads /\ heads[MyHead].key = wkey /\ wkey \in Keys
      /\ MyLink \in DOMAIN link /\ MyLink = heads[MyHead].link
  BY <1>1, <1>3, MyFacts
<1>5. /\ m \notin DOMAIN link /\ m \in Blk /\ DOMAIN link' = DOMAIN link \cup {m}
      /\ \A b \in DOMAIN link' : link'[b] \in LinkSet
      /\ \A b \in DOMAIN link : link'[b] = link[b]
      /\ link'[m].next = MyLink /\ link' = [b \in DOMAIN link' |-> link'[b]]
  BY <1>2 DEF Hung
<1>6. PICK o : o = MyHead
  OBVIOUS
<1>7. /\ heads' \in Seq(HeadSet) /\ Len(heads') = Len(heads) /\ DOMAIN heads' = DOMAIN heads
      /\ \A i \in DOMAIN heads : /\ heads'[i].key = heads[i].key /\ heads'[i].next = heads[i].next
                                 /\ heads'[i].link = IF i = o THEN m ELSE heads[i].link
      /\ \A k \in Keys : SpotIn(heads', bucket, k) = SpotIn(heads, bucket, k)
  <2>1. o \in DOMAIN heads /\ m \in Blk /\ heads' = [heads EXCEPT ![o].link = m]
    BY <1>2, <1>4, <1>5, <1>6
  <2> QED
    BY <1>3, <2>1, Relinked
<1>8. Types'
  <2>1. link' \in [DOMAIN link' -> LinkSet] /\ DOMAIN link' \subseteq Blk
    BY <1>3, <1>5 DEF Types
  <2>2. /\ Len(heads') <= HeadMax /\ \A i \in DOMAIN heads' : heads'[i].next < i
        /\ bucket' \in [0..Buckets - 1 -> 0..Len(heads')]
    BY <1>1, <1>3, <1>7 DEF Types
  <2> QED
    BY <1>1, <1>3, <1>7, <2>1, <2>2 DEF Types
<1>9. Table'
  <2>1. \A i \in DOMAIN heads : heads[i].key \in Keys
    BY <1>3, HeadFacts DEF HeadSet
  <2>2. \A i \in DOMAIN heads' : SpotIn(heads', bucket', heads'[i].key) = i
    BY <1>1, <1>3, <1>7, <2>1 DEF Table
  <2>3. \A k \in Keys : count'[k] > 0 => SpotIn(heads', bucket', k) # 0
    <3>1. MyHead # 0
      BY <1>1, <1>3 DEF Table
    <3>2. \A k \in Keys : count[k] > 0 => SpotIn(heads, bucket, k) # 0
      BY <1>3 DEF Table
    <3> QED
      BY <1>1, <1>7, <3>1, <3>2 DEF MyHead
  <2> QED
    BY <1>1, <2>2, <2>3 DEF Table, Busy
<1>10. Chains'
  <2>1. /\ \A i \in DOMAIN heads : heads[i].link \in DOMAIN link
        /\ \A b \in DOMAIN link : link[b].next \in DOMAIN link \cup {Null}
        /\ \A i, j \in DOMAIN heads : heads[i].link = heads[j].link => i = j
        /\ \A a, b \in DOMAIN link : link[a].next = link[b].next /\ link[a].next # Null => a = b
        /\ \A i \in DOMAIN heads : \A b \in DOMAIN link : heads[i].link # link[b].next
        /\ \A b \in DOMAIN link : Owned(heads, link, b)
    BY <1>3 DEF Chains
  <2>2. \A i \in DOMAIN heads' : heads'[i].link \in DOMAIN link'
    BY <1>5, <1>7, <2>1
  <2>3. \A b \in DOMAIN link' : link'[b].next \in DOMAIN link' \cup {Null}
    BY <1>4, <1>5, <2>1
  <2>4. \A i, j \in DOMAIN heads' : heads'[i].link = heads'[j].link => i = j
    BY <1>5, <1>7, <2>1
  <2>5. \A a, b \in DOMAIN link' : link'[a].next = link'[b].next /\ link'[a].next # Null => a = b
    BY <1>4, <1>5, <2>1
  <2>6. m # Null
    BY <1>5, BlockFacts
  <2>7. \A i \in DOMAIN heads' : \A b \in DOMAIN link' : heads'[i].link # link'[b].next
    BY <1>4, <1>5, <1>6, <1>7, <2>1, <2>6
  <2>8. ASSUME NEW b \in DOMAIN link'
        PROVE  Owned(heads', link', b)
    <3>1. CASE b = m
      BY <1>4, <1>6, <1>7, <3>1 DEF Owned
    <3>2. CASE b = MyLink
      BY <1>5, <3>2 DEF Owned
    <3>3. CASE b # m /\ b # MyLink
      BY <1>4, <1>5, <1>6, <1>7, <2>1, <3>3 DEF Owned
    <3> QED
      BY <3>1, <3>2, <3>3
  <2> QED
    BY <2>2, <2>3, <2>4, <2>5, <2>7, <2>8 DEF Chains
<1> QED
  BY <1>1, <1>8, <1>9, <1>10 DEF Struct

\* A head for a new term, and its first link.
LEMMA AddHeadFacts ==
  ASSUME Struct, AddHead
  PROVE  /\ \E m : /\ Hung(m, Null, wkey)
                   /\ heads' = Append(heads, [key |-> wkey, next |-> bucket[Bucket(wkey)], link |-> m])
         /\ Pool(stack', extra', DOMAIN link') /\ wpc = "newhead" /\ wpc' = "idle" /\ wkey' = 0
         /\ wkey \in Keys /\ MyHead = 0
         /\ bucket' = [bucket EXCEPT ![Bucket(wkey)] = Len(heads')] /\ readonly' = readonly
         /\ ret' \in {"OK", "NEARLY_FULL", "FULL"}
         /\ count' \in [Keys -> Nat] /\ \A k \in Keys : count'[k] <= MaxSets[k]
         /\ \A k \in Keys : count'[k] = IF k = wkey THEN count[k] + 1 ELSE count[k]
<1>1. Types /\ Table /\ wpc = "newhead"
  BY DEF Struct, AddHead
<1>2. wkey \in Keys /\ MyHead = 0
  BY <1>1 DEF Types, Table
<1>3. PICK m : m = Allocated(Base)
  OBVIOUS
<1>4. /\ link' = Linked(m, Filled(NewLink(Base, Null), <<count[wkey] + 1>>)) /\ PoolStep(Base, <<>>)
      /\ heads' = Append(heads, [key |-> wkey, next |-> bucket[Bucket(wkey)], link |-> m])
      /\ bucket' = [bucket EXCEPT ![Bucket(wkey)] = Len(heads')] /\ readonly' = readonly
  BY <1>3 DEF AddHead
<1>5. Hung(m, Null, wkey) /\ Pool(stack', extra', DOMAIN link')
  BY <1>2, <1>3, <1>4, LinkHung
<1>6. Return(wkey, Result(Len(heads) + 1))
  BY DEF AddHead
<1>7. PICK r : r = Result(Len(heads) + 1)
  OBVIOUS
<1>8. r \in {"OK", "NEARLY_FULL", "FULL"} /\ Return(wkey, r)
  BY <1>6, <1>7, ResultIs
<1>9. /\ wpc' = "idle" /\ wkey' = 0 /\ ret' = r
      /\ count' \in [Keys -> Nat] /\ \A k \in Keys : count'[k] <= MaxSets[k]
      /\ \A k \in Keys : count'[k] = IF k = wkey THEN count[k] + 1 ELSE count[k]
  BY <1>1, <1>8, Returned
<1> QED
  BY <1>1, <1>2, <1>4, <1>5, <1>8, <1>9

\* The heads after that, and the searches.
LEMMA HeadAdded ==
  ASSUME Struct, AddHead, NEW m,
         heads' = Append(heads, [key |-> wkey, next |-> bucket[Bucket(wkey)], link |-> m]), m \in Blk
  PROVE  /\ heads' \in Seq(HeadSet) /\ Len(heads') = Len(heads) + 1 /\ DOMAIN heads' = 1..Len(heads) + 1
         /\ \A i \in DOMAIN heads : heads'[i] = heads[i]
         /\ LET h == heads'[Len(heads) + 1]
            IN h.key = wkey /\ h.next = bucket[Bucket(wkey)] /\ h.link = m
         /\ Backward(heads')
         /\ \A k : \A o \in 0..Len(heads) : FindIn(heads', k, o) = FindIn(heads, k, o)
         /\ bucket' \in [0..Buckets - 1 -> 0..Len(heads')]
         /\ SpotIn(heads', bucket', wkey) = Len(heads) + 1
         /\ \A k \in Keys : k # wkey => SpotIn(heads', bucket', k) = SpotIn(heads, bucket, k)
<1>1. wkey \in Keys /\ bucket' = [bucket EXCEPT ![Bucket(wkey)] = Len(heads')]
  BY AddHeadFacts
<1>2. Types
  BY DEF Struct
<1>3. /\ heads \in Seq(HeadSet) /\ Len(heads) \in Nat /\ DOMAIN heads = 1..Len(heads) /\ Backward(heads)
      /\ \A k \in Keys : bucket[Bucket(k)] \in 0..Len(heads)
  BY <1>2, HeadFacts DEF Types
<1> DEFINE N == Len(heads)
           h == [key |-> wkey, next |-> bucket[Bucket(wkey)], link |-> m]
<1>4. h \in HeadSet /\ h.key = wkey /\ h.next = bucket[Bucket(wkey)] /\ h.link = m /\ h.next \in 0..N
  BY <1>1, <1>3 DEF HeadSet
<1> HIDE DEF h
<1>5. heads' = Append(heads, h)
  BY DEF h
<1>6. /\ heads' \in Seq(HeadSet) /\ Len(heads') = N + 1 /\ DOMAIN heads' = 1..N + 1
      /\ \A i \in DOMAIN heads : heads'[i] = heads[i]
      /\ heads'[N + 1] = h
  BY <1>3, <1>4, <1>5
<1>7. Backward(heads')
  <2>1. \A i \in 1..N + 1 : i \in DOMAIN heads \/ i = N + 1
    BY <1>3
  <2>2. \A i \in 1..N + 1 : heads'[i].next \in 0..i - 1
    BY <1>3, <1>4, <1>6, <2>1 DEF Backward
  <2> QED
    BY <1>3, <1>6, <2>2 DEF Backward
<1>8. ASSUME NEW k PROVE \A o \in 0..N : FindIn(heads', k, o) = FindIn(heads, k, o)
  <2>1. PICK gs, hs : gs = heads' /\ hs = heads
    OBVIOUS
  <2>2. Backward(hs) /\ Backward(gs) /\ Len(hs) <= Len(gs) /\ Len(hs) = N
    BY <1>3, <1>6, <1>7, <2>1
  <2>3. \A i \in 1..Len(hs) : gs[i].key = hs[i].key /\ gs[i].next = hs[i].next
    BY <1>3, <1>6, <2>1
  <2>4. \A o \in 0..Len(hs) : FindIn(gs, k, o) = FindIn(hs, k, o)
    BY <2>2, <2>3, FindInSame
  <2> QED
    BY <2>1, <2>2, <2>4
<1>9. bucket \in [0..Buckets - 1 -> 0..N] /\ \A k \in Keys : Bucket(k) \in 0..Buckets - 1
  BY <1>2, ConstantFacts DEF Types
<1>10. \A b \in 0..Buckets - 1 : bucket'[b] = IF b = Bucket(wkey) THEN N + 1 ELSE bucket[b]
  BY <1>1, <1>6, <1>9
<1>11. bucket' \in [0..Buckets - 1 -> 0..Len(heads')]
  <2>1. \A n \in 0..N : n \in 0..N + 1
    BY <1>3
  <2>2. N + 1 \in 0..N + 1
    BY <1>3
  <2>3. bucket' \in [0..Buckets - 1 -> 0..N + 1]
    BY <1>1, <1>6, <1>9, <2>1, <2>2
  <2> QED
    BY <1>6, <2>3
<1>12. ASSUME NEW k PROVE FindIn(heads', k, N + 1) = IF k = wkey THEN N + 1 ELSE FindIn(heads, k, bucket[Bucket(wkey)])
  <2>1. PICK gs : gs = heads'
    OBVIOUS
  <2>2. Backward(gs) /\ N + 1 \in 0..Len(gs) /\ N + 1 # 0
    BY <1>3, <1>6, <1>7, <2>1
  <2>3. FindIn(gs, k, N + 1) =
          IF N + 1 = 0 THEN 0 ELSE IF gs[N + 1].key = k THEN N + 1 ELSE FindIn(gs, k, gs[N + 1].next)
    BY <2>2, FindInIs
  <2>4. gs[N + 1].key = wkey /\ gs[N + 1].next = bucket[Bucket(wkey)]
    BY <1>4, <1>6, <2>1
  <2>5. FindIn(gs, k, bucket[Bucket(wkey)]) = FindIn(heads, k, bucket[Bucket(wkey)])
    BY <1>1, <1>3, <1>8, <2>1
  <2> QED
    BY <2>1, <2>2, <2>3, <2>4, <2>5
<1>13. SpotIn(heads', bucket', wkey) = N + 1
  BY <1>1, <1>9, <1>10, <1>12 DEF SpotIn
<1>14. ASSUME NEW k \in Keys, k # wkey PROVE SpotIn(heads', bucket', k) = SpotIn(heads, bucket, k)
  <2>1. CASE Bucket(k) = Bucket(wkey)
    BY <1>9, <1>10, <1>12, <1>14, <2>1 DEF SpotIn
  <2>2. CASE Bucket(k) # Bucket(wkey)
    BY <1>3, <1>8, <1>9, <1>10, <2>2 DEF SpotIn
  <2> QED
    BY <2>1, <2>2
<1> QED
  BY <1>4, <1>6, <1>7, <1>8, <1>11, <1>13, <1>14

\* The structure after that.
LEMMA StructAddHead ==
  ASSUME Struct, AddHead
  PROVE  Struct'
<1>1. /\ Pool(stack', extra', DOMAIN link') /\ wpc = "newhead" /\ wpc' = "idle" /\ wkey' = 0
      /\ wkey \in Keys /\ MyHead = 0 /\ readonly' = readonly
      /\ ret' \in {"OK", "NEARLY_FULL", "FULL"}
      /\ count' \in [Keys -> Nat] /\ \A k \in Keys : count'[k] <= MaxSets[k]
      /\ \A k \in Keys : count'[k] = IF k = wkey THEN count[k] + 1 ELSE count[k]
  BY AddHeadFacts
<1>2. PICK m : /\ Hung(m, Null, wkey)
               /\ heads' = Append(heads, [key |-> wkey, next |-> bucket[Bucket(wkey)], link |-> m])
  BY AddHeadFacts
<1>3. Types /\ Table /\ Chains
  BY DEF Struct
<1>4. Len(heads) \in Nat /\ DOMAIN heads = 1..Len(heads) /\ Len(heads) < HeadMax /\ HeadMax \in Nat
  BY <1>1, <1>3, HeadFacts, ConstantFacts DEF Table
<1>5. /\ m \notin DOMAIN link /\ m \in Blk /\ DOMAIN link' = DOMAIN link \cup {m}
      /\ \A b \in DOMAIN link' : link'[b] \in LinkSet
      /\ \A b \in DOMAIN link : link'[b] = link[b]
      /\ link'[m].next = Null /\ link' = [b \in DOMAIN link' |-> link'[b]]
  BY <1>2 DEF Hung
<1> DEFINE N == Len(heads)
<1>6. /\ heads' \in Seq(HeadSet) /\ Len(heads') = N + 1 /\ DOMAIN heads' = 1..N + 1
      /\ \A i \in DOMAIN heads : heads'[i] = heads[i]
      /\ heads'[N + 1].key = wkey /\ heads'[N + 1].link = m
      /\ Backward(heads')
      /\ bucket' \in [0..Buckets - 1 -> 0..Len(heads')]
      /\ SpotIn(heads', bucket', wkey) = N + 1
      /\ \A k \in Keys : k # wkey => SpotIn(heads', bucket', k) = SpotIn(heads, bucket, k)
  BY <1>2, <1>5, HeadAdded
<1>7. \A i \in DOMAIN heads' : i \in DOMAIN heads \/ i = N + 1
  BY <1>4, <1>6
<1>8. Types'
  <2>1. link' \in [DOMAIN link' -> LinkSet] /\ DOMAIN link' \subseteq Blk
    BY <1>3, <1>5 DEF Types
  <2>2. \A i \in DOMAIN heads' : heads'[i].next < i
    BY <1>4, <1>6 DEF Backward
  <2>3. Len(heads') <= HeadMax
    BY <1>4, <1>6
  <2> QED
    BY <1>1, <1>3, <1>6, <2>1, <2>2, <2>3 DEF Types
<1>9. Table'
  <2>1. \A i \in DOMAIN heads : heads[i].key \in Keys /\ heads[i].key # wkey
    <3>1. \A i \in DOMAIN heads : heads[i].key \in Keys
      BY <1>3, HeadFacts DEF HeadSet
    <3>2. \A i \in DOMAIN heads : SpotIn(heads, bucket, heads[i].key) = i /\ i # 0
      BY <1>3, <1>4 DEF Table
    <3> QED
      BY <1>1, <3>1, <3>2 DEF MyHead
  <2>2. \A i \in DOMAIN heads' : SpotIn(heads', bucket', heads'[i].key) = i
    BY <1>3, <1>6, <1>7, <2>1 DEF Table
  <2>3. \A k \in Keys : count'[k] > 0 => SpotIn(heads', bucket', k) # 0
    <3>1. \A k \in Keys : count[k] > 0 => SpotIn(heads, bucket, k) # 0
      BY <1>3 DEF Table
    <3>2. SpotIn(heads', bucket', wkey) # 0
      BY <1>4, <1>6
    <3>3. \A k \in Keys : k # wkey => (count'[k] = count[k] /\ SpotIn(heads', bucket', k) = SpotIn(heads, bucket, k))
      BY <1>1, <1>6
    <3> QED
      BY <3>1, <3>2, <3>3
  <2> QED
    BY <1>1, <2>2, <2>3 DEF Table, Busy
<1>10. Chains'
  <2>1. /\ \A i \in DOMAIN heads : heads[i].link \in DOMAIN link
        /\ \A b \in DOMAIN link : link[b].next \in DOMAIN link \cup {Null}
        /\ \A i, j \in DOMAIN heads : heads[i].link = heads[j].link => i = j
        /\ \A a, b \in DOMAIN link : link[a].next = link[b].next /\ link[a].next # Null => a = b
        /\ \A i \in DOMAIN heads : \A b \in DOMAIN link : heads[i].link # link[b].next
        /\ \A b \in DOMAIN link : Owned(heads, link, b)
    BY <1>3 DEF Chains
  <2>6. \A b \in DOMAIN link' : b = m \/ b \in DOMAIN link
    BY <1>5
  <2>9. m # Null /\ Null \notin DOMAIN link
    BY <1>3, <1>5, BlockFacts DEF Types
  <2>2. \A i \in DOMAIN heads' : heads'[i].link \in DOMAIN link'
    BY <1>5, <1>6, <1>7, <2>1
  <2>3. \A b \in DOMAIN link' : link'[b].next \in DOMAIN link' \cup {Null}
    BY <1>5, <2>1, <2>6
  <2>4. \A i, j \in DOMAIN heads' : heads'[i].link = heads'[j].link => i = j
    BY <1>5, <1>6, <1>7, <2>1
  <2>5. \A a, b \in DOMAIN link' : link'[a].next = link'[b].next /\ link'[a].next # Null => a = b
    BY <1>5, <2>1, <2>6
  <2>7. \A i \in DOMAIN heads' : \A b \in DOMAIN link' : heads'[i].link # link'[b].next
    BY <1>5, <1>6, <1>7, <2>1, <2>6, <2>9
  <2>8. ASSUME NEW b \in DOMAIN link'
        PROVE  Owned(heads', link', b)
    <3>1. CASE b = m
      <4>1. N + 1 \in DOMAIN heads'
        BY <1>4, <1>6
      <4> QED
        BY <1>6, <3>1, <4>1 DEF Owned
    <3>3. CASE b # m
      <4>1. b \in DOMAIN link /\ Owned(heads, link, b)
        BY <2>1, <2>6, <3>3
      <4>2. \A i \in DOMAIN heads : i \in DOMAIN heads' /\ heads'[i].link = heads[i].link
        BY <1>4, <1>6
      <4> QED
        BY <1>5, <4>1, <4>2 DEF Owned
    <3> QED
      BY <3>1, <3>3
  <2> QED
    BY <2>2, <2>3, <2>4, <2>5, <2>7, <2>8 DEF Chains
<1> QED
  BY <1>1, <1>8, <1>9, <1>10 DEF Struct

\* Link m, which begins as l, takes the place of b and of n behind it.
Replaced(b, n, m, l) ==
  /\ b = MyLink /\ n = link[b].next /\ b \in DOMAIN link /\ n \in DOMAIN link
  /\ b # n /\ link[n].self = link[b].self
  /\ m \notin DOMAIN link /\ m \in Blk /\ DOMAIN link' = (DOMAIN link \ {b, n}) \cup {m}
  /\ \A x \in DOMAIN link' : link'[x] \in LinkSet
  /\ \A x \in DOMAIN link : x # b /\ x # n => link'[x] = link[x]
  /\ l \in LinkSet /\ l.self = 2 * link[b].self /\ l.next = link[n].next
  /\ l.used = Len(link[n].cells) + Len(link[b].cells) /\ l.cells = link[b].cells \o link[n].cells
  /\ link'[m].self = l.self /\ link'[m].next = l.next
  /\ link' = [x \in DOMAIN link' |-> link'[x]]
  /\ heads' = [heads EXCEPT ![MyHead].link = m]

\* The posting fits into l, and the set is over.
Fitted(m, l) ==
  /\ HasRoom(l) /\ link'[m].used = l.used + 1 /\ link'[m].cells = <<count[wkey] + 1>> \o l.cells
  /\ wpc' = "idle" /\ wkey' = 0 /\ locked' = FALSE /\ ret' \in {"OK", "NEARLY_FULL", "FULL"}
  /\ count' \in [Keys -> Nat] /\ \A k \in Keys : count'[k] <= MaxSets[k]
  /\ \A k \in Keys : count'[k] = IF k = wkey THEN count[k] + 1 ELSE count[k]

\* It does not, and the loop goes on.
Unfitted(m, l) ==
  /\ ~HasRoom(l) /\ link'[m] = l
  /\ wpc' = wpc /\ wkey' = wkey /\ locked' = locked /\ ret' = ret /\ count' = count

\* One round of the merge loop.
LEMMA MergeFacts ==
  ASSUME Struct, Merge
  PROVE  /\ \E b, n, m, l : Replaced(b, n, m, l) /\ (Fitted(m, l) \/ Unfitted(m, l))
         /\ Pool(stack', extra', DOMAIN link') /\ Busy /\ wpc = "merge"
         /\ bucket' = bucket /\ readonly' = readonly
<1>1. Types /\ Table /\ Chains /\ Busy /\ wpc = "merge"
  BY DEF Struct, Merge, Busy
<1>2. PICK b : b = MyLink
  OBVIOUS
<1>3. PICK n : n = link[b].next
  OBVIOUS
<1>4. /\ MyHead \in DOMAIN heads /\ heads[MyHead].key = wkey /\ wkey \in Keys
      /\ b \in DOMAIN link /\ b = heads[MyHead].link /\ count[wkey] \in Nat
      /\ \A x \in DOMAIN link : link[x] \in LinkSet
  BY <1>1, <1>2, MyFacts
<1>5. n # Null /\ link[n].self = link[b].self
  BY <1>2, <1>3, FirstIs DEF Merge, Mergeable
<1>6. n \in DOMAIN link /\ n # b
  BY <1>1, <1>3, <1>4, <1>5 DEF Chains
<1>7. PICK size : size = 2 * link[b].self
  OBVIOUS
<1>8. size \in Nat \ {0}
  BY <1>4, <1>7 DEF LinkSet
<1>9. PICK m : m = Allocated(size)
  OBVIOUS
<1>10. PICK e, c, d : e = NewLink(size, link[n].next) /\ c = link[n].cells /\ d = link[b].cells
  OBVIOUS
<1>11. PICK f, l : f = Filled(e, c) /\ l = Filled(f, d)
  OBVIOUS
<1>12. Merged(b) = l
  BY <1>3, <1>7, <1>10, <1>11 DEF Merged
<1>13. c \in Seq(Nat) /\ d \in Seq(Nat) /\ link[n].next \in Blk \cup {Null}
  BY <1>4, <1>6, <1>10 DEF LinkSet
<1>14. e \in LinkSet /\ e.self = size /\ e.next = link[n].next /\ e.used = 0 /\ e.cells = <<>>
  BY <1>8, <1>10, <1>13, NewLinkIs
<1>15. f \in LinkSet /\ f.self = e.self /\ f.next = e.next /\ f.used = e.used + Len(c) /\ f.cells = c \o e.cells
  BY <1>11, <1>13, <1>14, FilledIs, ZenonT(40)
<1>16. l \in LinkSet /\ l.self = f.self /\ l.next = f.next /\ l.used = f.used + Len(d) /\ l.cells = d \o f.cells
  BY <1>11, <1>13, <1>15, FilledIs, ZenonT(40)
<1>17. c \o e.cells = c /\ 0 + Len(c) = Len(c)
  BY <1>13, <1>14
<1>18. /\ l \in LinkSet /\ l.self = size /\ l.next = link[n].next
       /\ l.used = Len(c) + Len(d) /\ l.cells = d \o c
  BY <1>14, <1>15, <1>16, <1>17
<1> DEFINE old == {b, link[b].next}
<1>19. /\ heads' = [heads EXCEPT ![MyHead].link = m]
       /\ link' = [x \in (DOMAIN link \ old) \cup {m} |->
                     IF x # m THEN link[x]
                     ELSE IF HasRoom(l) THEN Filled(l, <<count[wkey] + 1>>) ELSE l]
       /\ PoolStep(size, <<n, b>>)
       /\ IF HasRoom(l) THEN Return(wkey, Result(Len(heads))) /\ locked' = FALSE
                        ELSE UNCHANGED <<wpc, wkey, ret, count, locked>>
       /\ bucket' = bucket /\ readonly' = readonly
  BY <1>2, <1>3, <1>7, <1>9, <1>12, FirstIs DEF Merge
<1>20. <<n, b>> \in Seq(DOMAIN link) /\ IsInjective(<<n, b>>) /\ Range(<<n, b>>) = {b, n}
  BY <1>4, <1>6 DEF IsInjective, Range
<1>21. /\ m \notin DOMAIN link /\ m \in Blk
       /\ Pool(stack', extra', (DOMAIN link \cup {m}) \ {b, n})
  <2>1. PICK fr : fr = <<n, b>>
    OBVIOUS
  <2>2. fr \in Seq(DOMAIN link) /\ IsInjective(fr) /\ Range(fr) = {b, n} /\ PoolStep(size, fr)
    BY <1>19, <1>20, <2>1
  <2>3. /\ m \notin DOMAIN link /\ m \in Blk
        /\ Pool(stack', extra', (DOMAIN link \cup {m}) \ Range(fr))
    BY <1>8, <1>9, <2>2, StepAllocates DEF Struct
  <2> QED
    BY <2>2, <2>3
<1>22. PICK g : g = IF HasRoom(l) THEN Filled(l, <<count[wkey] + 1>>) ELSE l
  OBVIOUS
<1>23. /\ g \in LinkSet /\ g.self = l.self /\ g.next = l.next
       /\ HasRoom(l) => g.used = l.used + 1 /\ g.cells = <<count[wkey] + 1>> \o l.cells
       /\ ~HasRoom(l) => g = l
  <2>1. CASE HasRoom(l)
    <3>1. PICK h : h = <<count[wkey] + 1>>
      OBVIOUS
    <3>2. h \in Seq(Nat) /\ Len(h) = 1
      BY <1>4, <3>1
    <3>3. g = Filled(l, h)
      BY <1>22, <2>1, <3>1
    <3>4. /\ g \in LinkSet /\ g.self = l.self /\ g.next = l.next
          /\ g.used = l.used + Len(h) /\ g.cells = h \o l.cells
      BY <1>18, <3>2, <3>3, FilledIs
    <3> QED
      BY <2>1, <3>1, <3>2, <3>4
  <2>2. CASE ~HasRoom(l)
    BY <1>18, <1>22, <2>2
  <2> QED
    BY <2>1, <2>2
<1>24. link' = [x \in (DOMAIN link \ {b, n}) \cup {m} |-> IF x # m THEN link[x] ELSE g]
  BY <1>3, <1>19, <1>22
<1>25. /\ DOMAIN link' = (DOMAIN link \ {b, n}) \cup {m} /\ link'[m] = g
       /\ \A x \in DOMAIN link : x # b /\ x # n => link'[x] = link[x]
       /\ link' = [x \in DOMAIN link' |-> link'[x]]
  BY <1>21, <1>24
<1>26. \A x \in DOMAIN link' : link'[x] \in LinkSet
  BY <1>4, <1>23, <1>25
<1>27. (DOMAIN link \cup {m}) \ {b, n} = DOMAIN link'
  BY <1>4, <1>6, <1>21, <1>25
<1>28. Replaced(b, n, m, l)
  BY <1>2, <1>3, <1>4, <1>5, <1>6, <1>7, <1>10, <1>18, <1>19, <1>21, <1>23, <1>25, <1>26 DEF Replaced
<1>29. Fitted(m, l) \/ Unfitted(m, l)
  <2>1. CASE HasRoom(l)
    <3>1. PICK r : r = Result(Len(heads))
      OBVIOUS
    <3>2. r \in {"OK", "NEARLY_FULL", "FULL"} /\ Return(wkey, r) /\ locked' = FALSE
      BY <1>19, <2>1, <3>1, ResultIs
    <3>3. /\ wpc' = "idle" /\ wkey' = 0 /\ ret' = r
          /\ count' \in [Keys -> Nat] /\ \A k \in Keys : count'[k] <= MaxSets[k]
          /\ \A k \in Keys : count'[k] = IF k = wkey THEN count[k] + 1 ELSE count[k]
      BY <1>1, <3>2, Returned
    <3> QED
      BY <1>23, <1>25, <2>1, <3>2, <3>3 DEF Fitted
  <2>2. CASE ~HasRoom(l)
    BY <1>19, <1>23, <1>25, <2>2 DEF Unfitted
  <2> QED
    BY <2>1, <2>2
<1> QED
  BY <1>1, <1>19, <1>21, <1>27, <1>28, <1>29

\* The structure after a round.
LEMMA StructMerge ==
  ASSUME Struct, Merge
  PROVE  Struct'
<1>1. /\ Pool(stack', extra', DOMAIN link') /\ Busy /\ wpc = "merge"
      /\ bucket' = bucket /\ readonly' = readonly
  BY MergeFacts
<1>2. PICK b, n, m, l : Replaced(b, n, m, l) /\ (Fitted(m, l) \/ Unfitted(m, l))
  BY MergeFacts
<1>3. Types /\ Table /\ Chains
  BY DEF Struct
<1>4. /\ MyHead \in DOMAIN heads /\ heads[MyHead].key = wkey /\ wkey \in Keys
      /\ MyLink \in DOMAIN link /\ MyLink = heads[MyHead].link
  BY <1>1, <1>3, MyFacts
<1>5. /\ b = MyLink /\ n = link[b].next /\ b \in DOMAIN link /\ n \in DOMAIN link /\ b # n
      /\ m \notin DOMAIN link /\ m \in Blk /\ DOMAIN link' = (DOMAIN link \ {b, n}) \cup {m}
      /\ \A x \in DOMAIN link' : link'[x] \in LinkSet
      /\ \A x \in DOMAIN link : x # b /\ x # n => link'[x] = link[x]
      /\ link'[m].next = link[n].next /\ link' = [x \in DOMAIN link' |-> link'[x]]
      /\ heads' = [heads EXCEPT ![MyHead].link = m]
  BY <1>2 DEF Replaced
<1>6. PICK o : o = MyHead
  OBVIOUS
<1>7. /\ heads' \in Seq(HeadSet) /\ Len(heads') = Len(heads) /\ DOMAIN heads' = DOMAIN heads
      /\ \A i \in DOMAIN heads : /\ heads'[i].key = heads[i].key /\ heads'[i].next = heads[i].next
                                 /\ heads'[i].link = IF i = o THEN m ELSE heads[i].link
      /\ \A k \in Keys : SpotIn(heads', bucket, k) = SpotIn(heads, bucket, k)
  <2>1. o \in DOMAIN heads /\ m \in Blk /\ heads' = [heads EXCEPT ![o].link = m]
    BY <1>4, <1>5, <1>6
  <2> QED
    BY <1>3, <2>1, Relinked
<1>8. /\ count' \in [Keys -> Nat] /\ \A k \in Keys : count'[k] <= MaxSets[k]
      /\ \A k \in Keys : count'[k] > 0 => count[k] > 0 \/ k = wkey
      /\ ret' \in {"OK", "NEARLY_FULL", "FULL"}
      /\ (wpc' = "idle" /\ wkey' = 0) \/ (wpc' = wpc /\ wkey' = wkey /\ count' = count)
  BY <1>2, <1>3 DEF Fitted, Unfitted, Types
<1>9. Types'
  <2>1. link' \in [DOMAIN link' -> LinkSet] /\ DOMAIN link' \subseteq Blk
    BY <1>3, <1>5 DEF Types
  <2>2. /\ Len(heads') <= HeadMax /\ \A i \in DOMAIN heads' : heads'[i].next < i
        /\ bucket' \in [0..Buckets - 1 -> 0..Len(heads')]
    BY <1>1, <1>3, <1>7 DEF Types
  <2>3. /\ wpc' \in {"idle", "copy", "used", "lock", "merge", "newlink", "newhead"}
        /\ wkey' \in Keys \cup {0}
        /\ wpc' # "idle" => wkey' \in Keys /\ count'[wkey'] < MaxSets[wkey']
    BY <1>3, <1>8 DEF Types
  <2> QED
    BY <1>1, <1>3, <1>7, <1>8, <2>1, <2>2, <2>3 DEF Types
<1>10. Table'
  <2>1. \A i \in DOMAIN heads : heads[i].key \in Keys
    BY <1>3, HeadFacts DEF HeadSet
  <2>2. \A i \in DOMAIN heads' : SpotIn(heads', bucket', heads'[i].key) = i
    BY <1>1, <1>3, <1>7, <2>1 DEF Table
  <2>3. MyHead # 0
    BY <1>1, <1>3 DEF Table
  <2>4. \A k \in Keys : count'[k] > 0 => SpotIn(heads', bucket', k) # 0
    <3>1. \A k \in Keys : count[k] > 0 => SpotIn(heads, bucket, k) # 0
      BY <1>3 DEF Table
    <3> QED
      BY <1>1, <1>4, <1>7, <1>8, <2>3, <3>1 DEF MyHead
  <2>5. wpc' # "idle" => SpotIn(heads', bucket', wkey') # 0
    BY <1>1, <1>4, <1>7, <1>8, <2>3 DEF MyHead
  <2>6. wpc' # "newhead"
    BY <1>1, <1>8
  <2> QED
    BY <2>2, <2>4, <2>5, <2>6 DEF Table, Busy, MyHead
<1>11. Chains'
  <2>1. /\ \A i \in DOMAIN heads : heads[i].link \in DOMAIN link
        /\ \A x \in DOMAIN link : link[x].next \in DOMAIN link \cup {Null}
        /\ \A i, j \in DOMAIN heads : heads[i].link = heads[j].link => i = j
        /\ \A x, y \in DOMAIN link : link[x].next = link[y].next /\ link[x].next # Null => x = y
        /\ \A i \in DOMAIN heads : \A x \in DOMAIN link : heads[i].link # link[x].next
        /\ \A x \in DOMAIN link : Owned(heads, link, x)
    BY <1>3 DEF Chains
  <2>2. m # Null /\ n # Null /\ b # Null
    BY <1>3, <1>5, BlockFacts DEF Types
  <2>3. \A x \in DOMAIN link : link[x].next # b /\ (link[x].next = n => x = b)
    BY <1>4, <1>5, <2>1, <2>2
  <2>4. o \in DOMAIN heads /\ heads[o].link = b
        /\ \A i \in DOMAIN heads : heads[i].link # n /\ (heads[i].link = b => i = o)
    BY <1>4, <1>5, <1>6, <2>1
  <2>5. /\ \A x \in DOMAIN link' : x = m \/ (x \in DOMAIN link /\ x # b /\ x # n)
        /\ \A x \in DOMAIN link' : link'[x].next = IF x = m THEN link[n].next ELSE link[x].next
    BY <1>5
  <2>6. \A i \in DOMAIN heads' : heads'[i].link \in DOMAIN link'
    BY <1>5, <1>7, <2>1, <2>4
  <2>7. \A x \in DOMAIN link' : link'[x].next \in DOMAIN link' \cup {Null}
    BY <1>5, <2>1, <2>3, <2>5
  <2>8. \A i, j \in DOMAIN heads' : heads'[i].link = heads'[j].link => i = j
    BY <1>5, <1>7, <2>1
  <2>9. \A x, y \in DOMAIN link' : link'[x].next = link'[y].next /\ link'[x].next # Null => x = y
    BY <1>5, <2>1, <2>5
  <2>10. \A i \in DOMAIN heads' : \A x \in DOMAIN link' : heads'[i].link # link'[x].next
    BY <1>5, <1>7, <2>1, <2>2, <2>5
  <2>11. ASSUME NEW x \in DOMAIN link' PROVE Owned(heads', link', x)
    <3>1. CASE x = m
      BY <1>7, <2>4, <3>1 DEF Owned
    <3>2. CASE x # m
      <4>1. x \in DOMAIN link /\ x # b /\ x # n /\ Owned(heads, link, x)
        BY <2>1, <2>5, <3>2
      <4>2. CASE \E i \in DOMAIN heads : heads[i].link = x
        BY <1>7, <2>4, <4>1, <4>2 DEF Owned
      <4>3. ASSUME NEW a \in DOMAIN link, link[a].next = x PROVE Owned(heads', link', x)
        <5>1. a # b
          BY <1>5, <4>1, <4>3
        <5>2. CASE a = n
          BY <1>5, <4>3, <5>2 DEF Owned
        <5>3. CASE a # n
          <6>1. a \in DOMAIN link' /\ link'[a] = link[a]
            BY <1>5, <5>1, <5>3
          <6> QED
            BY <4>3, <6>1 DEF Owned
        <5> QED
          BY <5>2, <5>3
      <4> QED
        BY <4>1, <4>2, <4>3 DEF Owned
    <3> QED
      BY <3>1, <3>2
  <2> QED
    BY <2>6, <2>7, <2>8, <2>9, <2>10, <2>11 DEF Chains
<1> QED
  BY <1>1, <1>9, <1>10, <1>11 DEF Struct

\* A step that hangs no link: heads, buckets and pool stay, and so does the order of the links.
SameShape ==
  /\ heads' = heads /\ bucket' = bucket /\ stack' = stack /\ extra' = extra
  /\ DOMAIN link' = DOMAIN link /\ link' = [b \in DOMAIN link' |-> link'[b]]
  /\ \A b \in DOMAIN link : link'[b] \in LinkSet /\ link'[b].next = link[b].next /\ link'[b].self = link[b].self

\* It keeps chains and pool.
LEMMA ShapeKept ==
  ASSUME Struct, SameShape
  PROVE  /\ Chains' /\ Pool(stack', extra', DOMAIN link')
         /\ link' \in [DOMAIN link' -> LinkSet] /\ DOMAIN link' \subseteq Blk
         /\ \A k : SpotIn(heads', bucket', k) = SpotIn(heads, bucket, k)
<1>1. Types /\ Chains /\ Pool(stack, extra, DOMAIN link)
  BY DEF Struct
<1>2. /\ heads' = heads /\ DOMAIN link' = DOMAIN link
      /\ \A b \in DOMAIN link : link'[b].next = link[b].next
  BY DEF SameShape
<1>3. /\ \A i \in DOMAIN heads : heads[i].link \in DOMAIN link
      /\ \A b \in DOMAIN link : link[b].next \in DOMAIN link \cup {Null}
      /\ \A i, j \in DOMAIN heads : heads[i].link = heads[j].link => i = j
      /\ \A a, b \in DOMAIN link : link[a].next = link[b].next /\ link[a].next # Null => a = b
      /\ \A i \in DOMAIN heads : \A b \in DOMAIN link : heads[i].link # link[b].next
      /\ \A b \in DOMAIN link : Owned(heads, link, b)
  BY <1>1 DEF Chains
<1>4. /\ \A i \in DOMAIN heads' : heads'[i].link \in DOMAIN link'
      /\ \A b \in DOMAIN link' : link'[b].next \in DOMAIN link' \cup {Null}
      /\ \A i, j \in DOMAIN heads' : heads'[i].link = heads'[j].link => i = j
      /\ \A a, b \in DOMAIN link' : link'[a].next = link'[b].next /\ link'[a].next # Null => a = b
      /\ \A i \in DOMAIN heads' : \A b \in DOMAIN link' : heads'[i].link # link'[b].next
  BY <1>2, <1>3
<1>5. ASSUME NEW b \in DOMAIN link' PROVE Owned(heads', link', b)
  BY <1>2, <1>3 DEF Owned
<1>6. Chains'
  BY <1>4, <1>5 DEF Chains
<1>7. Pool(stack', extra', DOMAIN link')
  BY <1>1 DEF SameShape
<1>8. link' \in [DOMAIN link' -> LinkSet] /\ DOMAIN link' \subseteq Blk
  BY <1>1 DEF SameShape, Types
<1> QED
  BY <1>6, <1>7, <1>8 DEF SameShape

\* Nothing that the structure is made of changes.
LEMMA UnchangedShape ==
  ASSUME Types, UNCHANGED <<heads, bucket, stack, extra, link>>
  PROVE  SameShape
  BY DEF SameShape, Types

\* The parts of the structure that the update thread's pc and the counts are in.
LEMMA StructFrom ==
  ASSUME Struct, SameShape,
         count' \in [Keys -> Nat], \A k \in Keys : count'[k] <= MaxSets[k],
         \A k \in Keys : count'[k] > 0 => SpotIn(heads, bucket, k) # 0,
         wpc' \in {"idle", "copy", "used", "lock", "merge", "newlink", "newhead"},
         wkey' \in Keys \cup {0}, wpc' # "idle" => wkey' \in Keys /\ count'[wkey'] < MaxSets[wkey'],
         ret' \in {"OK", "NEARLY_FULL", "FULL"}, readonly' \in BOOLEAN,
         Busy' => SpotIn(heads, bucket, wkey') # 0,
         wpc' = "newhead" => SpotIn(heads, bucket, wkey') = 0 /\ Len(heads) < HeadMax
  PROVE  Struct'
<1>1. /\ Chains' /\ Pool(stack', extra', DOMAIN link')
      /\ link' \in [DOMAIN link' -> LinkSet] /\ DOMAIN link' \subseteq Blk
      /\ \A k : SpotIn(heads', bucket', k) = SpotIn(heads, bucket, k)
  BY ShapeKept
<1>2. heads' = heads /\ bucket' = bucket
  BY DEF SameShape
<1>3. Types'
  BY <1>1, <1>2 DEF Struct, Types
<1>4. Table'
  <2>1. \A i \in DOMAIN heads' : SpotIn(heads', bucket', heads'[i].key) = i
    BY <1>2 DEF Struct, Table
  <2>2. \A k \in Keys : count'[k] > 0 => SpotIn(heads', bucket', k) # 0
    BY <1>1
  <2>3. SpotIn(heads', bucket', wkey') = SpotIn(heads, bucket, wkey')
    BY <1>1
  <2>4. (MyHead)' = SpotIn(heads, bucket, wkey')
    BY <2>3 DEF MyHead
  <2> QED
    BY <1>2, <2>1, <2>2, <2>4 DEF Table
<1> QED
  BY <1>1, <1>3, <1>4 DEF Struct

\* set looks for the term.
LEMMA StructSetCall ==
  ASSUME Struct, NEW k \in Keys, SetCall(k)
  PROVE  Struct'
<1>1. Types /\ Table
  BY DEF Struct
<1>2. UNCHANGED <<heads, bucket, stack, extra, link, count>> /\ wpc = "idle" /\ count[k] < MaxSets[k]
  BY DEF SetCall
<1>3. SameShape
  BY <1>1, <1>2, UnchangedShape
<1>4. \/ readonly' = TRUE /\ ret' = "FULL" /\ wpc' = wpc /\ wkey' = wkey
      \/ /\ SpotIn(heads, bucket, k) = 0 /\ Len(heads) < HeadMax
         /\ wpc' = "newhead" /\ wkey' = k /\ UNCHANGED <<readonly, ret>>
      \/ /\ SpotIn(heads, bucket, k) # 0
         /\ wpc' \in {"copy", "lock"}
         /\ wkey' = k /\ UNCHANGED <<readonly, ret>>
  BY FirstIs DEF SetCall
<1>5. /\ count' \in [Keys -> Nat] /\ \A j \in Keys : count'[j] <= MaxSets[j]
      /\ \A j \in Keys : count'[j] > 0 => SpotIn(heads, bucket, j) # 0
  BY <1>1, <1>2 DEF Types, Table
<1>6. /\ wpc' \in {"idle", "copy", "used", "lock", "merge", "newlink", "newhead"}
      /\ wkey' \in Keys \cup {0} /\ (wpc' # "idle" => wkey' \in Keys /\ count'[wkey'] < MaxSets[wkey'])
      /\ ret' \in {"OK", "NEARLY_FULL", "FULL"} /\ readonly' \in BOOLEAN
  BY <1>1, <1>2, <1>4 DEF Types
<1>7. /\ Busy' => SpotIn(heads, bucket, wkey') # 0
      /\ wpc' = "newhead" => SpotIn(heads, bucket, wkey') = 0 /\ Len(heads) < HeadMax
  BY <1>2, <1>4 DEF Busy
<1> QED
  BY <1>3, <1>5, <1>6, <1>7, StructFrom

\* The first half of the copy.
LEMMA CopyDataFacts ==
  ASSUME Struct, CopyData
  PROVE  /\ SameShape /\ Busy /\ MyLink \in DOMAIN link
         /\ \A b \in DOMAIN link : /\ link'[b].used = link[b].used
                                   /\ link'[b].cells = IF b = MyLink THEN <<count[wkey] + 1>> \o link[b].cells
                                                                     ELSE link[b].cells
         /\ UNCHANGED <<heads, bucket, readonly, locked, wkey, count, ret>> /\ wpc = "copy" /\ wpc' = "used"
<1>1. Types /\ Table /\ Chains /\ Busy
  BY DEF Struct, CopyData, Busy
<1>2. PICK b : b = MyLink
  OBVIOUS
<1>3. b \in DOMAIN link /\ count[wkey] + 1 \in Nat /\ \A x \in DOMAIN link : link[x] \in LinkSet
  BY <1>1, <1>2, MyFacts
<1>4. link' = [link EXCEPT ![b].cells = <<count[wkey] + 1>> \o link[b].cells]
  BY <1>2, FirstIs DEF CopyData
<1>5. PICK c : c = <<count[wkey] + 1>> \o link[b].cells
  OBVIOUS
<1>6. c \in Seq(Nat)
  <2>1. <<count[wkey] + 1>> \in Seq(Nat) /\ link[b].cells \in Seq(Nat)
    BY <1>3 DEF LinkSet
  <2> QED
    BY <1>5, <2>1
<1>7. link = [x \in DOMAIN link |-> link[x]]
  BY <1>1 DEF Types
<1>8. /\ DOMAIN link' = DOMAIN link /\ link' = [x \in DOMAIN link' |-> link'[x]]
      /\ \A x \in DOMAIN link : link'[x] = IF x = b THEN [link[b] EXCEPT !.cells = c] ELSE link[x]
  BY <1>4, <1>5, <1>7
<1>9. ASSUME NEW x \in DOMAIN link
      PROVE  /\ link'[x] \in LinkSet /\ link'[x].next = link[x].next /\ link'[x].self = link[x].self
             /\ link'[x].used = link[x].used /\ link'[x].cells = IF x = b THEN c ELSE link[x].cells
  BY <1>3, <1>6, <1>8 DEF LinkSet
<1>10. /\ UNCHANGED <<heads, bucket, stack, extra, readonly, locked, wkey, count, ret>>
       /\ wpc = "copy" /\ wpc' = "used"
  BY DEF CopyData
<1>11. SameShape
  BY <1>8, <1>9, <1>10 DEF SameShape
<1> QED
  BY <1>1, <1>2, <1>3, <1>5, <1>9, <1>10, <1>11

\* The second half.
LEMMA CopyUsedFacts ==
  ASSUME Struct, CopyUsed
  PROVE  /\ SameShape /\ Busy /\ MyLink \in DOMAIN link
         /\ \A b \in DOMAIN link : /\ link'[b].cells = link[b].cells
                                   /\ link'[b].used = IF b = MyLink THEN link[b].used + 1 ELSE link[b].used
         /\ UNCHANGED <<heads, bucket, readonly, locked>> /\ wpc = "used" /\ wpc' = "idle" /\ wkey' = 0
         /\ ret' \in {"OK", "NEARLY_FULL", "FULL"}
         /\ count' \in [Keys -> Nat] /\ \A k \in Keys : count'[k] <= MaxSets[k]
         /\ \A k \in Keys : count'[k] = IF k = wkey THEN count[k] + 1 ELSE count[k]
<1>1. Types /\ Table /\ Chains /\ Busy /\ wpc = "used"
  BY DEF Struct, CopyUsed, Busy
<1>2. PICK b : b = MyLink
  OBVIOUS
<1>3. b \in DOMAIN link /\ \A x \in DOMAIN link : link[x] \in LinkSet
  BY <1>1, <1>2, MyFacts
<1>4. link' = [link EXCEPT ![b].used = link[b].used + 1]
  BY <1>2, FirstIs DEF CopyUsed
<1>5. link[b].used + 1 \in Nat
  BY <1>3 DEF LinkSet
<1>6. link = [x \in DOMAIN link |-> link[x]]
  BY <1>1 DEF Types
<1>7. /\ DOMAIN link' = DOMAIN link /\ link' = [x \in DOMAIN link' |-> link'[x]]
      /\ \A x \in DOMAIN link : link'[x] = IF x = b THEN [link[b] EXCEPT !.used = link[b].used + 1] ELSE link[x]
  BY <1>4, <1>6
<1>8. ASSUME NEW x \in DOMAIN link
      PROVE  /\ link'[x] \in LinkSet /\ link'[x].next = link[x].next /\ link'[x].self = link[x].self
             /\ link'[x].cells = link[x].cells
             /\ link'[x].used = IF x = b THEN link[x].used + 1 ELSE link[x].used
  BY <1>3, <1>5, <1>7 DEF LinkSet
<1>9. UNCHANGED <<heads, bucket, stack, extra, readonly, locked>> /\ Return(wkey, Result(Len(heads)))
  BY DEF CopyUsed
<1>10. PICK r : r = Result(Len(heads))
  OBVIOUS
<1>11. r \in {"OK", "NEARLY_FULL", "FULL"} /\ Return(wkey, r)
  BY <1>9, <1>10, ResultIs
<1>12. /\ wpc' = "idle" /\ wkey' = 0 /\ ret' = r
       /\ count' \in [Keys -> Nat] /\ \A k \in Keys : count'[k] <= MaxSets[k]
       /\ \A k \in Keys : count'[k] = IF k = wkey THEN count[k] + 1 ELSE count[k]
  BY <1>1, <1>11, Returned
<1>13. SameShape
  BY <1>7, <1>8, <1>9 DEF SameShape
<1> QED
  BY <1>1, <1>2, <1>3, <1>8, <1>9, <1>11, <1>12, <1>13

\* The structure after a copy, and where only the pc moves.
LEMMA StructCopy ==
  ASSUME Struct, CopyData \/ CopyUsed \/ WriteLock \/ MergeEnds
  PROVE  Struct'
<1>1. Types /\ Table /\ Chains
  BY DEF Struct
<1>2. CASE CopyData
  <2>1. /\ SameShape /\ Busy
        /\ UNCHANGED <<heads, bucket, readonly, locked, wkey, count, ret>> /\ wpc = "copy" /\ wpc' = "used"
    BY <1>2, CopyDataFacts
  <2>2. SpotIn(heads, bucket, wkey') # 0
    BY <1>1, <2>1 DEF Table, MyHead
  <2> QED
    BY <1>1, <2>1, <2>2, StructFrom DEF Types, Table
<1>3. CASE CopyUsed
  <2>1. /\ SameShape /\ Busy
        /\ UNCHANGED <<heads, bucket, readonly, locked>> /\ wpc = "used" /\ wpc' = "idle" /\ wkey' = 0
        /\ ret' \in {"OK", "NEARLY_FULL", "FULL"}
        /\ count' \in [Keys -> Nat] /\ \A k \in Keys : count'[k] <= MaxSets[k]
        /\ \A k \in Keys : count'[k] = IF k = wkey THEN count[k] + 1 ELSE count[k]
    BY <1>3, CopyUsedFacts
  <2>2. \A k \in Keys : count'[k] > 0 => SpotIn(heads, bucket, k) # 0
    BY <1>1, <2>1 DEF Table, MyHead
  <2>3. ~Busy'
    BY <2>1 DEF Busy
  <2> QED
    BY <1>1, <2>1, <2>2, <2>3, StructFrom DEF Types
<1>4. CASE WriteLock \/ MergeEnds
  <2>1. /\ UNCHANGED <<heads, bucket, stack, extra, link, readonly, wkey, count, ret>> /\ Busy
        /\ wpc' \in {"merge", "newlink"} /\ wpc # "idle"
    BY <1>4 DEF WriteLock, MergeEnds, Busy
  <2>2. SpotIn(heads, bucket, wkey') # 0
    BY <1>1, <2>1 DEF Table, MyHead
  <2>3. SameShape
    BY <1>1, <2>1, UnchangedShape
  <2> QED
    BY <1>1, <2>1, <2>2, <2>3, StructFrom DEF Types, Table
<1> QED
  BY <1>2, <1>3, <1>4

\* The blocks in use are finitely many.
LEMMA BlocksInUse ==
  ASSUME NEW st, NEW ex, NEW D, Pool(st, ex, D)
  PROVE  IsFiniteSet(D)
<1>1. D \ ex \subseteq PoolBlocks /\ ex \subseteq D /\ IsFiniteSet(ex)
  BY DEF Pool
<1>2. IsFiniteSet(D \ ex)
  BY <1>1, PoolFinite, FS_Subset
<1>3. IsFiniteSet((D \ ex) \cup ex)
  BY <1>1, <1>2, FS_Union
<1>4. (D \ ex) \cup ex = D
  BY <1>1
<1> QED
  BY <1>3, <1>4

\* A finite set in a row: every element once.
LEMMA InARow ==
  ASSUME NEW S, IsFiniteSet(S), NEW f, f = SetToSeq(S)
  PROVE  f \in Seq(S) /\ IsInjective(f) /\ Range(f) = S
<1>1. PICK n : n = Cardinality(S)
  OBVIOUS
<1>2. n \in Nat /\ ExistsBijection(1..n, S)
  BY <1>1, FS_CardinalityType
<1>3. PICK g : g \in Bijection(1..n, S)
  BY <1>2 DEF ExistsBijection
<1>4. g \in [1..n -> S] /\ (\A a, b \in 1..n : g[a] = g[b] => a = b)
  BY <1>3 DEF Bijection, Injection, IsInjective
<1>5. IsInjective(g)
  BY <1>4 DEF IsInjective
<1>6. f = CHOOSE h \in [1..Cardinality(S) -> S] : IsInjective(h)
  BY DEF SetToSeq
<1>7. f \in [1..n -> S] /\ IsInjective(f)
  BY <1>1, <1>4, <1>5, <1>6
<1>8. f \in Seq(S)
  BY <1>2, <1>7
<1>9. \A a, b \in 1..n : f[a] = f[b] => a = b
  BY <1>7 DEF IsInjective
<1>10. f \in Injection(1..n, S)
  BY <1>7, <1>9 DEF Injection, IsInjective
<1>11. IsFiniteSet(1..n) /\ Cardinality(1..n) = n
  BY <1>2, FS_Interval
<1>12. f \in Surjection(1..n, S)
  BY <1>1, <1>10, <1>11, FS_Injection
<1> QED
  BY <1>7, <1>8, <1>12 DEF Surjection, Range

\* A list without heads and links.
Emptied ==
  /\ heads' = <<>> /\ link' = <<>> /\ bucket' = [i \in 0..Buckets - 1 |-> 0]
  /\ count' = [k \in Keys |-> 0] /\ Pool(stack', extra', {})

\* It has the structure when the update thread is idle.
LEMMA EmptiedStruct ==
  ASSUME Emptied, wpc' = "idle", wkey' \in Keys \cup {0},
         ret' \in {"OK", "NEARLY_FULL", "FULL"}, readonly' \in BOOLEAN
  PROVE  /\ Struct' /\ Len(heads') = 0 /\ DOMAIN heads' = {} /\ DOMAIN link' = {}
         /\ \A k \in Keys : SpotIn(heads', bucket', k) = 0
<1>1. /\ heads' = <<>> /\ link' = <<>> /\ bucket' = [i \in 0..Buckets - 1 |-> 0]
      /\ count' = [k \in Keys |-> 0] /\ Pool(stack', extra', {})
  BY DEF Emptied
<1>2. Len(heads') = 0 /\ DOMAIN heads' = {} /\ DOMAIN link' = {} /\ heads' \in Seq(HeadSet)
  BY <1>1
<1>3. link' \in [DOMAIN link' -> LinkSet]
  <2>1. link' \in Seq(LinkSet) /\ Len(link') = 0
    BY <1>1
  <2> QED
    BY <2>1
<1>4. \A k \in Keys : bucket'[Bucket(k)] = 0
  BY <1>1, ConstantFacts
<1>5. \A k \in Keys : SpotIn(heads', bucket', k) = 0
  <2>1. PICK hs : hs = heads'
    OBVIOUS
  <2>2. Backward(hs)
    BY <1>2, <2>1 DEF Backward
  <2>3. ASSUME NEW k \in Keys PROVE FindIn(hs, k, 0) = 0
    <3>1. PICK o : o = 0
      OBVIOUS
    <3>2. o \in 0..Len(hs)
      BY <1>2, <2>1, <3>1
    <3>3. FindIn(hs, k, o) \in 0..o
      BY <2>2, <3>2, FindInRange
    <3> QED
      BY <3>1, <3>3
  <2> QED
    BY <1>4, <2>1, <2>3 DEF SpotIn
<1>6. Types'
  <2>1. Len(heads') <= HeadMax
    BY <1>2, ConstantFacts
  <2>2. bucket' \in [0..Buckets - 1 -> 0..Len(heads')]
    BY <1>1, <1>2
  <2>3. count' \in [Keys -> Nat] /\ \A k \in Keys : count'[k] <= MaxSets[k]
    BY <1>1, ListAssumption
  <2> QED
    BY <1>2, <1>3, <2>1, <2>2, <2>3 DEF Types
<1>7. Table'
  BY <1>1, <1>2 DEF Table, Busy
<1>8. Chains'
  BY <1>2 DEF Chains
<1> QED
  BY <1>1, <1>2, <1>5, <1>6, <1>7, <1>8 DEF Struct

\* clear gives every block back.
LEMMA ClearFacts ==
  ASSUME Struct, Clear
  PROVE  /\ Emptied /\ wpc = "idle" /\ rpc = "idle" /\ dump' = <<>> /\ sorted' = <<>> /\ readonly' = FALSE
         /\ UNCHANGED <<locked, wpc, wkey, ret, rVars>>
<1>1. PICK D, f : D = DOMAIN link /\ f = SetToSeq(D)
  OBVIOUS
<1>2. Pool(stack, extra, D) /\ PoolStep(0, f)
  BY <1>1 DEF Struct, Clear
<1>3. f \in Seq(D) /\ IsInjective(f) /\ Range(f) = D
  BY <1>1, <1>2, BlocksInUse, InARow
<1>4. Pool(stack', extra', D \ Range(f))
  BY <1>2, <1>3, StepFrees
<1>5. D \ Range(f) = {}
  BY <1>3
<1>6. Pool(stack', extra', {})
  BY <1>4, <1>5
<1> QED
  BY <1>6 DEF Clear, Emptied

\* The rest leaves the structure alone.
LEMMA StructRest ==
  ASSUME Struct, Get \/ Begin \/ ItNext \/ UNCHANGED vars
  PROVE  Struct' /\ SameShape /\ UNCHANGED <<bucket, heads, link, locked, wpc, wkey, count, ret>>
<1>1. Types /\ Table /\ Chains
  BY DEF Struct
<1>2. UNCHANGED wVars \/ (UNCHANGED <<bucket, heads, link, locked, wpc, wkey, count, ret, stack, extra>> /\ readonly' = TRUE)
  BY DEF Get, GetCall, GetLock, GetOffset, GetCompare, GetCopy, GetEnds, GetReturned, Begin, ItNext, vars
<1>3. /\ UNCHANGED <<bucket, heads, link, locked, wpc, wkey, count, ret, stack, extra>>
      /\ readonly' = readonly \/ readonly' = TRUE
  BY <1>2 DEF wVars
<1>4. SameShape
  BY <1>1, <1>3, UnchangedShape
<1>5. Struct'
  <2>1. /\ count' \in [Keys -> Nat] /\ \A k \in Keys : count'[k] <= MaxSets[k]
        /\ \A k \in Keys : count'[k] > 0 => SpotIn(heads, bucket, k) # 0
    BY <1>1, <1>3 DEF Types, Table
  <2>2. /\ wpc' \in {"idle", "copy", "used", "lock", "merge", "newlink", "newhead"}
        /\ wkey' \in Keys \cup {0} /\ (wpc' # "idle" => wkey' \in Keys /\ count'[wkey'] < MaxSets[wkey'])
        /\ ret' \in {"OK", "NEARLY_FULL", "FULL"} /\ readonly' \in BOOLEAN
    BY <1>1, <1>3 DEF Types
  <2>3. /\ Busy' => SpotIn(heads, bucket, wkey') # 0
        /\ wpc' = "newhead" => SpotIn(heads, bucket, wkey') = 0 /\ Len(heads) < HeadMax
    BY <1>1, <1>3 DEF Table, Busy, MyHead
  <2> QED
    BY <1>4, <2>1, <2>2, <2>3, StructFrom
<1> QED
  BY <1>3, <1>4, <1>5

\* The structure at the beginning.
LEMMA StructInit == Init => Struct
<1> SUFFICES ASSUME Init PROVE Struct
  OBVIOUS
<1>1. /\ heads = <<>> /\ link = <<>> /\ bucket = [i \in 0..Buckets - 1 |-> 0] /\ wpc = "idle" /\ wkey = 0
      /\ count = [k \in Keys |-> 0] /\ ret = "OK" /\ readonly = FALSE
  BY DEF Init
<1>2. Pool(stack, extra, {})
  BY PoolBegins DEF Init
<1>3. Len(heads) = 0 /\ DOMAIN heads = {} /\ DOMAIN link = {} /\ heads \in Seq(HeadSet)
  BY <1>1
<1>4. link \in [DOMAIN link -> LinkSet]
  <2>1. link \in Seq(LinkSet) /\ Len(link) = 0
    BY <1>1
  <2> QED
    BY <2>1
<1>5. Types
  <2>1. Len(heads) <= HeadMax
    BY <1>3, ConstantFacts
  <2>2. bucket \in [0..Buckets - 1 -> 0..Len(heads)]
    BY <1>1, <1>3
  <2>3. count \in [Keys -> Nat] /\ \A k \in Keys : count[k] <= MaxSets[k]
    BY <1>1, ListAssumption
  <2> QED
    BY <1>1, <1>3, <1>4, <2>1, <2>2, <2>3 DEF Types
<1>6. Table
  BY <1>1, <1>3 DEF Table, Busy
<1>7. Chains
  BY <1>3 DEF Chains
<1> QED
  BY <1>2, <1>3, <1>5, <1>6, <1>7 DEF Struct

\* Every step keeps the structure.
LEMMA StructStep == Struct /\ [Next]_vars => Struct'
<1> SUFFICES ASSUME Struct, [Next]_vars PROVE Struct'
  OBVIOUS
<1>1. CASE \E k \in Keys : SetCall(k)
  BY <1>1, StructSetCall
<1>2. CASE CopyData \/ CopyUsed \/ WriteLock \/ MergeEnds
  BY <1>2, StructCopy
<1>3. CASE Merge
  BY <1>3, StructMerge
<1>4. CASE AddLink
  BY <1>4, StructAddLink
<1>5. CASE AddHead
  BY <1>5, StructAddHead
<1>6. CASE Clear
  <2>1. Emptied /\ wpc' = "idle" /\ wkey' = wkey /\ ret' = ret /\ readonly' = FALSE
    BY <1>6, ClearFacts
  <2> QED
    BY <2>1, EmptiedStruct DEF Struct, Types
<1>7. CASE Get \/ Begin \/ ItNext \/ UNCHANGED vars
  BY <1>7, StructRest
<1> QED
  BY <1>1, <1>2, <1>3, <1>4, <1>5, <1>6, <1>7 DEF Next, Set, Dump

\* Where set and clear do not interfere with a get.
LEMMA LockWriter ==
  ASSUME Struct, Lock, UNCHANGED <<rpc, rkey, rhead, rlink, roff, rbig, rleft, rfrom>>, rgrew' \in BOOLEAN,
         locked' = (wpc' = "merge"), locked' => NoReaders,
         Len(heads) <= Len(heads') \/ rpc = "idle", Len(heads') \in Nat,
         DOMAIN link \subseteq DOMAIN link' \/ NoReaders
  PROVE  Lock'
<1>1. Len(heads) \in Nat
  BY HeadFacts DEF Struct
<1>2. rhead' \in 0..Len(heads') /\ (rpc' = "idle" => rhead' = 0)
  BY <1>1 DEF Lock
<1>3. rpc' \in {"link", "cond", "take"} => rlink' \in DOMAIN link' \cup {Null}
  BY DEF Lock, NoReaders
<1>4. locked' = (wpc' = "merge") /\ (locked' => NoReaders')
  BY DEF NoReaders
<1> QED
  BY <1>2, <1>3, <1>4 DEF Lock

\* The steps of set and clear.
LEMMA LockSet ==
  ASSUME Struct, Lock, Set \/ Clear
  PROVE  Lock'
<1>1. Len(heads) \in Nat
  BY HeadFacts DEF Struct
<1>2. Types
  BY DEF Struct
<1>3. ASSUME NEW k \in Keys, SetCall(k) PROVE Lock'
  BY <1>1, <1>3, LockWriter DEF SetCall, rVars, Lock
<1>4. CASE CopyData
  <2>1. DOMAIN link' = DOMAIN link
    BY <1>4, CopyDataFacts DEF SameShape
  <2> QED
    BY <1>1, <1>4, <2>1, LockWriter DEF CopyData, rVars, Lock
<1>5. CASE CopyUsed
  <2>1. DOMAIN link' = DOMAIN link /\ wpc = "used" /\ wpc' = "idle" /\ heads' = heads /\ locked' = locked
    BY <1>5, CopyUsedFacts DEF SameShape
  <2>2. rgrew' \in BOOLEAN /\ UNCHANGED <<rpc, rkey, rhead, rlink, roff, rbig, rleft, rfrom>>
    BY <1>5 DEF CopyUsed, Lock
  <2>3. locked' = (wpc' = "merge") /\ (locked' => NoReaders)
    BY <2>1 DEF Lock
  <2> QED
    BY <1>1, <2>1, <2>2, <2>3, LockWriter
<1>6. CASE WriteLock
  <2>1. wpc' = "merge" /\ locked' = TRUE /\ NoReaders /\ UNCHANGED rVars /\ UNCHANGED <<heads, link>>
    BY <1>6 DEF WriteLock
  <2>2. rgrew' \in BOOLEAN /\ UNCHANGED <<rpc, rkey, rhead, rlink, roff, rbig, rleft, rfrom>>
    BY <2>1 DEF rVars, Lock
  <2>3. locked' = (wpc' = "merge")
    BY <2>1
  <2> QED
    BY <1>1, <2>1, <2>2, <2>3, LockWriter
<1>7. CASE MergeEnds
  BY <1>1, <1>7, LockWriter DEF MergeEnds, rVars, Lock
<1>8. CASE Merge
  <2>1. PICK b, n, m, l : Replaced(b, n, m, l) /\ (Fitted(m, l) \/ Unfitted(m, l))
    BY <1>8, MergeFacts
  <2>2. Len(heads') = Len(heads)
    BY <2>1 DEF Replaced, Struct, Types
  <2>3. wpc = "merge" /\ UNCHANGED rVars
    BY <1>8 DEF Merge
  <2>4. NoReaders /\ locked
    BY <2>3 DEF Lock
  <2>5. locked' = (wpc' = "merge")
    BY <2>1, <2>3, <2>4 DEF Fitted, Unfitted
  <2> QED
    BY <1>1, <2>2, <2>3, <2>4, <2>5, LockWriter DEF rVars, Lock
<1>9. CASE AddLink
  <2>1. PICK m : Hung(m, MyLink, wkey) /\ heads' = [heads EXCEPT ![MyHead].link = m]
    BY <1>9, AddLinkFacts
  <2>2. Len(heads') = Len(heads) /\ DOMAIN link \subseteq DOMAIN link'
    BY <2>1 DEF Hung, Struct, Types
  <2>3. wpc = "newlink" /\ wpc' = "idle" /\ locked' = locked /\ UNCHANGED rVars
    BY <1>9, AddLinkFacts DEF AddLink
  <2>4. ~locked
    BY <2>3 DEF Lock
  <2> QED
    BY <1>1, <2>2, <2>3, <2>4, LockWriter DEF rVars, Lock
<1>10. CASE AddHead
  <2>1. PICK m : Hung(m, Null, wkey) /\ heads' = Append(heads, [key |-> wkey, next |-> bucket[Bucket(wkey)], link |-> m])
    BY <1>10, AddHeadFacts
  <2>2. Len(heads') = Len(heads) + 1 /\ DOMAIN link \subseteq DOMAIN link'
    BY <2>1 DEF Hung, Struct, Types
  <2>3. wpc = "newhead" /\ wpc' = "idle" /\ locked' = locked /\ UNCHANGED rVars
    BY <1>10, AddHeadFacts DEF AddHead
  <2>4. ~locked
    BY <2>3 DEF Lock
  <2> QED
    BY <1>1, <2>2, <2>3, <2>4, LockWriter DEF rVars, Lock
<1>11. CASE Clear
  <2>1. Len(heads') = 0 /\ rpc = "idle" /\ UNCHANGED <<locked, wpc, rVars>>
    BY <1>11, ClearFacts DEF Emptied
  <2>2. NoReaders
    BY <2>1 DEF NoReaders
  <2> QED
    BY <1>1, <2>1, <2>2, LockWriter DEF rVars, Lock
<1> QED
  BY <1>3, <1>4, <1>5, <1>6, <1>7, <1>8, <1>9, <1>10, <1>11 DEF Set

\* A copy leaves no less than nothing of the buffer, unless it ran over before.
LEMMA LeftAfter ==
  ASSUME NEW left \in Nat \cup {-1}, NEW n \in Nat
  PROVE  (IF Exceeds(left, n) \/ left = n THEN IF left = -1 THEN -1 ELSE left - n ELSE -1) \in Nat \cup {-1}
  BY DEF Exceeds

\* The steps of get.
LEMMA LockGet ==
  ASSUME Struct, Lock, Get
  PROVE  Lock'
<1>1. UNCHANGED <<bucket, heads, link, locked, wpc>>
  BY StructRest
<1>2. Len(heads) \in Nat /\ DOMAIN heads = 1..Len(heads) /\ Backward(heads) /\ Types /\ Chains
  BY HeadFacts DEF Struct
<1>3. /\ locked = (wpc = "merge") /\ (locked => NoReaders)
      /\ rpc \in {"idle", "lock", "link", "cond", "take", "done"}
      /\ rhead \in 0..Len(heads) /\ (rpc = "idle" => rhead = 0)
      /\ rpc \in {"cond", "take"} => rlink # Null /\ rlink \in DOMAIN link /\ rleft # 0
      /\ rpc = "link" => rlink \in DOMAIN link \cup {Null}
      /\ rpc # "idle" => rkey \in Keys
      /\ rkey \in Keys \cup {0} /\ rfrom \in Nat /\ rbig \in BOOLEAN /\ rgrew \in BOOLEAN
      /\ rleft \in Nat \cup {-1} /\ (rpc = "take" /\ ~rbig => rleft # -1)
  BY DEF Lock
<1>4. ASSUME NEW k \in Keys, NEW n \in Lens, GetCall(k, n) PROVE Lock'
  <2>1. n \in Nat /\ bucket[Bucket(k)] \in 0..Len(heads) /\ count[k] \in Nat
    BY <1>2, HeadFacts, ListAssumption DEF Types
  <2>2. /\ rpc' = "lock" /\ rkey' = k /\ rhead' = bucket[Bucket(k)] /\ rleft' = n
        /\ rfrom' = count[k] /\ rgrew' = FALSE /\ UNCHANGED <<rlink, roff, rbig>>
    BY <1>4 DEF GetCall
  <2> QED
    BY <1>1, <1>3, <2>1, <2>2 DEF Lock, NoReaders
<1>5. CASE GetLock
  <2>1. PICK o : o = FindIn(heads, rkey, rhead)
    OBVIOUS
  <2>2. o \in 0..rhead
    BY <1>2, <1>3, <2>1, FindInRange
  <2>3. o # 0 => o \in DOMAIN heads /\ heads[o].link \in DOMAIN link
    BY <1>2, <1>3, <2>2 DEF Chains
  <2>4. /\ rpc = "lock" /\ ~locked /\ rhead' = 0 /\ UNCHANGED <<rkey, rbig, rleft, rfrom, rgrew>>
        /\ \/ rpc' = "done" /\ rlink' = rlink
           \/ rpc' = "link" /\ rlink' \in DOMAIN link
    BY <1>5, <2>1, <2>3, FindIsFindIn DEF GetLock
  <2> QED
    BY <1>1, <1>2, <1>3, <2>4 DEF Lock, NoReaders
<1>6. CASE GetOffset
  BY <1>1, <1>2, <1>3, <1>6 DEF GetOffset, Lock, NoReaders
<1>7. CASE GetCompare
  <2>1. /\ rpc = "cond" /\ rpc' = "take" /\ rbig' = Exceeds(rleft, link[rlink].used)
        /\ UNCHANGED <<rkey, rhead, rlink, rleft, rfrom, rgrew>>
    BY <1>7 DEF GetCompare
  <2>2. rbig' \in BOOLEAN /\ (~rbig' => rleft # -1)
    BY <2>1 DEF Exceeds
  <2> QED
    BY <1>1, <1>2, <1>3, <2>1, <2>2 DEF Lock, NoReaders
<1>8. CASE GetCopy
  <2>1. PICK n : n = IF rbig THEN link[rlink].used ELSE rleft
    OBVIOUS
  <2>2. /\ rpc = "take" /\ rpc' = "link" /\ rlink' = link[rlink].next /\ rbig' = FALSE
        /\ rleft' = IF Exceeds(rleft, n) \/ rleft = n THEN IF rleft = -1 THEN -1 ELSE rleft - n ELSE -1
        /\ UNCHANGED <<rkey, rhead, rfrom, rgrew>>
    BY <1>8, <2>1 DEF GetCopy
  <2>3. link[rlink] \in LinkSet /\ link[rlink].next \in DOMAIN link \cup {Null}
    BY <1>2, <1>3, <2>2 DEF Types, Chains
  <2>4. n \in Nat
    BY <1>3, <2>1, <2>2, <2>3 DEF LinkSet
  <2>5. rleft' \in Nat \cup {-1}
    BY <1>3, <2>2, <2>4, LeftAfter
  <2> QED
    BY <1>1, <1>2, <1>3, <2>2, <2>3, <2>5 DEF Lock, NoReaders
<1>9. CASE GetEnds
  BY <1>1, <1>2, <1>3, <1>9 DEF GetEnds, Lock, NoReaders
<1>10. CASE GetReturned
  <2>1. /\ rpc' = "idle" /\ rlink' = Null /\ rleft' = 0 /\ rkey' = 0 /\ rhead' = 0 /\ rfrom' = 0
        /\ rgrew' = FALSE /\ rbig' = rbig
    BY <1>10 DEF GetReturned
  <2>2. NoReaders'
    BY <2>1 DEF NoReaders
  <2>3. rhead' \in 0..Len(heads') /\ rleft' \in Nat \cup {-1} /\ rfrom' \in Nat
    BY <1>1, <1>2, <2>1
  <2>4. locked' = (wpc' = "merge")
    BY <1>1, <1>3
  <2> QED
    BY <1>3, <2>1, <2>2, <2>3, <2>4 DEF Lock
<1> QED
  BY <1>4, <1>5, <1>6, <1>7, <1>8, <1>9, <1>10 DEF Get

\* The lock's invariant is kept.
LEMMA LockStep == Struct /\ Lock /\ [Next]_vars => Lock'
<1> SUFFICES ASSUME Struct, Lock, [Next]_vars PROVE Lock'
  OBVIOUS
<1>1. CASE Begin \/ ItNext \/ UNCHANGED vars
  <2>1. UNCHANGED <<bucket, heads, link, locked, wpc, wkey, count, ret>> /\ UNCHANGED rVars
    BY <1>1, StructRest DEF Begin, ItNext, vars
  <2> QED
    BY <2>1 DEF Lock, NoReaders, rVars
<1> QED
  BY <1>1, LockSet, LockGet DEF Next, Dump

\* And holds at the beginning.
LEMMA LockInit == Init => Lock
<1> SUFFICES ASSUME Init PROVE Lock
  OBVIOUS
<1>1. Len(heads) = 0
  BY DEF Init
<1>2. /\ locked = FALSE /\ wpc = "idle" /\ rpc = "idle" /\ rkey = 0 /\ rhead = 0 /\ rlink = Null
      /\ rbig = FALSE /\ rleft = 0 /\ rfrom = 0 /\ rgrew = FALSE
  BY DEF Init
<1>3. locked = (wpc = "merge") /\ (locked => NoReaders)
  BY <1>2
<1>4. rhead \in 0..Len(heads) /\ rleft \in Nat \cup {-1} /\ rfrom \in Nat
  BY <1>1, <1>2
<1> QED
  BY <1>2, <1>3, <1>4 DEF Lock

\* A get finds no link that went back to the pool.
THEOREM NoFreedLinkHolds == Spec => []NoFreedLink
<1>1. Init => Struct /\ Lock
  BY StructInit, LockInit
<1>2. (Struct /\ Lock) /\ [Next]_vars => (Struct /\ Lock)'
  BY StructStep, LockStep
<1>3. Struct /\ Lock => NoFreedLink
  BY DEF Lock, NoFreedLink
<1> QED
  BY <1>1, <1>2, <1>3, PTL DEF Spec

\* A posting in front, and a run in front of a run.
LEMMA RunFacts ==
  /\ \A x \in Nat : RunOf(<<x>>, x)
  /\ \A c \in Seq(Nat), f \in Nat : RunOf(c, f) => /\ c[1] = f + Len(c) - 1 /\ c[1] \in Nat /\ c[1] >= f
                                                   /\ RunOf(<<c[1] + 1>> \o c, f)
                                                   /\ Len(<<c[1] + 1>> \o c) = Len(c) + 1
                                                   /\ (<<c[1] + 1>> \o c)[1] = c[1] + 1
  /\ \A c, d \in Seq(Nat), f \in Nat :
       RunOf(c, f) /\ RunOf(d, c[1] + 1) => /\ RunOf(d \o c, f) /\ (d \o c)[1] = d[1]
                                            /\ Len(d \o c) = Len(d) + Len(c)
<1>1. ASSUME NEW x \in Nat PROVE RunOf(<<x>>, x)
  <2>1. Len(<<x>>) = 1 /\ <<x>>[1] = x
    OBVIOUS
  <2>2. \A j \in 1..1 : <<x>>[j] = x + 1 - j
    BY <2>1
  <2> QED
    BY <2>1, <2>2 DEF RunOf
<1>2. ASSUME NEW c \in Seq(Nat), NEW d \in Seq(Nat), NEW f \in Nat, RunOf(c, f), RunOf(d, c[1] + 1)
      PROVE  RunOf(d \o c, f) /\ (d \o c)[1] = d[1] /\ Len(d \o c) = Len(d) + Len(c)
  <2>1. PICK p, q : p = Len(c) /\ q = Len(d)
    OBVIOUS
  <2>2. p \in Nat /\ q \in Nat /\ p >= 1 /\ q >= 1 /\ c[1] \in Nat
    BY <1>2, <2>1 DEF RunOf
  <2>3. \A j \in 1..p : c[j] = f + p - j
    BY <1>2, <2>1 DEF RunOf
  <2>4. \A j \in 1..q : d[j] = c[1] + 1 + q - j
    BY <1>2, <2>1 DEF RunOf
  <2>5. c[1] = f + p - 1
    BY <2>2, <2>3
  <2>6. PICK e : e = d \o c
    OBVIOUS
  <2>7. /\ Len(e) = q + p
        /\ \A j \in 1..q + p : e[j] = IF j <= q THEN d[j] ELSE c[j - q]
    BY <2>1, <2>6
  <2>8. ASSUME NEW j \in 1..q + p PROVE e[j] = f + (q + p) - j
    <3>1. CASE j <= q
      <4>1. e[j] = d[j] /\ j \in 1..q
        BY <2>7, <3>1
      <4>2. e[j] = c[1] + 1 + q - j
        BY <2>4, <4>1
      <4> QED
        BY <2>2, <2>5, <4>2
    <3>2. CASE ~(j <= q)
      <4>1. j - q \in 1..p /\ e[j] = c[j - q]
        BY <2>2, <2>7, <3>2
      <4>2. e[j] = f + p - (j - q)
        BY <2>3, <4>1
      <4> QED
        BY <2>2, <4>1, <4>2
    <3> QED
      BY <3>1, <3>2
  <2>9. e[1] = d[1]
    BY <2>2, <2>7
  <2> QED
    BY <2>1, <2>2, <2>6, <2>7, <2>8, <2>9 DEF RunOf
<1>3. ASSUME NEW c \in Seq(Nat), NEW f \in Nat, RunOf(c, f)
      PROVE  /\ c[1] = f + Len(c) - 1 /\ c[1] \in Nat /\ c[1] >= f /\ RunOf(<<c[1] + 1>> \o c, f)
             /\ Len(<<c[1] + 1>> \o c) = Len(c) + 1 /\ (<<c[1] + 1>> \o c)[1] = c[1] + 1
  <2>1. Len(c) \in Nat /\ Len(c) >= 1 /\ c[1] = f + Len(c) - 1
    BY <1>3 DEF RunOf
  <2>2. c[1] \in Nat /\ c[1] >= f
    BY <2>1
  <2>3. PICK x : x = c[1] + 1
    OBVIOUS
  <2>4. PICK d : d = <<x>>
    OBVIOUS
  <2>5. x \in Nat /\ d \in Seq(Nat) /\ RunOf(d, c[1] + 1) /\ Len(d) = 1 /\ d[1] = x
    BY <1>1, <2>2, <2>3, <2>4
  <2>6. RunOf(d \o c, f) /\ (d \o c)[1] = d[1] /\ Len(d \o c) = Len(d) + Len(c)
    BY <1>2, <1>3, <2>5
  <2> QED
    BY <2>1, <2>2, <2>3, <2>4, <2>5, <2>6
<1> QED
  BY <1>1, <1>2, <1>3

\* The links and their cells, one by one.
LEMMA LinkFacts ==
  ASSUME Struct, Runs
  PROVE  \A b \in DOMAIN link : /\ link[b] \in LinkSet /\ link[b].cells \in Seq(Nat) /\ link[b].used \in Nat
                                /\ link[b].self \in Nat \ {0} /\ link[b].next \in DOMAIN link \cup {Null}
                                /\ link[b].cells[1] \in Nat /\ link[b].cells[1] >= 1 /\ Below(link, b) \in Nat
                                /\ RunOf(link[b].cells, Below(link, b) + 1)
<1>1. \A b \in DOMAIN link : /\ link[b] \in LinkSet /\ link[b].cells \in Seq(Nat) /\ link[b].used \in Nat
                             /\ link[b].self \in Nat \ {0} /\ link[b].next \in DOMAIN link \cup {Null}
  BY DEF Struct, Types, Chains, LinkSet
<1>2. \A b \in DOMAIN link : Len(link[b].cells) >= 1 /\ RunOf(link[b].cells, Below(link, b) + 1)
  BY DEF Runs, RunOf
<1>3. \A b \in DOMAIN link : link[b].cells[1] \in Nat
  BY <1>1, <1>2
<1>4. \A b \in DOMAIN link : Below(link, b) \in Nat
  BY <1>1, <1>3 DEF Below
<1>5. ASSUME NEW b \in DOMAIN link PROVE link[b].cells[1] >= Below(link, b) + 1
  <2>1. PICK c, f : c = link[b].cells /\ f = Below(link, b) + 1
    OBVIOUS
  <2>2. c \in Seq(Nat) /\ f \in Nat /\ RunOf(c, f)
    BY <1>1, <1>2, <1>4, <2>1
  <2>3. c[1] >= f
    BY <2>2, RunFacts
  <2> QED
    BY <2>1, <2>3
<1>6. \A b \in DOMAIN link : link[b].cells[1] >= 1
  BY <1>3, <1>4, <1>5
<1> QED
  BY <1>1, <1>2, <1>3, <1>4, <1>6

\* The update thread's term: nothing is behind its link but its own postings, and nothing leads to it.
LEMMA MyRun ==
  ASSUME Struct, Runs, Busy
  PROVE  /\ link[MyLink].cells[1] = count[wkey] + Pending(wkey)
         /\ \A i \in DOMAIN heads : heads[i].key = wkey => i = MyHead
         /\ \A i \in DOMAIN heads : heads[i].link = MyLink => i = MyHead
         /\ \A b \in DOMAIN link : link[b].next # MyLink
<1>1. Types /\ Table /\ Chains
  BY DEF Struct
<1>2. MyHead \in DOMAIN heads /\ heads[MyHead].key = wkey /\ MyLink = heads[MyHead].link
  BY <1>1, MyFacts
<1>3. link[MyLink].cells[1] = count[wkey] + Pending(wkey)
  BY <1>2 DEF Runs
<1>4. \A i \in DOMAIN heads : heads[i].key = wkey => i = MyHead
  BY <1>1 DEF Table, MyHead
<1> QED
  BY <1>1, <1>2, <1>3, <1>4 DEF Chains

\* Free bytes: of an equal link, with a posting more, of a new link and of a merged one.
LEMMA RoomFacts ==
  /\ \A x \in LinkSet : Room(x) \in Int
  /\ \A x, y \in LinkSet : y.self = x.self /\ y.used = x.used => Room(y) = Room(x)
  /\ \A x, y \in LinkSet : y.self = x.self /\ y.used = x.used + 1 => Room(y) = Room(x) - CellSize
  /\ \A x \in LinkSet : x.self = Base /\ x.used = 1 => Room(x) >= 0
  /\ \A x, y, z \in LinkSet : x.self = y.self /\ z.self = 2 * x.self /\ z.used = x.used + y.used =>
       Room(z) = Room(x) + Room(y) + LinkHead
<1>1. CellSize \in Nat /\ LinkHead \in Nat /\ Base \in Nat /\ Base >= CellSize + LinkHead
  BY ConstantFacts
<1>2. \A x \in LinkSet : x.self \in Nat /\ x.used \in Nat
  BY DEF LinkSet
<1>3. \A u \in Nat : u * CellSize \in Nat
  BY <1>1
<1>4. \A u \in Nat : (u + 1) * CellSize = u * CellSize + CellSize
  BY <1>1
<1>5. \A u, v \in Nat : (u + v) * CellSize = u * CellSize + v * CellSize
  BY <1>1
<1>6. \A x \in LinkSet : Room(x) \in Int
  BY <1>1, <1>2, <1>3 DEF Room
<1>7. \A x, y \in LinkSet : y.self = x.self /\ y.used = x.used => Room(y) = Room(x)
  BY DEF Room
<1>8. ASSUME NEW x \in LinkSet, NEW y \in LinkSet, y.self = x.self, y.used = x.used + 1
      PROVE  Room(y) = Room(x) - CellSize
  <2>1. PICK p : p = x.used * CellSize
    OBVIOUS
  <2>2. y.used * CellSize = p + CellSize /\ p \in Nat
    BY <1>2, <1>3, <1>4, <1>8, <2>1
  <2>3. Room(x) = x.self - p - LinkHead /\ Room(y) = x.self - (p + CellSize) - LinkHead
    BY <1>8, <2>1, <2>2 DEF Room
  <2> QED
    BY <1>1, <1>2, <2>2, <2>3
<1>9. \A x \in LinkSet : x.self = Base /\ x.used = 1 => Room(x) >= 0
  BY <1>1 DEF Room
<1>10. ASSUME NEW x \in LinkSet, NEW y \in LinkSet, NEW z \in LinkSet,
              x.self = y.self, z.self = 2 * x.self, z.used = x.used + y.used
       PROVE  Room(z) = Room(x) + Room(y) + LinkHead
  <2>1. PICK p, q : p = x.used * CellSize /\ q = y.used * CellSize
    OBVIOUS
  <2>2. z.used * CellSize = p + q /\ p \in Nat /\ q \in Nat
    <3>1. x.used \in Nat /\ y.used \in Nat
      BY <1>2
    <3>2. (x.used + y.used) * CellSize = x.used * CellSize + y.used * CellSize
      BY <3>1, <1>5, Zenon
    <3>3. z.used * CellSize = x.used * CellSize + y.used * CellSize
      BY <3>2, <1>10, Zenon
    <3>4. p \in Nat /\ q \in Nat
      BY <3>1, <1>3, <2>1, Zenon
    <3> QED
      BY <3>3, <3>4, <2>1, Zenon
  <2>3. Room(x) = x.self - p - LinkHead /\ Room(y) = x.self - q - LinkHead /\ Room(z) = 2 * x.self - (p + q) - LinkHead
    <3>1. Room(x) = x.self - p - LinkHead
      BY <2>1 DEF Room
    <3>2. Room(y) = x.self - q - LinkHead
      BY <1>10, <2>1 DEF Room
    <3>3. Room(z) = 2 * x.self - (p + q) - LinkHead
      BY <1>10, <2>2 DEF Room
    <3> QED
      BY <3>1, <3>2, <3>3
  <2> QED
    BY <1>1, <1>2, <2>2, <2>3
<1> QED
  BY <1>6, <1>7, <1>8, <1>9, <1>10

\* set begins, the lock is taken or released.
LEMMA RunsIdle ==
  ASSUME Struct, Runs, UNCHANGED <<heads, link, count>>, wpc # "used", wpc' # "used"
  PROVE  Runs'
<1>1. \A b : Below(link', b) = Below(link, b) /\ Hidden(b) = 0 /\ Hidden(b)' = 0
  BY DEF Below, Hidden
<1>2. \A k : Pending(k) = 0 /\ Pending(k)' = 0
  BY DEF Pending
<1> QED
  BY <1>1, <1>2 DEF Runs

\* The two halves of a copy.
LEMMA RunsCopy ==
  ASSUME Struct, Runs, CopyData \/ CopyUsed
  PROVE  Runs'
<1>1. /\ SameShape /\ Busy /\ MyLink \in DOMAIN link /\ heads' = heads
      /\ DOMAIN link' = DOMAIN link /\ \A b \in DOMAIN link : link'[b].next = link[b].next
  BY CopyDataFacts, CopyUsedFacts DEF SameShape
<1>2. /\ link[MyLink].cells[1] = count[wkey] + Pending(wkey)
      /\ \A i \in DOMAIN heads : heads[i].key = wkey => i = MyHead
      /\ \A i \in DOMAIN heads : heads[i].link = MyLink => i = MyHead
      /\ \A b \in DOMAIN link : link[b].next # MyLink
      /\ MyHead \in DOMAIN heads /\ heads[MyHead].key = wkey /\ heads[MyHead].link = MyLink
      /\ count[wkey] \in Nat
  BY <1>1, MyRun, MyFacts DEF Struct
<1>3. \A b \in DOMAIN link :
        /\ link[b].cells \in Seq(Nat) /\ link[b].used \in Nat /\ link[b].next \in DOMAIN link \cup {Null}
        /\ link[b].cells[1] \in Nat /\ Below(link, b) \in Nat /\ RunOf(link[b].cells, Below(link, b) + 1)
        /\ Len(link[b].cells) = link[b].used + Hidden(b) /\ link[b].used >= 1
  BY LinkFacts DEF Runs
<1>4. /\ \A i \in DOMAIN heads : heads[i].link \in DOMAIN link
      /\ \A i \in DOMAIN heads : link[heads[i].link].cells[1] = count[heads[i].key] + Pending(heads[i].key)
      /\ \A i \in DOMAIN heads : heads[i].key \in Keys /\ count[heads[i].key] \in Nat
  BY HeadFacts DEF Struct, Chains, Runs, Types, HeadSet
<1>5. \A b \in DOMAIN link : link[b].next # Null => link'[link[b].next].cells = link[link[b].next].cells
  <2>1. CASE CopyData
    BY <1>2, <1>3, <2>1, CopyDataFacts
  <2>2. CASE CopyUsed
    BY <1>3, <2>2, CopyUsedFacts
  <2> QED
    BY <2>1, <2>2
<1>6. \A b \in DOMAIN link : Below(link', b) = Below(link, b)
  BY <1>1, <1>5 DEF Below
<1>7. CASE CopyData
  <2>1. /\ \A b \in DOMAIN link : /\ link'[b].used = link[b].used
                                  /\ link'[b].cells = IF b = MyLink THEN <<count[wkey] + 1>> \o link[b].cells
                                                                    ELSE link[b].cells
        /\ wkey' = wkey /\ count' = count /\ wpc = "copy" /\ wpc' = "used"
    BY <1>7, CopyDataFacts
  <2>2. MyLink' = MyLink
    <3>1. bucket' = bucket
      BY <1>1 DEF SameShape
    <3> QED
      BY <1>1, <2>1, <3>1 DEF MyLink, MyHead
  <2>3. /\ \A b : Hidden(b) = 0 /\ Hidden(b)' = IF b = MyLink THEN 1 ELSE 0
        /\ \A k : Pending(k) = 0 /\ Pending(k)' = IF k = wkey THEN 1 ELSE 0
    BY <2>1, <2>2 DEF Hidden, Pending
  <2>4. ASSUME NEW b \in DOMAIN link'
        PROVE  /\ RunOf(link'[b].cells, Below(link', b) + 1)
               /\ Len(link'[b].cells) = link'[b].used + Hidden(b)' /\ link'[b].used >= 1
    <3>1. CASE b = MyLink
      <4>1. PICK c, f : c = link[b].cells /\ f = Below(link, b) + 1
        OBVIOUS
      <4>2. c \in Seq(Nat) /\ f \in Nat /\ RunOf(c, f) /\ c[1] = count[wkey]
        BY <1>1, <1>2, <1>3, <2>3, <3>1, <4>1
      <4>3. RunOf(<<c[1] + 1>> \o c, f) /\ Len(<<c[1] + 1>> \o c) = Len(c) + 1
        BY <4>2, RunFacts
      <4>4. link'[b].cells = <<c[1] + 1>> \o c
        BY <1>1, <2>1, <3>1, <4>1, <4>2
      <4>5. Len(c) = link[b].used
        BY <1>1, <1>3, <2>3, <4>1
      <4> QED
        BY <1>1, <1>3, <1>6, <2>1, <2>3, <3>1, <4>1, <4>3, <4>4, <4>5
    <3>2. CASE b # MyLink
      BY <1>1, <1>3, <1>6, <2>1, <2>3, <3>2
    <3> QED
      BY <3>1, <3>2
  <2>5. ASSUME NEW i \in DOMAIN heads'
        PROVE  link'[heads'[i].link].cells[1]
                 = count'[heads'[i].key] + (IF wpc' = "used" /\ wkey' = heads'[i].key THEN 1 ELSE 0)
    <3>1. CASE i = MyHead
      <4>1. PICK c : c = link[MyLink].cells
        OBVIOUS
      <4>2. link'[MyLink].cells = <<count[wkey] + 1>> \o c /\ c \in Seq(Nat) /\ count[wkey] \in Nat
        BY <1>1, <1>2, <1>3, <1>4, <2>1, <4>1
      <4>3. (<<count[wkey] + 1>> \o c)[1] = count[wkey] + 1
        BY <4>2
      <4> QED
        BY <1>1, <1>2, <2>1, <2>3, <3>1, <4>2, <4>3
    <3>2. CASE i # MyHead
      <4>1. heads[i].link # MyLink /\ heads[i].key # wkey /\ heads[i].link \in DOMAIN link
        BY <1>1, <1>2, <1>4, <3>2
      <4> QED
        BY <1>1, <1>4, <2>1, <2>3, <4>1
    <3> QED
      BY <3>1, <3>2
  <2> QED
    BY <2>4, <2>5 DEF Runs, Pending
<1>8. CASE CopyUsed
  <2>1. /\ \A b \in DOMAIN link : /\ link'[b].cells = link[b].cells
                                  /\ link'[b].used = IF b = MyLink THEN link[b].used + 1 ELSE link[b].used
        /\ wpc = "used" /\ wpc' = "idle"
        /\ \A k \in Keys : count'[k] = IF k = wkey THEN count[k] + 1 ELSE count[k]
    BY <1>8, CopyUsedFacts
  <2>2. /\ \A b : Hidden(b)' = 0 /\ Hidden(b) = IF b = MyLink THEN 1 ELSE 0
        /\ \A k : Pending(k)' = 0 /\ Pending(k) = IF k = wkey THEN 1 ELSE 0
    BY <2>1 DEF Hidden, Pending
  <2>3. \A b \in DOMAIN link' : /\ RunOf(link'[b].cells, Below(link', b) + 1)
                                /\ Len(link'[b].cells) = link'[b].used + Hidden(b)' /\ link'[b].used >= 1
    BY <1>1, <1>3, <1>6, <2>1, <2>2
  <2>4. \A i \in DOMAIN heads' :
          link'[heads'[i].link].cells[1]
            = count'[heads'[i].key] + (IF wpc' = "used" /\ wkey' = heads'[i].key THEN 1 ELSE 0)
    BY <1>1, <1>4, <2>1, <2>2
  <2> QED
    BY <2>3, <2>4 DEF Runs, Pending
<1> QED
  BY <1>7, <1>8

\* A new link of one posting hangs before link n, or is the last one.
LEMMA RunsHung ==
  ASSUME Struct, Runs, NEW k \in Keys, NEW n, NEW m, Hung(m, n, k), wpc # "used", wpc' # "used",
         (n = Null /\ count[k] = 0) \/ (n \in DOMAIN link /\ link[n].cells[1] = count[k])
  PROVE  /\ \A b \in DOMAIN link' : /\ RunOf(link'[b].cells, Below(link', b) + 1)
                                    /\ Len(link'[b].cells) = link'[b].used + Hidden(b)' /\ link'[b].used >= 1
         /\ \A b \in DOMAIN link : link'[b].cells[1] = link[b].cells[1]
         /\ link'[m].cells[1] = count[k] + 1
<1>1. /\ m \notin DOMAIN link /\ m \in Blk /\ DOMAIN link' = DOMAIN link \cup {m}
      /\ \A b \in DOMAIN link : link'[b] = link[b]
      /\ link'[m].next = n /\ link'[m].used = 1 /\ link'[m].cells = <<count[k] + 1>>
  BY DEF Hung
<1>2. \A b \in DOMAIN link : /\ link[b].next \in DOMAIN link \cup {Null}
                             /\ RunOf(link[b].cells, Below(link, b) + 1)
                             /\ Len(link[b].cells) = link[b].used + Hidden(b) /\ link[b].used >= 1
  BY LinkFacts DEF Runs
<1>3. \A b : Hidden(b) = 0 /\ Hidden(b)' = 0
  BY DEF Hidden
<1>4. \A b \in DOMAIN link : Below(link', b) = Below(link, b)
  BY <1>1, <1>2 DEF Below
<1>5. count[k] \in Nat
  BY DEF Struct, Types
<1>6. Below(link', m) = count[k]
  <2>1. n # Null => n \in DOMAIN link
    OBVIOUS
  <2>2. n \in DOMAIN link => n # Null
    BY BlockFacts DEF Struct, Types
  <2> QED
    BY <1>1, <2>1, <2>2 DEF Below
<1>7. RunOf(<<count[k] + 1>>, count[k] + 1)
  <2>1. PICK x : x = count[k] + 1
    OBVIOUS
  <2>2. RunOf(<<x>>, x)
    BY <1>5, <2>1, RunFacts
  <2> QED
    BY <2>1, <2>2
<1>8. ASSUME NEW b \in DOMAIN link'
      PROVE  /\ RunOf(link'[b].cells, Below(link', b) + 1)
             /\ Len(link'[b].cells) = link'[b].used + Hidden(b)' /\ link'[b].used >= 1
  <2>1. CASE b = m
    <3>1. PICK c : c = <<count[k] + 1>>
      OBVIOUS
    <3>2. Len(c) = 1 /\ RunOf(c, count[k] + 1) /\ link'[b].cells = c /\ link'[b].used = 1
      BY <1>1, <1>7, <2>1, <3>1
    <3> QED
      BY <1>3, <1>6, <2>1, <3>2
  <2>2. CASE b # m
    BY <1>1, <1>2, <1>3, <1>4, <2>2
  <2> QED
    BY <2>1, <2>2
<1>9. link'[m].cells[1] = count[k] + 1
  BY <1>1
<1> QED
  BY <1>1, <1>8, <1>9

\* The runs after a posting in a new link.
LEMMA RunsAddLink ==
  ASSUME Struct, Runs, AddLink
  PROVE  Runs'
<1>1. /\ Busy /\ wpc = "newlink" /\ wpc' = "idle"
      /\ \A k \in Keys : count'[k] = IF k = wkey THEN count[k] + 1 ELSE count[k]
  BY AddLinkFacts
<1>2. PICK m : Hung(m, MyLink, wkey) /\ heads' = [heads EXCEPT ![MyHead].link = m]
  BY AddLinkFacts
<1>3. PICK o : o = MyHead
  OBVIOUS
<1>4. /\ Types /\ o \in DOMAIN heads /\ heads[o].key = wkey /\ wkey \in Keys /\ m \in Blk /\ heads' = [heads EXCEPT ![o].link = m]
      /\ MyLink \in DOMAIN link /\ count[wkey] \in Nat
  BY <1>1, <1>2, <1>3, MyFacts DEF Struct, Hung
<1>5. /\ DOMAIN heads' = DOMAIN heads
      /\ \A i \in DOMAIN heads : heads'[i].key = heads[i].key /\ heads'[i].link = IF i = o THEN m ELSE heads[i].link
  BY <1>4, Relinked
<1>6. link[MyLink].cells[1] = count[wkey] /\ \A i \in DOMAIN heads : heads[i].key = wkey => i = o
  BY <1>1, <1>3, <1>4, MyRun DEF Pending
<1>7. /\ \A b \in DOMAIN link' : /\ RunOf(link'[b].cells, Below(link', b) + 1)
                                 /\ Len(link'[b].cells) = link'[b].used + Hidden(b)' /\ link'[b].used >= 1
      /\ \A b \in DOMAIN link : link'[b].cells[1] = link[b].cells[1]
      /\ link'[m].cells[1] = count[wkey] + 1
  BY <1>1, <1>2, <1>4, <1>6, RunsHung
<1>8. \A i \in DOMAIN heads : /\ heads[i].link \in DOMAIN link /\ heads[i].key \in Keys /\ count[heads[i].key] \in Nat
                              /\ link[heads[i].link].cells[1] = count[heads[i].key]
  BY <1>1, HeadFacts DEF Struct, Chains, Runs, Types, HeadSet, Pending
<1>9. \A i \in DOMAIN heads' :
        link'[heads'[i].link].cells[1]
          = count'[heads'[i].key] + (IF wpc' = "used" /\ wkey' = heads'[i].key THEN 1 ELSE 0)
  BY <1>1, <1>4, <1>5, <1>6, <1>7, <1>8
<1> QED
  BY <1>7, <1>9 DEF Runs, Pending

\* The runs after a new term.
LEMMA RunsAddHead ==
  ASSUME Struct, Runs, AddHead
  PROVE  Runs'
<1>1. /\ wpc = "newhead" /\ wpc' = "idle" /\ wkey \in Keys /\ MyHead = 0
      /\ \A k \in Keys : count'[k] = IF k = wkey THEN count[k] + 1 ELSE count[k]
  BY AddHeadFacts
<1>2. PICK m : Hung(m, Null, wkey) /\ heads' = Append(heads, [key |-> wkey, next |-> bucket[Bucket(wkey)], link |-> m])
  BY AddHeadFacts
<1>3. Len(heads) \in Nat /\ DOMAIN heads = 1..Len(heads)
  BY HeadFacts DEF Struct
<1>4. /\ DOMAIN heads' = 1..Len(heads) + 1 /\ \A i \in DOMAIN heads : heads'[i] = heads[i]
      /\ heads'[Len(heads) + 1].key = wkey /\ heads'[Len(heads) + 1].link = m
  BY <1>2, <1>3 DEF Struct, Types
<1>5. \A i \in DOMAIN heads : heads[i].key # wkey
  BY <1>1, <1>3 DEF Struct, Table, MyHead
<1>6. count[wkey] = 0
  BY <1>1 DEF Struct, Types, Table, MyHead
<1>7. /\ \A b \in DOMAIN link' : /\ RunOf(link'[b].cells, Below(link', b) + 1)
                                 /\ Len(link'[b].cells) = link'[b].used + Hidden(b)' /\ link'[b].used >= 1
      /\ \A b \in DOMAIN link : link'[b].cells[1] = link[b].cells[1]
      /\ link'[m].cells[1] = count[wkey] + 1
  <2>1. PICK n : n = Null
    OBVIOUS
  <2>2. Hung(m, n, wkey) /\ ((n = Null /\ count[wkey] = 0) \/ (n \in DOMAIN link /\ link[n].cells[1] = count[wkey]))
    BY <1>2, <1>6, <2>1
  <2> QED
    BY <1>1, <2>2, RunsHung
<1>8. \A i \in DOMAIN heads : /\ heads[i].link \in DOMAIN link /\ heads[i].key \in Keys /\ count[heads[i].key] \in Nat
                              /\ link[heads[i].link].cells[1] = count[heads[i].key]
  BY <1>1, HeadFacts DEF Struct, Chains, Runs, Types, HeadSet, Pending
<1>9. \A i \in DOMAIN heads' :
        link'[heads'[i].link].cells[1]
          = count'[heads'[i].key] + (IF wpc' = "used" /\ wkey' = heads'[i].key THEN 1 ELSE 0)
  <2> SUFFICES ASSUME NEW i \in DOMAIN heads'
               PROVE  link'[heads'[i].link].cells[1] = count'[heads'[i].key]
    BY <1>1, <1>4, <1>6, <1>7, <1>8, <1>5, <1>3
  <2>1. CASE i \in DOMAIN heads
    BY <1>1, <1>4, <1>5, <1>7, <1>8, <2>1
  <2>2. CASE i = Len(heads) + 1
    BY <1>1, <1>4, <1>6, <1>7, <2>2
  <2> QED
    BY <1>3, <1>4, <2>1, <2>2
<1> QED
  BY <1>7, <1>9 DEF Runs, Pending

\* A round of merging, as the runs see it: one link for two, and the others as they were.
LEMMA MergeShape ==
  ASSUME Struct, Runs, Merge
  PROVE  \E b, n, m, l :
           /\ Replaced(b, n, m, l) /\ (Fitted(m, l) \/ Unfitted(m, l))
           /\ \A x \in DOMAIN link : link[x].next # b /\ (link[x].next = n => x = b)
           /\ l.next \in (DOMAIN link \ {b, n}) \cup {Null}
           /\ \A x \in DOMAIN link' : x = m \/ (x \in DOMAIN link /\ x # b /\ x # n /\ link[x].next \in (DOMAIN link \ {b, n}) \cup {Null})
           /\ DOMAIN heads' = DOMAIN heads
           /\ \A i \in DOMAIN heads : /\ heads'[i].key = heads[i].key
                                      /\ IF i = MyHead THEN heads'[i].link = m
                                         ELSE heads'[i].link = heads[i].link /\ heads[i].link \in DOMAIN link \ {b, n}
           /\ m \notin DOMAIN link /\ m # Null
<1>1. PICK b, n, m, l : Replaced(b, n, m, l) /\ (Fitted(m, l) \/ Unfitted(m, l))
  BY MergeFacts
<1>2. Types /\ Table /\ Chains /\ Busy
  BY MergeFacts DEF Struct
<1>3. /\ b = MyLink /\ n = link[b].next /\ b \in DOMAIN link /\ n \in DOMAIN link /\ b # n
      /\ m \notin DOMAIN link /\ m \in Blk /\ DOMAIN link' = (DOMAIN link \ {b, n}) \cup {m}
      /\ l.next = link[n].next /\ heads' = [heads EXCEPT ![MyHead].link = m]
  BY <1>1 DEF Replaced
<1>4. PICK o : o = MyHead
  OBVIOUS
<1>5. o \in DOMAIN heads /\ b = heads[o].link
  BY <1>2, <1>3, <1>4, MyFacts
<1>6. /\ DOMAIN heads' = DOMAIN heads
      /\ \A i \in DOMAIN heads : heads'[i].key = heads[i].key /\ heads'[i].link = IF i = o THEN m ELSE heads[i].link
  BY <1>2, <1>3, <1>4, <1>5, Relinked
<1>7. n # Null /\ b # Null /\ m # Null
  BY <1>2, <1>3, BlockFacts DEF Types
<1>8. \A x \in DOMAIN link : link[x].next # b /\ (link[x].next = n => x = b)
  BY <1>2, <1>3, <1>5, <1>7 DEF Chains
<1>9. \A x \in DOMAIN link : link[x].next \in DOMAIN link \cup {Null}
  BY <1>2 DEF Chains
<1>10. \A i \in DOMAIN heads : i # o => heads[i].link \in DOMAIN link \ {b, n}
  BY <1>2, <1>3, <1>5, <1>7 DEF Chains
<1>11. l.next \in (DOMAIN link \ {b, n}) \cup {Null}
  BY <1>3, <1>8, <1>9
<1>12. \A x \in DOMAIN link' : x = m \/ (x \in DOMAIN link /\ x # b /\ x # n /\ link[x].next \in (DOMAIN link \ {b, n}) \cup {Null})
  BY <1>3, <1>8, <1>9
<1>13. \A i \in DOMAIN heads : /\ heads'[i].key = heads[i].key
                                /\ IF i = MyHead THEN heads'[i].link = m
                                   ELSE heads'[i].link = heads[i].link /\ heads[i].link \in DOMAIN link \ {b, n}
  BY <1>4, <1>6, <1>10
<1>14. DOMAIN heads' = DOMAIN heads /\ m \notin DOMAIN link /\ m # Null
  BY <1>3, <1>6, <1>7
<1> QED
  BY <1>1, <1>8, <1>11, <1>12, <1>13, <1>14, Zenon

\* The runs after it.
LEMMA RunsMerge ==
  ASSUME Struct, Runs, Merge
  PROVE  Runs'
<1>1. PICK b, n, m, l :
           /\ Replaced(b, n, m, l) /\ (Fitted(m, l) \/ Unfitted(m, l))
           /\ \A x \in DOMAIN link : link[x].next # b /\ (link[x].next = n => x = b)
           /\ l.next \in (DOMAIN link \ {b, n}) \cup {Null}
           /\ \A x \in DOMAIN link' : x = m \/ (x \in DOMAIN link /\ x # b /\ x # n /\ link[x].next \in (DOMAIN link \ {b, n}) \cup {Null})
           /\ DOMAIN heads' = DOMAIN heads
           /\ \A i \in DOMAIN heads : /\ heads'[i].key = heads[i].key
                                      /\ IF i = MyHead THEN heads'[i].link = m
                                         ELSE heads'[i].link = heads[i].link /\ heads[i].link \in DOMAIN link \ {b, n}
           /\ m \notin DOMAIN link /\ m # Null
  BY MergeShape
<1>2. /\ b = MyLink /\ n = link[b].next /\ b \in DOMAIN link /\ n \in DOMAIN link /\ b # n
      /\ DOMAIN link' = (DOMAIN link \ {b, n}) \cup {m}
      /\ \A x \in DOMAIN link : x # b /\ x # n => link'[x] = link[x]
      /\ l.next = link[n].next /\ link'[m].next = l.next
      /\ l.used = Len(link[n].cells) + Len(link[b].cells) /\ l.cells = link[b].cells \o link[n].cells
  BY <1>1 DEF Replaced
<1>3. Busy /\ wpc = "merge" /\ Types /\ Table /\ Chains
  BY MergeFacts DEF Struct
<1>4. /\ \A x : Hidden(x) = 0 /\ \A k : Pending(k) = 0
      /\ wpc' # "used" /\ \A x : Hidden(x)' = 0
  BY <1>1, <1>3 DEF Hidden, Pending, Fitted, Unfitted
<1>5. \A x \in DOMAIN link :
        /\ link[x].cells \in Seq(Nat) /\ link[x].used \in Nat
        /\ link[x].cells[1] \in Nat /\ Below(link, x) \in Nat /\ RunOf(link[x].cells, Below(link, x) + 1)
        /\ Len(link[x].cells) = link[x].used /\ link[x].used >= 1
  BY <1>4, LinkFacts DEF Runs
<1>6. /\ link[b].cells[1] = count[wkey] /\ \A i \in DOMAIN heads : heads[i].key = wkey => i = MyHead
      /\ MyHead \in DOMAIN heads /\ heads[MyHead].key = wkey /\ count[wkey] \in Nat /\ wkey \in Keys
  BY <1>2, <1>3, <1>4, MyRun, MyFacts
<1>7. PICK c, d, f : c = link[n].cells /\ d = link[b].cells /\ f = Below(link, n) + 1
  OBVIOUS
<1>8. Below(link, b) = c[1]
  <2>1. n # Null
    BY <1>2, <1>3, BlockFacts DEF Types
  <2> QED
    BY <1>2, <1>7, <2>1 DEF Below
<1>9. c \in Seq(Nat) /\ d \in Seq(Nat) /\ f \in Nat /\ RunOf(c, f) /\ RunOf(d, c[1] + 1)
  BY <1>2, <1>5, <1>7, <1>8
<1>10. PICK e : e = d \o c
  OBVIOUS
<1>11. RunOf(e, f) /\ e[1] = d[1] /\ Len(e) = Len(d) + Len(c) /\ e \in Seq(Nat)
  <2>1. e \in Seq(Nat)
    BY <1>9, <1>10
  <2>2. RunOf(d \o c, f) /\ (d \o c)[1] = d[1] /\ Len(d \o c) = Len(d) + Len(c)
    BY <1>9, RunFacts
  <2> QED
    BY <1>10, <2>1, <2>2
<1>12. l.cells = e /\ l.used = Len(e) /\ e[1] = count[wkey] /\ l.used >= 1 /\ l.used \in Nat
  <2>1. Len(c) \in Nat /\ Len(d) \in Nat /\ Len(c) >= 1
    BY <1>9 DEF RunOf
  <2>2. l.cells = e
    BY <1>2, <1>7, <1>10
  <2>3. l.used = Len(c) + Len(d)
    BY <1>2, <1>7
  <2>4. e[1] = count[wkey]
    BY <1>6, <1>7, <1>2, <1>11
  <2> HIDE DEF RunOf
  <2> QED
    BY <1>11, <2>1, <2>2, <2>3, <2>4
<1>13. \A x \in DOMAIN link : x # b /\ x # n /\ link[x].next \in (DOMAIN link \ {b, n}) \cup {Null} =>
         Below(link', x) = Below(link, x)
  BY <1>2 DEF Below
<1>14. Below(link', m) = Below(link, n)
  BY <1>1, <1>2 DEF Below
<1>15. /\ RunOf(link'[m].cells, f) /\ Len(link'[m].cells) = link'[m].used /\ link'[m].used >= 1
       /\ link'[m].cells[1] = count'[wkey] /\ \A k \in Keys : k # wkey => count'[k] = count[k]
  <2>1. CASE Unfitted(m, l)
    <3>1. link'[m] = l /\ count' = count
      BY <2>1 DEF Unfitted
    <3> QED
      BY <1>11, <1>12, <3>1
  <2>2. CASE Fitted(m, l)
    <3>1. /\ link'[m].used = l.used + 1 /\ link'[m].cells = <<count[wkey] + 1>> \o l.cells
          /\ \A k \in Keys : count'[k] = IF k = wkey THEN count[k] + 1 ELSE count[k]
      BY <2>2 DEF Fitted
    <3>2. RunOf(<<e[1] + 1>> \o e, f) /\ Len(<<e[1] + 1>> \o e) = Len(e) + 1 /\ (<<e[1] + 1>> \o e)[1] = e[1] + 1
      BY <1>9, <1>11, RunFacts
    <3>3. link'[m].cells = <<e[1] + 1>> \o e
      BY <1>12, <3>1
    <3>4. RunOf(link'[m].cells, f) /\ Len(link'[m].cells) = Len(e) + 1 /\ link'[m].cells[1] = e[1] + 1
      BY <3>2, <3>3
    <3> QED
      BY <1>6, <1>12, <3>1, <3>4
  <2> QED
    BY <1>1, <2>1, <2>2
<1>16. ASSUME NEW x \in DOMAIN link'
       PROVE  /\ RunOf(link'[x].cells, Below(link', x) + 1)
              /\ Len(link'[x].cells) = link'[x].used + Hidden(x)' /\ link'[x].used >= 1
  <2>1. CASE x = m
    <3>1. Below(link', x) + 1 = f /\ Hidden(x)' = 0
      BY <1>4, <1>7, <1>14, <2>1
    <3>2. link'[m].used + 0 = Len(link'[m].cells)
      <4>1. link'[m].used = Len(link'[m].cells) /\ link'[m].used \in Nat
        BY <1>1, <1>12, <1>15 DEF Fitted, Unfitted
      <4> QED
        BY <4>1
    <3> QED
      BY <1>15, <2>1, <3>1, <3>2
  <2>2. CASE x # m
    BY <1>1, <1>2, <1>4, <1>5, <1>13, <2>2
  <2> QED
    BY <2>1, <2>2
<1>17. \A i \in DOMAIN heads : /\ heads[i].key \in Keys /\ count[heads[i].key] \in Nat
                               /\ link[heads[i].link].cells[1] = count[heads[i].key]
  BY <1>3, <1>4, HeadFacts DEF Runs, Types, HeadSet
<1>18. \A k \in Keys : count'[k] \in Nat
  BY <1>1, <1>3 DEF Fitted, Unfitted, Types
<1>19. \A i \in DOMAIN heads' :
         link'[heads'[i].link].cells[1]
           = count'[heads'[i].key] + (IF wpc' = "used" /\ wkey' = heads'[i].key THEN 1 ELSE 0)
  <2> SUFFICES ASSUME NEW i \in DOMAIN heads
               PROVE  link'[heads'[i].link].cells[1] = count'[heads[i].key]
    BY <1>1, <1>4, <1>17, <1>18
  <2>1. CASE i = MyHead
    BY <1>1, <1>6, <1>15, <2>1
  <2>2. CASE i # MyHead
    BY <1>1, <1>2, <1>6, <1>15, <1>17, <2>2
  <2> QED
    BY <2>1, <2>2
<1> QED
  BY <1>16, <1>19 DEF Runs, Pending

\* Every step keeps the runs.
LEMMA RunsStep == Struct /\ Runs /\ [Next]_vars => Runs'
<1> SUFFICES ASSUME Struct, Runs, [Next]_vars PROVE Runs'
  OBVIOUS
<1>1. ASSUME NEW k \in Keys, SetCall(k) PROVE Runs'
  BY <1>1, RunsIdle DEF SetCall
<1>2. CASE WriteLock \/ MergeEnds
  BY <1>2, RunsIdle DEF WriteLock, MergeEnds
<1>3. CASE Clear
  <2>1. DOMAIN heads' = {} /\ DOMAIN link' = {}
    BY <1>3, ClearFacts DEF Emptied
  <2> QED
    BY <2>1 DEF Runs
<1>4. CASE Get \/ Begin \/ ItNext \/ UNCHANGED vars
  <2>1. UNCHANGED <<bucket, heads, link, locked, wpc, wkey, count, ret>>
    BY <1>4, StructRest
  <2> QED
    BY <2>1 DEF Runs, Pending, Hidden, Below, MyLink, MyHead
<1> QED
  BY <1>1, <1>2, <1>3, <1>4, RunsCopy, RunsMerge, RunsAddLink, RunsAddHead DEF Next, Set, Dump

\* And they hold at the beginning, with the sizes.
LEMMA RunsInit == Init => Runs /\ Sizes
<1> SUFFICES ASSUME Init PROVE Runs /\ Sizes
  OBVIOUS
<1>1. DOMAIN heads = {} /\ DOMAIN link = {} /\ wpc = "idle"
  BY DEF Init
<1> QED
  BY <1>1 DEF Runs, Sizes

\* The sizes where no link is hung, and only a link that nothing leads to gets smaller room.
LEMMA SizesShape ==
  ASSUME Struct, Runs, Sizes, SameShape,
         \A b \in DOMAIN link : \/ Room(link'[b]) = Room(link[b])
                                \/ Room(link'[b]) >= 0 /\ \A a \in DOMAIN link : link[a].next # b,
         wpc' \in {"copy", "used"} => HasRoom(link'[MyLink']),
         wpc' \in {"lock", "merge", "newlink"} => ~HasRoom(link'[MyLink']),
         wpc' = "newlink" /\ link'[MyLink'].next # Null => link'[link'[MyLink'].next].self # link'[MyLink'].self
  PROVE  Sizes'
<1>1. /\ DOMAIN link' = DOMAIN link
      /\ \A b \in DOMAIN link : link'[b].next = link[b].next /\ link'[b].self = link[b].self
  BY DEF SameShape
<1>2. \A b \in DOMAIN link : link[b].next \in DOMAIN link \cup {Null}
  BY LinkFacts
<1>3. /\ \A b \in DOMAIN link : Room(link[b]) >= 0 /\ Doubles(Base, link[b].self)
      /\ \A b \in DOMAIN link : link[b].next # Null =>
           Doubles(link[b].self, link[link[b].next].self) /\ Room(link[link[b].next]) < CellSize
      /\ \A a, b \in DOMAIN link : link[a].next = b /\ link[b].next # Null =>
           Doubles(2 * link[b].self, link[link[b].next].self)
  BY DEF Sizes
<1>4. \A b \in DOMAIN link' : Room(link'[b]) >= 0 /\ Doubles(Base, link'[b].self)
  BY <1>1, <1>3
<1>5. ASSUME NEW b \in DOMAIN link', link'[b].next # Null
      PROVE  Doubles(link'[b].self, link'[link'[b].next].self) /\ Room(link'[link'[b].next]) < CellSize
  <2>1. b \in DOMAIN link /\ link[b].next # Null /\ link[b].next \in DOMAIN link
    BY <1>1, <1>2, <1>5
  <2>2. Room(link'[link[b].next]) = Room(link[link[b].next])
    BY <2>1
  <2> QED
    BY <1>1, <1>3, <2>1, <2>2
<1>6. ASSUME NEW a \in DOMAIN link', NEW b \in DOMAIN link', link'[a].next = b, link'[b].next # Null
      PROVE  Doubles(2 * link'[b].self, link'[link'[b].next].self)
  <2>1. /\ a \in DOMAIN link /\ b \in DOMAIN link /\ link[a].next = b /\ link[b].next # Null
        /\ link[b].next \in DOMAIN link
    BY <1>1, <1>2, <1>6
  <2>2. Doubles(2 * link[b].self, link[link[b].next].self)
    BY <1>3, <2>1
  <2> QED
    BY <1>1, <2>1, <2>2
<1> QED
  BY <1>4, <1>5, <1>6 DEF Sizes

\* set begins, the lock is taken or released.
LEMMA SizesIdle ==
  ASSUME Struct, Runs, Sizes, (\E k \in Keys : SetCall(k)) \/ WriteLock \/ MergeEnds
  PROVE  Sizes'
<1>1. UNCHANGED <<heads, bucket, stack, extra, link>>
  BY DEF SetCall, WriteLock, MergeEnds
<1>2. SameShape
  BY <1>1, UnchangedShape DEF Struct
<1>3. \A b \in DOMAIN link : Room(link'[b]) = Room(link[b])
  BY <1>1
<1>4. ASSUME NEW k \in Keys, SetCall(k)
      PROVE  /\ wpc' \in {"copy", "used"} => HasRoom(link'[MyLink'])
             /\ wpc' \in {"lock", "merge", "newlink"} => ~HasRoom(link'[MyLink'])
             /\ wpc' # "newlink"
  <2>1. PICK o : o = SpotIn(heads, bucket, k)
    OBVIOUS
  <2>2. \/ wpc' \in {"idle", "newhead"}
        \/ wkey' = k /\ wpc' = IF HasRoom(link[heads[o].link]) THEN "copy" ELSE "lock"
    BY <1>4, <2>1, FirstIs DEF SetCall
  <2>3. wkey' = k => MyLink' = heads[o].link
    BY <1>1, <2>1 DEF MyLink, MyHead
  <2> QED
    BY <1>1, <2>2, <2>3
<1>5. ASSUME WriteLock \/ MergeEnds
      PROVE  /\ wpc' \in {"lock", "merge", "newlink"} /\ ~HasRoom(link'[MyLink'])
             /\ wpc' = "newlink" /\ link'[MyLink'].next # Null => link'[link'[MyLink'].next].self # link'[MyLink'].self
  <2>1. /\ wkey' = wkey /\ wpc \in {"lock", "merge"} /\ wpc' \in {"merge", "newlink"}
        /\ wpc' = "newlink" => ~Mergeable(MyLink)
    BY <1>5, FirstIs DEF WriteLock, MergeEnds
  <2>2. MyLink' = MyLink
    BY <1>1, <2>1 DEF MyLink, MyHead
  <2>3. ~HasRoom(link[MyLink])
    BY <2>1 DEF Sizes
  <2> QED
    BY <1>1, <2>1, <2>2, <2>3 DEF Mergeable
<1>6. /\ wpc' \in {"copy", "used"} => HasRoom(link'[MyLink'])
      /\ wpc' \in {"lock", "merge", "newlink"} => ~HasRoom(link'[MyLink'])
      /\ wpc' = "newlink" /\ link'[MyLink'].next # Null => link'[link'[MyLink'].next].self # link'[MyLink'].self
  BY <1>4, <1>5
<1> QED
  BY <1>2, <1>3, <1>6, SizesShape

\* The copy of a posting.
LEMMA SizesCopy ==
  ASSUME Struct, Runs, Sizes, CopyData \/ CopyUsed
  PROVE  Sizes'
<1>1. SameShape /\ Busy /\ MyLink \in DOMAIN link
  BY CopyDataFacts, CopyUsedFacts
<1>2. \A b \in DOMAIN link : link[b] \in LinkSet /\ link'[b] \in LinkSet /\ link'[b].self = link[b].self
  BY <1>1 DEF SameShape, Struct, Types
<1>3. CASE CopyData
  <2>1. /\ \A b \in DOMAIN link : link'[b].used = link[b].used
        /\ wkey' = wkey /\ wpc = "copy" /\ wpc' = "used"
    BY <1>3, CopyDataFacts
  <2>2. \A b \in DOMAIN link : Room(link'[b]) = Room(link[b])
    BY <1>2, <2>1, RoomFacts
  <2>3. MyLink' = MyLink
    BY <1>1, <2>1 DEF MyLink, MyHead, SameShape
  <2>4. HasRoom(link'[MyLink'])
    BY <1>1, <2>1, <2>2, <2>3 DEF Sizes, HasRoom
  <2> QED
    BY <1>1, <2>1, <2>2, <2>4, SizesShape
<1>4. CASE CopyUsed
  <2>1. /\ \A b \in DOMAIN link : link'[b].used = IF b = MyLink THEN link[b].used + 1 ELSE link[b].used
        /\ wpc = "used" /\ wpc' = "idle"
    BY <1>4, CopyUsedFacts
  <2>2. \A b \in DOMAIN link : b # MyLink => Room(link'[b]) = Room(link[b])
    BY <1>2, <2>1, RoomFacts
  <2>3. Room(link'[MyLink]) = Room(link[MyLink]) - CellSize
    BY <1>1, <1>2, <2>1, RoomFacts
  <2>4. Room(link[MyLink]) >= CellSize
    BY <2>1 DEF Sizes, HasRoom
  <2>5. Room(link'[MyLink]) >= 0
    BY <1>1, <1>2, <2>3, <2>4, RoomFacts, ConstantFacts
  <2>6. \A a \in DOMAIN link : link[a].next # MyLink
    BY <1>1, MyRun
  <2>7. \A b \in DOMAIN link : \/ Room(link'[b]) = Room(link[b])
                               \/ Room(link'[b]) >= 0 /\ \A a \in DOMAIN link : link[a].next # b
    BY <2>2, <2>5, <2>6
  <2> QED
    BY <1>1, <2>1, <2>7, SizesShape
<1> QED
  BY <1>3, <1>4

\* The sizes after a link of one posting is hung before n, which is full.
LEMMA SizesHung ==
  ASSUME Struct, Runs, Sizes, NEW k \in Keys, NEW n, NEW m, Hung(m, n, k), wpc' = "idle",
         n = Null \/ (n \in DOMAIN link /\ ~HasRoom(link[n])
                        /\ (link[n].next # Null => link[link[n].next].self # link[n].self))
  PROVE  Sizes'
<1>1. /\ m \notin DOMAIN link /\ m \in Blk /\ DOMAIN link' = DOMAIN link \cup {m}
      /\ \A b \in DOMAIN link : link'[b] = link[b]
      /\ link'[m] \in LinkSet /\ link'[m].self = Base /\ link'[m].next = n /\ link'[m].used = 1
  BY DEF Hung
<1>2. \A b \in DOMAIN link : /\ link[b] \in LinkSet /\ link[b].next \in DOMAIN link \cup {Null}
                             /\ link[b].self \in Nat
  BY LinkFacts
<1>3. /\ \A b \in DOMAIN link : Room(link[b]) >= 0 /\ Doubles(Base, link[b].self)
      /\ \A b \in DOMAIN link : link[b].next # Null =>
           Doubles(link[b].self, link[link[b].next].self) /\ Room(link[link[b].next]) < CellSize
      /\ \A a, b \in DOMAIN link : link[a].next = b /\ link[b].next # Null =>
           Doubles(2 * link[b].self, link[link[b].next].self)
  BY DEF Sizes
<1>4. m # Null
  BY <1>1, BlockFacts
<1>5. ASSUME NEW b \in DOMAIN link' PROVE Room(link'[b]) >= 0 /\ Doubles(Base, link'[b].self)
  BY <1>1, <1>3, RoomFacts, DoublesFacts
<1>6. ASSUME NEW b \in DOMAIN link', link'[b].next # Null
      PROVE  Doubles(link'[b].self, link'[link'[b].next].self) /\ Room(link'[link'[b].next]) < CellSize
  <2>1. CASE b = m
    <3>1. n \in DOMAIN link /\ ~(Room(link[n]) >= CellSize) /\ Room(link[n]) \in Int /\ CellSize \in Nat
      BY <1>1, <1>2, <1>6, <2>1, RoomFacts, ConstantFacts DEF HasRoom
    <3>2. Room(link[n]) < CellSize
      BY <3>1
    <3> QED
      BY <1>1, <1>3, <2>1, <3>1, <3>2
  <2>2. CASE b # m
    BY <1>1, <1>2, <1>3, <1>6, <2>2
  <2> QED
    BY <2>1, <2>2
<1>7. ASSUME NEW a \in DOMAIN link', NEW b \in DOMAIN link', link'[a].next = b, link'[b].next # Null
      PROVE  Doubles(2 * link'[b].self, link'[link'[b].next].self)
  <2>1. CASE a = m
    <3>1. b = n /\ b \in DOMAIN link /\ link[b].next # Null /\ link[b].next \in DOMAIN link
      BY <1>1, <1>2, <1>7, <2>1, BlockFacts DEF Struct, Types
    <3>2. PICK x, y : x = link[b].self /\ y = link[link[b].next].self
      OBVIOUS
    <3>3. x \in Nat /\ y \in Nat /\ Doubles(x, y) /\ x # y
      BY <1>2, <1>3, <3>1, <3>2, BlockFacts DEF Struct, Types
    <3>4. Doubles(2 * x, y)
      BY <3>3, DoublesFacts
    <3> QED
      BY <1>1, <3>1, <3>2, <3>4
  <2>2. CASE a # m
    <3>1. a \in DOMAIN link /\ link[a].next = b /\ b \in DOMAIN link
      BY <1>1, <1>2, <1>4, <1>7, <2>2, BlockFacts DEF Struct, Types
    <3> QED
      BY <1>1, <1>2, <1>3, <1>7, <3>1
  <2> QED
    BY <2>1, <2>2
<1> QED
  BY <1>5, <1>6, <1>7 DEF Sizes

\* A posting in a new link.
LEMMA SizesAdd ==
  ASSUME Struct, Runs, Sizes, AddLink \/ AddHead
  PROVE  Sizes'
<1>1. CASE AddLink
  <2>1. PICK m : Hung(m, MyLink, wkey)
    BY <1>1, AddLinkFacts
  <2>2. PICK n : n = MyLink
    OBVIOUS
  <2>3. Busy /\ wpc = "newlink" /\ wpc' = "idle"
    BY <1>1, AddLinkFacts
  <2>4. n \in DOMAIN link /\ wkey \in Keys /\ Hung(m, n, wkey)
    BY <2>1, <2>2, <2>3, MyFacts DEF Struct
  <2>5. ~HasRoom(link[n]) /\ (link[n].next # Null => link[link[n].next].self # link[n].self)
    BY <2>2, <2>3 DEF Sizes
  <2> QED
    BY <2>3, <2>4, <2>5, SizesHung
<1>2. CASE AddHead
  <2>1. PICK m, n : n = Null /\ Hung(m, n, wkey)
    BY <1>2, AddHeadFacts
  <2>2. wpc' = "idle" /\ wkey \in Keys
    BY <1>2, AddHeadFacts
  <2> QED
    BY <2>1, <2>2, SizesHung
<1> QED
  BY <1>1, <1>2

\* A round of merging.
LEMMA SizesMerge ==
  ASSUME Struct, Runs, Sizes, Merge
  PROVE  Sizes'
<1>1. PICK b, n, m, l :
           /\ Replaced(b, n, m, l) /\ (Fitted(m, l) \/ Unfitted(m, l))
           /\ \A x \in DOMAIN link : link[x].next # b /\ (link[x].next = n => x = b)
           /\ l.next \in (DOMAIN link \ {b, n}) \cup {Null}
           /\ \A x \in DOMAIN link' : x = m \/ (x \in DOMAIN link /\ x # b /\ x # n /\ link[x].next \in (DOMAIN link \ {b, n}) \cup {Null})
           /\ DOMAIN heads' = DOMAIN heads
           /\ \A i \in DOMAIN heads : /\ heads'[i].key = heads[i].key
                                      /\ IF i = MyHead THEN heads'[i].link = m
                                         ELSE heads'[i].link = heads[i].link /\ heads[i].link \in DOMAIN link \ {b, n}
           /\ m \notin DOMAIN link /\ m # Null
  BY MergeShape
<1>2. /\ b = MyLink /\ n = link[b].next /\ b \in DOMAIN link /\ n \in DOMAIN link /\ b # n
      /\ link[n].self = link[b].self /\ DOMAIN link' = (DOMAIN link \ {b, n}) \cup {m}
      /\ \A x \in DOMAIN link' : link'[x] \in LinkSet
      /\ \A x \in DOMAIN link : x # b /\ x # n => link'[x] = link[x]
      /\ l \in LinkSet /\ l.self = 2 * link[b].self
      /\ l.next = link[n].next /\ link'[m].next = l.next /\ link'[m].self = l.self
      /\ l.used = Len(link[n].cells) + Len(link[b].cells)
      /\ heads' = [heads EXCEPT ![MyHead].link = m]
  BY <1>1 DEF Replaced
<1>3. Busy /\ wpc = "merge" /\ Types /\ Table /\ Chains /\ bucket' = bucket
  BY MergeFacts DEF Struct
<1>4. /\ \A x \in DOMAIN link : Room(link[x]) >= 0 /\ Doubles(Base, link[x].self)
      /\ \A x \in DOMAIN link : link[x].next # Null =>
           Doubles(link[x].self, link[link[x].next].self) /\ Room(link[link[x].next]) < CellSize
      /\ \A a, x \in DOMAIN link : link[a].next = x /\ link[x].next # Null =>
           Doubles(2 * link[x].self, link[link[x].next].self)
  BY DEF Sizes
<1>5. \A x \in DOMAIN link : /\ link[x] \in LinkSet /\ link[x].self \in Nat /\ link[x].used \in Nat
                             /\ Len(link[x].cells) = link[x].used
  <2>1. \A x : Hidden(x) = 0
    BY <1>3 DEF Hidden
  <2>2. \A x \in DOMAIN link : link[x] \in LinkSet /\ link[x].self \in Nat /\ link[x].used \in Nat
    BY LinkFacts
  <2> QED
    BY <2>1, <2>2 DEF Runs
<1>6. Room(l) >= 0 /\ Room(l) \in Int
  <2>1. PICK x, y : x = link[b] /\ y = link[n]
    OBVIOUS
  <2>2. /\ x \in LinkSet /\ y \in LinkSet /\ x.self = y.self /\ l.self = 2 * x.self
        /\ x.used \in Nat /\ y.used \in Nat /\ l.used = y.used + x.used
        /\ Room(x) >= 0 /\ Room(y) >= 0
    BY <1>2, <1>4, <1>5, <2>1
  <2>3. l.used = x.used + y.used
    BY <2>2
  <2>4. /\ Room(l) = Room(x) + Room(y) + LinkHead
        /\ Room(l) \in Int /\ Room(x) \in Int /\ Room(y) \in Int /\ LinkHead \in Nat
    BY <1>2, <2>2, <2>3, RoomFacts, ConstantFacts
  <2> QED
    BY <2>2, <2>4
<1>7. Room(link'[m]) >= 0
  <2>1. CASE Unfitted(m, l)
    BY <1>6, <2>1 DEF Unfitted
  <2>2. CASE Fitted(m, l)
    <3>1. PICK x : x = link'[m]
      OBVIOUS
    <3>2. x \in LinkSet /\ x.self = l.self /\ x.used = l.used + 1 /\ Room(l) >= CellSize
      BY <1>2, <2>2, <3>1 DEF Fitted, HasRoom
    <3>3. Room(x) = Room(l) - CellSize /\ CellSize \in Nat
      BY <1>2, <3>2, RoomFacts, ConstantFacts
    <3> QED
      BY <1>6, <3>1, <3>2, <3>3
  <2> QED
    BY <1>1, <2>1, <2>2
<1>8. Doubles(Base, link'[m].self)
  <2>1. PICK s : s = link[b].self
    OBVIOUS
  <2>2. Doubles(Base, s) /\ s \in Nat /\ Base \in Nat
    BY <1>2, <1>4, <1>5, <2>1, ConstantFacts
  <2>3. Doubles(Base, 2 * s)
    BY <2>2, DoublesFacts
  <2> QED
    BY <1>2, <2>1, <2>3
<1>9. ASSUME NEW x \in DOMAIN link' PROVE Room(link'[x]) >= 0 /\ Doubles(Base, link'[x].self)
  BY <1>1, <1>2, <1>4, <1>7, <1>8
<1>10. n # Null /\ \A x \in DOMAIN link : x # Null
  BY <1>2, <1>3, BlockFacts DEF Types
<1>11. ASSUME NEW x \in DOMAIN link', link'[x].next # Null
       PROVE  Doubles(link'[x].self, link'[link'[x].next].self) /\ Room(link'[link'[x].next]) < CellSize
  <2>1. CASE x = m
    <3>1. PICK p : p = link[n].next
      OBVIOUS
    <3>2. p \in DOMAIN link /\ p # b /\ p # n /\ link'[p] = link[p] /\ link'[x].next = p
      BY <1>1, <1>2, <1>11, <2>1, <3>1
    <3>3. Doubles(2 * link[n].self, link[p].self) /\ Room(link[p]) < CellSize
      BY <1>2, <1>4, <1>10, <3>1, <3>2
    <3> QED
      BY <1>2, <2>1, <3>2, <3>3
  <2>2. CASE x # m
    <3>1. /\ x \in DOMAIN link /\ link'[x] = link[x] /\ link[x].next # Null
          /\ link'[link[x].next] = link[link[x].next]
      BY <1>1, <1>2, <1>11, <2>2
    <3> QED
      BY <1>4, <3>1
  <2> QED
    BY <2>1, <2>2
<1>12. ASSUME NEW a \in DOMAIN link', NEW x \in DOMAIN link', link'[a].next = x, link'[x].next # Null
       PROVE  Doubles(2 * link'[x].self, link'[link'[x].next].self)
  <2>1. x # m /\ x # b /\ x # n /\ x \in DOMAIN link /\ \E c \in DOMAIN link : link[c].next = x
    <3>1. CASE a = m
      BY <1>1, <1>2, <1>10, <1>12, <3>1
    <3>2. CASE a # m
      BY <1>1, <1>2, <1>10, <1>12, <3>2
    <3> QED
      BY <3>1, <3>2
  <2>2. link'[x] = link[x] /\ link[x].next \in DOMAIN link \ {b, n} /\ link'[link[x].next] = link[link[x].next]
    BY <1>1, <1>2, <1>12, <2>1
  <2> QED
    BY <1>4, <1>12, <2>1, <2>2
<1>13. wpc' \notin {"copy", "used", "newlink"}
  BY <1>1, <1>3 DEF Fitted, Unfitted
<1>14. wpc' = "merge" => ~HasRoom(link'[MyLink'])
  <2>1. ASSUME Unfitted(m, l) PROVE MyLink' = m /\ ~HasRoom(link'[m])
    <3>1. ~HasRoom(l) /\ link'[m] = l /\ wkey' = wkey
      BY <2>1 DEF Unfitted
    <3>2. PICK o : o = MyHead
      OBVIOUS
    <3>3. o \in DOMAIN heads /\ m \in Blk /\ heads' = [heads EXCEPT ![o].link = m]
      BY <1>1, <1>2, <1>3, <3>2, MyFacts DEF Replaced
    <3>4. /\ heads'[o].link = m /\ \A k \in Keys : SpotIn(heads', bucket, k) = SpotIn(heads, bucket, k)
      <4>1. /\ \A i \in DOMAIN heads : /\ heads'[i].key = heads[i].key /\ heads'[i].next = heads[i].next
                                        /\ heads'[i].link = IF i = o THEN m ELSE heads[i].link
            /\ \A k \in Keys : SpotIn(heads', bucket, k) = SpotIn(heads, bucket, k)
        BY <1>3, <3>3, Relinked
      <4> QED
        BY <3>3, <4>1
    <3>5. wkey \in Keys
      BY <1>3, MyFacts
    <3>6. MyHead' = o
      BY <1>3, <3>1, <3>2, <3>4, <3>5 DEF MyHead
    <3> QED
      BY <3>1, <3>4, <3>6 DEF MyLink
  <2>2. Fitted(m, l) => wpc' = "idle"
    BY DEF Fitted
  <2> QED
    BY <1>1, <2>1, <2>2
<1>15. wpc' # "lock"
  BY <1>1, <1>3 DEF Fitted, Unfitted
<1> QED
  BY <1>9, <1>11, <1>12, <1>13, <1>14, <1>15 DEF Sizes

\* Every step keeps the sizes.
LEMMA SizesStep == Struct /\ Runs /\ Sizes /\ [Next]_vars => Sizes'
<1> SUFFICES ASSUME Struct, Runs, Sizes, [Next]_vars PROVE Sizes'
  OBVIOUS
<1>1. CASE Clear
  <2>1. DOMAIN link' = {} /\ wpc' = "idle"
    BY <1>1, ClearFacts DEF Emptied
  <2> QED
    BY <2>1 DEF Sizes
<1>2. CASE Get \/ Begin \/ ItNext \/ UNCHANGED vars
  <2>1. UNCHANGED <<bucket, heads, link, locked, wpc, wkey, count, ret>>
    BY <1>2, StructRest
  <2> QED
    BY <2>1 DEF Sizes, MyLink, MyHead
<1> QED
  BY <1>1, <1>2, SizesIdle, SizesCopy, SizesMerge, SizesAdd DEF Next, Set, Dump

\* The structure with the lock, the runs and the sizes: the list's invariant.
ListInv == Struct /\ Lock /\ Runs /\ Sizes

\* It is inductive.
LEMMA ListInvHolds == Spec => []ListInv
<1>1. Init => ListInv
  BY StructInit, LockInit, RunsInit DEF ListInv
<1>2. ListInv /\ [Next]_vars => ListInv'
  BY StructStep, LockStep, RunsStep, SizesStep DEF ListInv
<1> QED
  BY <1>1, <1>2, PTL DEF Spec

\* What the pool's parts say of it as a whole.
LEMMA PoolWhole ==
  ASSUME NEW D, Pool(stack, extra, D)
  PROVE  /\ \A c \in Cats : IsInjective(stack[c]) /\ \A i \in DOMAIN stack[c] : stack[c][i][1] = c
         /\ PoolBlocks = OnStacks \cup (D \ extra)
         /\ \A c \in Cats : Range(stack[c]) \cap D = {}
         /\ extra \subseteq D
<1>1. /\ stack \in [Cats -> Seq(PoolBlocks)]
      /\ \A c \in Cats : IsInjective(stack[c]) /\ \A i \in DOMAIN stack[c] : stack[c][i][1] = c
      /\ D \ extra \subseteq PoolBlocks
      /\ \A x \in PoolBlocks : x \in D \/ \E c \in Cats : x \in Range(stack[c])
      /\ \A c \in Cats : Range(stack[c]) \cap D = {}
      /\ extra \subseteq D /\ \A x \in extra : x \in {0} \X Nat
  BY DEF Pool
<1>2. \A c \in Cats : Range(stack[c]) \subseteq PoolBlocks
  BY <1>1 DEF Range
<1>3. \A x \in PoolBlocks : x \notin extra
  BY <1>1, BlockFacts
<1>4. \A x : x \in OnStacks <=> \E c \in Cats : x \in Range(stack[c])
  BY DEF OnStacks
<1>5. PoolBlocks = OnStacks \cup (D \ extra)
  BY <1>1, <1>2, <1>3, <1>4
<1> QED
  BY <1>1, <1>5

\* The types.
LEMMA ListTypes == ListInv => TypeOK
<1> SUFFICES ASSUME ListInv PROVE TypeOK
  OBVIOUS
<1>1. Struct /\ Lock /\ Runs /\ Sizes /\ Types /\ Chains
  BY DEF ListInv, Struct
<1>2. /\ Len(heads) \in Nat /\ DOMAIN heads = 1..Len(heads) /\ Backward(heads)
      /\ \A i \in DOMAIN heads : heads[i] \in HeadSet
  BY <1>1, HeadFacts
<1>3. \A i \in DOMAIN heads :
        heads[i].key \in Keys /\ heads[i].next \in 0..i - 1 /\ heads[i].link \in DOMAIN link
  BY <1>1, <1>2 DEF Backward, HeadSet, Chains
<1>4. ASSUME NEW b \in DOMAIN link
      PROVE  /\ link[b].next \in DOMAIN link \cup {Null} /\ Room(link[b]) >= 0
             /\ Len(link[b].cells) \in {link[b].used, link[b].used + 1}
  <2>1. link[b].used \in Nat /\ link[b].next \in DOMAIN link \cup {Null}
    BY <1>1, LinkFacts
  <2>2. Room(link[b]) >= 0
    BY <1>1 DEF Sizes
  <2>3. Len(link[b].cells) = link[b].used + Hidden(b) /\ Hidden(b) \in {0, 1}
    BY <1>1 DEF Runs, Hidden
  <2> QED
    BY <2>1, <2>2, <2>3
<1>5. /\ bucket \in [0..Buckets - 1 -> 0..Len(heads)] /\ readonly \in BOOLEAN
      /\ wpc \in {"idle", "copy", "used", "lock", "merge", "newlink", "newhead"}
      /\ ret \in {"OK", "NEARLY_FULL", "FULL"} /\ wkey \in Keys \cup {0}
  BY <1>1 DEF Types
<1>6. \A k \in Keys : count[k] \in 0..MaxSets[k]
  BY <1>1, ListAssumption DEF Types
<1>7. /\ locked \in BOOLEAN /\ rbig \in BOOLEAN /\ rgrew \in BOOLEAN
      /\ rpc \in {"idle", "lock", "link", "cond", "take", "done"} /\ rkey \in Keys \cup {0}
      /\ rleft \in Nat \cup {-1} /\ rfrom \in Nat
  BY <1>1 DEF Lock
<1>8. rhead \in 0..HeadMax
  BY <1>1, <1>2, ConstantFacts DEF Lock, Types
<1> QED
  BY <1>3, <1>4, <1>5, <1>6, <1>7, <1>8 DEF TypeOK

\* No block is lost and none is in two places.
THEOREM PoolSoundHolds == Spec => []PoolSound
<1>1. ListInv => PoolSound
  <2> SUFFICES ASSUME ListInv PROVE PoolSound
    OBVIOUS
  <2>1. Pool(stack, extra, DOMAIN link)
    BY DEF ListInv, Struct
  <2>2. TypeOK
    BY ListTypes
  <2> QED
    BY <2>1, <2>2, PoolWhole DEF PoolSound
<1> QED
  BY <1>1, ListInvHolds, PTL

\* The links along a chain.
LEMMA ChainShapeHolds == ListInv => ChainShape
<1> SUFFICES ASSUME ListInv PROVE ChainShape
  OBVIOUS
<1>1. Struct /\ Runs /\ Sizes
  BY DEF ListInv
<1>2. \A b \in DOMAIN link : link[b].self \in Nat /\ link[b].next \in DOMAIN link \cup {Null}
  BY <1>1, LinkFacts
<1>3. ASSUME NEW b \in DOMAIN link, link[b].next # Null
      PROVE  link[b].self <= link[link[b].next].self /\ Room(link[link[b].next]) < CellSize
  <2>1. PICK x, y : x = link[b].self /\ y = link[link[b].next].self
    OBVIOUS
  <2>2. x \in Nat /\ y \in Nat /\ Doubles(x, y) /\ Room(link[link[b].next]) < CellSize
    BY <1>1, <1>2, <1>3, <2>1 DEF Sizes
  <2>3. x <= y
    BY <2>2, DoublesFacts
  <2> QED
    BY <2>1, <2>2, <2>3
<1>4. ASSUME wpc = "newlink", link[MyLink].next # Null
      PROVE  link[MyLink].self < link[link[MyLink].next].self
  <2>1. MyLink \in DOMAIN link
    BY <1>1, <1>4, MyFacts DEF Struct, Busy
  <2>2. link[link[MyLink].next].self # link[MyLink].self
    BY <1>1, <1>4 DEF Sizes
  <2> QED
    BY <1>2, <1>3, <1>4, <2>1, <2>2
<1> QED
  BY <1>3, <1>4, FirstIs DEF ChainShape

\* One link further along the chain that begins with block b.
WalkFrom(ln, at) ==
  IF at.at = Null THEN at ELSE LET l == ln[at.at] IN [at |-> l.next, list |-> at.list \o l.cells]
\* One step of the walk w along a chain.
WalkStep(ln, b, w, i) == IF i = 0 THEN [at |-> b, list |-> <<>>] ELSE WalkFrom(ln, w[i - 1])

\* Contents is what its recursion says.
LEMMA ContentsIs ==
  ASSUME NEW b, NEW N \in Nat, N = Cardinality(DOMAIN link)
  PROVE  \E w : Contents(b) = w[N].list /\ \A i \in 0..N : w[i] = WalkStep(link, b, w, i)
<1>0. PICK ln : ln = link
  OBVIOUS
<1> DEFINE S == {n \in Nat : \E w : \A i \in 0..n : w[i] = WalkStep(ln, b, w, i)}
<1>1. 0 \in S
  <2> DEFINE w == [i \in 0..0 |-> [at |-> b, list |-> <<>>]]
  <2>1. \A i \in 0..0 : w[i] = WalkStep(ln, b, w, i)
    BY DEF WalkStep
  <2> QED
    BY <2>1
<1>2. ASSUME NEW n \in Nat, n \in S PROVE n + 1 \in S
  <2>1. PICK w : \A i \in 0..n : w[i] = WalkStep(ln, b, w, i)
    BY <1>2
  <2> DEFINE g == [i \in 0..n + 1 |-> IF i <= n THEN w[i] ELSE WalkStep(ln, b, w, n + 1)]
  <2>2. ASSUME NEW i \in 0..n + 1 PROVE g[i] = WalkStep(ln, b, g, i)
    <3>1. i # 0 => g[i - 1] = w[i - 1]
      OBVIOUS
    <3>2. WalkStep(ln, b, g, i) = WalkStep(ln, b, w, i)
      BY <3>1 DEF WalkStep
    <3>3. CASE i <= n
      BY <2>1, <3>2, <3>3
    <3>4. CASE i = n + 1
      BY <3>2, <3>4
    <3> QED
      BY <3>3, <3>4
  <2> HIDE DEF g
  <2> QED
    BY <2>2
<1>3. Nat \subseteq S
  <2> HIDE DEF S
  <2> QED
    BY <1>1, <1>2, Induction
<1>4. PICK w : \A i \in 0..N : w[i] = WalkStep(ln, b, w, i)
  BY <1>3
<1> DEFINE g == [i \in 0..N |-> w[i]]
           F == CHOOSE h : h = [n \in 0..N |->
                  IF n = 0 THEN [at |-> b, list |-> <<>>]
                  ELSE IF h[n - 1].at = Null THEN h[n - 1]
                  ELSE LET l == ln[h[n - 1].at] IN [at |-> l.next, list |-> h[n - 1].list \o l.cells]]
<1>5. g = [n \in 0..N |->
             IF n = 0 THEN [at |-> b, list |-> <<>>]
             ELSE IF g[n - 1].at = Null THEN g[n - 1]
             ELSE LET l == ln[g[n - 1].at] IN [at |-> l.next, list |-> g[n - 1].list \o l.cells]]
  <2>1. ASSUME NEW n \in 0..N
        PROVE  g[n] = IF n = 0 THEN [at |-> b, list |-> <<>>]
                      ELSE IF g[n - 1].at = Null THEN g[n - 1]
                      ELSE LET l == ln[g[n - 1].at] IN [at |-> l.next, list |-> g[n - 1].list \o l.cells]
    <3>1. n # 0 => g[n - 1] = w[n - 1]
      OBVIOUS
    <3>2. g[n] = WalkStep(ln, b, w, n)
      BY <1>4
    <3>3. WalkStep(ln, b, w, n) = WalkStep(ln, b, g, n)
      BY <3>1 DEF WalkStep
    <3> HIDE DEF g
    <3> QED
      BY <3>2, <3>3 DEF WalkStep, WalkFrom
  <2> QED
    BY <2>1
<1>6. F = [n \in 0..N |->
             IF n = 0 THEN [at |-> b, list |-> <<>>]
             ELSE IF F[n - 1].at = Null THEN F[n - 1]
             ELSE LET l == ln[F[n - 1].at] IN [at |-> l.next, list |-> F[n - 1].list \o l.cells]]
  <2> HIDE DEF g
  <2> QED
    BY <1>5
<1>7. Contents(b) = F[N].list
  BY <1>0 DEF Contents
<1> HIDE DEF F
<1>8. \A i \in 0..N : F[i] = WalkStep(ln, b, F, i)
  BY <1>6 DEF WalkStep, WalkFrom
<1> QED
  BY <1>0, <1>7, <1>8

\* The newest posting from a block on.
Top(ln, b) == IF b = Null THEN 0 ELSE ln[b].cells[1]

\* A walk that began at posting top has the postings down to where it is.
Walked(x, top) ==
  /\ x.at \in DOMAIN link \cup {Null} /\ x.list \in Seq(Nat) /\ Len(x.list) + Top(link, x.at) = top
  /\ \A j \in 1..Len(x.list) : x.list[j] = top + 1 - j

\* One link further it still has, and it is nearer to the end.
LEMMA WalkOne ==
  ASSUME Struct, Runs, NEW top \in Nat, NEW x, Walked(x, top), NEW y, y = WalkFrom(link, x)
  PROVE  /\ Walked(y, top) /\ (x.at = Null => y.at = Null)
         /\ x.at # Null => Top(link, y.at) < Top(link, x.at)
         /\ Top(link, x.at) \in Nat /\ Top(link, y.at) \in Nat
<1>1. PICK p, t : p = x.list /\ t = Top(link, x.at)
  OBVIOUS
<1>2. \A b \in DOMAIN link : /\ link[b].cells \in Seq(Nat) /\ link[b].next \in DOMAIN link \cup {Null}
                             /\ link[b].cells[1] \in Nat /\ Below(link, b) \in Nat
                             /\ RunOf(link[b].cells, Below(link, b) + 1)
  BY LinkFacts
<1>3. /\ x.at \in DOMAIN link \cup {Null} /\ p \in Seq(Nat) /\ Len(p) + t = top
      /\ \A j \in 1..Len(p) : p[j] = top + 1 - j
  BY <1>1 DEF Walked
<1>4. \A b \in DOMAIN link : Top(link, link[b].next) = Below(link, b)
  BY DEF Top, Below
<1>5. t \in Nat
  BY <1>1, <1>2, <1>3 DEF Top
<1>6. CASE x.at = Null
  <2>1. y = x
    BY <1>6 DEF WalkFrom
  <2> QED
    BY <1>1, <1>5, <1>6, <2>1
<1>7. CASE x.at # Null
  <2>1. PICK b, c, f : b = x.at /\ c = link[b].cells /\ f = Below(link, b)
    OBVIOUS
  <2>2. /\ b \in DOMAIN link /\ c \in Seq(Nat) /\ f \in Nat /\ RunOf(c, f + 1) /\ t = c[1]
        /\ link[b].next \in DOMAIN link \cup {Null} /\ Top(link, link[b].next) = f
    BY <1>1, <1>2, <1>3, <1>4, <1>7, <2>1 DEF Top
  <2>3. y.at = link[b].next /\ y.list = p \o c
    BY <1>1, <1>7, <2>1 DEF WalkFrom
  <2>4. Len(c) \in Nat /\ Len(c) >= 1 /\ \A j \in 1..Len(c) : c[j] = f + 1 + Len(c) - j
    BY <2>2 DEF RunOf
  <2>5. t = f + Len(c)
    <3>1. c[1] = f + 1 + Len(c) - 1
      BY <2>4
    <3> QED
      BY <2>2, <2>4, <3>1
  <2>6. PICK q, u, v : q = p \o c /\ u = Len(p) /\ v = Len(c)
    OBVIOUS
  <2>7. /\ q \in Seq(Nat) /\ Len(q) = u + v /\ u \in Nat /\ v \in Nat
        /\ \A j \in 1..u + v : q[j] = IF j <= u THEN p[j] ELSE c[j - u]
    BY <1>3, <2>2, <2>6
  <2>8. ASSUME NEW j \in 1..u + v PROVE q[j] = top + 1 - j
    <3>1. CASE j <= u
      <4>1. q[j] = p[j] /\ j \in 1..Len(p)
        BY <2>6, <2>7, <3>1
      <4> QED
        BY <1>3, <4>1
    <3>2. CASE ~(j <= u)
      <4>1. q[j] = c[j - u] /\ j - u \in 1..Len(c)
        BY <2>6, <2>7, <3>2
      <4>2. q[j] = f + 1 + Len(c) - (j - u)
        BY <2>4, <4>1
      <4>3. u \in Nat /\ v \in Nat /\ f \in Nat /\ j \in Nat /\ top = u + (f + v) /\ q[j] = f + 1 + v - (j - u)
        BY <1>3, <2>2, <2>5, <2>6, <2>7, <4>2
      <4>4. f + 1 + v - (j - u) = u + (f + v) + 1 - j
        BY <4>3
      <4> QED
        BY <4>3, <4>4
    <3> QED
      BY <3>1, <3>2
  <2>9. y.at \in DOMAIN link \cup {Null} /\ Top(link, y.at) = f
    BY <2>2, <2>3
  <2>10. Len(q) + f = top
    BY <1>3, <2>2, <2>5, <2>6, <2>7
  <2>11. Walked(y, top)
    <3>1. y.list = q /\ Len(q) = u + v
      BY <2>3, <2>6, <2>7
    <3> QED
      BY <2>7, <2>8, <2>9, <2>10, <3>1 DEF Walked
  <2> QED
    BY <1>1, <1>5, <1>7, <2>2, <2>4, <2>5, <2>9, <2>11
<1> QED
  BY <1>6, <1>7

\* The contents of a chain: all its postings, newest first.
LEMMA ContentsRun ==
  ASSUME Struct, Runs, NEW b \in DOMAIN link, NEW top, top = link[b].cells[1]
  PROVE  /\ top \in Nat /\ Len(Contents(b)) = top
         /\ Contents(b) = [j \in 1..top |-> top + 1 - j]
<1>1. top \in Nat
  BY LinkFacts
<1>2. Pool(stack, extra, DOMAIN link)
  BY DEF Struct
<1>3. IsFiniteSet(DOMAIN link)
  BY <1>2, BlocksInUse
<1>4. PICK N : N = Cardinality(DOMAIN link)
  OBVIOUS
<1>5. N \in Nat
  BY <1>3, <1>4, FS_CardinalityType
<1>6. PICK w : Contents(b) = w[N].list /\ \A i \in 0..N : w[i] = WalkStep(link, b, w, i)
  BY <1>4, <1>5, ContentsIs
<1> DEFINE At(i) == Top(link, w[i].at)
           Fine(i) == /\ Walked(w[i], top) /\ At(i) \in Nat
                      /\ w[i].at # Null => \A j \in 0..i : w[j].at # Null /\ (j # i => At(i) < At(j))
           S == {n \in Nat : n <= N => \A i \in 0..n : Fine(i)}
<1>7. 0 \in S
  <2>1. w[0] = [at |-> b, list |-> <<>>]
    BY <1>5, <1>6 DEF WalkStep
  <2>2. w[0].at = b /\ w[0].list = <<>>
    BY <2>1
  <2>3. b # Null
    BY BlockFacts DEF Struct, Types
  <2>4. Top(link, b) = top
    BY <2>3 DEF Top
  <2>5. PICK x : x = w[0]
    OBVIOUS
  <2>6. Walked(x, top)
    <3>1. x.list \in Seq(Nat) /\ Len(x.list) = 0 /\ x.at \in DOMAIN link
      <4>1. <<>> \in Seq(Nat) /\ Len(<<>>) = 0
        OBVIOUS
      <4>2. x.list = <<>> /\ x.at \in DOMAIN link
        BY <2>2, <2>5
      <4>3. x.list \in Seq(Nat) /\ Len(x.list) = 0
        BY <4>1, <4>2
      <4> QED
        BY <4>2, <4>3
    <3>2. Len(x.list) + Top(link, x.at) = top
      BY <1>1, <2>2, <2>4, <2>5, <3>1
    <3> QED
      BY <3>1, <3>2 DEF Walked
  <2>7. Fine(0)
    BY <1>1, <2>2, <2>4, <2>5, <2>6
  <2> HIDE DEF Fine
  <2> QED
    BY <2>7
<1>8. ASSUME NEW n \in Nat, n \in S PROVE n + 1 \in S
  <2> SUFFICES ASSUME n + 1 <= N PROVE Fine(n + 1)
    <3>1. n <= N => \A i \in 0..n : Fine(i)
      BY <1>8
    <3> HIDE DEF Fine
    <3> QED
      BY <1>5, <3>1
  <2>1. n + 1 \in 0..N /\ n + 1 # 0 /\ (n + 1) - 1 = n /\ n \in 0..n /\ n <= N
    BY <1>5
  <2>2. PICK x, y : x = w[n] /\ y = w[n + 1]
    OBVIOUS
  <2>3. y = WalkFrom(link, x)
    BY <1>6, <2>1, <2>2 DEF WalkStep
  <2>4. /\ Walked(x, top) /\ At(n) \in Nat
        /\ x.at # Null => \A j \in 0..n : w[j].at # Null /\ (j # n => At(n) < At(j))
    BY <1>8, <2>1, <2>2
  <2>5. /\ Walked(y, top) /\ (x.at = Null => y.at = Null)
        /\ x.at # Null => Top(link, y.at) < Top(link, x.at)
        /\ Top(link, x.at) \in Nat /\ Top(link, y.at) \in Nat
    BY <1>1, <2>3, <2>4, WalkOne
  <2>6. At(n + 1) \in Nat /\ (x.at # Null => At(n + 1) < At(n))
    BY <2>2, <2>5
  <2>7. \A j \in 0..n : w[j].at # Null => At(j) \in Nat
    BY <1>8, <2>1
  <2> HIDE DEF At
  <2>8. ASSUME y.at # Null, NEW j \in 0..n + 1 PROVE w[j].at # Null /\ (j # n + 1 => At(n + 1) < At(j))
    <3>1. x.at # Null
      BY <2>5, <2>8
    <3>2. CASE j = n + 1
      BY <2>2, <2>8, <3>2
    <3>3. CASE j # n + 1
      <4>1. j \in 0..n
        BY <3>3
      <4>2. w[j].at # Null /\ (j # n => At(n) < At(j)) /\ At(j) \in Nat
        BY <2>4, <2>7, <3>1, <4>1
      <4> QED
        BY <2>4, <2>6, <3>1, <4>2
    <3> QED
      BY <3>2, <3>3
  <2> QED
    BY <2>2, <2>5, <2>6, <2>8
<1>9. Nat \subseteq S
  <2> HIDE DEF S
  <2> QED
    BY <1>7, <1>8, Induction
<1>10. \A i \in 0..N : Fine(i)
  <2> HIDE DEF Fine
  <2> QED
    BY <1>5, <1>9
<1>11. w[N].at = Null
  <2> SUFFICES ASSUME w[N].at # Null PROVE FALSE
    OBVIOUS
  <2>1. N \in 0..N
    BY <1>5
  <2>2. \A i \in 0..N : w[i].at # Null
    BY <1>10, <2>1
  <2>3. \A i, j \in 0..N : i < j => At(j) < At(i)
    <3> SUFFICES ASSUME NEW i \in 0..N, NEW j \in 0..N, i < j PROVE At(j) < At(i)
      OBVIOUS
    <3>1. i \in 0..j /\ i # j
      OBVIOUS
    <3>2. Fine(j) /\ w[j].at # Null
      BY <1>10, <2>2
    <3> HIDE DEF At
    <3> QED
      BY <3>1, <3>2
  <2>4. \A i \in 0..N : At(i) \in Nat /\ w[i].at \in DOMAIN link
    BY <1>10, <2>2 DEF Walked
  <2> DEFINE g == [i \in 1..N + 1 |-> w[i - 1].at]
  <2>5. \A i \in 1..N + 1 : i - 1 \in 0..N
    BY <1>5
  <2>6. ASSUME NEW i \in 1..N + 1, NEW j \in 1..N + 1, g[i] = g[j] PROVE i = j
    <3>1. At(i - 1) = At(j - 1)
      BY <2>6
    <3>2. i - 1 \in 0..N /\ j - 1 \in 0..N /\ At(i - 1) \in Nat /\ At(j - 1) \in Nat
      BY <2>4, <2>5
    <3> HIDE DEF At, g
    <3>3. ~(i - 1 < j - 1) /\ ~(j - 1 < i - 1)
      BY <2>3, <3>1, <3>2
    <3> QED
      BY <1>5, <3>3
  <2>7. g \in [1..N + 1 -> DOMAIN link]
    BY <2>4, <2>5
  <2>8. DOMAIN g = 1..N + 1
    OBVIOUS
  <2> HIDE DEF g
  <2>9. g \in Injection(1..N + 1, DOMAIN link)
    BY <2>6, <2>7, <2>8 DEF Injection, IsInjective
  <2>10. Cardinality(1..N + 1) <= N
    BY <1>3, <1>4, <2>9, FS_Injection
  <2>11. Cardinality(1..N + 1) = N + 1
    BY <1>5, IntervalCard
  <2> QED
    BY <1>5, <2>10, <2>11
<1>12. PICK p : p = w[N].list
  OBVIOUS
<1>13. /\ p \in Seq(Nat) /\ Len(p) = top /\ \A j \in 1..Len(p) : p[j] = top + 1 - j
  <2>1. N \in 0..N
    BY <1>5
  <2>2. Walked(w[N], top)
    BY <1>10, <2>1
  <2>3. Top(link, w[N].at) = 0
    BY <1>11 DEF Top
  <2>4. /\ p \in Seq(Nat) /\ Len(p) + 0 = top /\ \A j \in 1..Len(p) : p[j] = top + 1 - j
    BY <1>12, <2>2, <2>3 DEF Walked
  <2> QED
    BY <2>4
<1>14. p = [j \in 1..top |-> top + 1 - j]
  <2>1. p = [j \in 1..Len(p) |-> p[j]]
    BY <1>13
  <2> QED
    BY <1>13, <2>1
<1> QED
  BY <1>1, <1>6, <1>12, <1>13, <1>14

\* Every posting that was set is in the list, once and in order.
THEOREM ListsCompleteHolds == Spec => []ListsComplete
<1>1. ListInv => ListsComplete
  <2> SUFFICES ASSUME ListInv PROVE ListsComplete
    OBVIOUS
  <2>1. ChainShape
    BY ChainShapeHolds
  <2>2. Struct /\ Runs /\ Chains
    BY DEF ListInv, Struct
  <2>3. ASSUME wpc = "idle", NEW i \in DOMAIN heads
        PROVE  Contents(heads[i].link) = [n \in 1..count[heads[i].key] |-> count[heads[i].key] + 1 - n]
    <3>1. PICK b, top : b = heads[i].link /\ top = link[b].cells[1]
      OBVIOUS
    <3>2. b \in DOMAIN link
      BY <2>2, <3>1 DEF Chains
    <3>3. top \in Nat /\ Contents(b) = [n \in 1..top |-> top + 1 - n]
      BY <2>2, <3>1, <3>2, ContentsRun
    <3>4. top = count[heads[i].key]
      <4>1. top = count[heads[i].key] + 0
        BY <2>2, <2>3, <3>1 DEF Runs, Pending
      <4>2. count[heads[i].key] \in Nat
        BY <2>2, HeadFacts DEF Struct, Types, HeadSet
      <4> QED
        BY <4>1, <4>2
    <3> QED
      BY <3>1, <3>3, <3>4
  <2> QED
    BY <2>1, <2>3 DEF ListsComplete
<1> QED
  BY <1>1, ListInvHolds, PTL

\* A finite set of numbers in ascending order.
LEMMA Enumerated ==
  ASSUME NEW n \in Nat
  PROVE  \A K \in SUBSET Nat : IsFiniteSet(K) /\ Cardinality(K) = n =>
           \E f \in [1..n -> K] : \A i, j \in 1..n : i < j => f[i] < f[j]
<1> DEFINE P(m) == \A K \in SUBSET Nat : IsFiniteSet(K) /\ Cardinality(K) = m =>
                     \E f \in [1..m -> K] : \A i, j \in 1..m : i < j => f[i] < f[j]
           S == {m \in Nat : P(m)}
<1>1. 0 \in S
  <2>1. ASSUME NEW K \in SUBSET Nat
        PROVE  \E f \in [1..0 -> K] : \A i, j \in 1..0 : i < j => f[i] < f[j]
    <3> DEFINE f == [i \in 1..0 |-> 0]
    <3>1. f \in [1..0 -> K]
      OBVIOUS
    <3>2. \A i, j \in 1..0 : i < j => f[i] < f[j]
      OBVIOUS
    <3> HIDE DEF f
    <3> QED
      BY <3>1, <3>2
  <2> QED
    BY <2>1
<1>2. ASSUME NEW m \in Nat, m \in S PROVE m + 1 \in S
  <2> SUFFICES ASSUME NEW K \in SUBSET Nat, IsFiniteSet(K), Cardinality(K) = m + 1
               PROVE  \E f \in [1..m + 1 -> K] : \A i, j \in 1..m + 1 : i < j => f[i] < f[j]
    OBVIOUS
  <2>1. K # {}
    BY FS_EmptySet
  <2>2. PICK x \in K : \A y \in K : x <= y
    BY <2>1, Least
  <2>3. IsFiniteSet(K \ {x}) /\ Cardinality(K \ {x}) = Cardinality(K) - 1
    BY FS_RemoveElement
  <2>4. K \ {x} \in SUBSET Nat /\ Cardinality(K \ {x}) = m
    BY <2>3
  <2>5. PICK g \in [1..m -> K \ {x}] : \A i, j \in 1..m : i < j => g[i] < g[j]
    BY <1>2, <2>3, <2>4
  <2> DEFINE f == [i \in 1..m + 1 |-> IF i = 1 THEN x ELSE g[i - 1]]
  <2>6. \A i \in 1..m + 1 : i # 1 => i - 1 \in 1..m /\ f[i] = g[i - 1] /\ g[i - 1] \in K /\ x < g[i - 1]
    <3> TAKE i \in 1..m + 1
    <3> HAVE i # 1
    <3>1. i - 1 \in 1..m
      OBVIOUS
    <3>2. g[i - 1] \in K /\ g[i - 1] # x
      BY <3>1
    <3>3. x <= g[i - 1] /\ x \in Nat /\ g[i - 1] \in Nat
      BY <2>2, <3>2
    <3> QED
      BY <3>1, <3>2, <3>3
  <2>7. f[1] = x /\ 1 \in 1..m + 1
    OBVIOUS
  <2>8. f \in [1..m + 1 -> K]
    BY <2>6
  <2> HIDE DEF f
  <2>9. ASSUME NEW i \in 1..m + 1, NEW j \in 1..m + 1, i < j PROVE f[i] < f[j]
    <3>1. j # 1
      BY <2>9
    <3>2. CASE i = 1
      BY <2>6, <2>7, <3>1, <3>2
    <3>3. CASE i # 1
      <4>1. i - 1 < j - 1 /\ i - 1 \in 1..m /\ j - 1 \in 1..m
        BY <2>6, <2>9, <3>1, <3>3
      <4> QED
        BY <2>5, <2>6, <3>1, <3>3, <4>1
    <3> QED
      BY <3>2, <3>3
  <2> QED
    BY <2>8, <2>9
<1>3. Nat \subseteq S
  <2> HIDE DEF S
  <2> QED
    BY <1>1, <1>2, Induction
<1> QED
  BY <1>3

\* Heads of different keys.
Distinct(hs) == /\ Len(hs) \in Nat /\ DOMAIN hs = 1..Len(hs)
                /\ \A i \in DOMAIN hs : hs[i] \in HeadSet
                /\ \A i, j \in DOMAIN hs : hs[i].key = hs[j].key => i = j

\* They can be sorted.
LEMMA SortedIs ==
  ASSUME NEW hs, Distinct(hs), NEW s, s = Sorted(hs)
  PROVE  Ascending(s, hs)
<1>1. PICK n : n = Len(hs)
  OBVIOUS
<1>2. /\ n \in Nat /\ DOMAIN hs = 1..n /\ \A i \in 1..n : hs[i].key \in Nat
      /\ \A i, j \in 1..n : hs[i].key = hs[j].key => i = j
  BY <1>1, ListAssumption DEF Distinct, HeadSet
<1> DEFINE K == {hs[i].key : i \in 1..n}
           h == [i \in 1..n |-> hs[i].key]
<1>3. h \in Surjection(1..n, K)
  BY DEF Surjection
<1>4. h \in Injection(1..n, K)
  BY <1>2 DEF Injection, IsInjective
<1>5. IsFiniteSet(1..n) /\ Cardinality(1..n) = n
  BY <1>2, IntervalCard
<1>6. K \in SUBSET Nat
  BY <1>2
<1>7. IsFiniteSet(K) /\ Cardinality(K) = n
  <2> HIDE DEF K, h
  <2> QED
    BY <1>3, <1>4, <1>5, FS_Surjection
<1>8. PICK f \in [1..n -> K] : \A i, j \in 1..n : i < j => f[i] < f[j]
  <2> HIDE DEF K
  <2> QED
    BY <1>2, <1>6, <1>7, Enumerated
<1>9. \A i \in 1..n : \E j \in 1..n : hs[j].key = f[i]
  OBVIOUS
<1> DEFINE g == [i \in 1..n |-> hs[CHOOSE j \in 1..n : hs[j].key = f[i]]]
<1>10. \A i \in 1..n : g[i] \in Range(hs) /\ g[i].key = f[i]
  BY <1>2, <1>9 DEF Range
<1>11. g \in [1..n -> Range(hs)]
  BY <1>10
<1> HIDE DEF g
<1>12. \A i, j \in 1..n : i < j => g[i].key < g[j].key
  BY <1>8, <1>10
<1>13. s = CHOOSE t \in [1..Len(hs) -> Range(hs)] : \A i, j \in 1..Len(hs) : i < j => t[i].key < t[j].key
  BY DEF Sorted
<1> QED
  BY <1>1, <1>11, <1>12, <1>13 DEF Ascending

\* Sorted heads are all of them.
LEMMA SortedAll ==
  ASSUME NEW hs, Distinct(hs), NEW s, Ascending(s, hs)
  PROVE  \A i \in 1..Len(hs) : \E j \in 1..Len(hs) : s[j] = hs[i]
<1>1. PICK n, R : n = Len(hs) /\ R = Range(hs)
  OBVIOUS
<1>2. /\ n \in Nat /\ DOMAIN hs = 1..n /\ \A i \in 1..n : hs[i] \in R /\ hs[i].key \in Nat
      /\ \A x \in R : x.key \in Nat
      /\ \A i, j \in 1..n : hs[i].key = hs[j].key => i = j
  BY <1>1, ListAssumption DEF Distinct, HeadSet, Range
<1>3. s \in [1..n -> R] /\ \A i, j \in 1..n : i < j => s[i].key < s[j].key
  BY <1>1 DEF Ascending
<1>4. ASSUME NEW i \in 1..n, NEW j \in 1..n, s[i] = s[j] PROVE i = j
  <2>1. s[i].key \in Nat /\ s[j].key = s[i].key
    BY <1>2, <1>3, <1>4
  <2>2. ~(i < j) /\ ~(j < i)
    BY <1>3, <2>1
  <2> QED
    BY <2>2
<1>5. s \in Injection(1..n, R)
  BY <1>3, <1>4 DEF Injection, IsInjective
<1> DEFINE h == [i \in 1..n |-> hs[i]]
<1>6. h \in Surjection(1..n, R)
  BY <1>1, <1>2 DEF Surjection, Range
<1>7. h \in Injection(1..n, R)
  BY <1>2, <1>6 DEF Injection, Surjection, IsInjective
<1>8. IsFiniteSet(1..n) /\ Cardinality(1..n) = n
  BY <1>2, IntervalCard
<1>9. IsFiniteSet(R) /\ Cardinality(R) = n
  <2> HIDE DEF h
  <2> QED
    BY <1>6, <1>7, <1>8, FS_Surjection
<1>10. s \in Surjection(1..n, R)
  BY <1>5, <1>8, <1>9, FS_Injection
<1> QED
  BY <1>1, <1>2, <1>10 DEF Surjection

\* No two heads have one key.
LEMMA HeadsDistinct == Struct => Distinct(heads)
<1> SUFFICES ASSUME Struct PROVE Distinct(heads)
  OBVIOUS
<1>1. \A i, j \in DOMAIN heads : heads[i].key = heads[j].key => i = j
  BY DEF Struct, Table
<1> QED
  BY <1>1, HeadFacts DEF Distinct, Struct

\* The dump goes on as it was, unless there is none.
LEMMA DumpKept ==
  ASSUME Dumping, UNCHANGED <<sorted, dump>>,
         sorted # <<>> \/ dump # <<>> =>
           UNCHANGED <<heads, count>> /\ readonly' = TRUE /\ wpc' = "idle"
  PROVE  Dumping'
<1>1. CASE sorted # <<>> \/ dump # <<>>
  BY <1>1 DEF Dumping, Ascending, Delivered
<1>2. CASE sorted = <<>> /\ dump = <<>>
  <2>1. Len(dump') = 0
    BY <1>2
  <2> QED
    BY <1>2, <2>1 DEF Dumping
<1> QED
  BY <1>1, <1>2

\* begin sorts the heads.
LEMMA DumpBegin ==
  ASSUME Struct, Dumping, Begin
  PROVE  Dumping'
<1>1. /\ wpc = "idle" /\ dump = <<>> /\ heads # <<>> /\ readonly' = TRUE /\ sorted' = Sorted(heads)
      /\ UNCHANGED <<heads, wpc, count, dump>>
  BY DEF Begin
<1>2. PICK s, hs : s = Sorted(heads) /\ hs = heads
  OBVIOUS
<1>3. Distinct(hs) /\ Ascending(s, hs)
  BY <1>2, HeadsDistinct, SortedIs
<1>4. /\ Len(hs) \in Nat /\ hs \in Seq(HeadSet) /\ Range(hs) \subseteq HeadSet
  BY <1>2, <1>3 DEF Struct, Types, Distinct, Range
<1>5. s \in [1..Len(hs) -> HeadSet]
  BY <1>3, <1>4 DEF Ascending
<1>6. s \in Seq(HeadSet) /\ Len(s) = Len(hs)
  BY <1>4, <1>5
<1>7. Delivered(s, dump', sorted')
  <2>1. Len(dump') = 0 /\ Len(sorted') = Len(hs) /\ heads' = hs
    BY <1>1, <1>2, <1>6
  <2>2. \A i \in 1..Len(sorted') : sorted'[i] = s[i + 0]
    BY <1>1, <1>2
  <2> QED
    BY <1>2, <1>4, <2>1, <2>2 DEF Delivered
<1>8. Delivered(s, dump, sorted)'
  BY <1>1, <1>7 DEF Delivered
<1>9. Ascending(s, heads')
  BY <1>1, <1>2, <1>3
<1>10. Len(dump') = 0
  BY <1>1
<1> QED
  BY <1>1, <1>2, <1>6, <1>8, <1>9, <1>10 DEF Dumping

\* clear ends it.
LEMMA DumpClear ==
  ASSUME Struct, Dumping, Clear
  PROVE  Dumping'
<1>1. dump' = <<>> /\ sorted' = <<>>
  BY DEF Clear
<1>2. Len(dump') = 0
  BY <1>1
<1>3. sorted' \in Seq(HeadSet) /\ dump' \in Seq([key : Keys, list : Seq(Nat)])
  BY <1>1
<1> QED
  BY <1>1, <1>2, <1>3 DEF Dumping

\* next delivers one term with its list.
LEMMA DumpNext ==
  ASSUME Struct, Runs, Dumping, ItNext
  PROVE  Dumping'
<1>1. /\ sorted # <<>> /\ sorted' = Tail(sorted)
      /\ dump' = Append(dump, [key |-> Head(sorted).key, list |-> Contents(First(Head(sorted).key))])
      /\ UNCHANGED <<heads, link, wpc, readonly, count>>
  BY DEF ItNext, wVars
<1>2. /\ sorted \in Seq(HeadSet) /\ dump \in Seq([key : Keys, list : Seq(Nat)])
      /\ readonly = TRUE /\ wpc = "idle"
      /\ \A i \in 1..Len(dump) : Len(dump[i].list) = count[dump[i].key]
  BY <1>1 DEF Dumping
<1>3. PICK s : Ascending(s, heads) /\ Delivered(s, dump, sorted)
  BY <1>1 DEF Dumping
<1>4. PICK p, q, n : p = Len(dump) /\ q = Len(sorted) /\ n = Len(heads)
  OBVIOUS
<1>5. p \in Nat /\ q \in Nat /\ q >= 1 /\ n = p + q
  BY <1>1, <1>2, <1>3, <1>4 DEF Delivered
<1>6. PICK x : x = Head(sorted)
  OBVIOUS
<1>7. x = sorted[1] /\ x \in HeadSet /\ x = s[p + 1]
  <2>1. x = sorted[1] /\ 1 \in 1..Len(sorted) /\ x \in HeadSet
    BY <1>1, <1>2, <1>4, <1>5, <1>6
  <2>2. sorted[1] = s[1 + p]
    BY <1>3, <1>4, <2>1 DEF Delivered
  <2> QED
    BY <1>5, <2>1, <2>2
<1>8. x \in Range(heads)
  BY <1>3, <1>4, <1>5, <1>7 DEF Ascending
<1>9. PICK i \in DOMAIN heads : x = heads[i]
  BY <1>8 DEF Range
<1>10. PICK b, top : b = heads[i].link /\ top = link[b].cells[1]
  OBVIOUS
<1>11. First(x.key) = b
  BY <1>9, <1>10, FirstIs DEF Struct, Table
<1>12. b \in DOMAIN link
  BY <1>10 DEF Struct, Chains
<1>13. top \in Nat /\ Len(Contents(b)) = top /\ Contents(b) = [j \in 1..top |-> top + 1 - j]
  BY <1>10, <1>12, ContentsRun
<1>14. x.key \in Keys /\ top = count[x.key] /\ count[x.key] \in Nat
  <2>1. x.key \in Keys /\ count[x.key] \in Nat
    BY <1>7 DEF HeadSet, Struct, Types
  <2>2. top = count[x.key] + 0
    BY <1>2, <1>9, <1>10 DEF Runs, Pending
  <2> QED
    BY <2>1, <2>2
<1>15. Contents(b) \in Seq(Nat)
  <2>1. \A j \in 1..top : top + 1 - j \in Nat
    BY <1>13
  <2>2. Contents(b) \in [1..top -> Nat]
    BY <1>13, <2>1
  <2> QED
    BY <1>13, <2>2
<1>16. PICK e : e = [key |-> x.key, list |-> Contents(b)]
  OBVIOUS
<1>17. e \in [key : Keys, list : Seq(Nat)] /\ e.key = x.key /\ Len(e.list) = count[x.key]
  BY <1>13, <1>14, <1>15, <1>16
<1>18. dump' = Append(dump, e)
  BY <1>1, <1>6, <1>11, <1>16
<1>19. /\ dump' \in Seq([key : Keys, list : Seq(Nat)]) /\ Len(dump') = p + 1
       /\ dump'[p + 1] = e /\ \A j \in 1..p : dump'[j] = dump[j]
  BY <1>2, <1>4, <1>17, <1>18
<1>20. /\ sorted' \in Seq(HeadSet) /\ Len(sorted') = q - 1 /\ \A j \in 1..q - 1 : sorted'[j] = sorted[j + 1]
  BY <1>1, <1>2, <1>4
<1>21. \A j \in 1..p + 1 : dump'[j].key = s[j].key
  <2>1. \A j \in 1..p : dump[j].key = s[j].key
    BY <1>3, <1>4 DEF Delivered
  <2>2. ASSUME NEW j \in 1..p + 1 PROVE dump'[j].key = s[j].key
    <3>1. CASE j = p + 1
      BY <1>7, <1>17, <1>19, <3>1
    <3>2. CASE j # p + 1
      <4>1. j \in 1..p
        BY <1>5, <3>2
      <4> QED
        BY <1>19, <2>1, <4>1
    <3> QED
      BY <3>1, <3>2
  <2> QED
    BY <2>2
<1>22. \A j \in 1..q - 1 : sorted'[j] = s[j + (p + 1)]
  <2> TAKE j \in 1..q - 1
  <2>1. j + 1 \in 1..q
    BY <1>5
  <2>2. sorted[j + 1] = s[(j + 1) + p]
    BY <1>3, <1>4, <2>1 DEF Delivered
  <2>3. (j + 1) + p = j + (p + 1)
    BY <1>5
  <2> QED
    BY <1>20, <2>2, <2>3
<1>23. (p + 1) + (q - 1) = n
  BY <1>5
<1>24. Delivered(s, dump, sorted)'
  <2>1. Len(heads') = n
    BY <1>1, <1>4
  <2> QED
    BY <1>19, <1>20, <1>21, <1>22, <1>23, <2>1 DEF Delivered
<1>25. Ascending(s, heads')
  BY <1>1, <1>3
<1>26. ASSUME NEW j \in 1..p + 1 PROVE Len(dump'[j].list) = count[dump'[j].key]
  <2>1. CASE j = p + 1
    BY <1>17, <1>19, <2>1
  <2>2. CASE j # p + 1
    <3>1. j \in 1..p
      BY <1>5, <2>2
    <3> QED
      BY <1>2, <1>4, <1>19, <3>1
  <2> QED
    BY <2>1, <2>2
<1> QED
  BY <1>1, <1>2, <1>19, <1>20, <1>24, <1>25, <1>26 DEF Dumping

\* Every step keeps the dump in order.
LEMMA DumpStep == ListInv /\ Dumping /\ [Next]_vars => Dumping'
<1> SUFFICES ASSUME ListInv, Dumping, [Next]_vars PROVE Dumping'
  OBVIOUS
<1>1. Struct /\ Runs
  BY DEF ListInv
<1>2. CASE Begin
  BY <1>1, <1>2, DumpBegin
<1>3. CASE ItNext
  BY <1>1, <1>3, DumpNext
<1>4. CASE Clear
  BY <1>1, <1>4, DumpClear
<1>5. CASE Get \/ UNCHANGED vars
  <2>1. UNCHANGED <<sorted, dump>> /\ UNCHANGED wVars
    BY <1>5 DEF Get, GetCall, GetLock, GetOffset, GetCompare, GetCopy, GetEnds, GetReturned, vars, iVars
  <2> QED
    BY <2>1, DumpKept DEF wVars, Dumping
<1>6. ASSUME NEW k \in Keys, SetCall(k) PROVE Dumping'
  <2>1. UNCHANGED <<sorted, dump, heads, count>>
    BY <1>6 DEF SetCall, iVars
  <2>2. readonly = TRUE => readonly' = TRUE /\ wpc' = wpc
    BY <1>6 DEF SetCall
  <2> QED
    BY <2>1, <2>2, DumpKept DEF Dumping
<1>7. CASE CopyData \/ CopyUsed \/ WriteLock \/ Merge \/ MergeEnds \/ AddLink \/ AddHead
  <2>1. UNCHANGED <<sorted, dump>> /\ wpc # "idle"
    BY <1>7 DEF CopyData, CopyUsed, WriteLock, Merge, MergeEnds, AddLink, AddHead, iVars
  <2>2. sorted = <<>> /\ dump = <<>>
    BY <2>1 DEF Dumping
  <2> QED
    BY <2>1, <2>2, DumpKept
<1> QED
  BY <1>2, <1>3, <1>4, <1>5, <1>6, <1>7 DEF Next, Set, Dump

\* The dump hands every term to the disk index, ascending, with all its postings.
THEOREM DumpCompleteHolds == Spec => []DumpComplete
<1>1. Init => ListInv /\ Dumping
  <2>1. Init => ListInv
    BY StructInit, LockInit, RunsInit DEF ListInv
  <2>2. ASSUME Init PROVE Dumping
    <3>1. sorted = <<>> /\ dump = <<>>
      BY <2>2 DEF Init
    <3>2. Len(dump) = 0 /\ sorted \in Seq(HeadSet) /\ dump \in Seq([key : Keys, list : Seq(Nat)])
      BY <3>1
    <3> QED
      BY <3>1, <3>2 DEF Dumping
  <2> QED
    BY <2>1, <2>2
<1>2. (ListInv /\ Dumping) /\ [Next]_vars => (ListInv /\ Dumping)'
  BY StructStep, LockStep, RunsStep, SizesStep, DumpStep DEF ListInv
<1>3. ListInv /\ Dumping => DumpComplete
  <2> SUFFICES ASSUME ListInv, Dumping, dump # <<>>, sorted = <<>> PROVE DumpComplete
    BY DEF DumpComplete
  <2>1. Struct /\ Distinct(heads)
    BY HeadsDistinct DEF ListInv
  <2>2. PICK n : n = Len(heads)
    OBVIOUS
  <2>3. n \in Nat /\ DOMAIN heads = 1..n
    BY <2>1, <2>2 DEF Distinct
  <2>4. PICK s : Ascending(s, heads) /\ Delivered(s, dump, sorted)
    BY DEF Dumping
  <2>5. /\ dump \in Seq([key : Keys, list : Seq(Nat)])
        /\ \A i \in 1..Len(dump) : Len(dump[i].list) = count[dump[i].key]
    BY DEF Dumping
  <2>6. Len(dump) = n /\ DOMAIN dump = 1..n /\ \A i \in 1..n : dump[i].key = s[i].key
    <3>1. Len(sorted) = 0 /\ Len(dump) \in Nat /\ DOMAIN dump = 1..Len(dump)
      BY <2>5
    <3>2. Len(dump) + 0 = n /\ \A i \in 1..Len(dump) : dump[i].key = s[i].key
      BY <2>2, <2>4, <3>1 DEF Delivered
    <3> QED
      BY <3>1, <3>2
  <2>7. \A i \in 1..n : s[i] \in Range(heads)
    BY <2>2, <2>4 DEF Ascending
  <2>8. \A i \in 1..n : \E j \in 1..n : s[i] = heads[j]
    BY <2>3, <2>7 DEF Range
  <2>9. \A i \in 1..n : \E j \in 1..n : s[j] = heads[i]
    <3>1. PICK hs : hs = heads
      OBVIOUS
    <3> QED
      BY <2>1, <2>2, <2>4, <3>1, SortedAll
  <2>10. {dump[i].key : i \in DOMAIN dump} = {heads[i].key : i \in DOMAIN heads}
    <3>1. \A i \in DOMAIN dump : \E j \in DOMAIN heads : dump[i].key = heads[j].key
      <4> TAKE i \in DOMAIN dump
      <4>1. i \in 1..n
        BY <2>6
      <4>2. PICK j \in 1..n : s[i] = heads[j]
        BY <2>8, <4>1
      <4>3. dump[i].key = heads[j].key /\ j \in DOMAIN heads
        BY <2>3, <2>6, <4>1, <4>2
      <4> QED
        BY <4>3
    <3>2. \A j \in DOMAIN heads : \E i \in DOMAIN dump : dump[i].key = heads[j].key
      <4> TAKE j \in DOMAIN heads
      <4>1. j \in 1..n
        BY <2>3
      <4>2. PICK i \in 1..n : s[i] = heads[j]
        BY <2>9, <4>1
      <4>3. dump[i].key = heads[j].key /\ i \in DOMAIN dump
        BY <2>6, <4>2
      <4> QED
        BY <4>3
    <3> QED
      BY <3>1, <3>2
  <2>11. ASSUME NEW i \in DOMAIN dump PROVE i > 1 => dump[i - 1].key < dump[i].key
    <3> HAVE i > 1
    <3>1. i - 1 \in 1..n /\ i \in 1..n /\ i - 1 < i
      BY <2>3, <2>6
    <3> QED
      BY <2>2, <2>4, <2>6, <3>1 DEF Ascending
  <2>12. \A i \in DOMAIN dump : Len(dump[i].list) = count[dump[i].key]
    BY <2>5, <2>6
  <2> QED
    BY <2>10, <2>11, <2>12 DEF DumpComplete
<1> QED
  BY <1>1, <1>2, <1>3, PTL DEF Spec

\* The length of a concatenation.
LEMMA JoinedLen == \A r, d \in Seq(Nat) : Len(r \o d) = Len(r) + Len(d) /\ r \o d \in Seq(Nat)
  OBVIOUS

\* The n postings d, of which the first is t, go on where the answer r ends.
GoesOn(r, d, n, t) ==
  /\ Down(r) /\ n \in Nat /\ n >= 1 /\ t \in Nat /\ n <= t
  /\ d \in Seq(Nat) /\ Len(d) = n /\ \A k \in 1..n : d[k] = t + 1 - k
  /\ r = <<>> \/ r[Len(r)] = t + 1

\* The answer e is the run r continued down to the posting z: it starts where r does, and at t when
\* r is empty.
RunsTo(r, t, e, z) ==
  /\ Down(e) /\ e # <<>> /\ e[1] = IF r = <<>> THEN t ELSE r[1]
  /\ e[Len(e)] = z

\* What a get appends to its answer leaves it in one run.
LEMMA DownOn ==
  ASSUME NEW r, NEW d, NEW n, NEW t, GoesOn(r, d, n, t), NEW e, e = r \o d
  PROVE  RunsTo(r, t, e, d[n])
<1>0. /\ Down(r) /\ n \in Nat /\ n >= 1 /\ t \in Nat /\ n <= t
      /\ d \in Seq(Nat) /\ Len(d) = n /\ \A k \in 1..n : d[k] = t + 1 - k
      /\ r = <<>> \/ r[Len(r)] = t + 1
  BY DEF GoesOn
<1> USE <1>0
<1>1. PICK p : p = Len(r)
  OBVIOUS
<1>2. /\ r \in Seq(Nat) /\ p \in Nat /\ e \in Seq(Nat) /\ Len(e) = p + n
      /\ \A i \in 1..p + n : e[i] = IF i <= p THEN r[i] ELSE d[i - p]
      /\ \A i \in 1..p - 1 : r[i + 1] = r[i] - 1
      /\ \A i \in 1..p : r[i] \in Nat
  <2>1. r \in Seq(Nat) /\ p \in Nat /\ \A i \in 1..p - 1 : r[i + 1] = r[i] - 1
    BY <1>1 DEF Down
  <2>2. e \in Seq(Nat) /\ Len(e) = p + n /\ \A i \in 1..p : r[i] \in Nat
    <3>1. \A i \in 1..p : r[i] \in Nat
      BY <1>1, <2>1
    <3>2. e \in Seq(Nat)
      BY <2>1
    <3>3. Len(e) = p + n
      <4>1. Len(e) = Len(r) + Len(d)
        BY <2>1, JoinedLen
      <4> QED
        BY <1>1, <4>1
    <3> QED
      BY <3>1, <3>2, <3>3
  <2>3. \A i \in 1..p + n : e[i] = IF i <= p THEN r[i] ELSE d[i - p]
    BY <1>1, <2>1
  <2> QED
    BY <2>1, <2>2, <2>3
<1>3. p = 0 <=> r = <<>>
  BY <1>1, <1>2
<1>4. p # 0 => r[p] = t + 1
  BY <1>1, <1>3
<1>5. ASSUME NEW i \in 1..(p + n) - 1 PROVE e[i + 1] = e[i] - 1
  <2>1. i \in 1..p + n /\ i + 1 \in 1..p + n
    BY <1>2
  <2>2. CASE i < p
    <3>1. e[i] = r[i] /\ e[i + 1] = r[i + 1] /\ i \in 1..p - 1
      BY <1>2, <2>1, <2>2
    <3> QED
      BY <1>2, <3>1
  <2>3. CASE i = p
    <3>1. e[i] = r[p] /\ e[i + 1] = d[1] /\ (i + 1) - p = 1
      BY <1>2, <2>1, <2>3
    <3>2. d[1] = t + 1 - 1 /\ r[p] = t + 1
      BY <1>4, <2>3
    <3> QED
      BY <3>1, <3>2
  <2>4. CASE i > p
    <3>0. p \in Nat /\ i \in Nat /\ ~(i <= p) /\ ~(i + 1 <= p) /\ i <= (p + n) - 1
      BY <1>2, <2>4
    <3>1. /\ e[i] = d[i - p] /\ e[i + 1] = d[(i + 1) - p] /\ i - p \in 1..n /\ (i + 1) - p \in 1..n
      <4>1. i - p \in 1..n /\ (i + 1) - p \in 1..n
        BY <3>0
      <4>2. e[i] = d[i - p] /\ e[i + 1] = d[(i + 1) - p]
        BY <1>2, <2>1, <3>0
      <4> QED
        BY <4>1, <4>2
    <3>2. d[i - p] = t + 1 - (i - p) /\ d[(i + 1) - p] = t + 1 - ((i + 1) - p)
      BY <3>1
    <3> QED
      BY <1>2, <3>1, <3>2
  <2>5. i < p \/ i = p \/ i > p
    <3>1. p \in Nat /\ i \in Int
      BY <1>2
    <3> QED
      BY <3>1
  <2> QED
    BY <2>2, <2>3, <2>4, <2>5
<1>6. Down(e)
  BY <1>2, <1>5 DEF Down
<1>7. e # <<>>
  <2>1. Len(e) # 0
    BY <1>2
  <2> QED
    BY <2>1
<1>8. e[1] = IF r = <<>> THEN t ELSE r[1]
  <2>1. CASE p = 0
    <3>1. e[1] = d[1] /\ d[1] = t + 1 - 1
      BY <1>2, <2>1
    <3> QED
      BY <1>3, <2>1, <3>1
  <2>2. CASE p # 0
    BY <1>2, <1>3, <2>2
  <2> QED
    BY <2>1, <2>2
<1>9. e[p + n] = d[n]
  <2>1. p + n \in 1..p + n /\ ~(p + n <= p) /\ (p + n) - p = n /\ n \in 1..n
    BY <1>2
  <2> QED
    BY <1>2, <2>1
<1>10. e[Len(e)] = d[n]
  BY <1>2, <1>9
<1> QED
  BY <1>6, <1>7, <1>8, <1>10 DEF RunsTo

\* The newest posting a get sees in a term's first link is the last one that was set; from a
\* link on, the next one goes on where it ends.
LEMMA NewestIs ==
  ASSUME Struct, Runs
  PROVE  /\ \A b \in DOMAIN link : Newest(b) \in Nat /\ Newest(b) = Below(link, b) + link[b].used
         /\ \A i \in DOMAIN heads : Newest(heads[i].link) = count[heads[i].key]
         /\ \A b \in DOMAIN link : link[b].next # Null => Newest(link[b].next) = Below(link, b)
<1>1. Types /\ Table /\ Chains
  BY DEF Struct
<1>2. \A b \in DOMAIN link : /\ link[b].cells \in Seq(Nat) /\ link[b].used \in Nat /\ Below(link, b) \in Nat
                             /\ link[b].next \in DOMAIN link \cup {Null}
                             /\ RunOf(link[b].cells, Below(link, b) + 1) /\ link[b].cells[1] \in Nat
  BY LinkFacts
<1>3. ASSUME NEW b \in DOMAIN link
      PROVE  link[b].cells[1] = Below(link, b) + link[b].used + Hidden(b) /\ Hidden(b) \in {0, 1}
  <2>1. PICK c, f : c = link[b].cells /\ f = Below(link, b) + 1
    OBVIOUS
  <2>2. c \in Seq(Nat) /\ f \in Nat /\ RunOf(c, f)
    BY <1>2, <2>1
  <2>3. c[1] = f + Len(c) - 1
    BY <2>2, RunFacts
  <2>4. Len(c) = link[b].used + Hidden(b) /\ Hidden(b) \in {0, 1}
    BY <2>1 DEF Runs, Hidden
  <2>5. PICK z, u, h : z = Below(link, b) /\ u = link[b].used /\ h = Hidden(b)
    OBVIOUS
  <2>6. z \in Nat /\ u \in Nat /\ h \in {0, 1} /\ c[1] = (z + 1) + (u + h) - 1
    BY <1>2, <2>1, <2>3, <2>4, <2>5
  <2>7. c[1] = z + u + h
    BY <2>6
  <2> QED
    BY <2>1, <2>4, <2>5, <2>7
<1>4. \A b \in DOMAIN link : Newest(b) \in Nat /\ Newest(b) = Below(link, b) + link[b].used
  BY <1>2 DEF Newest
<1>5. ASSUME NEW i \in DOMAIN heads PROVE Newest(heads[i].link) = count[heads[i].key]
  <2>1. PICK b, k : b = heads[i].link /\ k = heads[i].key
    OBVIOUS
  <2>2. b \in DOMAIN link /\ k \in Keys /\ count[k] \in Nat
    BY <1>1, <2>1, HeadFacts DEF Chains, HeadSet, Types
  <2>3. link[b].cells[1] = count[k] + Pending(k)
    BY <2>1 DEF Runs
  <2>4. Hidden(b) = Pending(k)
    <3>1. CASE wpc = "used"
      <4>1. Busy
        BY <3>1 DEF Busy
      <4>2. /\ MyHead \in DOMAIN heads /\ heads[MyHead].key = wkey /\ MyLink = heads[MyHead].link
        BY <1>1, <4>1, MyFacts
      <4>3. MyLink = b <=> wkey = k
        BY <1>1, <2>1, <4>2, <4>1, MyRun
      <4> QED
        BY <3>1, <4>3 DEF Hidden, Pending
    <3>2. CASE wpc # "used"
      BY <3>2 DEF Hidden, Pending
    <3> QED
      BY <3>1, <3>2
  <2>5. link[b].cells[1] = Below(link, b) + link[b].used + Hidden(b) /\ Hidden(b) \in {0, 1}
    BY <1>3, <2>2
  <2>6. Newest(b) = count[k]
    BY <1>2, <1>4, <2>2, <2>3, <2>4, <2>5
  <2> QED
    BY <2>1, <2>6
<1>6. ASSUME NEW b \in DOMAIN link, link[b].next # Null PROVE Newest(link[b].next) = Below(link, b)
  <2>1. PICK n : n = link[b].next
    OBVIOUS
  <2>2. n \in DOMAIN link /\ Below(link, b) = link[n].cells[1]
    BY <1>2, <1>6, <2>1 DEF Below
  <2>3. Hidden(n) = 0
    <3>1. CASE wpc = "used"
      <4>1. \A a \in DOMAIN link : link[a].next # MyLink
        BY <3>1, MyRun DEF Busy
      <4> QED
        BY <2>1, <4>1 DEF Hidden
    <3>2. CASE wpc # "used"
      BY <3>2 DEF Hidden
    <3> QED
      BY <3>1, <3>2
  <2>4. link[n].cells[1] = Below(link, n) + link[n].used + Hidden(n)
    BY <1>3, <2>2
  <2>5. Newest(n) = Below(link, n) + link[n].used /\ Newest(n) \in Nat
    BY <1>4, <2>2
  <2> QED
    BY <2>1, <2>2, <2>3, <2>4, <2>5
<1> QED
  BY <1>4, <1>5, <1>6

\* Where a get is meets no other link than before.
LEMMA MeetsKept ==
  ASSUME NEW b, Meets(b), UNCHANGED <<rkey, rleft, res, rfrom>>, rfrom \in Nat,
         count[rkey] \in Nat, count'[rkey] \in Nat, count[rkey] <= count'[rkey],
         Newest(b) \in Nat, Newest(b)' = Newest(b),
         \A i \in DOMAIN heads' : heads'[i].link = b => i \in DOMAIN heads /\ heads[i].link = b /\ heads'[i].key = heads[i].key
  PROVE  Meets(b)'
  BY DEF Meets

\* What set and clear do leaves the get what it has.
LEMMA ReadKept ==
  ASSUME Struct, Lock, Reading, UNCHANGED <<rpc, rkey, rhead, rlink, roff, rbig, rleft, res, rfrom>>,
         rgrew => rgrew', rpc \in {"idle", "lock"} => rgrew' = FALSE,
         \A k \in Keys : count'[k] \in Nat,
         rpc # "idle" => \A k \in Keys : count[k] <= count'[k],
         rpc = "lock" => (FindIn(heads, rkey, rhead) # 0 => FindIn(heads', rkey, rhead) # 0),
         rpc \in {"link", "cond", "take"} /\ ~rgrew' /\ rlink # Null => Meets(rlink)',
         rpc \in {"cond", "take"} /\ ~rgrew' => link'[rlink].used = link[rlink].used
  PROVE  Reading'
<1>1. /\ rpc # "idle" => rkey \in Keys /\ count[rkey] \in Nat
      /\ rfrom \in Nat /\ rgrew \in BOOLEAN
      /\ rpc \in {"idle", "lock", "link", "cond", "take", "done"}
  BY DEF Lock, Struct, Types
<1>2. rpc' \in {"idle", "lock"} => res' = <<>> /\ rgrew' = FALSE
  BY DEF Reading
<1>3. rpc' = "lock" => rfrom' <= count'[rkey'] /\ (rfrom' > 0 => FindIn(heads', rkey', rhead') # 0)
  BY <1>1 DEF Reading
<1>4. rpc' \in {"link", "cond", "take"} /\ ~rgrew' =>
        IF rlink' # Null THEN Meets(rlink)' ELSE rleft' # 0 => res' # <<>> /\ res'[Len(res')] = 1
  BY DEF Reading
<1>5. /\ rpc' \in {"cond", "take"} /\ ~rgrew' => roff' = link'[rlink'].used
      /\ rpc' = "take" /\ ~rgrew' => rbig' = (rleft' > link'[rlink'].used)
  BY DEF Reading
<1>6. ASSUME ~rgrew'
      PROVE  /\ rleft' # -1 /\ Down(res') /\ (res' # <<>> => res'[1] \in rfrom'..count'[rkey'])
             /\ rpc' = "done" /\ rleft' # 0 => IF res' = <<>> THEN rfrom' = 0 ELSE res'[Len(res')] = 1
  <2>1. ~rgrew
    BY <1>6
  <2>2. /\ rleft # -1 /\ Down(res) /\ (res # <<>> => res[1] \in rfrom..count[rkey])
        /\ rpc = "done" /\ rleft # 0 => IF res = <<>> THEN rfrom = 0 ELSE res[Len(res)] = 1
    BY <2>1 DEF Reading
  <2>3. res # <<>> => res[1] \in rfrom..count'[rkey]
    <3> SUFFICES ASSUME res # <<>> PROVE res[1] \in rfrom..count'[rkey]
      OBVIOUS
    <3>1. rpc # "idle"
      BY DEF Reading
    <3> QED
      BY <1>1, <2>2, <3>1
  <2> QED
    BY <2>2, <2>3
<1> QED
  BY <1>2, <1>3, <1>4, <1>5, <1>6 DEF Reading

\* Steps that change no head, link or count.
LEMMA ReadUnchanged ==
  ASSUME Reading, UNCHANGED <<heads, link, count, rVars>>
  PROVE  Reading'
  BY DEF Reading, Meets, Newest, Below, rVars

\* The counts only grow, but for clear.
LEMMA CountsGrow ==
  ASSUME Struct, CopyUsed \/ Merge \/ AddLink \/ AddHead \/ CopyData
  PROVE  \A k \in Keys : count[k] \in Nat /\ count'[k] \in Nat /\ count[k] <= count'[k]
<1>1. \A k \in Keys : count[k] \in Nat
  BY DEF Struct, Types
<1>2. CASE CopyUsed \/ AddLink \/ AddHead
  <2>1. \A k \in Keys : count'[k] = IF k = wkey THEN count[k] + 1 ELSE count[k]
    BY <1>2, CopyUsedFacts, AddLinkFacts, AddHeadFacts
  <2> QED
    BY <1>1, <2>1
<1>3. CASE CopyData
  BY <1>1, <1>3, CopyDataFacts
<1>4. CASE Merge
  <2>1. count' = count \/ \A k \in Keys : count'[k] = IF k = wkey THEN count[k] + 1 ELSE count[k]
    BY <1>4, MergeFacts DEF Fitted, Unfitted
  <2> QED
    BY <1>1, <2>1
<1> QED
  BY <1>2, <1>3, <1>4

\* A merge, while no get is inside.
LEMMA ReadMerge ==
  ASSUME Struct, Lock, Runs, Reading, Merge
  PROVE  Reading'
<1>1. PICK b, n, m, l : Replaced(b, n, m, l)
  BY MergeFacts
<1>2. wpc = "merge" /\ UNCHANGED rVars
  BY DEF Merge
<1>3. rpc \in {"idle", "lock", "done"}
  BY <1>2 DEF Lock, NoReaders
<1>4. PICK o : o = MyHead
  OBVIOUS
<1>5. o \in DOMAIN heads /\ m \in Blk /\ heads' = [heads EXCEPT ![o].link = m]
  BY <1>1, <1>2, <1>4, MyFacts DEF Replaced, Struct, Busy
<1>6. \A k : \A i \in 0..Len(heads) : FindIn(heads', k, i) = FindIn(heads, k, i)
  BY <1>5, Relinked DEF Struct
<1>7. FindIn(heads', rkey, rhead) = FindIn(heads, rkey, rhead)
  BY <1>6 DEF Lock
<1>8. \A k \in Keys : count[k] \in Nat /\ count'[k] \in Nat /\ count[k] <= count'[k]
  BY CountsGrow
<1>9. /\ UNCHANGED <<rpc, rkey, rhead, rlink, roff, rbig, rleft, res, rfrom>> /\ rgrew' = rgrew
      /\ rpc \in {"idle", "lock"} => rgrew' = FALSE
  BY <1>2 DEF rVars, Reading
<1> QED
  BY <1>3, <1>7, <1>8, <1>9, ReadKept

\* A get that is inside: what it needs of its link.
LEMMA InsideFacts ==
  ASSUME Struct, Lock, Runs, Reading, rpc \in {"link", "cond", "take"}, rlink # Null, ~rgrew
  PROVE  /\ rlink \in DOMAIN link /\ Meets(rlink) /\ Newest(rlink) \in Nat
         /\ rkey \in Keys /\ rfrom \in Nat
  BY NewestIs DEF Lock, Reading

\* A new link is hung.
LEMMA ReadAdd ==
  ASSUME Struct, Lock, Runs, Reading, AddLink \/ AddHead
  PROVE  Reading'
<1>1. Types /\ Chains
  BY DEF Struct
<1>2. UNCHANGED rVars
  BY DEF AddLink, AddHead
<1>3. /\ UNCHANGED <<rpc, rkey, rhead, rlink, roff, rbig, rleft, res, rfrom>> /\ rgrew' = rgrew
      /\ rpc \in {"idle", "lock"} => rgrew' = FALSE
  BY <1>2 DEF rVars, Reading
<1>4. \A k \in Keys : count[k] \in Nat /\ count'[k] \in Nat /\ count[k] <= count'[k]
  BY CountsGrow
<1>5. /\ FindIn(heads', rkey, rhead) = FindIn(heads, rkey, rhead)
      /\ \E m : /\ m \notin DOMAIN link /\ \A b \in DOMAIN link : link'[b] = link[b]
                /\ \A i \in DOMAIN heads' : heads'[i].link = m \/ (i \in DOMAIN heads /\ heads'[i].link = heads[i].link)
                /\ \A i \in DOMAIN heads : i \in DOMAIN heads' /\ heads'[i].key = heads[i].key
  <2>1. CASE AddLink
    <3>1. PICK m : Hung(m, MyLink, wkey) /\ heads' = [heads EXCEPT ![MyHead].link = m]
      BY <2>1, AddLinkFacts
    <3>2. PICK o : o = MyHead
      OBVIOUS
    <3>3. o \in DOMAIN heads /\ m \in Blk /\ heads' = [heads EXCEPT ![o].link = m]
      BY <2>1, <3>1, <3>2, AddLinkFacts, MyFacts DEF Hung, Struct
    <3>4. /\ DOMAIN heads' = DOMAIN heads
          /\ \A i \in DOMAIN heads : heads'[i].key = heads[i].key /\ heads'[i].link = IF i = o THEN m ELSE heads[i].link
          /\ \A k : \A i \in 0..Len(heads) : FindIn(heads', k, i) = FindIn(heads, k, i)
      BY <1>1, <3>3, Relinked
    <3>5. FindIn(heads', rkey, rhead) = FindIn(heads, rkey, rhead)
      BY <3>4 DEF Lock
    <3> QED
      BY <3>1, <3>4, <3>5 DEF Hung
  <2>2. CASE AddHead
    <3>1. PICK m : Hung(m, Null, wkey) /\ heads' = Append(heads, [key |-> wkey, next |-> bucket[Bucket(wkey)], link |-> m])
      BY <2>2, AddHeadFacts
    <3>2. Len(heads) \in Nat /\ DOMAIN heads = 1..Len(heads) /\ Backward(heads) /\ heads \in Seq(HeadSet)
      BY <1>1, HeadFacts DEF Types
    <3>3. /\ Len(heads') = Len(heads) + 1 /\ DOMAIN heads' = 1..Len(heads) + 1
          /\ \A i \in DOMAIN heads : heads'[i] = heads[i]
          /\ heads'[Len(heads) + 1].next = bucket[Bucket(wkey)] /\ heads'[Len(heads) + 1].link = m
      BY <3>1, <3>2
    <3>4. bucket[Bucket(wkey)] \in 0..Len(heads)
      BY <1>1, <2>2, AddHeadFacts, HeadFacts
    <3>5. PICK gs, hs : gs = heads' /\ hs = heads
      OBVIOUS
    <3>6. Backward(hs) /\ Backward(gs) /\ Len(hs) <= Len(gs) /\ rhead \in 0..Len(hs)
      <4>1. Backward(hs) /\ Len(hs) \in Nat /\ Len(gs) = Len(hs) + 1 /\ rhead \in 0..Len(hs)
        BY <3>2, <3>3, <3>5 DEF Lock
      <4>2. ASSUME NEW i \in 1..Len(gs) PROVE gs[i].next \in 0..i - 1
        <5>1. CASE i \in 1..Len(hs)
          <6>1. i \in DOMAIN heads /\ gs[i] = hs[i]
            BY <3>2, <3>3, <3>5, <5>1
          <6>2. hs[i].next \in 0..i - 1
            BY <4>1, <5>1 DEF Backward
          <6> QED
            BY <6>1, <6>2
        <5>2. CASE i = Len(hs) + 1
          <6>1. gs[i].next = bucket[Bucket(wkey)]
            BY <3>3, <3>5, <5>2
          <6>2. i - 1 = Len(hs) /\ bucket[Bucket(wkey)] \in 0..Len(hs)
            BY <3>4, <3>5, <4>1, <5>2
          <6> QED
            BY <6>1, <6>2
        <5> QED
          BY <4>1, <5>1, <5>2
      <4>3. Backward(gs)
        BY <4>1, <4>2 DEF Backward
      <4> QED
        BY <4>1, <4>3
    <3>7. \A i \in 1..Len(hs) : gs[i].key = hs[i].key /\ gs[i].next = hs[i].next
      BY <3>2, <3>3, <3>5
    <3>8. FindIn(gs, rkey, rhead) = FindIn(hs, rkey, rhead)
      BY <3>6, <3>7, FindInSame
    <3>9. \A i \in DOMAIN heads' : heads'[i].link = m \/ (i \in DOMAIN heads /\ heads'[i].link = heads[i].link)
      BY <3>2, <3>3
    <3>10. \A i \in DOMAIN heads : i \in DOMAIN heads' /\ heads'[i].key = heads[i].key
      BY <3>2, <3>3
    <3> QED
      BY <3>1, <3>5, <3>8, <3>9, <3>10 DEF Hung
  <2> QED
    BY <2>1, <2>2
<1>6. PICK m : /\ m \notin DOMAIN link /\ \A b \in DOMAIN link : link'[b] = link[b]
               /\ \A i \in DOMAIN heads' : heads'[i].link = m \/ (i \in DOMAIN heads /\ heads'[i].link = heads[i].link)
               /\ \A i \in DOMAIN heads : i \in DOMAIN heads' /\ heads'[i].key = heads[i].key
  BY <1>5
<1>7. ASSUME rpc \in {"link", "cond", "take"}, ~rgrew', rlink # Null PROVE Meets(rlink)'
  <2>1. PICK b : b = rlink
    OBVIOUS
  <2>2. b \in DOMAIN link /\ Meets(b) /\ Newest(b) \in Nat /\ rkey \in Keys /\ rfrom \in Nat
    BY <1>3, <1>7, <2>1, InsideFacts
  <2>3. Newest(b)' = Newest(b)
    <3>1. link[b].next \in DOMAIN link \cup {Null}
      BY <1>1, <2>2 DEF Chains
    <3> QED
      BY <1>6, <2>2, <3>1 DEF Newest, Below
  <2>4. Meets(b)'
    BY <1>3, <1>4, <1>6, <2>2, <2>3, MeetsKept
  <2> QED
    BY <1>3, <2>1, <2>4 DEF Meets, Newest, Below
<1>8. rpc \in {"cond", "take"} => link'[rlink].used = link[rlink].used
  BY <1>6 DEF Lock
<1> QED
  BY <1>3, <1>4, <1>5, <1>7, <1>8, ReadKept

\* The data of a posting is copied: its used_size does not show it yet.
LEMMA ReadCopyData ==
  ASSUME Struct, Lock, Runs, Reading, CopyData
  PROVE  Reading'
<1>1. Types /\ Chains
  BY DEF Struct
<1>2. /\ UNCHANGED <<rpc, rkey, rhead, rlink, roff, rbig, rleft, res, rfrom>> /\ rgrew' = rgrew
      /\ rpc \in {"idle", "lock"} => rgrew' = FALSE
  BY DEF CopyData, rVars, Reading
<1>3. \A k \in Keys : count[k] \in Nat /\ count'[k] \in Nat /\ count[k] <= count'[k]
  BY CountsGrow
<1>4. /\ Busy /\ heads' = heads
      /\ \A b \in DOMAIN link : /\ link'[b].used = link[b].used /\ link'[b].next = link[b].next
                                /\ b # MyLink => link'[b].cells = link[b].cells
  BY CopyDataFacts DEF SameShape
<1>5. \A b \in DOMAIN link : link[b].next # MyLink /\ link[b].next \in DOMAIN link \cup {Null}
  BY <1>1, <1>4, MyRun DEF Chains
<1>6. \A b \in DOMAIN link : Newest(b)' = Newest(b)
  BY <1>4, <1>5 DEF Newest, Below
<1>7. ASSUME rpc \in {"link", "cond", "take"}, ~rgrew', rlink # Null PROVE Meets(rlink)'
  <2>1. PICK b : b = rlink
    OBVIOUS
  <2>2. b \in DOMAIN link /\ Meets(b) /\ Newest(b) \in Nat /\ rkey \in Keys /\ rfrom \in Nat
    BY <1>2, <1>7, <2>1, InsideFacts
  <2>3. Meets(b)'
    BY <1>2, <1>3, <1>4, <1>6, <2>2, MeetsKept
  <2> QED
    BY <1>2, <2>1, <2>3 DEF Meets, Newest, Below
<1>8. rpc \in {"cond", "take"} => link'[rlink].used = link[rlink].used
  BY <1>4 DEF Lock
<1> QED
  BY <1>2, <1>3, <1>4, <1>7, <1>8, ReadKept

\* It shows: a get that is between its reads of that used_size is lost, one before them meets
\* the posting as the newest.
LEMMA ReadCopyUsed ==
  ASSUME Struct, Lock, Runs, Reading, CopyUsed
  PROVE  Reading'
<1>1. Types /\ Chains
  BY DEF Struct
<1>2. /\ UNCHANGED <<rpc, rkey, rhead, rlink, roff, rbig, rleft, res, rfrom>>
      /\ rgrew' = (rgrew \/ (rpc \in {"cond", "take"} /\ rlink = MyLink))
  BY FirstIs DEF CopyUsed
<1>3. \A k \in Keys : count[k] \in Nat /\ count'[k] \in Nat /\ count[k] <= count'[k]
  BY CountsGrow
<1>4. /\ Busy /\ heads' = heads /\ MyLink \in DOMAIN link
      /\ \A b \in DOMAIN link : /\ link'[b].used = IF b = MyLink THEN link[b].used + 1 ELSE link[b].used
                                /\ link'[b].next = link[b].next /\ link'[b].cells = link[b].cells
      /\ \A k \in Keys : count'[k] = IF k = wkey THEN count[k] + 1 ELSE count[k]
  BY CopyUsedFacts DEF SameShape
<1>5. /\ MyHead \in DOMAIN heads /\ heads[MyHead].key = wkey /\ heads[MyHead].link = MyLink
      /\ \A i \in DOMAIN heads : heads[i].link = MyLink => i = MyHead
  BY <1>1, <1>4, MyFacts, MyRun DEF Struct
<1>6. \A b \in DOMAIN link : /\ link[b].next \in DOMAIN link \cup {Null} /\ link[b].used \in Nat
                             /\ Below(link, b) \in Nat
  BY LinkFacts
<1>7. \A b \in DOMAIN link : Newest(b)' = IF b = MyLink THEN Newest(b) + 1 ELSE Newest(b)
  BY <1>4, <1>6 DEF Newest, Below
<1>8. ASSUME rpc \in {"link", "cond", "take"}, ~rgrew', rlink # Null PROVE Meets(rlink)'
  <2>1. PICK b : b = rlink
    OBVIOUS
  <2>2. b \in DOMAIN link /\ Meets(b) /\ Newest(b) \in Nat /\ rkey \in Keys /\ rfrom \in Nat
    BY <1>2, <1>8, <2>1, InsideFacts
  <2>3. CASE b # MyLink
    <3>1. Meets(b)'
      BY <1>2, <1>3, <1>4, <1>7, <2>2, <2>3, MeetsKept
    <3> QED
      BY <1>2, <2>1, <3>1 DEF Meets, Newest, Below
  <2>4. CASE b = MyLink
    <3>1. rkey = wkey /\ (rleft # 0 => res = <<>> /\ Newest(b) \in rfrom..count[rkey])
      BY <1>5, <2>2, <2>4 DEF Meets
    <3>2. \A i \in DOMAIN heads' : heads'[i].link = b => heads'[i].key = rkey' /\ (rleft' # 0 => res' = <<>>)
      BY <1>2, <1>4, <1>5, <2>4, <3>1
    <3>3. Newest(b)' = Newest(b) + 1 /\ count'[rkey'] = count[rkey] + 1
      BY <1>2, <1>4, <1>7, <2>2, <2>4, <3>1
    <3>4. count[rkey] \in Nat
      BY <1>3, <2>2
    <3>5. rleft' # 0 => Newest(b)' \in rfrom'..count'[rkey']
      BY <1>2, <2>2, <3>1, <3>3, <3>4
    <3>6. rleft' # 0 => res' = <<>>
      BY <1>2, <3>1
    <3>7. Meets(b)'
      BY <3>2, <3>5, <3>6 DEF Meets
    <3> QED
      BY <1>2, <2>1, <3>7 DEF Meets, Newest, Below
  <2> QED
    BY <2>3, <2>4
<1>9. rpc \in {"cond", "take"} /\ ~rgrew' => link'[rlink].used = link[rlink].used
  BY <1>2, <1>4 DEF Lock
<1>10. rgrew \in BOOLEAN /\ (rgrew => rgrew')
  BY <1>2 DEF Lock
<1>11. rpc \in {"idle", "lock"} => rgrew' = FALSE
  BY <1>2 DEF Reading
<1> QED
  BY <1>2, <1>3, <1>4, <1>8, <1>9, <1>10, <1>11, ReadKept

\* clear runs while there is no get.
LEMMA ReadClear ==
  ASSUME Struct, Lock, Reading, Clear
  PROVE  Reading'
<1>1. rpc = "idle" /\ UNCHANGED rVars /\ count' = [k \in Keys |-> 0]
  BY DEF Clear
<1>2. /\ UNCHANGED <<rpc, rkey, rhead, rlink, roff, rbig, rleft, res, rfrom>> /\ rgrew' = rgrew
      /\ rpc \in {"idle", "lock"} => rgrew' = FALSE
  BY <1>1 DEF rVars, Reading
<1>3. \A k \in Keys : count'[k] \in Nat
  BY <1>1
<1> QED
  BY <1>1, <1>2, <1>3, ReadKept

\* What a get appends in one link: the number of postings, and the postings.
Piece(l, off, n) == [k \in 1..n |-> LET i == Len(l.cells) - off + k
                                    IN IF i <= Len(l.cells) THEN l.cells[i] ELSE Junk]

\* It is what used_size shows, from the newest on.
LEMMA PieceIs ==
  ASSUME Struct, Runs, NEW b \in DOMAIN link, NEW n \in Nat, n >= 1, n <= link[b].used,
         NEW d, d = Piece(link[b], link[b].used, n)
  PROVE  d \in Seq(Nat) /\ Len(d) = n /\ \A k \in 1..n : d[k] = Newest(b) + 1 - k
<1>1. PICK c, u, z : c = link[b].cells /\ u = link[b].used /\ z = Below(link, b)
  OBVIOUS
<1>2. /\ c \in Seq(Nat) /\ u \in Nat /\ z \in Nat /\ RunOf(c, z + 1) /\ Newest(b) = z + u
      /\ Len(c) \in Nat /\ u <= Len(c)
  <2>1. c \in Seq(Nat) /\ u \in Nat /\ z \in Nat /\ RunOf(c, z + 1) /\ Newest(b) = z + u
    BY <1>1, LinkFacts, NewestIs
  <2>2. Len(c) = u + Hidden(b) /\ Hidden(b) \in {0, 1}
    BY <1>1 DEF Runs, Hidden
  <2> QED
    BY <2>1, <2>2
<1>3. d = [k \in 1..n |-> IF Len(c) - u + k <= Len(c) THEN c[Len(c) - u + k] ELSE Junk]
  BY <1>1 DEF Piece
<1>4. ASSUME NEW k \in 1..n PROVE d[k] = z + u + 1 - k /\ d[k] \in Nat
  <2>1. k \in Nat /\ k <= u /\ k >= 1
    BY <1>1, <1>2
  <2>2. PICK i : i = Len(c) - u + k
    OBVIOUS
  <2>3. i \in 1..Len(c) /\ i <= Len(c)
    BY <1>2, <2>1, <2>2
  <2>4. d[k] = c[i]
    BY <1>3, <2>2, <2>3
  <2>5. c[i] = (z + 1) + Len(c) - i
    BY <1>2, <2>3 DEF RunOf
  <2>6. (z + 1) + Len(c) - i = z + u + 1 - k
    BY <1>2, <2>1, <2>2
  <2>7. z + u + 1 - k \in Nat
    BY <1>2, <2>1
  <2> QED
    BY <2>4, <2>5, <2>6, <2>7
<1>5. d \in [1..n -> Nat]
  BY <1>3, <1>4
<1>6. d \in Seq(Nat) /\ Len(d) = n
  BY <1>5
<1>7. \A k \in 1..n : d[k] = Newest(b) + 1 - k
  BY <1>2, <1>4
<1> QED
  BY <1>6, <1>7

\* The call.
LEMMA ReadCall ==
  ASSUME Struct, Lock, Reading, NEW k \in Keys, NEW n \in Lens, GetCall(k, n)
  PROVE  Reading'
<1>1. Types /\ Table /\ Chains
  BY DEF Struct
<1>2. /\ rpc' = "lock" /\ rkey' = k /\ rhead' = bucket[Bucket(k)] /\ rleft' = n /\ res' = <<>>
      /\ rfrom' = count[k] /\ rgrew' = FALSE /\ heads' = heads /\ count' = count /\ link' = link
  BY DEF GetCall, wVars
<1>3. n \in Nat /\ count[k] \in Nat
  BY <1>1, ListAssumption DEF Types
<1>4. rfrom' <= count'[rkey']
  BY <1>2, <1>3
<1>5. rfrom' > 0 => FindIn(heads', rkey', rhead') # 0
  BY <1>1, <1>2 DEF Table, SpotIn
<1>6. Down(res') /\ rleft' # -1
  <2>1. PICK r : r = res'
    OBVIOUS
  <2>2. r \in Seq(Nat) /\ Len(r) = 0
    BY <1>2, <2>1
  <2>3. Down(r)
    BY <2>2 DEF Down
  <2> QED
    BY <1>2, <1>3, <2>1, <2>3
<1> QED
  BY <1>2, <1>4, <1>5, <1>6 DEF Reading

\* The lock: the first link shows every posting of the term.
LEMMA ReadLock ==
  ASSUME Struct, Lock, Runs, Reading, GetLock
  PROVE  Reading'
<1>1. Types /\ Table /\ Chains
  BY DEF Struct
<1>2. /\ rpc = "lock" /\ UNCHANGED <<heads, link, count, rkey, rleft, res, rfrom, rgrew>>
  BY DEF GetLock, wVars
<1>3. /\ res = <<>> /\ rgrew = FALSE /\ rfrom <= count[rkey]
      /\ (rfrom > 0 => FindIn(heads, rkey, rhead) # 0) /\ rleft # -1 /\ Down(res)
  BY <1>2 DEF Reading
<1>4. rkey \in Keys /\ count[rkey] \in Nat /\ rfrom \in Nat /\ rhead \in 0..Len(heads)
  BY <1>1, <1>2 DEF Lock, Types
<1>5. PICK o : o = FindIn(heads, rkey, rhead)
  OBVIOUS
<1>6. o \in 0..rhead /\ (o # 0 => heads[o].key = rkey)
  BY <1>1, <1>4, <1>5, HeadFacts, FindInRange
<1>7. CASE o = 0
  <2>1. rpc' = "done"
    BY <1>5, <1>7, FindIsFindIn DEF GetLock
  <2>2. rfrom' = 0
    BY <1>2, <1>3, <1>4, <1>5, <1>7
  <2> QED
    BY <1>2, <1>3, <2>1, <2>2 DEF Reading, Down
<1>8. CASE o # 0
  <2>1. rpc' = "link" /\ rlink' = heads[o].link
    BY <1>5, <1>8, FindIsFindIn DEF GetLock
  <2>2. PICK b : b = heads[o].link
    OBVIOUS
  <2>3. o \in DOMAIN heads /\ heads[o].key = rkey /\ b \in DOMAIN link /\ b # Null
    <3>1. o \in DOMAIN heads
      BY <1>1, <1>4, <1>6, <1>8, HeadFacts
    <3>2. b \in DOMAIN link
      BY <1>1, <2>2, <3>1 DEF Chains
    <3>3. b # Null
      BY <1>1, <3>2, BlockFacts DEF Types
    <3> QED
      BY <1>6, <1>8, <3>1, <3>2, <3>3
  <2>4. Newest(b) = count[rkey]
    BY <2>2, <2>3, NewestIs
  <2>5. \A i \in DOMAIN heads : heads[i].link = b => heads[i].key = rkey
    BY <1>1, <2>2, <2>3 DEF Chains
  <2>6. Newest(b) \in rfrom..count[rkey]
    BY <1>3, <1>4, <2>4
  <2>7. Meets(b)
    BY <1>3, <2>5, <2>6 DEF Meets
  <2>8. Meets(rlink)'
    BY <1>2, <2>1, <2>2, <2>7 DEF Meets, Newest, Below
  <2> QED
    BY <1>2, <1>3, <2>1, <2>2, <2>3, <2>8 DEF Reading, Down
<1> QED
  BY <1>7, <1>8

\* The first read of used_size.
LEMMA ReadOffset ==
  ASSUME Struct, Lock, Reading, GetOffset
  PROVE  Reading'
<1>1. /\ rpc = "link" /\ rlink # Null /\ rpc' = "cond" /\ roff' = link[rlink].used
      /\ UNCHANGED <<heads, link, count, rkey, rlink, rleft, res, rfrom, rgrew>>
  BY DEF GetOffset, wVars
<1>2. ~rgrew => Meets(rlink)
  BY <1>1 DEF Reading
<1>3. ~rgrew' => Meets(rlink)'
  BY <1>1, <1>2 DEF Meets, Newest, Below
<1>4. ~rgrew => rleft # -1 /\ Down(res) /\ (res # <<>> => res[1] \in rfrom..count[rkey])
  BY DEF Reading
<1> QED
  BY <1>1, <1>3, <1>4 DEF Reading

\* The second one.
LEMMA ReadCompare ==
  ASSUME Struct, Lock, Reading, GetCompare
  PROVE  Reading'
<1>1. /\ rpc = "cond" /\ rpc' = "take" /\ rbig' = Exceeds(rleft, link[rlink].used)
      /\ UNCHANGED <<heads, link, count, rkey, rlink, roff, rleft, res, rfrom, rgrew>>
  BY DEF GetCompare, wVars
<1>2. rlink # Null
  BY <1>1 DEF Lock
<1>3. ~rgrew => Meets(rlink) /\ roff = link[rlink].used
  BY <1>1, <1>2 DEF Reading
<1>4. ~rgrew' => Meets(rlink)' /\ roff' = link'[rlink'].used
  BY <1>1, <1>3 DEF Meets, Newest, Below
<1>5. ~rgrew => rleft # -1 /\ Down(res) /\ (res # <<>> => res[1] \in rfrom..count[rkey])
  BY DEF Reading
<1>6. ~rgrew' => rbig' = (rleft' > link'[rlink'].used)
  BY <1>1, <1>5 DEF Exceeds
<1> QED
  BY <1>1, <1>2, <1>4, <1>5, <1>6 DEF Reading

\* The copy: the answer goes on to the link's first posting, or fills the buffer.
LEMMA ReadPiece ==
  ASSUME Struct, Lock, Runs, Reading, GetCopy
  PROVE  Reading'
<1>1. Types /\ Chains
  BY DEF Struct
<1>2. /\ rpc = "take" /\ rpc' = "link" /\ UNCHANGED <<heads, link, count, rkey, rfrom, rgrew>>
      /\ rlink' = link[rlink].next
  BY DEF GetCopy, wVars
<1>3. CASE rgrew
  BY <1>2, <1>3 DEF Reading
<1>4. CASE ~rgrew
  <2>1. PICK b : b = rlink
    OBVIOUS
  <2>2. PICK n : n = IF rbig THEN link[b].used ELSE rleft
    OBVIOUS
  <2>3. PICK d : d = Piece(link[b], link[b].used, n)
    OBVIOUS
  <2>4. /\ rlink # Null /\ rlink \in DOMAIN link /\ rleft # 0 /\ rleft \in Nat \cup {-1}
        /\ rkey \in Keys /\ rfrom \in Nat
    BY <1>2 DEF Lock
  <2>5. /\ Meets(b) /\ roff = link[b].used /\ rbig = (rleft > link[b].used)
        /\ rleft # -1 /\ Down(res) /\ (res # <<>> => res[1] \in rfrom..count[rkey])
    BY <1>2, <1>4, <2>1, <2>4 DEF Reading
  <2>6. /\ b \in DOMAIN link /\ link[b].used \in Nat /\ Below(link, b) \in Nat
        /\ Newest(b) = Below(link, b) + link[b].used /\ Newest(b) \in Nat
        /\ link[b].used >= 1
        /\ link[b].next # Null => Newest(link[b].next) = Below(link, b)
    BY <2>1, <2>4, LinkFacts, NewestIs DEF Runs
  <2>7. n \in Nat /\ n >= 1 /\ n <= link[b].used /\ (~rbig => n = rleft) /\ (rbig => n = link[b].used /\ rleft > n)
    <3>1. PICK u, x, s : u = link[b].used /\ x = rleft /\ s = rbig
      OBVIOUS
    <3>2. u \in Nat /\ u >= 1 /\ x \in Nat /\ x # 0 /\ s = (x > u)
      BY <2>4, <2>5, <2>6, <3>1
    <3>3. CASE s
      <4>1. x > u /\ n = u
        BY <2>2, <3>1, <3>2, <3>3
      <4> QED
        BY <3>1, <3>2, <3>3, <4>1
    <3>4. CASE ~s
      <4>1. n = x
        BY <2>2, <3>1, <3>4
      <4>2. ~(x > u)
        <5> SUFFICES ASSUME x > u PROVE FALSE
          OBVIOUS
        <5>1. (x > u) = TRUE
          OBVIOUS
        <5> QED
          BY <3>2, <3>4, <5>1
      <4> QED
        BY <3>1, <3>2, <3>4, <4>1, <4>2
    <3> QED
      BY <3>3, <3>4
  <2>8. d \in Seq(Nat) /\ Len(d) = n /\ \A k \in 1..n : d[k] = Newest(b) + 1 - k
    <3>1. b \in DOMAIN link /\ n \in Nat /\ n >= 1 /\ n <= link[b].used /\ d = Piece(link[b], link[b].used, n)
      BY <2>3, <2>6, <2>7
    <3> QED
      BY <3>1, PieceIs, Zenon
  <2>9. res' = res \o d
    BY <2>1, <2>2, <2>3, <2>5 DEF GetCopy, Piece
  <2>10. rleft' = rleft - n
    <3>1. rleft' = IF Exceeds(rleft, n) \/ rleft = n THEN IF rleft = -1 THEN -1 ELSE rleft - n ELSE -1
      BY <2>1, <2>2 DEF GetCopy
    <3>2. Exceeds(rleft, n) \/ rleft = n
      BY <2>7 DEF Exceeds
    <3> QED
      BY <2>5, <3>1, <3>2
  <2>11. res = <<>> \/ res[Len(res)] = Newest(b) + 1
    BY <2>4, <2>5 DEF Meets
  <2>12. PICK e, t, r : e = res' /\ t = Newest(b) /\ r = res
    OBVIOUS
  <2>13. /\ Down(e) /\ e # <<>> /\ e[1] = IF r = <<>> THEN t ELSE r[1]
         /\ e[Len(e)] = t + 1 - n
    <3>1. Down(r) /\ t \in Nat /\ n <= t /\ (r = <<>> \/ r[Len(r)] = t + 1) /\ e = r \o d
      BY <2>5, <2>6, <2>7, <2>9, <2>11, <2>12
    <3>2. \A k \in 1..n : d[k] = t + 1 - k
      BY <2>8, <2>12
    <3>3. n \in Nat /\ n >= 1 /\ d \in Seq(Nat) /\ Len(d) = n
      BY <2>7, <2>8
    <3>4. PICK f : f = r \o d
      OBVIOUS
    <3>5. GoesOn(r, d, n, t)
      BY <3>1, <3>2, <3>3 DEF GoesOn
    <3>6. RunsTo(r, t, f, d[n])
      BY <3>4, <3>5, DownOn, Zenon
    <3>7. n \in 1..n
      BY <3>3
    <3>8. d[n] = t + 1 - n
      BY <3>2, <3>7
    <3>9. e = f
      BY <3>1, <3>4
    <3> QED
      BY <3>6, <3>8, <3>9 DEF RunsTo
  <2>14. e[1] \in rfrom..count[rkey]
    <3>1. r = <<>> => t \in rfrom..count[rkey]
      BY <2>4, <2>5, <2>12 DEF Meets
    <3> QED
      BY <2>5, <2>12, <2>13, <3>1
  <2>15. rleft' # 0 => e[Len(e)] = Below(link, b) + 1
    <3>1. rleft' # 0 => rbig
      BY <2>4, <2>5, <2>7, <2>10
    <3>2. n = link[b].used => t + 1 - n = Below(link, b) + 1
      BY <2>6, <2>12
    <3> QED
      BY <2>7, <2>13, <3>1, <3>2
  <2>16. rleft' # -1
    BY <2>4, <2>5, <2>7, <2>10
  <2>17. PICK m : m = link[b].next
    OBVIOUS
  <2>18. rlink' = m
    BY <1>2, <2>1, <2>17
  <2>19. CASE m = Null
    <3>1. Below(link, b) = 0
      BY <2>17, <2>19 DEF Below
    <3>2. rleft' # 0 => res' # <<>> /\ res'[Len(res')] = 1
      BY <2>12, <2>13, <2>15, <3>1
    <3> QED
      BY <1>2, <2>12, <2>13, <2>14, <2>16, <2>18, <2>19, <3>2 DEF Reading
  <2>20. CASE m # Null
    <3>1. \A i \in DOMAIN heads : heads[i].link # m
      BY <1>1, <2>6, <2>17 DEF Chains
    <3>2. Newest(m) = Below(link, b)
      BY <2>6, <2>17, <2>20
    <3>3. Newest(m)' = Newest(m)
      BY <1>2 DEF Newest, Below
    <3>4. rleft' # 0 => res' # <<>> /\ res'[Len(res')] = Newest(m)' + 1
      BY <2>12, <2>13, <2>15, <3>2, <3>3
    <3>6. Meets(m)'
      BY <1>2, <2>12, <2>13, <3>1, <3>4 DEF Meets
    <3>5. Meets(rlink)'
      BY <2>18, <3>6 DEF Meets, Newest, Below
    <3> QED
      BY <1>2, <2>12, <2>13, <2>14, <2>16, <3>5, <2>18, <2>20 DEF Reading
  <2> QED
    BY <2>19, <2>20
<1> QED
  BY <1>2, <1>3, <1>4 DEF Lock

\* The end of the chain or of the buffer.
LEMMA ReadEnds ==
  ASSUME Struct, Lock, Runs, Reading, GetEnds
  PROVE  Reading'
<1>1. /\ rpc = "link" /\ (rlink = Null \/ rleft = 0) /\ rpc' = "done"
      /\ UNCHANGED <<heads, link, count, rkey, rlink, rleft, res, rfrom, rgrew>>
  BY DEF GetEnds, wVars
<1>2. ~rgrew => /\ rleft # -1 /\ Down(res) /\ (res # <<>> => res[1] \in rfrom..count[rkey])
                /\ rlink = Null /\ rleft # 0 => res # <<>> /\ res[Len(res)] = 1
  BY <1>1 DEF Reading
<1> QED
  BY <1>1, <1>2 DEF Reading

\* The answer is taken.
LEMMA ReadReturned ==
  ASSUME Struct, Lock, Reading, GetReturned
  PROVE  Reading'
<1>1. /\ rpc' = "idle" /\ res' = <<>> /\ rleft' = 0 /\ rgrew' = FALSE
  BY DEF GetReturned
<1>2. PICK r : r = res'
  OBVIOUS
<1>3. r \in Seq(Nat) /\ Len(r) = 0
  BY <1>1, <1>2
<1>4. Down(r)
  BY <1>3 DEF Down
<1>5. rleft' # -1
  BY <1>1
<1> QED
  BY <1>1, <1>2, <1>4, <1>5 DEF Reading

\* What is known of a get is kept.
LEMMA ReadStep == ListInv /\ Reading /\ [Next]_vars => Reading'
<1> SUFFICES ASSUME ListInv, Reading, [Next]_vars PROVE Reading'
  OBVIOUS
<1>1. Struct /\ Lock /\ Runs
  BY DEF ListInv
<1>2. CASE (\E k \in Keys : SetCall(k)) \/ WriteLock \/ MergeEnds \/ Begin \/ ItNext \/ UNCHANGED vars
  <2>1. UNCHANGED <<heads, link, count, rVars>>
    BY <1>2 DEF SetCall, WriteLock, MergeEnds, Begin, ItNext, vars, wVars
  <2> QED
    BY <2>1, ReadUnchanged
<1>3. CASE CopyData \/ CopyUsed \/ Merge \/ AddLink \/ AddHead \/ Clear
  BY <1>1, <1>3, ReadCopyData, ReadCopyUsed, ReadMerge, ReadAdd, ReadClear
<1>4. CASE Get
  <2>1. ASSUME NEW k \in Keys, NEW n \in Lens, GetCall(k, n) PROVE Reading'
    BY <1>1, <2>1, ReadCall
  <2>2. CASE GetLock \/ GetOffset \/ GetCompare
    BY <1>1, <2>2, ReadLock, ReadOffset, ReadCompare
  <2>3. CASE GetCopy \/ GetEnds \/ GetReturned
    BY <1>1, <2>3, ReadPiece, ReadEnds, ReadReturned
  <2> QED
    BY <1>4, <2>1, <2>2, <2>3 DEF Get
<1> QED
  BY <1>2, <1>3, <1>4 DEF Next, Set, Dump

\* And holds at the beginning.
LEMMA ReadInit == Init => Reading
<1> SUFFICES ASSUME Init PROVE Reading
  OBVIOUS
<1>1. rpc = "idle" /\ res = <<>> /\ rgrew = FALSE /\ rleft = 0
  BY DEF Init
<1>2. PICK r : r = res
  OBVIOUS
<1>3. r \in Seq(Nat) /\ Len(r) = 0
  BY <1>1, <1>2
<1>4. Down(r)
  BY <1>3 DEF Down
<1> QED
  BY <1>1, <1>2, <1>4 DEF Reading

\* An answer is a run of postings from the newest on, to the first one or as many as the
\* buffer takes, unless the link grew between two reads of its used_size.
THEOREM AnswerRunsHolds == Spec => []AnswerRuns
<1>1. Init => ListInv /\ Reading
  BY StructInit, LockInit, RunsInit, ReadInit DEF ListInv
<1>2. (ListInv /\ Reading) /\ [Next]_vars => Reading'
  BY ReadStep
<1>3. ListInv /\ Reading => AnswerRuns
  <2> SUFFICES ASSUME Reading, ~rgrew PROVE
        /\ rleft # -1
        /\ rpc = "done" =>
             /\ \A i \in 1..Len(res) - 1 : res[i + 1] = res[i] - 1
             /\ res # <<>> => res[1] \in rfrom..count[rkey]
             /\ res # <<>> /\ rleft # 0 => res[Len(res)] = 1
             /\ res = <<>> => rfrom = 0 \/ rleft = 0
    BY DEF AnswerRuns, Last
  <2>1. /\ rleft # -1 /\ Down(res) /\ (res # <<>> => res[1] \in rfrom..count[rkey])
        /\ rpc = "done" /\ rleft # 0 => IF res = <<>> THEN rfrom = 0 ELSE res[Len(res)] = 1
    BY DEF Reading
  <2>2. \A i \in 1..Len(res) - 1 : res[i + 1] = res[i] - 1
    BY <2>1 DEF Down
  <2> QED
    BY <2>1, <2>2
<1> QED
  BY <1>1, <1>2, <1>3, ListInvHolds, PTL DEF Spec
=============================================================================
