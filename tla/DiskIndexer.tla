---------------------------- MODULE DiskIndexer -----------------------------
(***************************************************************************)
(* The index on disk (utils/indexer/disk_indexer).  A merge clears it,     *)
(* sets the posting lists of all terms in ascending order and finishes it  *)
(* by writing the second-level index, every Milestone-th term and the last *)
(* one; from then on it is only read.  The file of the second-level index  *)
(* tells the constructor whether the others are complete.                  *)
(*                                                                         *)
(* A term is its signature, an unsigned number of Bits bits.  A byte of a  *)
(* posting list is named by the build and the term it belongs to.          *)
(***************************************************************************)
EXTENDS DiskBlocks, Functions, FiniteSets

CONSTANTS
  Bits,       \* width of ikey_t.sign64
  Milestone,  \* TERM_MILESTONE
  Lens,       \* lengths of posting lists
  MaxLists,   \* terms in the index (bound)
  MaxBuilds,  \* calls of clear (bound)
  MaxDeaths   \* deaths (bound)

\* A posting list, of MAX_POSTINGLIST_SIZE cells at most, fits a file of diskv.
\* (What powers of two are is said for the provers.)
ASSUME IndexAssumption ==
  /\ Bits \in Nat \ {0} /\ Milestone \in Nat \ {0} /\ Lens \subseteq 1..DatMax
  /\ MaxLists \in Nat /\ MaxBuilds \in Nat /\ MaxDeaths \in Nat
  /\ 2^(Bits - 1) \in Nat \ {0} /\ 2^Bits = 2 * 2^(Bits - 1)

VARIABLES
  pc,        \* the merge: "idle", "clear", "build", "finish"
  second,    \* m_second_index
  sfile,     \* its file, NoFile if there is none
  lastsi,    \* m_last_si
  readonly,  \* m_readonly
  cache,     \* m_cache_map: number of the first cell -> cells
  builds,    \* calls of clear so far
  deaths,    \* deaths so far
  built,     \* history: term -> list of this build
  done,      \* history: this build was finished
  broken     \* history: the constructor took an unfinished index for a good one

iVars == <<second, sfile, lastsi, readonly, cache>>
vars == <<fb, dat, pc, iVars, builds, deaths, built, done, broken>>

NoFile == <<[milestone |-> -1, key |-> 0]>>
Terms == 0..2^Bits - 1
NotFound == <<>>
Throws == <<<<0, -1>>>>

-----------------------------------------------------------------------------
(***************************************************************************)
(* get_posting_list                                                        *)
(***************************************************************************)
\* lower_bound in the second-level index.
LowerBound(k) ==
  CHOOSE i \in DOMAIN second :
    second[i].key >= k /\ \A j \in 1..i - 1 : second[j].key < k

\* Mutant: the block begins with the milestone found.
BlockNoAtBound(k) == second[LowerBound(k)].milestone

\* The first cell of the block to search.
BlockNo(k) ==
  LET b == second[LowerBound(k)]
  IN IF b.key = k THEN b.milestone
     ELSE IF b.milestone < Milestone THEN 0 ELSE b.milestone - Milestone

\* ikey_comp: the difference of two unsigned numbers, taken for a signed one.
Comp(a, b) ==
  LET d == (a - b) % 2^Bits
  IN IF d >= 2^(Bits - 1) THEN -1 ELSE IF d > 0 THEN 1 ELSE 0

\* bsearch of the C library: the place of k in s, 0 if it is not found.  The places l + 1
\* to u of r = <<l, u>> are left to search.
Bsearch(k, s) ==
  LET find[r \in (0..Len(s)) \X (0..Len(s))] ==
        IF r[1] >= r[2] THEN 0
        ELSE LET i == (r[1] + r[2]) \div 2
                 c == Comp(k, s[i + 1].key)
             IN IF c = 0 THEN i + 1 ELSE IF c < 0 THEN find[<<r[1], i>>] ELSE find[<<i + 1, r[2]>>]
  IN find[<<0, Len(s)>>]

\* A term outside the range of the index is not looked for.
InRange(k) == second # <<>> /\ k >= second[1].key /\ k <= Last(second).key

\* The cells of the block, from the cache or from the file.
Block(k) == IF BlockNo(k) \in DOMAIN cache THEN cache[BlockNo(k)] ELSE FbGet(BlockNo(k), Milestone)

Lookup(k) ==
  IF ~readonly \/ ~InRange(k) THEN NotFound
  ELSE IF Block(k) = <<>> THEN Throws
  ELSE LET i == Bsearch(k, Block(k))
       IN IF i = 0 THEN NotFound ELSE DatGet(Block(k)[i].idx)

\* m[k] = v.
Put(m, k, v) == [x \in DOMAIN m \cup {k} |-> IF x = k THEN v ELSE m[x]]

\* A query, which leaves the block in the cache.
Query(k) ==
  /\ readonly /\ InRange(k) /\ Lookup(k) # Throws
  /\ cache' = Put(cache, BlockNo(k), Block(k))
  /\ UNCHANGED <<fb, dat, pc, second, sfile, lastsi, readonly, builds, deaths, built, done, broken>>

-----------------------------------------------------------------------------
(***************************************************************************)
(* The merge                                                               *)
(***************************************************************************)
NoSi == [milestone |-> 0, key |-> 0]

\* clear(): the file of the second-level index goes first,
ClearBegin ==
  /\ pc = "idle" /\ builds < MaxBuilds
  /\ pc' = "clear" /\ builds' = builds + 1
  /\ second' = <<>> /\ sfile' = NoFile
  /\ built' = <<>> /\ done' = FALSE
  /\ UNCHANGED <<fb, dat, lastsi, readonly, cache, deaths, broken>>

\* then the other files and the cache.
ClearEnd ==
  /\ pc = "clear" /\ pc' = "build"
  /\ fb' = <<<<>>>> /\ dat' = DatCleared /\ lastsi' = NoSi /\ readonly' = FALSE /\ cache' = <<>>
  /\ broken' = FALSE
  /\ UNCHANGED <<second, sfile, builds, deaths, built, done>>

\* set_posting_list(id, k): data, cell, and every Milestone-th term into the second level.
SetList(k, n) ==
  /\ pc = "build" /\ CellCount < MaxLists
  /\ built # <<>> => k > lastsi.key
  /\ LET id == CellCount
         s == [i \in 1..n |-> <<builds, k>>]
         si == [milestone |-> id, key |-> k]
     IN /\ dat' = DatAppended(s)
        /\ fb' = FbAppended([key |-> k, idx |-> DatIdx(s)])
        /\ lastsi' = si
        /\ second' = IF id % Milestone = 0 THEN Append(second, si) ELSE second
        /\ built' = Put(built, k, s)
  /\ UNCHANGED <<pc, sfile, readonly, cache, builds, deaths, done, broken>>

\* The last term, if it is not in the second level yet.
WithLast == IF lastsi.milestone % Milestone # 0 THEN Append(second, lastsi) ELSE second

\* set_finish(): nothing for an empty index; the file is made anew,
FinishBegin ==
  /\ pc = "build"
  /\ second' = WithLast
  /\ IF WithLast = <<>> THEN pc' = "idle" /\ UNCHANGED sfile
                        ELSE pc' = "finish" /\ sfile' = <<>>
  /\ UNCHANGED <<fb, dat, lastsi, readonly, cache, builds, deaths, built, done, broken>>

\* written record by record, and the index is there.
FinishWrite ==
  /\ pc = "finish"
  /\ IF Len(sfile) < Len(second)
       THEN sfile' = Append(sfile, second[Len(sfile) + 1]) /\ UNCHANGED <<pc, readonly, done>>
       ELSE pc' = "idle" /\ readonly' = TRUE /\ done' = TRUE /\ UNCHANGED sfile
  /\ UNCHANGED <<fb, dat, second, lastsi, cache, builds, deaths, built, broken>>

\* Mutant: the length of the second level is not compared.
CompleteIfThere(s) == s # <<>>

\* The last milestone and the number of cells must agree.
Complete(s) == s # <<>> /\ Last(s).milestone + 1 = CellCount

\* The process dies, the constructor reads what is there.  Files that do not fit
\* together are removed, but the second-level index that was read stays in memory.
Restart ==
  /\ deaths < MaxDeaths /\ deaths' = deaths + 1
  /\ LET s == IF sfile = NoFile THEN <<>> ELSE sfile IN
       /\ second' = s /\ readonly' = (s # <<>>) /\ cache' = <<>>
       /\ lastsi' = IF s # <<>> THEN Last(s) ELSE NoSi
       /\ IF Complete(s) THEN fb' = FbOpened /\ dat' = DatOpened /\ UNCHANGED <<sfile, built>>
          ELSE fb' = <<<<>>>> /\ dat' = DatCleared /\ sfile' = NoFile /\ built' = <<>>
       /\ broken' = (s # <<>> /\ ~Complete(s))
  /\ pc' = "idle"
  /\ done' = (done \/ (pc = "finish" /\ sfile = second))
  /\ UNCHANGED builds

\* Iteration in a merge: the term and the list at place i.
ItGet(i) == [key |-> FbItGet(i).key, list |-> DatGet(FbItGet(i).idx)]

-----------------------------------------------------------------------------
Init ==
  /\ fb = <<<<>>>> /\ dat = <<<<>>>> /\ pc = "idle" /\ second = <<>> /\ sfile = NoFile
  /\ lastsi = NoSi /\ readonly = FALSE /\ cache = <<>> /\ builds = 0 /\ deaths = 0
  /\ built = <<>> /\ done = FALSE /\ broken = FALSE

Next ==
  \/ \E k \in Terms : Query(k)
  \/ ClearBegin \/ ClearEnd
  \/ \E k \in Terms, n \in Lens : SetList(k, n)
  \/ FinishBegin \/ FinishWrite
  \/ Restart

Spec == Init /\ [][Next]_vars

-----------------------------------------------------------------------------
(***************************************************************************)
(* Properties                                                              *)
(***************************************************************************)
\* Types of the variables.
TypeOK ==
  /\ pc \in {"idle", "clear", "build", "finish"}
  /\ \A i \in DOMAIN second : second[i].milestone \in 0..MaxLists - 1 /\ second[i].key \in Terms
  /\ fb # <<>> /\ \A f \in DOMAIN fb : Len(fb[f]) \in (IF f < Len(fb) THEN {CellsPerFile} ELSE 0..CellsPerFile)
  /\ \A f \in DOMAIN dat : Len(dat[f]) \in 0..DatMax
  /\ readonly \in BOOLEAN /\ done \in BOOLEAN /\ broken \in BOOLEAN
  /\ DOMAIN built \subseteq Terms /\ builds \in 0..MaxBuilds /\ deaths \in 0..MaxDeaths

\* diskv has more files than file_no can number.
FilesWrap == Len(dat) > 2^FileBits

\* Two terms of the block are half of all signatures apart, or the term and one of them are.
Spread(k) ==
  LET keys == {c.key : c \in Range(FbGet(BlockNo(k), Milestone))} \cup {k}
  IN \E a, b \in keys : a - b >= 2^(Bits - 1)

\* A finished index finds every term that was set, with its list, and no other, from the
\* files and from the cache; milestones, files of cells and data files may end anywhere.
\* Two limits are the code's: the width of file_no, and signatures that differ by 2^63;
\* in the second case a term is missed, but the list of another term, or one of an
\* earlier build, is never returned.
FindsAll ==
  (done /\ pc = "idle" /\ ~FilesWrap) => \A k \in Terms :
    LET should == IF k \in DOMAIN built THEN built[k] ELSE NotFound
    IN  Lookup(k) = should \/ (InRange(k) /\ Spread(k) /\ Lookup(k) = NotFound)

\* The variables have their types; a finished index stays readable over deaths, an
\* unfinished one is readable only if the process died while the second-level index was
\* written: then a query throws.
SurvivesDeath ==
  /\ TypeOK
  /\ done /\ pc = "idle" => readonly /\ ~broken
  /\ readonly /\ pc = "idle" => done \/ broken
  /\ broken => deaths > 0

\* Iteration (begin, itget, next, is_end) over a finished index delivers the terms in ascending
\* order, each with its list: the merges depend on it.
IteratesAll ==
  (done /\ pc = "idle" /\ ~FilesWrap) =>
    /\ FbIsEnd(Cardinality(DOMAIN built))
    /\ \A i \in 0..Cardinality(DOMAIN built) - 1 :
         /\ ItGet(i).key \in DOMAIN built /\ ItGet(i).list = built[ItGet(i).key]
         /\ i > 0 => ItGet(i - 1).key < ItGet(i).key
=============================================================================
