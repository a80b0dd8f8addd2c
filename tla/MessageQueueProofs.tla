------------------------- MODULE MessageQueueProofs -------------------------
(***************************************************************************)
(* Proofs about the queue files.                                           *)
(*                                                                         *)
(* RepairFinds, for any deaths: the newest file has an anchor - its        *)
(* beginning or the end of a whole block - with at most one block's length *)
(* of cells behind it (Anchored).  Torn blocks and what was written over   *)
(* them are always behind the anchor, so the search over two block lengths *)
(* meets the block that ends there.                                        *)
(*                                                                         *)
(* NoneSkipped, while no block is torn: every file is a row of complete    *)
(* blocks with ids 1, 2, 3... and perhaps the beginning of one more (Log,  *)
(* said of neighbouring cells, so that no walk over the file is needed),   *)
(* the writer is at the end of the newest one (WriterAt), and the reader   *)
(* is between two blocks, has returned all blocks of its file up to its id *)
(* and, at its last look, saw nothing else (Reader).                       *)
(*                                                                         *)
(* LogIntact and ReaderSafe, with torn blocks and seeks: LogInv, ReaderIn  *)
(* and the bounds, in the last part.                                       *)
(***************************************************************************)
EXTENDS MessageQueue, SequenceTheorems, WellFoundedInduction, TLAPS

CellSet == [by : Nat, nth : Nat]
BlockSet == [id : Nat \ {0}, file : Nat, len : Lens]

\* The newest file.
Tip == files[Len(files)]

\* The types of what the proofs need; those of the reader are in Reader.
Types ==
  /\ files \in Seq(Seq(CellSet)) /\ files # <<>>
  /\ blocks \in Seq(BlockSet)
  /\ \A a \in DOMAIN blocks : blocks[a].file \in DOMAIN files
  /\ \A i \in DOMAIN files : \A p \in DOMAIN files[i] : files[i][p].by \in DOMAIN blocks
  /\ acked \subseteq DOMAIN blocks
  /\ wpc \in {"idle", "write", "down", "failed"}
  /\ wpos \in Nat /\ wid \in Nat \ {0} /\ wrest \in Nat /\ seeks \in Nat
  /\ wpc = "write" => blocks # <<>> /\ wrest <= blocks[Len(blocks)].len

\* Whole, for given blocks.
WholeIn(bs, f, o) ==
  /\ o < Len(f) /\ f[o + 1].nth = 0
  /\ o + bs[f[o + 1].by].len <= Len(f)
  /\ \A k \in 0..bs[f[o + 1].by].len - 1 : f[o + 1 + k] = Cell(f[o + 1].by, k)

\* Offset s is the beginning of the file or the end of a whole block, and the file has at most
\* one block's length of cells behind it.
Anchor(bs, f, s) ==
  /\ s <= Len(f) /\ Len(f) <= s + BlockMax
  /\ s = 0 \/ \E o \in Nat : WholeIn(bs, f, o) /\ s = o + bs[f[o + 1].by].len

\* The first k cells of attempt a are in the file from offset s on.
Begun(f, s, a, k) == s + k <= Len(f) /\ \A j \in 0..k - 1 : f[s + 1 + j] = Cell(a, j)

\* Cells of the block in work that are in the file.
Done == blocks[Len(blocks)].len - wrest

\* Where the anchor is: at the writer's position, or before the block in work.
Anchored ==
  /\ wpc = "idle" => Anchor(blocks, Tip, wpos)
  /\ wpc = "write" => \E s \in Nat :
       Anchor(blocks, Tip, s) /\ wpos = s + Done /\ Begun(Tip, s, Len(blocks), Done)
  /\ wpc = "down" => \E s \in Nat : Anchor(blocks, Tip, s)
  /\ wpc # "failed"

\* Offset p is between two blocks, and the id of the block before it.
Boundary(bs, f, p) == p = 0 \/ f[p].nth + 1 = bs[f[p].by].len
LastId(bs, f, p) == IF p = 0 THEN 0 ELSE bs[f[p].by].id

\* File i: the cells of a block are where they belong, a complete block is followed by the head of the
\* block with the next id, any other cell by the next one of its block.
Linked(bs, f, i) ==
  /\ \A p \in 1..Len(f) :
       /\ bs[f[p].by].file = i /\ f[p].nth < bs[f[p].by].len /\ f[p].nth < p
       /\ \A j \in 0..f[p].nth : f[p - f[p].nth + j] = Cell(f[p].by, j)
  /\ \A p \in 0..Len(f) - 1 :
       /\ Boundary(bs, f, p) => f[p + 1].nth = 0 /\ bs[f[p + 1].by].id = LastId(bs, f, p) + 1
       /\ ~Boundary(bs, f, p) => f[p + 1] = Cell(f[p].by, f[p].nth + 1)

\* A clean log: all files are so, ids are used once in a file, acknowledged blocks are in their file.
Log ==
  /\ \A i \in DOMAIN files : Linked(blocks, files[i], i)
  /\ \A a, b \in DOMAIN blocks :
       blocks[a].file = blocks[b].file /\ blocks[a].id = blocks[b].id => a = b
  /\ \A a \in acked : \E p \in DOMAIN files[blocks[a].file] : files[blocks[a].file][p].by = a

\* The writer is at the end of the newest file; the block in work has the largest id of it.
WriterAt ==
  /\ wpc # "down" => wpos = Len(Tip)
  /\ wpc \in {"idle", "down"} =>
       /\ Boundary(blocks, Tip, Len(Tip))
       /\ \A a \in DOMAIN blocks :
            blocks[a].file = Len(files) => blocks[a].id <= LastId(blocks, Tip, Len(Tip))
  /\ wpc = "idle" => wid = LastId(blocks, Tip, Len(Tip)) + 1
  /\ wpc = "write" =>
       /\ blocks[Len(blocks)].file = Len(files) /\ blocks[Len(blocks)].id = wid
       /\ \A a \in DOMAIN blocks :
            blocks[a].file = Len(files) /\ a # Len(blocks) => blocks[a].id < wid
       /\ Done = 0 => Boundary(blocks, Tip, Len(Tip)) /\ wid = LastId(blocks, Tip, Len(Tip)) + 1
       /\ Done > 0 => Tip # <<>> /\ Tip[Len(Tip)] = Cell(Len(blocks), Done - 1)

\* The reader in a clean log.
Reader ==
  /\ rfile \in DOMAIN files /\ roff \in 0..Len(File) /\ tries \in Nat
  /\ rpc \in {"look", "body"}
  /\ Boundary(blocks, File, roff) /\ rid = LastId(blocks, File, roff)
  /\ \A p \in 1..roff : blocks[File[p].by].id <= rid
  /\ rpc = "body" =>
       /\ buf \in Seq(CellSet) /\ buf # <<>>
       /\ roff + Len(buf) <= Len(File) /\ buf[1].by \in DOMAIN blocks
       /\ Len(buf) <= blocks[buf[1].by].len
       /\ \A k \in 1..Len(buf) : buf[k] = Cell(buf[1].by, k - 1) /\ File[roff + k] = buf[k]
  /\ \A a \in DOMAIN blocks : blocks[a].file = rfile /\ blocks[a].id <= rid => a \in got
  /\ \A a \in acked : blocks[a].file < rfile => a \in got \cup missed
  /\ rpc = "look" /\ tries > 0 => looked \subseteq got

\* Clean as long as no block is torn, no seek moved the reader and it lives.
CleanLog == torn = {} => Log /\ WriterAt
CleanReader == torn = {} /\ seeks = 0 /\ rpc # "dead" => Reader
-----------------------------------------------------------------------------
\* What a cell written at offset w makes of a file: over an old cell, or behind the last one.
Put(f, w, c) == IF w < Len(f) THEN [f EXCEPT ![w + 1] = c] ELSE Append(f, c)

\* writev changes one cell of a file and at most adds it.
LEMMA PutOne ==
  ASSUME NEW f \in Seq(CellSet), NEW c \in CellSet, NEW w \in Nat, w <= Len(f)
  PROVE  /\ Put(f, w, c) \in Seq(CellSet)
         /\ Len(Put(f, w, c)) = IF w < Len(f) THEN Len(f) ELSE Len(f) + 1
         /\ \A p \in 1..Len(Put(f, w, c)) : Put(f, w, c)[p] = IF p = w + 1 THEN c ELSE f[p]
<1>1. CASE w < Len(f)
  BY <1>1 DEF Put
<1>2. CASE w >= Len(f)
  <2>1. w = Len(f) /\ Put(f, w, c) = Append(f, c)
    BY <1>2 DEF Put
  <2>2. Len(Append(f, c)) = Len(f) + 1 /\ Append(f, c) \in Seq(CellSet)
    OBVIOUS
  <2>3. \A p \in 1..Len(f) : Append(f, c)[p] = f[p]
    OBVIOUS
  <2>4. Append(f, c)[Len(f) + 1] = c
    OBVIOUS
  <2> QED BY <2>1, <2>2, <2>3, <2>4, <1>2
<1> QED BY <1>1, <1>2

\* The lengths of blocks are from 2 to BLOCK_MAX_SIZE.
LEMMA LenRange ==
  \A bs \in Seq(BlockSet) : \A a \in DOMAIN bs : bs[a].len \in 2..BlockMax
<1> TAKE bs \in Seq(BlockSet)
<1> TAKE a \in DOMAIN bs
<1>1. bs[a] \in BlockSet
  OBVIOUS
<1>2. bs[a].len \in Lens
  BY <1>1 DEF BlockSet
<1> QED BY <1>2, SizesAssumption

\* A file and the blocks it may name.
Good(bs, f) == /\ bs \in Seq(BlockSet) /\ f \in Seq(CellSet)
               /\ \A p \in 1..Len(f) : f[p].by \in DOMAIN bs

\* Whether a check sum holds depends on the cells of the block only.
LEMMA WholeKept ==
  ASSUME NEW bs, NEW cs, NEW f, NEW g, NEW o \in Nat, Good(bs, f), Good(cs, g),
         WholeIn(bs, f, o), o + bs[f[o + 1].by].len <= Len(g),
         \A p \in 1..o + bs[f[o + 1].by].len : g[p] = f[p],
         \A a \in DOMAIN bs : a \in DOMAIN cs /\ cs[a] = bs[a]
  PROVE  WholeIn(cs, g, o) /\ g[o + 1].by = f[o + 1].by /\ f[o + 1].by \in DOMAIN bs
<1> DEFINE a == f[o + 1].by
<1> DEFINE n == bs[a].len
<1>1. o < Len(f) /\ o + 1 \in 1..Len(f)
  BY DEF WholeIn, Good
<1>2. a \in DOMAIN bs /\ n \in 2..BlockMax
  BY <1>1, LenRange DEF Good
<1>3. BlockMax \in Nat
  BY SizesAssumption
<1>4. g[o + 1] = f[o + 1]
  <2>1. o + 1 \in 1..o + n
    BY <1>2, <1>3
  <2> QED BY <2>1
<1>5. cs[a].len = n
  BY <1>2
<1>6. \A k \in 0..n - 1 : g[o + 1 + k] = Cell(a, k)
  <2> TAKE k \in 0..n - 1
  <2>0. k \in Nat /\ k <= n - 1 /\ n \in Nat
    BY <1>2, <1>3
  <2>1. o + 1 + k \in 1..o + n
    <3> HIDE DEF n
    <3> QED BY <2>0
  <2>2. g[o + 1 + k] = f[o + 1 + k]
    BY <2>1
  <2>3. f[o + 1 + k] = Cell(a, k)
    BY DEF WholeIn
  <2> QED BY <2>2, <2>3
<1>7. o < Len(g) /\ g[o + 1].nth = 0
  <2>1. f[o + 1].nth = 0
    BY DEF WholeIn
  <2>2. o + n <= Len(g) /\ Len(g) \in Nat
    BY DEF Good
  <2> QED BY <2>1, <2>2, <1>2, <1>3, <1>4
<1> QED BY <1>2, <1>4, <1>5, <1>6, <1>7 DEF WholeIn

\* The anchor stays when the cells before it do and little comes behind it.
LEMMA AnchorKept ==
  ASSUME NEW bs, NEW cs, NEW f, NEW g, NEW s \in Nat, Good(bs, f), Good(cs, g),
         Anchor(bs, f, s), s <= Len(g), Len(g) <= s + BlockMax,
         \A p \in 1..s : g[p] = f[p],
         \A a \in DOMAIN bs : a \in DOMAIN cs /\ cs[a] = bs[a]
  PROVE  Anchor(cs, g, s)
<1>1. CASE s = 0
  BY <1>1 DEF Anchor
<1>2. CASE s # 0
  <2>1. PICK o \in Nat : WholeIn(bs, f, o) /\ s = o + bs[f[o + 1].by].len
    BY <1>2 DEF Anchor
  <2>2. WholeIn(cs, g, o) /\ g[o + 1].by = f[o + 1].by /\ f[o + 1].by \in DOMAIN bs
    <3>1. /\ o + bs[f[o + 1].by].len <= Len(g)
          /\ \A p \in 1..o + bs[f[o + 1].by].len : g[p] = f[p]
      BY <2>1
    <3> QED BY <2>1, <3>1, WholeKept
  <2>3. s = o + cs[g[o + 1].by].len
    BY <2>1, <2>2
  <2> QED BY <2>2, <2>3 DEF Anchor
<1> QED BY <1>1, <1>2

\* A block that is written to its end is whole, and the next anchor is behind it.
LEMMA AnchorMoves ==
  ASSUME NEW bs, NEW f, NEW s \in Nat, NEW a \in DOMAIN bs, Good(bs, f),
         Anchor(bs, f, s), Begun(f, s, a, bs[a].len)
  PROVE  Anchor(bs, f, s + bs[a].len)
<1> DEFINE n == bs[a].len
<1>1. n \in 2..BlockMax /\ BlockMax \in Nat /\ Len(f) \in Nat
  BY LenRange, SizesAssumption DEF Good
<1>2. s + n <= Len(f) /\ \A j \in 0..n - 1 : f[s + 1 + j] = Cell(a, j)
  BY DEF Begun
<1>3. f[s + 1] = Cell(a, 0)
  <2>1. f[s + 1 + 0] = Cell(a, 0)
    BY <1>1, <1>2
  <2> QED BY <2>1
<1>4. f[s + 1].by = a /\ f[s + 1].nth = 0
  BY <1>3 DEF Cell
<1> HIDE DEF n
<1>5. s < Len(f)
  BY <1>1, <1>2
<1>6. n = bs[a].len
  BY DEF n
<1>7. WholeIn(bs, f, s)
  BY <1>2, <1>4, <1>5, <1>6 DEF WholeIn
<1>8. Len(f) <= s + BlockMax
  BY DEF Anchor
<1>9. Len(f) <= (s + n) + BlockMax
  BY <1>8, <1>1
<1> QED BY <1>2, <1>4, <1>6, <1>7, <1>9 DEF Anchor
-----------------------------------------------------------------------------
\* A set of offsets of a file has a last one.
LEMMA LastOffset ==
  ASSUME NEW n \in Nat, NEW S \in SUBSET (0..n), S # {}
  PROVE  \E o \in S : \A p \in S : p <= o
<1> DEFINE D == {d \in 0..n : n - d \in S}
<1>1. D \subseteq Nat /\ D # {}
  <2>1. PICK o \in S : o \in 0..n
    OBVIOUS
  <2>2. n - o \in 0..n /\ n - (n - o) = o
    BY <2>1
  <2> QED BY <2>1, <2>2
<1>2. PICK d \in D : \A e \in D : ~ (<<e, d>> \in OpToRel(<, Nat))
  BY <1>1, NatLessThanWellFounded, WFMin
<1>3. \A e \in D : d <= e
  <2> TAKE e \in D
  <2>1. e \in Nat /\ d \in Nat
    OBVIOUS
  <2>2. ~ (e < d)
    BY <1>2, <2>1 DEF OpToRel
  <2> QED BY <2>1, <2>2
<1>4. n - d \in S
  OBVIOUS
<1>5. \A p \in S : p <= n - d
  <2> TAKE p \in S
  <2>1. p \in 0..n
    OBVIOUS
  <2>2. n - p \in 0..n /\ n - (n - p) = p
    BY <2>1
  <2>3. n - p \in D
    BY <2>1, <2>2
  <2>4. d <= n - p /\ d \in Nat
    BY <1>3, <2>3
  <2> QED BY <2>4, <2>1
<1> QED BY <1>4, <1>5

\* WholeIn is Whole.
LEMMA WholeIsWholeIn == \A f, o : Whole(f, o) <=> WholeIn(blocks, f, o)
BY DEF Whole, WholeIn

\* Low is an offset of the file.
LEMMA LowRange ==
  ASSUME NEW f \in Seq(CellSet)
  PROVE  Low(f) \in 0..Len(f)
BY SizesAssumption DEF Low

\* What the search of check_and_repaire finds is the last whole block of the part it searches; it
\* finds none only if there is none.
LEMMA EndBlockIsLast ==
  ASSUME NEW f \in Seq(CellSet)
  PROVE  /\ \A o \in EndBlock(f) :
              /\ o \in Low(f)..Len(f) - 1 /\ WholeIn(blocks, f, o)
              /\ \A p \in Low(f)..Len(f) - 1 : WholeIn(blocks, f, p) => p <= o
         /\ EndBlock(f) = {} => \A p \in Low(f)..Len(f) - 1 : ~WholeIn(blocks, f, p)
<1> DEFINE good == {o \in Low(f)..Len(f) - 1 : Whole(f, o)}
<1> DEFINE last == CHOOSE o \in good : \A p \in good : p <= o
<1>1. EndBlock(f) = IF good = {} THEN good ELSE {last}
  BY DEF EndBlock
<1>2. good \in SUBSET (0..Len(f)) /\ Len(f) \in Nat
  BY LowRange
<1>3. \A p \in Low(f)..Len(f) - 1 : WholeIn(blocks, f, p) <=> p \in good
  BY WholeIsWholeIn
<1>4. CASE good = {}
  BY <1>1, <1>3, <1>4
<1>5. CASE good # {}
  <2> HIDE DEF good
  <2>1. \E o \in good : \A p \in good : p <= o
    BY <1>2, <1>5, LastOffset
  <2>2. last \in good /\ \A p \in good : p <= last
    BY <2>1
  <2> HIDE DEF last
  <2>3. EndBlock(f) = {last}
    BY <1>1, <1>5
  <2>4. \A o \in good : o \in Low(f)..Len(f) - 1
    BY DEF good
  <2> QED BY <1>3, <2>2, <2>3, <2>4
<1> QED BY <1>4, <1>5

\* The search goes back over two block lengths: behind the last anchor there is less than one, and
\* the block that ends there is not longer than one.
LEMMA SearchFinds ==
  ASSUME NEW bs, NEW f, NEW s \in Nat, Good(bs, f), Anchor(bs, f, s), s # 0
  PROVE  \E o \in Low(f)..Len(f) - 1 : WholeIn(bs, f, o)
<1>1. PICK o \in Nat : WholeIn(bs, f, o) /\ s = o + bs[f[o + 1].by].len
  BY DEF Anchor
<1> DEFINE n == bs[f[o + 1].by].len
<1>2. Len(f) \in Nat /\ BlockMax \in Nat /\ o < Len(f)
  BY <1>1, SizesAssumption DEF WholeIn, Good
<1>3. o + 1 \in 1..Len(f)
  BY <1>2
<1>4. f[o + 1].by \in DOMAIN bs
  BY <1>3 DEF Good
<1>5. n \in 2..BlockMax
  BY <1>4, LenRange DEF Good
<1>6. Len(f) <= s + BlockMax
  BY DEF Anchor
<1>7. s = o + n
  BY <1>1
<1> HIDE DEF n
<1>8. Low(f) <= o
  BY <1>2, <1>5, <1>6, <1>7 DEF Low
<1>9. Low(f) \in Nat
  BY LowRange DEF Good
<1> QED BY <1>1, <1>2, <1>8, <1>9

\* No block begins inside a whole one, so the last whole block does not end before the anchor.
LEMMA LastIsAnchor ==
  ASSUME NEW bs, NEW f, NEW s \in Nat, Good(bs, f), Anchor(bs, f, s),
         NEW o \in Low(f)..Len(f) - 1, WholeIn(bs, f, o),
         \A p \in Low(f)..Len(f) - 1 : WholeIn(bs, f, p) => p <= o
  PROVE  Anchor(bs, f, o + bs[f[o + 1].by].len)
<1> DEFINE n == bs[f[o + 1].by].len
<1>1. Len(f) \in Nat /\ BlockMax \in Nat /\ Low(f) \in Nat
  BY LowRange, SizesAssumption DEF Good
<1>2. o \in Nat /\ o < Len(f) /\ o + 1 \in 1..Len(f)
  BY <1>1
<1>3. n \in 2..BlockMax
  BY <1>2, LenRange DEF Good
<1>4. o + n <= Len(f)
  BY DEF WholeIn
<1>5. Len(f) <= s + BlockMax /\ s <= Len(f)
  BY DEF Anchor
<1>6. s <= o + n
  <2>1. CASE s = 0
    <3> HIDE DEF n
    <3> QED BY <2>1, <1>2, <1>3
  <2>2. CASE s # 0
    <3>1. PICK q \in Nat : WholeIn(bs, f, q) /\ s = q + bs[f[q + 1].by].len
      BY <2>2 DEF Anchor
    <3> DEFINE m == bs[f[q + 1].by].len
    <3>2. q < Len(f)
      BY <3>1 DEF WholeIn
    <3>3. q + 1 \in 1..Len(f)
      BY <3>2, <1>1
    <3>4. m \in 2..BlockMax /\ s = q + m
      BY <3>1, <3>3, LenRange DEF Good
    <3>5. Low(f) <= q
      <4> HIDE DEF m
      <4> QED BY <3>4, <1>1, <1>5 DEF Low
    <3>6. q <= o
      BY <3>1, <3>2, <3>5, <1>1
    <3>7. CASE q = o
      BY <3>1, <3>7, <1>1, <1>2, <1>3
    <3>8. CASE q < o
      <4>1. ~ (o < q + m)
        <5> SUFFICES ASSUME o < q + m PROVE FALSE
          OBVIOUS
        <5> DEFINE j == o - q
        <5>1. j \in 0..m - 1 /\ j # 0 /\ q + 1 + j = o + 1
          <6> HIDE DEF m
          <6> QED BY <3>4, <3>8, <1>2, <1>1
        <5>2. f[q + 1 + j] = Cell(f[q + 1].by, j)
          BY <3>1, <5>1 DEF WholeIn
        <5>3. f[o + 1].nth = j
          BY <5>1, <5>2 DEF Cell
        <5>4. f[o + 1].nth = 0
          BY DEF WholeIn
        <5> QED BY <5>1, <5>3, <5>4
      <4> HIDE DEF m, n
      <4> QED BY <4>1, <3>4, <1>1, <1>2, <1>3
    <3> QED BY <3>6, <3>7, <3>8, <1>2
  <2> QED BY <2>1, <2>2
<1>7. Len(f) <= (o + n) + BlockMax
  <2> HIDE DEF n
  <2> QED BY <1>1, <1>2, <1>3, <1>5, <1>6
<1> QED BY <1>2, <1>4, <1>7 DEF Anchor
-----------------------------------------------------------------------------
\* The newest file is a file, and names blocks.
LEMMA NewestGood ==
  ASSUME NEW fs \in Seq(Seq(CellSet)), fs # <<>>, NEW bs \in Seq(BlockSet),
         \A i \in DOMAIN fs : \A p \in DOMAIN fs[i] : fs[i][p].by \in DOMAIN bs
  PROVE  /\ Len(fs) \in DOMAIN fs /\ \A i \in DOMAIN fs : Good(bs, fs[i])
         /\ fs[Len(fs)] \in Seq(CellSet) /\ Good(bs, fs[Len(fs)])
<1>1. Len(fs) \in DOMAIN fs
  OBVIOUS
<1>2. ASSUME NEW i \in DOMAIN fs PROVE Good(bs, fs[i])
  <2>1. fs[i] \in Seq(CellSet)
    OBVIOUS
  <2>2. DOMAIN fs[i] = 1..Len(fs[i])
    BY <2>1
  <2> QED BY <2>1, <2>2 DEF Good
<1> QED BY <1>1, <1>2 DEF Good

\* The same of the files as they are.
LEMMA TipGood ==
  ASSUME Types
  PROVE  Good(blocks, Tip) /\ Len(files) \in DOMAIN files /\ Tip \in Seq(CellSet)
BY NewestGood DEF Types, Tip

\* The reader, and its seeks, leave the files and the writer alone.
LEMMA ReaderLeaves ==
  /\ Reading => UNCHANGED wVars /\ UNCHANGED seeks
  /\ Seeking => UNCHANGED wVars /\ seeks' = seeks + 1
<1>1. Reading => UNCHANGED wVars /\ UNCHANGED seeks
  BY DEF Reading, Idle, LeaveFile, ReadHead, DieAtHead, ReadBody, DieAtId, Return, Suicide, wVars
<1>2. ASSUME NEW f, NEW o, NEW i, SeekTo(f, o, i)
      PROVE  UNCHANGED wVars /\ seeks' = seeks + 1
  BY <1>2 DEF SeekTo, wVars
<1>3. ASSUME NEW n, NEW id, SeekBlock(n, id)
      PROVE  UNCHANGED wVars /\ seeks' = seeks + 1
  BY <1>3, <1>2 DEF SeekBlock
<1>4. Seeking => UNCHANGED wVars /\ seeks' = seeks + 1
  BY <1>2, <1>3 DEF Seeking, ReaderRestart, Resume, RollBack
<1> QED BY <1>1, <1>4

\* Enough to know where the search of check_and_repaire ends.
TailInv == Types /\ Anchored

\* In the first state nothing is written.
LEMMA TailInit == Init => TailInv
<1> SUFFICES ASSUME Init PROVE TailInv
  OBVIOUS
<1>0. BlockMax \in Nat
  BY SizesAssumption
<1>1. Types
  BY DEF Init, Types
<1>2. Tip = <<>>
  BY DEF Init, Tip
<1>3. Anchored
  BY <1>2, <1>0 DEF Init, Anchored, Anchor
<1> QED BY <1>1, <1>3 DEF TailInv

\* Steps that leave the writer alone keep the invariant.
LEMMA TailKept ==
  ASSUME TailInv, UNCHANGED wVars, seeks' \in Nat
  PROVE  TailInv'
<1>1. Types'
  BY DEF TailInv, Types, wVars
<1>2. Anchored'
  BY DEF TailInv, Anchored, Tip, Done, wVars
<1> QED BY <1>1, <1>2 DEF TailInv

\* What BeginWrite does: one block more, and perhaps an empty file.
LEMMA BeginFacts ==
  ASSUME TailInv, NEW n \in Lens, BeginWrite(n)
  PROVE  /\ \/ files' = files /\ wpos' = wpos /\ wid' = wid
            \/ files' = Append(files, <<>>) /\ wpos' = 0 /\ wid' = 1 /\ Tip' = <<>>
               /\ Len(files') = Len(files) + 1 /\ Len(files') \notin DOMAIN files
         /\ files' \in Seq(Seq(CellSet)) /\ files' # <<>> /\ wid' \in Nat \ {0} /\ wpos' \in Nat
         /\ Len(files') \in DOMAIN files'
         /\ \A i \in DOMAIN files : i \in DOMAIN files' /\ files'[i] = files[i]
         /\ \A i \in DOMAIN files' : i \notin DOMAIN files => files'[i] = <<>>
         /\ blocks' \in Seq(BlockSet) /\ Len(blocks') = Len(blocks) + 1
         /\ blocks'[Len(blocks')] = [id |-> wid', file |-> Len(files'), len |-> n]
         /\ Len(blocks') \in DOMAIN blocks' /\ Len(blocks') \notin DOMAIN blocks
         /\ \A a \in DOMAIN blocks : a \in DOMAIN blocks' /\ blocks'[a] = blocks[a]
         /\ \A a \in DOMAIN blocks' : a \in DOMAIN blocks \/ a = Len(blocks')
         /\ wpc = "idle" /\ wpc' = "write" /\ wrest' = n /\ Done' = 0
         /\ UNCHANGED <<acked, deaths, torn, rVars>>
<1> DEFINE b == [id |-> wid', file |-> Len(files'), len |-> n]
<1>0. n \in 2..BlockMax /\ BlockMax \in Nat
  BY SizesAssumption
<1>1. /\ files \in Seq(Seq(CellSet)) /\ files # <<>> /\ wid \in Nat \ {0} /\ wpos \in Nat
      /\ blocks \in Seq(BlockSet) /\ <<>> \in Seq(CellSet)
  BY DEF TailInv, Types
<1>2. /\ wpc = "idle" /\ wpc' = "write" /\ wrest' = n /\ UNCHANGED <<acked, deaths, torn, rVars>>
      /\ blocks' = Append(blocks, b)
  BY DEF BeginWrite
<1>3. \/ files' = files /\ wpos' = wpos /\ wid' = wid
      \/ files' = Append(files, <<>>) /\ wpos' = 0 /\ wid' = 1
  BY DEF BeginWrite
<1>4. ASSUME files' = Append(files, <<>>)
      PROVE  /\ DOMAIN files' = 1..Len(files) + 1 /\ DOMAIN files = 1..Len(files) /\ Len(files) \in Nat
             /\ files'[Len(files) + 1] = <<>> /\ \A i \in 1..Len(files) : files'[i] = files[i]
             /\ Len(files') = Len(files) + 1 /\ files' \in Seq(Seq(CellSet)) /\ files' # <<>>
             /\ Tip' = <<>> /\ Len(files') \notin DOMAIN files
  <2>1. /\ DOMAIN files' = 1..Len(files) + 1 /\ DOMAIN files = 1..Len(files) /\ Len(files) \in Nat
        /\ files'[Len(files) + 1] = <<>> /\ \A i \in 1..Len(files) : files'[i] = files[i]
        /\ Len(files') = Len(files) + 1 /\ files' \in Seq(Seq(CellSet)) /\ files' # <<>>
    BY <1>1, <1>4
  <2>2. Len(files') \notin DOMAIN files
    BY <2>1
  <2> QED BY <2>1, <2>2 DEF Tip
<1>5. /\ files' \in Seq(Seq(CellSet)) /\ files' # <<>> /\ wid' \in Nat \ {0} /\ wpos' \in Nat
      /\ Len(files') \in DOMAIN files' /\ Len(files') \in Nat
      /\ \A i \in DOMAIN files : i \in DOMAIN files' /\ files'[i] = files[i]
      /\ \A i \in DOMAIN files' : i \notin DOMAIN files => files'[i] = <<>>
  <2>1. CASE files' = files /\ wpos' = wpos /\ wid' = wid
    <3>1. Len(files') \in DOMAIN files' /\ Len(files') \in Nat
      BY <1>1, <2>1
    <3> QED BY <3>1, <1>1, <2>1
  <2>2. CASE files' = Append(files, <<>>) /\ wpos' = 0 /\ wid' = 1
    <3>1. /\ \A i \in DOMAIN files' : i \in DOMAIN files \/ i = Len(files) + 1
          /\ \A i \in DOMAIN files : i \in DOMAIN files' /\ i \in 1..Len(files)
          /\ Len(files') \in DOMAIN files' /\ Len(files') \in Nat
      BY <1>4, <2>2
    <3>2. wid' \in Nat \ {0} /\ wpos' \in Nat
      BY <2>2
    <3> QED BY <3>1, <3>2, <1>4, <2>2
  <2> QED BY <2>1, <2>2, <1>3
<1>6. /\ blocks' \in Seq(BlockSet) /\ Len(blocks') = Len(blocks) + 1
      /\ DOMAIN blocks' = 1..Len(blocks) + 1 /\ DOMAIN blocks = 1..Len(blocks) /\ Len(blocks) \in Nat
      /\ blocks'[Len(blocks')] = b /\ \A a \in DOMAIN blocks : blocks'[a] = blocks[a]
  <2>1. b \in BlockSet
    BY <1>5 DEF BlockSet
  <2> HIDE DEF b
  <2> QED BY <2>1, <1>1, <1>2
<1>7. Done' = 0
  <2>1. blocks'[Len(blocks')].len = n
    BY <1>6
  <2> QED BY <2>1, <1>0, <1>2 DEF Done
<1>8. /\ Len(blocks') \in DOMAIN blocks' /\ Len(blocks') \notin DOMAIN blocks
      /\ \A a \in DOMAIN blocks : a \in DOMAIN blocks'
      /\ \A a \in DOMAIN blocks' : a \in DOMAIN blocks \/ a = Len(blocks')
  BY <1>6
<1>9. \/ files' = files /\ wpos' = wpos /\ wid' = wid
      \/ files' = Append(files, <<>>) /\ wpos' = 0 /\ wid' = 1 /\ Tip' = <<>>
         /\ Len(files') = Len(files) + 1 /\ Len(files') \notin DOMAIN files
  BY <1>3, <1>4
<1> QED BY <1>2, <1>5, <1>6, <1>7, <1>8, <1>9

\* write_message, up to writev.
LEMMA TailBegin ==
  ASSUME TailInv, NEW n \in Lens, BeginWrite(n)
  PROVE  TailInv'
<1>0. n \in 2..BlockMax /\ BlockMax \in Nat
  BY SizesAssumption
<1>1. Types /\ Anchor(blocks, Tip, wpos) /\ wpc = "idle"
  BY DEF TailInv, Anchored, BeginWrite
<1>2. /\ files' \in Seq(Seq(CellSet)) /\ files' # <<>> /\ wid' \in Nat \ {0} /\ wpos' \in Nat
      /\ Len(files') \in DOMAIN files'
      /\ \A i \in DOMAIN files : i \in DOMAIN files' /\ files'[i] = files[i]
      /\ \A i \in DOMAIN files' : i \notin DOMAIN files => files'[i] = <<>>
  BY BeginFacts
<1>3. /\ blocks' \in Seq(BlockSet) /\ Len(blocks') \in DOMAIN blocks'
      /\ blocks'[Len(blocks')] = [id |-> wid', file |-> Len(files'), len |-> n]
      /\ \A a \in DOMAIN blocks : a \in DOMAIN blocks' /\ blocks'[a] = blocks[a]
      /\ \A a \in DOMAIN blocks' : a \in DOMAIN blocks \/ a = Len(blocks')
  BY BeginFacts
<1>4. wpc' = "write" /\ wrest' = n /\ Done' = 0 /\ UNCHANGED <<acked, seeks>>
  BY BeginFacts DEF rVars
<1>5. \A a \in DOMAIN blocks' : blocks'[a].file \in DOMAIN files'
  <2> TAKE a \in DOMAIN blocks'
  <2>1. CASE a \in DOMAIN blocks
    BY <2>1, <1>1, <1>2, <1>3 DEF Types
  <2>2. CASE a = Len(blocks')
    BY <2>2, <1>2, <1>3
  <2> QED BY <2>1, <2>2, <1>3
<1>6. \A i \in DOMAIN files' : \A p \in DOMAIN files'[i] : files'[i][p].by \in DOMAIN blocks'
  <2> TAKE i \in DOMAIN files'
  <2>1. CASE i \notin DOMAIN files
    BY <2>1, <1>2
  <2>2. CASE i \in DOMAIN files
    BY <2>2, <1>1, <1>2, <1>3 DEF Types
  <2> QED BY <2>1, <2>2
<1>7. Types'
  <2>1. blocks' # <<>> /\ wrest' <= blocks'[Len(blocks')].len /\ wrest' \in Nat
    BY <1>0, <1>3, <1>4
  <2>2. acked' \subseteq DOMAIN blocks' /\ seeks' \in Nat
    BY <1>1, <1>3, <1>4 DEF Types
  <2>3. wpc' \in {"idle", "write", "down", "failed"}
    BY <1>4
  <2> QED BY <1>2, <1>3, <1>5, <1>6, <2>1, <2>2, <2>3 DEF Types
<1>8. Tip' \in Seq(CellSet) /\ Good(blocks', Tip')
  BY <1>7, NewestGood DEF Types, Tip
<1>9. Anchor(blocks', Tip', wpos')
  <2>1. CASE files' = files /\ wpos' = wpos
    <3>1. Tip' = Tip
      BY <2>1 DEF Tip
    <3>2. Good(blocks, Tip) /\ wpos \in Nat
      BY <1>1, TipGood DEF Types
    <3>3. wpos <= Len(Tip') /\ Len(Tip') <= wpos + BlockMax
      BY <1>1, <3>1 DEF Anchor
    <3> QED BY <1>1, <1>3, <1>8, <3>1, <3>2, <3>3, <2>1, AnchorKept
  <2>2. CASE Tip' = <<>> /\ wpos' = 0
    BY <2>2, <1>0 DEF Anchor
  <2> QED BY <2>1, <2>2, BeginFacts
<1>10. Begun(Tip', wpos', Len(blocks'), 0)
  BY <1>2, <1>8, <1>9 DEF Begun, Anchor
<1>11. Anchored'
  BY <1>2, <1>4, <1>9, <1>10 DEF Anchored
<1> QED BY <1>7, <1>11 DEF TailInv

-----------------------------------------------------------------------------
\* One file is replaced; the others stay.
LEMMA ReplaceFile ==
  ASSUME NEW fs \in Seq(Seq(CellSet)), fs # <<>>, NEW g \in Seq(CellSet)
  PROVE  /\ [fs EXCEPT ![Len(fs)] = g] \in Seq(Seq(CellSet))
         /\ [fs EXCEPT ![Len(fs)] = g] # <<>>
         /\ Len([fs EXCEPT ![Len(fs)] = g]) = Len(fs)
         /\ DOMAIN [fs EXCEPT ![Len(fs)] = g] = DOMAIN fs /\ Len(fs) \in DOMAIN fs
         /\ [fs EXCEPT ![Len(fs)] = g][Len(fs)] = g
         /\ \A i \in DOMAIN fs : i # Len(fs) => [fs EXCEPT ![Len(fs)] = g][i] = fs[i]
OBVIOUS

\* The block that is being written: its cell that comes next.
LEMMA CellNow ==
  ASSUME TailInv, wpc = "write"
  PROVE  /\ Len(blocks) \in DOMAIN blocks /\ blocks[Len(blocks)].len \in 2..BlockMax
         /\ Done \in Nat /\ Done + wrest = blocks[Len(blocks)].len
         /\ Cell(Len(blocks), Done) \in CellSet
<1>1. blocks \in Seq(BlockSet) /\ blocks # <<>> /\ wrest <= blocks[Len(blocks)].len /\ wrest \in Nat
  BY DEF TailInv, Types
<1>2. Len(blocks) \in DOMAIN blocks /\ Len(blocks) \in Nat
  BY <1>1
<1>3. blocks[Len(blocks)].len \in 2..BlockMax /\ BlockMax \in Nat
  BY <1>1, <1>2, LenRange, SizesAssumption
<1>4. Done \in Nat /\ Done + wrest = blocks[Len(blocks)].len
  <2> DEFINE m == blocks[Len(blocks)].len
  <2>1. Done = m - wrest
    BY DEF Done
  <2>2. wrest <= m /\ m \in 2..BlockMax
    BY <1>1, <1>3
  <2> HIDE DEF m
  <2>3. m - wrest \in Nat /\ (m - wrest) + wrest = m
    BY <2>2, <1>1, <1>3
  <2> QED BY <2>1, <2>3 DEF m
<1> QED BY <1>2, <1>3, <1>4 DEF Cell, CellSet

\* What WriteCell does to the newest file.
LEMMA CellWritten ==
  ASSUME TailInv, WriteCell, wpos <= Len(Tip)
  PROVE  /\ files' = [files EXCEPT ![Len(files)] = Put(Tip, wpos, Cell(Len(blocks), Done))]
         /\ Put(Tip, wpos, Cell(Len(blocks), Done)) \in Seq(CellSet)
         /\ Tip' = Put(Tip, wpos, Cell(Len(blocks), Done)) /\ Len(files') = Len(files)
         /\ Tip' \in Seq(CellSet)
         /\ Len(Tip') = IF wpos < Len(Tip) THEN Len(Tip) ELSE Len(Tip) + 1
         /\ \A p \in 1..Len(Tip') :
              Tip'[p] = IF p = wpos + 1 THEN Cell(Len(blocks), Done) ELSE Tip[p]
<1> DEFINE c == Cell(Len(blocks), Done)
<1> DEFINE g == Put(Tip, wpos, c)
<1>1. files' = [files EXCEPT ![Len(files)] = g]
  BY DEF WriteCell, NewestFile, Put, Tip, Done
<1>2. c \in CellSet
  BY CellNow DEF WriteCell
<1>3. Tip \in Seq(CellSet) /\ wpos \in Nat
  BY TipGood DEF TailInv, Types
<1>4. /\ g \in Seq(CellSet)
      /\ Len(g) = IF wpos < Len(Tip) THEN Len(Tip) ELSE Len(Tip) + 1
      /\ \A p \in 1..Len(g) : g[p] = IF p = wpos + 1 THEN c ELSE Tip[p]
  <2> HIDE DEF c
  <2> QED BY <1>2, <1>3, PutOne
<1> HIDE DEF g
<1>5. Tip' = g /\ Len(files') = Len(files)
  BY <1>1, <1>4, ReplaceFile DEF TailInv, Types, Tip
<1> QED BY <1>1, <1>4, <1>5 DEF g

\* One more cell of a block.
LEMMA TailCell ==
  ASSUME TailInv, WriteCell
  PROVE  TailInv'
<1> DEFINE a == Len(blocks)
<1>1. PICK s \in Nat : Anchor(blocks, Tip, s) /\ wpos = s + Done /\ Begun(Tip, s, a, Done)
  BY DEF TailInv, Anchored, WriteCell
<1>2. wpc = "write" /\ wrest > 0 /\ wrest \in Nat /\ wpos \in Nat /\ Len(Tip) \in Nat
  BY TipGood DEF WriteCell, TailInv, Types
<1>3. wpos <= Len(Tip)
  BY <1>1 DEF Begun
<1>4. /\ a \in DOMAIN blocks /\ blocks[a].len \in 2..BlockMax /\ BlockMax \in Nat
      /\ Done \in Nat /\ Done + wrest = blocks[a].len
  BY <1>2, CellNow, SizesAssumption
<1> DEFINE c == Cell(a, Done)
<1> DEFINE g == Put(Tip, wpos, c)
<1>5. /\ files' = [files EXCEPT ![Len(files)] = g] /\ g \in Seq(CellSet) /\ Tip' = g
      /\ Len(g) = IF wpos < Len(Tip) THEN Len(Tip) ELSE Len(Tip) + 1
      /\ \A p \in 1..Len(g) : g[p] = IF p = wpos + 1 THEN c ELSE Tip[p]
  BY <1>3, CellWritten
<1>6. /\ wpos' = wpos + 1 /\ wrest' = wrest - 1
      /\ UNCHANGED <<blocks, acked, wpc, wid, deaths, torn, seeks>>
  BY DEF WriteCell, rVars
<1> HIDE DEF g
<1>7. Types'
  <2>1. Types
    BY DEF TailInv
  <2>2. /\ files' \in Seq(Seq(CellSet)) /\ files' # <<>> /\ DOMAIN files' = DOMAIN files
        /\ files'[Len(files)] = g /\ \A i \in DOMAIN files : i # Len(files) => files'[i] = files[i]
    BY <2>1, <1>5, ReplaceFile DEF Types
  <2>3. \A p \in DOMAIN g : g[p].by \in DOMAIN blocks
    <3> TAKE p \in DOMAIN g
    <3>1. p \in 1..Len(g)
      BY <1>5
    <3>2. CASE p = wpos + 1
      BY <3>1, <3>2, <1>4, <1>5 DEF Cell
    <3>3. CASE p # wpos + 1
      <4>1. g[p] = Tip[p] /\ p \in 1..Len(Tip)
        BY <3>1, <3>3, <1>2, <1>3, <1>5
      <4> QED BY <4>1, <2>1, TipGood DEF Good
    <3> QED BY <3>2, <3>3
  <2>4. \A i \in DOMAIN files' : \A p \in DOMAIN files'[i] : files'[i][p].by \in DOMAIN blocks
    BY <2>1, <2>2, <2>3 DEF Types
  <2>5. wpos' \in Nat /\ wrest' \in Nat /\ wrest' <= blocks[a].len
    BY <1>2, <1>4, <1>6
  <2> QED BY <2>1, <2>2, <2>4, <2>5, <1>6 DEF Types
<1>8. Done' = Done + 1
  BY <1>2, <1>4, <1>6 DEF Done
<1>9. Good(blocks, Tip) /\ Good(blocks', Tip')
  <2>1. Good(blocks, Tip)
    BY TipGood DEF TailInv
  <2>2. Good(blocks', Tip')
    BY <1>7, NewestGood DEF Types, Tip
  <2> QED BY <2>1, <2>2
<1>10. s + Done < s + blocks[a].len
  BY <1>2, <1>4
<1>11. Len(Tip') <= s + BlockMax /\ s <= Len(Tip') /\ s + (Done + 1) <= Len(Tip') /\ Len(Tip') \in Nat
  <2>1. Len(Tip) <= s + BlockMax
    BY <1>1 DEF Anchor
  <2>2. s + Done + 1 <= s + BlockMax
    BY <1>4, <1>10
  <2>3. Len(Tip') = IF wpos < Len(Tip) THEN Len(Tip) ELSE Len(Tip) + 1
    BY <1>5
  <2>4. /\ s \in Nat /\ Done \in Nat /\ BlockMax \in Nat /\ Len(Tip) \in Nat
        /\ wpos = s + Done /\ s + Done <= Len(Tip)
    BY <1>1, <1>2, <1>3, <1>4
  <2>5. Len(Tip') \in Nat /\ s <= Len(Tip')
    BY <2>3, <2>4
  <2>6. s + (Done + 1) <= Len(Tip')
    BY <2>3, <2>4
  <2>7. Len(Tip') <= s + BlockMax
    BY <2>1, <2>2, <2>3, <2>4
  <2> QED BY <2>5, <2>6, <2>7
<1>12. \A p \in 1..s : Tip'[p] = Tip[p]
  <2> TAKE p \in 1..s
  <2>1. p \in 1..Len(g) /\ p # wpos + 1
    BY <1>1, <1>4, <1>5, <1>11
  <2> QED BY <2>1, <1>5
<1>13. Anchor(blocks', Tip', s)
  BY <1>1, <1>6, <1>9, <1>11, <1>12, AnchorKept
<1>14. Begun(Tip', s, a, Done + 1)
  <2>1. \A j \in 0..Done : Tip'[s + 1 + j] = Cell(a, j)
    <3> TAKE j \in 0..Done
    <3>1. s + 1 + j \in 1..Len(g)
      BY <1>4, <1>5, <1>11
    <3>2. CASE j = Done
      <4>1. s + 1 + j = wpos + 1
        BY <3>2, <1>1, <1>4
      <4> QED BY <4>1, <3>1, <3>2, <1>5
    <3>3. CASE j # Done
      <4>1. s + 1 + j # wpos + 1 /\ j \in 0..Done - 1
        BY <3>3, <1>1, <1>4
      <4>2. Tip[s + 1 + j] = Cell(a, j)
        BY <4>1, <1>1 DEF Begun
      <4> QED BY <4>1, <4>2, <3>1, <1>5
    <3> QED BY <3>2, <3>3
  <2>2. (Done + 1) - 1 = Done
    BY <1>4
  <2> QED BY <2>1, <2>2, <1>11 DEF Begun
<1>15. wpos' = s + (Done + 1)
  BY <1>1, <1>4, <1>6
<1>16. Anchored'
  <2>1. Len(blocks') = a /\ wpc' = "write"
    BY <1>2, <1>6
  <2> QED BY <2>1, <1>8, <1>13, <1>14, <1>15 DEF Anchored
<1> QED BY <1>7, <1>16 DEF TailInv

\* The block is complete.
LEMMA TailEnd ==
  ASSUME TailInv, EndWrite
  PROVE  TailInv'
<1> DEFINE a == Len(blocks)
<1>1. PICK s \in Nat : Anchor(blocks, Tip, s) /\ wpos = s + Done /\ Begun(Tip, s, a, Done)
  BY DEF TailInv, Anchored, EndWrite
<1>2. wpc = "write" /\ wrest = 0
  BY DEF EndWrite
<1>3. a \in DOMAIN blocks /\ Done \in Nat /\ Done + wrest = blocks[a].len
  BY <1>2, CellNow
<1>4. Done = blocks[a].len
  BY <1>2, <1>3
<1>5. Anchor(blocks, Tip, wpos)
  <2>1. Good(blocks, Tip)
    BY TipGood DEF TailInv
  <2> QED BY <2>1, <1>1, <1>3, <1>4, AnchorMoves
<1>6. /\ wpc' = "idle" /\ wid' = wid + 1 /\ acked' = acked \cup {a}
      /\ UNCHANGED <<files, blocks, wpos, wrest, seeks>>
  BY DEF EndWrite, rVars
<1>7. Types'
  <2>1. wid' \in Nat \ {0}
    BY <1>6 DEF TailInv, Types
  <2>2. acked' \subseteq DOMAIN blocks
    BY <1>3, <1>6 DEF TailInv, Types
  <2> QED BY <2>1, <2>2, <1>6 DEF TailInv, Types
<1>8. Tip' = Tip
  BY <1>6 DEF Tip
<1> QED BY <1>5, <1>6, <1>7, <1>8 DEF Anchored, TailInv

\* A death leaves the file as it is.
LEMMA TailDies ==
  ASSUME TailInv, WriterDies
  PROVE  TailInv'
<1>1. wpc' = "down" /\ wrest' = 0 /\ UNCHANGED <<files, blocks, acked, wpos, wid, seeks>>
  BY DEF WriterDies, rVars
<1>2. \E s \in Nat : Anchor(blocks, Tip, s)
  <2>1. wpos \in Nat
    BY DEF TailInv, Types
  <2> QED BY <2>1 DEF TailInv, Anchored, WriterDies
<1>3. Tip' = Tip
  BY <1>1 DEF Tip
<1>4. Types'
  BY <1>1 DEF TailInv, Types
<1> QED BY <1>1, <1>2, <1>3, <1>4 DEF Anchored, TailInv
-----------------------------------------------------------------------------
\* The three ends of check_and_repaire.
LEMMA RepairCases ==
  ASSUME Repair
  PROVE  /\ wpc = "down" /\ UNCHANGED <<blocks, acked, wrest, deaths, torn, rVars>>
         /\ \/ /\ Len(Tip) <= 1 \/ (EndBlock(Tip) = {} /\ Low(Tip) = 0)
               /\ files' = [files EXCEPT ![Len(files)] = <<>>]
               /\ wpos' = 0 /\ wid' = 1 /\ wpc' = "idle"
            \/ Len(Tip) > 1 /\ EndBlock(Tip) = {} /\ Low(Tip) > 0
            \/ /\ Len(Tip) > 1 /\ files' = files /\ wpc' = "idle"
               /\ \E o \in EndBlock(Tip) :
                    /\ wpos' = o + blocks[Tip[o + 1].by].len
                    /\ wid' = blocks[Tip[o + 1].by].id + 1
BY DEF Repair, Tip, NewestFile

\* The third end: the writer goes on behind the last good block.
LEMMA TailFound ==
  ASSUME TailInv, Repair, files' = files, wpc' = "idle", NEW o \in EndBlock(Tip),
         wpos' = o + blocks[Tip[o + 1].by].len, wid' = blocks[Tip[o + 1].by].id + 1
  PROVE  TailInv'
<1>1. UNCHANGED <<blocks, acked, wrest, seeks>> /\ wpc = "down"
  BY RepairCases DEF rVars
<1>2. PICK s \in Nat : Anchor(blocks, Tip, s)
  BY <1>1 DEF TailInv, Anchored
<1>3. Good(blocks, Tip) /\ Tip \in Seq(CellSet) /\ Types
  BY TipGood DEF TailInv
<1>4. /\ o \in Low(Tip)..Len(Tip) - 1 /\ WholeIn(blocks, Tip, o)
      /\ \A p \in Low(Tip)..Len(Tip) - 1 : WholeIn(blocks, Tip, p) => p <= o
  BY <1>3, EndBlockIsLast
<1>5. Anchor(blocks, Tip, wpos')
  BY <1>2, <1>3, <1>4, LastIsAnchor
<1>6. Len(Tip) \in Nat /\ Low(Tip) \in Nat
  BY <1>3, LowRange
<1>7. o \in Nat /\ o + 1 \in 1..Len(Tip)
  BY <1>4, <1>6
<1> DEFINE a == Tip[o + 1].by
<1>8. a \in DOMAIN blocks
  BY <1>3, <1>7 DEF Good
<1>9. blocks[a].len \in 2..BlockMax /\ BlockMax \in Nat /\ blocks[a].id \in Nat \ {0}
  <2>1. blocks[a] \in BlockSet
    BY <1>3, <1>8 DEF Types
  <2> QED BY <2>1, <1>3, <1>8, LenRange, SizesAssumption DEF Types, BlockSet
<1>10. wpos' \in Nat /\ wid' \in Nat \ {0}
  <2> DEFINE m == blocks[a].len
  <2> DEFINE i == blocks[a].id
  <2>1. wpos' = o + m /\ wid' = i + 1 /\ m \in 2..BlockMax /\ i \in Nat \ {0}
    BY <1>9
  <2> HIDE DEF m, i
  <2>2. wpos' \in Nat
    BY <2>1, <1>7, <1>9
  <2> QED BY <2>1, <2>2
<1>11. Types'
  BY <1>1, <1>3, <1>10 DEF Types
<1>12. Tip' = Tip
  BY DEF Tip
<1>13. Anchored'
  BY <1>1, <1>5, <1>12 DEF Anchored
<1> QED BY <1>11, <1>13 DEF TailInv

\* The repair of a file finds a good block or may empty the file.
LEMMA TailRepair ==
  ASSUME TailInv, Repair
  PROVE  TailInv'
<1>1. UNCHANGED <<blocks, acked, wrest, seeks>> /\ wpc = "down"
  BY RepairCases DEF rVars
<1>2. PICK s \in Nat : Anchor(blocks, Tip, s)
  BY <1>1 DEF TailInv, Anchored
<1>3. Good(blocks, Tip) /\ Tip \in Seq(CellSet) /\ Types /\ BlockMax \in Nat
  BY TipGood, SizesAssumption DEF TailInv
<1>4. CASE /\ files' = [files EXCEPT ![Len(files)] = <<>>]
           /\ wpos' = 0 /\ wid' = 1 /\ wpc' = "idle"
  <2>0. <<>> \in Seq(CellSet)
    OBVIOUS
  <2>1. /\ files' \in Seq(Seq(CellSet)) /\ files' # <<>> /\ DOMAIN files' = DOMAIN files
        /\ Len(files') = Len(files) /\ files'[Len(files)] = <<>>
        /\ \A i \in DOMAIN files : i # Len(files) => files'[i] = files[i]
    BY <1>3, <1>4, <2>0, ReplaceFile DEF Types
  <2>2. \A i \in DOMAIN files' : \A p \in DOMAIN files'[i] : files'[i][p].by \in DOMAIN blocks
    <3> TAKE i \in DOMAIN files'
    <3>1. CASE i = Len(files)
      BY <3>1, <2>1
    <3>2. CASE i # Len(files)
      BY <3>2, <2>1, <1>3 DEF Types
    <3> QED BY <3>1, <3>2
  <2>3. Types'
    BY <1>1, <1>3, <1>4, <2>1, <2>2 DEF Types
  <2>4. Tip' = <<>>
    BY <2>1 DEF Tip
  <2>5. Anchored'
    BY <1>3, <1>4, <2>4 DEF Anchored, Anchor
  <2> QED BY <2>3, <2>5 DEF TailInv
<1>5. CASE Len(Tip) > 1 /\ EndBlock(Tip) = {} /\ Low(Tip) > 0
  <2>1. \A p \in Low(Tip)..Len(Tip) - 1 : ~WholeIn(blocks, Tip, p)
    BY <1>3, <1>5, EndBlockIsLast
  <2>2. s = 0
    BY <2>1, <1>2, <1>3, SearchFinds
  <2>3. Len(Tip) <= BlockMax /\ Len(Tip) \in Nat
    BY <2>2, <1>2, <1>3 DEF Anchor
  <2>4. Low(Tip) = 0
    BY <2>3, <1>3, <1>5 DEF Low
  <2> QED BY <2>4, <1>5
<1>6. CASE /\ files' = files /\ wpc' = "idle"
           /\ \E o \in EndBlock(Tip) :
                /\ wpos' = o + blocks[Tip[o + 1].by].len
                /\ wid' = blocks[Tip[o + 1].by].id + 1
  BY <1>6, TailFound
<1> QED BY <1>4, <1>5, <1>6, RepairCases

\* Every step keeps the invariant.
LEMMA TailStep ==
  ASSUME TailInv, [Next]_vars
  PROVE  TailInv'
<1>0. seeks \in Nat
  BY DEF TailInv, Types
<1>1. CASE UNCHANGED vars
  BY <1>0, <1>1, TailKept DEF vars, rVars
<1>2. CASE Reading
  BY <1>0, <1>2, ReaderLeaves, TailKept
<1>3. CASE Seeking
  <2>1. UNCHANGED wVars /\ seeks' \in Nat
    BY <1>0, <1>3, ReaderLeaves
  <2> QED BY <2>1, TailKept
<1> QED BY <1>1, <1>2, <1>3, TailBegin, TailCell, TailEnd, TailDies, TailRepair DEF Next, Writing

\* The queue server can always be started again: for every length of blocks and files, any number of
\* messages and of deaths in the middle of a block, the search of check_and_repaire over the last two
\* block lengths finds a good block in a file that is longer.
THEOREM RepairAlwaysFinds == Spec => []RepairFinds
<1>1. Init => TailInv
  BY TailInit
<1>2. TailInv /\ [Next]_vars => TailInv'
  BY TailStep
<1>3. TailInv => RepairFinds
  BY DEF TailInv, Anchored, RepairFinds
<1> QED BY <1>1, <1>2, <1>3, PTL DEF Spec
-----------------------------------------------------------------------------
\* Later blocks change nothing for what is in a file.
LEMMA SameBoundary ==
  ASSUME NEW bs, NEW cs, NEW f, Good(bs, f),
         \A a \in DOMAIN bs : a \in DOMAIN cs /\ cs[a] = bs[a], NEW p \in 0..Len(f)
  PROVE  /\ Boundary(cs, f, p) <=> Boundary(bs, f, p)
         /\ LastId(cs, f, p) = LastId(bs, f, p)
<1>1. CASE p = 0
  BY <1>1 DEF Boundary, LastId
<1>2. CASE p # 0
  <2>1. p \in 1..Len(f)
    BY <1>2 DEF Good
  <2>2. cs[f[p].by] = bs[f[p].by]
    BY <2>1 DEF Good
  <2> QED BY <1>2, <2>2 DEF Boundary, LastId
<1> QED BY <1>1, <1>2

\* A file stays a row of blocks when write_message starts a block.
LEMMA LinkedBlocks ==
  ASSUME NEW bs, NEW cs, NEW f, NEW i, Good(bs, f), Linked(bs, f, i),
         \A a \in DOMAIN bs : a \in DOMAIN cs /\ cs[a] = bs[a]
  PROVE  Linked(cs, f, i)
<1>0. Len(f) \in Nat
  BY DEF Good
<1>1. \A p \in 1..Len(f) : cs[f[p].by] = bs[f[p].by]
  BY DEF Good
<1>2. ASSUME NEW p \in 1..Len(f)
      PROVE  /\ cs[f[p].by].file = i /\ f[p].nth < cs[f[p].by].len /\ f[p].nth < p
             /\ \A j \in 0..f[p].nth : f[p - f[p].nth + j] = Cell(f[p].by, j)
  BY <1>1 DEF Linked
<1>3. ASSUME NEW p \in 0..Len(f) - 1
      PROVE  /\ Boundary(cs, f, p) => f[p + 1].nth = 0 /\ cs[f[p + 1].by].id = LastId(cs, f, p) + 1
             /\ ~Boundary(cs, f, p) => f[p + 1] = Cell(f[p].by, f[p].nth + 1)
  <2>1. p \in 0..Len(f) /\ p + 1 \in 1..Len(f)
    BY <1>0
  <2>2. /\ Boundary(cs, f, p) <=> Boundary(bs, f, p)
        /\ LastId(cs, f, p) = LastId(bs, f, p)
    BY <2>1, SameBoundary
  <2>3. cs[f[p + 1].by] = bs[f[p + 1].by]
    BY <2>1, <1>1
  <2> QED BY <2>2, <2>3 DEF Linked
<1> QED BY <1>2, <1>3 DEF Linked

\* A cell that comes next: the head of a block with the next id behind a complete block, the next cell
\* of the block otherwise.
Continues(bs, f, d, i) ==
  /\ d \in CellSet /\ d.by \in DOMAIN bs /\ bs[d.by].file = i /\ d.nth < bs[d.by].len
  /\ Boundary(bs, f, Len(f)) => d.nth = 0 /\ bs[d.by].id = LastId(bs, f, Len(f)) + 1
  /\ ~Boundary(bs, f, Len(f)) => d = Cell(f[Len(f)].by, f[Len(f)].nth + 1)

\* A file grows by a cell that comes next.
LEMMA LinkedAppend ==
  ASSUME NEW bs, NEW f, NEW i, NEW d, Good(bs, f), Linked(bs, f, i), Continues(bs, f, d, i)
  PROVE  Linked(bs, Append(f, d), i)
<1> DEFINE g == Append(f, d)
<1> DEFINE n == Len(f)
<1>0. n \in Nat /\ f \in Seq(CellSet) /\ d \in CellSet
  BY DEF Good, Continues
<1>1. Len(g) = n + 1 /\ g[n + 1] = d /\ \A p \in 1..n : g[p] = f[p]
  BY <1>0
<1>2. d = Cell(d.by, d.nth) /\ d.nth \in Nat
  BY <1>0 DEF CellSet, Cell
<1>3. \A p \in 1..n : f[p] \in CellSet /\ f[p].nth \in Nat
  <2>1. \A p \in 1..n : f[p] \in CellSet
    BY <1>0
  <2> QED BY <2>1 DEF CellSet
<1> HIDE DEF g, n
<1>4. ASSUME NEW p \in 1..n
      PROVE  /\ bs[g[p].by].file = i /\ g[p].nth < bs[g[p].by].len /\ g[p].nth < p
             /\ \A j \in 0..g[p].nth : g[p - g[p].nth + j] = Cell(g[p].by, j)
  <2> DEFINE k == f[p].nth
  <2>1. g[p] = f[p] /\ k \in Nat
    BY <1>1, <1>3
  <2>2. /\ bs[f[p].by].file = i /\ k < bs[f[p].by].len /\ k < p
        /\ \A j \in 0..k : f[p - k + j] = Cell(f[p].by, j)
    BY DEF Linked, n
  <2> HIDE DEF k
  <2>3. \A j \in 0..k : g[p - k + j] = Cell(f[p].by, j)
    <3> TAKE j \in 0..k
    <3>1. p - k + j \in 1..n
      BY <2>1, <2>2, <1>0
    <3> QED BY <3>1, <2>2, <1>1
  <2> QED BY <2>1, <2>2, <2>3 DEF k
<1>5. /\ bs[g[n + 1].by].file = i /\ g[n + 1].nth < bs[g[n + 1].by].len /\ g[n + 1].nth < n + 1
      /\ \A j \in 0..g[n + 1].nth : g[(n + 1) - g[n + 1].nth + j] = Cell(g[n + 1].by, j)
  <2>1. CASE Boundary(bs, f, n)
    <3>1. d.nth = 0
      BY <2>1 DEF Continues, n
    <3>2. \A j \in 0..d.nth : j = 0 /\ (n + 1) - d.nth + j = n + 1
      BY <3>1, <1>0
    <3>3. \A j \in 0..d.nth : g[(n + 1) - d.nth + j] = Cell(d.by, j)
      BY <3>1, <3>2, <1>1, <1>2
    <3> QED BY <3>1, <3>3, <1>0, <1>1 DEF Continues
  <2>2. CASE ~Boundary(bs, f, n)
    <3> DEFINE k == f[n].nth
    <3>1. n \in 1..n
      BY <2>2, <1>0 DEF Boundary
    <3>2. d = Cell(f[n].by, k + 1) /\ k \in Nat
      BY <2>2, <3>1, <1>3 DEF Continues, n
    <3>3. d.by = f[n].by /\ d.nth = k + 1
      BY <3>2 DEF Cell
    <3>4. k < n /\ \A j \in 0..k : f[n - k + j] = Cell(f[n].by, j)
      BY <3>1 DEF Linked, n
    <3> HIDE DEF k
    <3>5. \A j \in 0..d.nth : g[(n + 1) - d.nth + j] = Cell(d.by, j)
      <4> TAKE j \in 0..d.nth
      <4>1. (n + 1) - d.nth + j = n - k + j
        BY <3>2, <3>3, <1>0
      <4>2. CASE j = k + 1
        <5>1. n - k + j = n + 1
          BY <4>2, <3>2, <1>0
        <5> QED BY <5>1, <4>1, <4>2, <3>3, <1>1, <1>2
      <4>3. CASE j # k + 1
        <5>1. j \in 0..k /\ n - k + j \in 1..n
          BY <4>3, <3>2, <3>3, <3>4, <1>0
        <5> QED BY <5>1, <4>1, <3>3, <3>4, <1>1
      <4> QED BY <4>2, <4>3
    <3>6. d.nth < n + 1
      BY <3>2, <3>3, <3>4, <1>0
    <3> QED BY <3>5, <3>6, <1>1 DEF Continues
  <2> QED BY <2>1, <2>2
<1>6. ASSUME NEW p \in 0..n
      PROVE  /\ Boundary(bs, g, p) <=> Boundary(bs, f, p)
             /\ LastId(bs, g, p) = LastId(bs, f, p)
  <2>1. p = 0 \/ g[p] = f[p]
    BY <1>0, <1>1
  <2> QED BY <2>1 DEF Boundary, LastId
<1>7. ASSUME NEW p \in 0..n
      PROVE  /\ Boundary(bs, g, p) => g[p + 1].nth = 0 /\ bs[g[p + 1].by].id = LastId(bs, g, p) + 1
             /\ ~Boundary(bs, g, p) => g[p + 1] = Cell(g[p].by, g[p].nth + 1)
  <2>1. CASE p = n
    <3>1. ~Boundary(bs, g, p) => g[p] = f[p]
      BY <2>1, <1>0, <1>1 DEF Boundary
    <3> QED BY <2>1, <3>1, <1>1, <1>6 DEF Continues, n
  <2>2. CASE p # n
    <3>1. p \in 0..n - 1 /\ p + 1 \in 1..n
      BY <2>2, <1>0
    <3>2. g[p + 1] = f[p + 1]
      BY <3>1, <1>1
    <3>3. ~Boundary(bs, g, p) => g[p] = f[p]
      <4>1. p = 0 \/ p \in 1..n
        BY <1>0
      <4> QED BY <4>1, <1>1 DEF Boundary
    <3> QED BY <3>1, <3>2, <3>3, <1>6 DEF Linked, n
  <2> QED BY <2>1, <2>2
<1>8. \A p \in 1..Len(g) : p \in 1..n \/ p = n + 1
  BY <1>0, <1>1
<1>9. \A p \in 0..Len(g) - 1 : p \in 0..n
  BY <1>0, <1>1
<1>10. Linked(bs, g, i)
  BY <1>4, <1>5, <1>7, <1>8, <1>9 DEF Linked
<1> QED BY <1>10 DEF g
-----------------------------------------------------------------------------
\* Every file, not only the newest, names blocks.
LEMMA FilesGood ==
  ASSUME Types
  PROVE  \A i \in DOMAIN files : Good(blocks, files[i]) /\ files[i] \in Seq(CellSet)
BY NewestGood DEF Types, Good

\* The id of a cell's block is a number.
LEMMA LastIdNat ==
  ASSUME NEW bs, NEW f, Good(bs, f), NEW p \in 0..Len(f)
  PROVE  LastId(bs, f, p) \in Nat /\ (p # 0 => LastId(bs, f, p) >= 1)
<1>1. CASE p = 0
  BY <1>1 DEF LastId
<1>2. CASE p # 0
  <2>1. p \in 1..Len(f) /\ bs \in Seq(BlockSet)
    BY <1>2 DEF Good
  <2>2. f[p].by \in DOMAIN bs
    BY <2>1 DEF Good
  <2>3. bs[f[p].by] \in BlockSet
    BY <2>1, <2>2
  <2> QED BY <1>2, <2>3 DEF LastId, BlockSet
<1> QED BY <1>1, <1>2

\* The ids of blocks are numbers.
LEMMA IdNat ==
  ASSUME Types
  PROVE  \A a \in DOMAIN blocks : blocks[a].id \in Nat \ {0} /\ blocks[a].file \in Nat
<1> TAKE a \in DOMAIN blocks
<1>1. blocks[a] \in BlockSet
  BY DEF Types
<1> QED BY <1>1 DEF BlockSet

\* A new block has the id that comes next in its file.
LEMMA LogBegin ==
  ASSUME TailInv, Log, WriterAt, NEW n \in Lens, BeginWrite(n)
  PROVE  Log' /\ WriterAt'
<1> DEFINE new == Len(blocks')
<1>1. Types /\ wpc = "idle" /\ wpc' = "write" /\ Done' = 0 /\ acked' = acked
  BY BeginFacts DEF TailInv
<1>2. /\ \A i \in DOMAIN files : i \in DOMAIN files' /\ files'[i] = files[i]
      /\ \A i \in DOMAIN files' : i \notin DOMAIN files => files'[i] = <<>>
  BY BeginFacts
<1>3. /\ blocks'[new] = [id |-> wid', file |-> Len(files'), len |-> n]
      /\ \A a \in DOMAIN blocks : a \in DOMAIN blocks' /\ blocks'[a] = blocks[a]
      /\ \A a \in DOMAIN blocks' : a \in DOMAIN blocks \/ a = new
      /\ wid' \in Nat \ {0}
  BY BeginFacts
<1>4. \A i \in DOMAIN files' : Linked(blocks', files'[i], i)
  <2> TAKE i \in DOMAIN files'
  <2>1. CASE i \in DOMAIN files
    <3>1. Good(blocks, files[i]) /\ Linked(blocks, files[i], i)
      BY <2>1, <1>1, FilesGood DEF Log
    <3>2. Linked(blocks', files[i], i)
      BY <3>1, <1>3, LinkedBlocks
    <3> QED BY <3>2, <2>1, <1>2
  <2>2. CASE i \notin DOMAIN files
    <3>1. files'[i] = <<>>
      BY <2>2, <1>2
    <3> QED BY <3>1 DEF Linked
  <2> QED BY <2>1, <2>2
<1>5. /\ wpos' = Len(Tip') /\ Boundary(blocks', Tip', Len(Tip'))
      /\ wid' = LastId(blocks', Tip', Len(Tip')) + 1
      /\ \A a \in DOMAIN blocks : blocks[a].file = Len(files') => blocks[a].id < wid'
  <2>1. CASE files' = files /\ wpos' = wpos /\ wid' = wid
    <3>1. Tip' = Tip
      BY <2>1 DEF Tip
    <3>2. /\ wpos = Len(Tip) /\ Boundary(blocks, Tip, Len(Tip))
          /\ wid = LastId(blocks, Tip, Len(Tip)) + 1
          /\ \A a \in DOMAIN blocks :
               blocks[a].file = Len(files) => blocks[a].id <= LastId(blocks, Tip, Len(Tip))
      BY <1>1 DEF WriterAt
    <3>3. Good(blocks, Tip) /\ Len(Tip) \in Nat /\ Len(Tip) \in 0..Len(Tip)
      BY <1>1, TipGood
    <3>4. /\ Boundary(blocks', Tip, Len(Tip))
          /\ LastId(blocks', Tip, Len(Tip)) = LastId(blocks, Tip, Len(Tip))
          /\ LastId(blocks, Tip, Len(Tip)) \in Nat
      <4>1. \A a \in DOMAIN blocks : a \in DOMAIN blocks' /\ blocks'[a] = blocks[a]
        BY <1>3
      <4>2. /\ Boundary(blocks', Tip, Len(Tip)) <=> Boundary(blocks, Tip, Len(Tip))
            /\ LastId(blocks', Tip, Len(Tip)) = LastId(blocks, Tip, Len(Tip))
        <5>1. PICK cs : cs = blocks'
          OBVIOUS
        <5>2. PICK f, p : f = Tip /\ p = Len(Tip)
          OBVIOUS
        <5>3. Good(blocks, f) /\ p \in 0..Len(f)
          BY <3>3, <5>2
        <5>4. \A a \in DOMAIN blocks : a \in DOMAIN cs /\ cs[a] = blocks[a]
          BY <4>1, <5>1
        <5>5. /\ Boundary(cs, f, p) <=> Boundary(blocks, f, p)
              /\ LastId(cs, f, p) = LastId(blocks, f, p)
          BY <5>3, <5>4, SameBoundary
        <5> QED BY <5>1, <5>2, <5>5
      <4>3. LastId(blocks, Tip, Len(Tip)) \in Nat
        BY <3>3, LastIdNat
      <4> QED BY <3>2, <4>2, <4>3
    <3>5. \A a \in DOMAIN blocks : blocks[a].file = Len(files') => blocks[a].id < wid'
      BY <3>2, <3>4, <2>1, <1>1, IdNat
    <3> QED BY <3>1, <3>2, <3>4, <3>5, <2>1
  <2>2. CASE wpos' = 0 /\ wid' = 1 /\ Tip' = <<>> /\ Len(files') \notin DOMAIN files
    <3>1. \A a \in DOMAIN blocks : blocks[a].file # Len(files')
      BY <2>2, <1>1 DEF Types
    <3>2. Len(Tip') = 0
      BY <2>2
    <3> QED BY <3>1, <3>2, <2>2 DEF Boundary, LastId
  <2> QED BY <2>1, <2>2, BeginFacts
<1>6. \A a, b \in DOMAIN blocks' :
        blocks'[a].file = blocks'[b].file /\ blocks'[a].id = blocks'[b].id => a = b
  <2>0. ASSUME NEW a \in DOMAIN blocks, blocks[a].file = Len(files'), blocks[a].id = wid' PROVE FALSE
    BY <2>0, <1>5, <1>3, <1>1, IdNat
  <2>1. blocks'[new].file = Len(files') /\ blocks'[new].id = wid'
    BY <1>3
  <2> TAKE a, b \in DOMAIN blocks'
  <2>2. CASE a \in DOMAIN blocks /\ b \in DOMAIN blocks
    BY <2>2, <1>3 DEF Log
  <2>3. CASE a \in DOMAIN blocks /\ b = new
    BY <2>0, <2>1, <2>3, <1>3
  <2>4. CASE a = new /\ b \in DOMAIN blocks
    BY <2>0, <2>1, <2>4, <1>3
  <2> QED BY <2>2, <2>3, <2>4, <1>3
<1>7. \A a \in acked' : \E p \in DOMAIN files'[blocks'[a].file] : files'[blocks'[a].file][p].by = a
  <2> TAKE a \in acked'
  <2>1. a \in acked /\ a \in DOMAIN blocks
    BY <1>1 DEF Types
  <2>2. blocks'[a] = blocks[a] /\ files'[blocks[a].file] = files[blocks[a].file]
    BY <2>1, <1>1, <1>2, <1>3 DEF Types
  <2> QED BY <2>1, <2>2 DEF Log
<1>8. Log'
  BY <1>4, <1>6, <1>7 DEF Log
<1>9. \A a \in DOMAIN blocks' :
        blocks'[a].file = Len(files') /\ a # new => blocks'[a].id < wid'
  BY <1>3, <1>5
<1>10. WriterAt'
  BY <1>1, <1>3, <1>5, <1>9 DEF WriterAt
<1> QED BY <1>8, <1>10

\* writev puts the cell behind the last one.
LEMMA LogCell ==
  ASSUME TailInv, Log, WriterAt, WriteCell
  PROVE  Log' /\ WriterAt'
<1> DEFINE a == Len(blocks)
<1> DEFINE c == Cell(a, Done)
<1> DEFINE m == blocks[a].len
<1>1. Types /\ wpc = "write" /\ wrest > 0 /\ wrest \in Nat /\ wpos = Len(Tip)
  BY DEF TailInv, Types, WriterAt, WriteCell
<1>2. Good(blocks, Tip) /\ Tip \in Seq(CellSet) /\ Len(Tip) \in Nat /\ Len(files) \in DOMAIN files
  BY <1>1, TipGood
<1>3. /\ a \in DOMAIN blocks /\ m \in 2..BlockMax /\ Done \in Nat /\ Done + wrest = m
      /\ c \in CellSet /\ BlockMax \in Nat
  BY <1>1, CellNow, SizesAssumption
<1>4. c.by = a /\ c.nth = Done /\ Done < m
  <2>1. Done < m
    <3> HIDE DEF m
    <3> QED BY <1>1, <1>3
  <2> QED BY <2>1 DEF Cell
<1>5. /\ blocks[a].file = Len(files) /\ blocks[a].id = wid
      /\ \A b \in DOMAIN blocks : blocks[b].file = Len(files) /\ b # a => blocks[b].id < wid
      /\ Done = 0 => Boundary(blocks, Tip, Len(Tip)) /\ wid = LastId(blocks, Tip, Len(Tip)) + 1
      /\ Done > 0 => Tip # <<>> /\ Tip[Len(Tip)] = Cell(a, Done - 1)
  BY <1>1 DEF WriterAt
<1>6. Continues(blocks, Tip, c, Len(files))
  <2>1. CASE Done = 0
    BY <2>1, <1>3, <1>4, <1>5 DEF Continues
  <2>2. CASE Done # 0
    <3>1. Tip # <<>> /\ Tip[Len(Tip)] = Cell(a, Done - 1)
      BY <2>2, <1>3, <1>5
    <3>2. Tip[Len(Tip)].by = a /\ Tip[Len(Tip)].nth = Done - 1
      BY <3>1 DEF Cell
    <3>3. (Done - 1) + 1 = Done /\ Done # m /\ Len(Tip) # 0
      <4>1. Done # m
        <5> HIDE DEF m
        <5> QED BY <1>1, <1>3
      <4> QED BY <4>1, <1>2, <1>3, <3>1
    <3>4. ~Boundary(blocks, Tip, Len(Tip))
      BY <3>2, <3>3 DEF Boundary
    <3>5. c = Cell(Tip[Len(Tip)].by, Tip[Len(Tip)].nth + 1)
      BY <3>2, <3>3
    <3> QED BY <3>4, <3>5, <1>3, <1>4, <1>5 DEF Continues
  <2> QED BY <2>1, <2>2
<1> HIDE DEF c
<1>7. /\ files' = [files EXCEPT ![Len(files)] = Append(Tip, c)] /\ Tip' = Append(Tip, c)
      /\ Len(files') = Len(files)
  <2>1. wpos <= Len(Tip)
    BY <1>1, <1>2
  <2>2. Put(Tip, wpos, c) = Append(Tip, c)
    BY <1>1, <1>2 DEF Put
  <2> QED BY <2>1, <2>2, CellWritten DEF c
<1>8. /\ Len(Append(Tip, c)) = Len(Tip) + 1 /\ Append(Tip, c) \in Seq(CellSet)
      /\ Append(Tip, c)[Len(Tip) + 1] = c /\ \A p \in 1..Len(Tip) : Append(Tip, c)[p] = Tip[p]
  BY <1>2, <1>3
<1>9. /\ wpos' = wpos + 1 /\ wrest' = wrest - 1 /\ UNCHANGED <<blocks, acked, wpc, wid>>
  BY DEF WriteCell
<1>10. /\ DOMAIN files' = DOMAIN files /\ files'[Len(files)] = Append(Tip, c)
       /\ \A i \in DOMAIN files : i # Len(files) => files'[i] = files[i]
  BY <1>1, <1>7, <1>8, ReplaceFile DEF Types
<1>11. \A i \in DOMAIN files' : Linked(blocks, files'[i], i)
  <2>1. Linked(blocks, Tip, Len(files))
    BY <1>2 DEF Log, Tip
  <2>2. Linked(blocks, Append(Tip, c), Len(files))
    BY <2>1, <1>2, <1>6, LinkedAppend DEF c
  <2> QED BY <2>2, <1>10 DEF Log
<1>12. \A b \in acked : \E p \in DOMAIN files'[blocks[b].file] : files'[blocks[b].file][p].by = b
  <2> TAKE b \in acked
  <2> DEFINE i == blocks[b].file
  <2>1. i \in DOMAIN files
    BY <1>1 DEF Types
  <2>2. PICK p \in DOMAIN files[i] : files[i][p].by = b
    BY DEF Log
  <2>3. CASE i # Len(files)
    BY <2>1, <2>2, <2>3, <1>10
  <2>4. CASE i = Len(files)
    <3>1. p \in 1..Len(Tip) /\ Tip[p].by = b
      BY <2>2, <2>4, <1>2 DEF Tip
    <3>2. p \in DOMAIN Append(Tip, c) /\ Append(Tip, c)[p].by = b
      BY <3>1, <1>2, <1>8
    <3> QED BY <3>2, <2>4, <1>10
  <2> QED BY <2>3, <2>4
<1>13. Log'
  <2>1. \A x, y \in DOMAIN blocks :
          blocks[x].file = blocks[y].file /\ blocks[x].id = blocks[y].id => x = y
    BY DEF Log
  <2> QED BY <2>1, <1>9, <1>11, <1>12 DEF Log
<1>14. Done' = Done + 1
  <2>1. Done' = m - wrest'
    BY <1>9 DEF Done
  <2>2. Done = m - wrest
    BY DEF Done
  <2> HIDE DEF m
  <2> QED BY <2>1, <2>2, <1>1, <1>3, <1>9
<1>15. Tip' # <<>> /\ Len(Tip') = Len(Tip) + 1 /\ Tip'[Len(Tip')] = Cell(a, Done)
  BY <1>2, <1>7, <1>8 DEF c
<1>16. WriterAt'
  <2>1. wpos' = Len(Tip') /\ Done' # 0 /\ Done' - 1 = Done
    BY <1>1, <1>3, <1>9, <1>14, <1>15
  <2> QED BY <2>1, <1>1, <1>5, <1>7, <1>9, <1>15 DEF WriterAt
<1> QED BY <1>13, <1>16
-----------------------------------------------------------------------------
\* The block is complete: the file ends with it, and it has the largest id.
LEMMA AtEnd ==
  ASSUME TailInv, Log, WriterAt, wpc = "write", wrest = 0
  PROVE  /\ Boundary(blocks, Tip, Len(Tip)) /\ wid = LastId(blocks, Tip, Len(Tip))
         /\ \A b \in DOMAIN blocks : blocks[b].file = Len(files) => blocks[b].id <= wid
         /\ blocks[Len(blocks)].file = Len(files) /\ Len(blocks) \in DOMAIN blocks
         /\ Len(Tip) \in DOMAIN Tip /\ Tip[Len(Tip)].by = Len(blocks)
<1> DEFINE a == Len(blocks)
<1>1. Types /\ Tip \in Seq(CellSet) /\ wid \in Nat
  BY TipGood DEF TailInv, Types
<1>2. a \in DOMAIN blocks /\ blocks[a].len \in 2..BlockMax /\ Done \in Nat /\ Done + wrest = blocks[a].len
  BY CellNow
<1>3. Done = blocks[a].len /\ Done > 0 /\ (Done - 1) + 1 = Done
  BY <1>2, SizesAssumption
<1>4. Tip # <<>> /\ Tip[Len(Tip)] = Cell(a, Done - 1)
  BY <1>3 DEF WriterAt
<1>5. Tip[Len(Tip)].by = a /\ Tip[Len(Tip)].nth = Done - 1
  BY <1>4 DEF Cell
<1>6. Len(Tip) # 0 /\ Len(Tip) \in DOMAIN Tip
  BY <1>1, <1>4
<1>7. blocks[a].id = wid /\ blocks[a].file = Len(files)
  BY DEF WriterAt
<1>8. Boundary(blocks, Tip, Len(Tip)) /\ wid = LastId(blocks, Tip, Len(Tip))
  BY <1>3, <1>5, <1>6, <1>7 DEF Boundary, LastId
<1>9. \A b \in DOMAIN blocks : blocks[b].file = Len(files) => blocks[b].id <= wid
  <2> TAKE b \in DOMAIN blocks
  <2>1. blocks[b].file = Len(files) => b = a \/ blocks[b].id < wid
    BY DEF WriterAt
  <2>2. blocks[b].id \in Nat
    BY <1>1, IdNat
  <2> QED BY <2>1, <2>2, <1>1, <1>7
<1> QED BY <1>2, <1>5, <1>6, <1>7, <1>8, <1>9

\* The answer to the client.
LEMMA LogEnd ==
  ASSUME TailInv, Log, WriterAt, EndWrite
  PROVE  Log' /\ WriterAt'
<1>1. /\ wpc = "write" /\ wrest = 0 /\ wpc' = "idle" /\ wid' = wid + 1
      /\ acked' = acked \cup {Len(blocks)} /\ UNCHANGED <<files, blocks, wpos>>
  BY DEF EndWrite
<1>2. /\ Boundary(blocks, Tip, Len(Tip)) /\ wid = LastId(blocks, Tip, Len(Tip))
      /\ \A b \in DOMAIN blocks : blocks[b].file = Len(files) => blocks[b].id <= wid
      /\ blocks[Len(blocks)].file = Len(files)
      /\ Len(Tip) \in DOMAIN Tip /\ Tip[Len(Tip)].by = Len(blocks)
  BY <1>1, AtEnd
<1>3. Log'
  <2>1. \A b \in acked' : \E p \in DOMAIN files[blocks[b].file] : files[blocks[b].file][p].by = b
    <3> TAKE b \in acked'
    <3>1. CASE b \in acked
      BY <3>1 DEF Log
    <3>2. CASE b = Len(blocks)
      BY <3>2, <1>2 DEF Tip
    <3> QED BY <3>1, <3>2, <1>1
  <2>2. /\ \A i \in DOMAIN files : Linked(blocks, files[i], i)
        /\ \A x, y \in DOMAIN blocks :
             blocks[x].file = blocks[y].file /\ blocks[x].id = blocks[y].id => x = y
    BY DEF Log
  <2> QED BY <2>1, <2>2, <1>1 DEF Log
<1>4. Tip' = Tip /\ wpos = Len(Tip)
  BY <1>1 DEF Tip, WriterAt
<1>5. WriterAt'
  BY <1>1, <1>2, <1>4 DEF WriterAt
<1> QED BY <1>3, <1>5

\* A death between two blocks.
LEMMA LogDies ==
  ASSUME TailInv, Log, WriterAt, WriterDies, torn' = {}
  PROVE  Log' /\ WriterAt'
<1>1. /\ wpc \in {"idle", "write"} /\ wpc' = "down" /\ UNCHANGED <<files, blocks, acked, wpos, wid>>
      /\ ~(wpc = "write" /\ wrest > 0)
  BY DEF WriterDies
<1>2. Log'
  BY <1>1 DEF Log
<1>3. Tip' = Tip
  BY <1>1 DEF Tip
<1>4. CASE wpc = "idle"
  BY <1>1, <1>2, <1>3, <1>4 DEF WriterAt
<1>5. CASE wpc = "write"
  <2>1. wrest = 0
    BY <1>1, <1>5 DEF TailInv, Types
  <2>2. /\ Boundary(blocks, Tip, Len(Tip))
        /\ \A b \in DOMAIN blocks :
             blocks[b].file = Len(files) => blocks[b].id <= LastId(blocks, Tip, Len(Tip))
    BY <2>1, <1>5, AtEnd
  <2> QED BY <2>2, <1>1, <1>2, <1>3 DEF WriterAt
<1> QED BY <1>1, <1>4, <1>5

\* A file that ends with a complete block ends with a whole one.
LEMMA LastWhole ==
  ASSUME NEW bs, NEW f, NEW i, Good(bs, f), Linked(bs, f, i), f # <<>>, Boundary(bs, f, Len(f))
  PROVE  LET o == Len(f) - bs[f[Len(f)].by].len IN
           /\ o \in Nat /\ WholeIn(bs, f, o) /\ f[o + 1].by = f[Len(f)].by /\ Len(f) > 1
           /\ \A p \in o..Len(f) - 1 : p = o \/ ~WholeIn(bs, f, p)
           /\ Low(f) <= o
<1> DEFINE n == Len(f)
<1> DEFINE a == f[n].by
<1> DEFINE m == bs[a].len
<1> DEFINE k == f[n].nth
<1> DEFINE o == n - m
<1>1. n \in Nat /\ n # 0 /\ n \in 1..n /\ f \in Seq(CellSet)
  BY DEF Good
<1>2. a \in DOMAIN bs
  BY <1>1 DEF Good
<1>3. m \in 2..BlockMax /\ BlockMax \in Nat
  BY <1>2, LenRange, SizesAssumption DEF Good
<1>4. k + 1 = m /\ k \in Nat
  <2>1. f[n] \in CellSet
    BY <1>1
  <2> QED BY <2>1, <1>1 DEF Boundary, CellSet
<1>5. k < n /\ \A j \in 0..k : f[n - k + j] = Cell(a, j)
  BY <1>1 DEF Linked
<1>6. n = Len(f) /\ a = f[n].by /\ m = bs[a].len
  OBVIOUS
<1> HIDE DEF n, k, a, m
<1>7. o \in Nat /\ o + m = n /\ o + 1 = n - k /\ n > 1 /\ o < n
  BY <1>1, <1>3, <1>4, <1>5
<1>8. \A j \in 0..m - 1 : f[o + 1 + j] = Cell(a, j)
  <2> TAKE j \in 0..m - 1
  <2>1. j \in 0..k /\ o + 1 + j = n - k + j
    BY <1>1, <1>3, <1>4
  <2> QED BY <2>1, <1>5
<1>9. f[o + 1] = Cell(a, 0)
  <2>1. o + 1 = n - k + 0 /\ 0 \in 0..k
    BY <1>1, <1>3, <1>4, <1>7
  <2> QED BY <2>1, <1>5
<1>10. f[o + 1].by = a /\ f[o + 1].nth = 0
  BY <1>9 DEF Cell
<1> HIDE DEF o
<1>11. WholeIn(bs, f, o)
  <2>1. o < Len(f) /\ f[o + 1].nth = 0 /\ o + m <= Len(f)
    BY <1>1, <1>6, <1>7, <1>10
  <2> QED BY <2>1, <1>6, <1>8, <1>10 DEF WholeIn
<1>12. \A p \in o..n - 1 : p = o \/ ~WholeIn(bs, f, p)
  <2> TAKE p \in o..n - 1
  <2>1. CASE p # o
    <3> DEFINE j == p - o
    <3>1. j \in 0..m - 1 /\ j # 0 /\ o + 1 + j = p + 1
      BY <2>1, <1>1, <1>3, <1>7
    <3> HIDE DEF j
    <3>2. f[p + 1].nth = j
      <4>1. f[o + 1 + j] = Cell(a, j)
        BY <3>1, <1>8
      <4> QED BY <4>1, <3>1 DEF Cell
    <3> QED BY <3>1, <3>2 DEF WholeIn
  <2> QED BY <2>1
<1>13. Low(f) <= o
  <2>1. Low(f) = IF n >= 2 * BlockMax THEN n - 2 * BlockMax ELSE 0
    BY <1>6 DEF Low
  <2> QED BY <2>1, <1>1, <1>3, <1>7
<1>14. o = Len(f) - bs[f[Len(f)].by].len
  BY DEF o, n, m, a
<1> QED BY <1>6, <1>7, <1>10, <1>11, <1>12, <1>13, <1>14

\* The next server goes on where the last one ended.
LEMMA LogRepair ==
  ASSUME TailInv, Log, WriterAt, Repair
  PROVE  Log' /\ WriterAt' /\ files' = files
<1>1. /\ wpc = "down" /\ UNCHANGED <<blocks, acked>> /\ Types
  BY RepairCases DEF TailInv
<1>2. Good(blocks, Tip) /\ Tip \in Seq(CellSet) /\ Len(Tip) \in Nat /\ Len(files) \in DOMAIN files
  BY <1>1, TipGood
<1>3. /\ Boundary(blocks, Tip, Len(Tip))
      /\ \A b \in DOMAIN blocks :
           blocks[b].file = Len(files) => blocks[b].id <= LastId(blocks, Tip, Len(Tip))
  BY <1>1 DEF WriterAt
<1>4. files' = files /\ wpos' = Len(Tip) /\ wid' = LastId(blocks, Tip, Len(Tip)) + 1 /\ wpc' = "idle"
  <2>1. CASE Tip = <<>>
    <3>1. Len(Tip) = 0
      BY <2>1
    <3>2. files' = [files EXCEPT ![Len(files)] = <<>>] /\ wpos' = 0 /\ wid' = 1 /\ wpc' = "idle"
      BY <3>1, RepairCases
    <3>3. files' = files
      <4>1. files[Len(files)] = <<>> /\ files \in Seq(Seq(CellSet))
        BY <2>1, <1>1 DEF Tip, Types
      <4> QED BY <3>2, <4>1, <1>2
    <3> QED BY <3>1, <3>2, <3>3 DEF LastId
  <2>2. CASE Tip # <<>>
    <3> DEFINE e == Tip[Len(Tip)].by
    <3> DEFINE m == blocks[e].len
    <3> DEFINE o == Len(Tip) - m
    <3>1. /\ o \in Nat /\ WholeIn(blocks, Tip, o) /\ Tip[o + 1].by = e /\ Len(Tip) > 1
          /\ \A p \in o..Len(Tip) - 1 : p = o \/ ~WholeIn(blocks, Tip, p)
          /\ Low(Tip) <= o
      <4>1. Linked(blocks, Tip, Len(files))
        BY <1>2 DEF Log, Tip
      <4> QED BY <4>1, <2>2, <1>2, <1>3, LastWhole
    <3>2. o < Len(Tip) /\ Low(Tip) \in Nat
      BY <3>1, <1>2, LowRange DEF WholeIn
    <3> HIDE DEF o
    <3>3. o \in Low(Tip)..Len(Tip) - 1
      BY <3>1, <3>2, <1>2
    <3>4. EndBlock(Tip) # {}
      BY <3>1, <3>3, <1>2, EndBlockIsLast
    <3>5. \A q \in EndBlock(Tip) : q = o
      <4> TAKE q \in EndBlock(Tip)
      <4>1. q \in Low(Tip)..Len(Tip) - 1 /\ WholeIn(blocks, Tip, q) /\ o <= q
        BY <3>1, <3>3, <1>2, EndBlockIsLast
      <4>2. q \in o..Len(Tip) - 1
        BY <4>1, <3>1, <3>2, <1>2
      <4> QED BY <4>1, <4>2, <3>1
    <3>6. files' = files /\ wpc' = "idle" /\ wpos' = o + m /\ wid' = blocks[e].id + 1
      <4>1. ~(Len(Tip) <= 1)
        BY <3>1, <1>2
      <4> QED BY <4>1, <3>1, <3>4, <3>5, RepairCases
    <3>7. o + m = Len(Tip)
      <4>1. e \in DOMAIN blocks
        BY <2>2, <1>2 DEF Good
      <4>2. m \in 2..BlockMax /\ BlockMax \in Nat
        BY <4>1, <1>2, LenRange, SizesAssumption DEF Good
      <4>3. o = Len(Tip) - m
        BY DEF o
      <4> HIDE DEF m
      <4> QED BY <4>2, <4>3, <1>2
    <3>8. LastId(blocks, Tip, Len(Tip)) = blocks[e].id
      BY <3>1, <1>2 DEF LastId
    <3> QED BY <3>6, <3>7, <3>8
  <2> QED BY <2>1, <2>2
<1>5. Log'
  BY <1>1, <1>4 DEF Log
<1>6. Tip' = Tip
  BY <1>4 DEF Tip
<1>7. WriterAt'
  BY <1>1, <1>3, <1>4, <1>6 DEF WriterAt
<1> QED BY <1>4, <1>5, <1>7
-----------------------------------------------------------------------------
\* As long as no death cuts a block short, the log stays clean.
LEMMA LogStep ==
  ASSUME TailInv, CleanLog, [Next]_vars
  PROVE  CleanLog'
<1> SUFFICES ASSUME torn' = {} PROVE Log' /\ WriterAt'
  BY DEF CleanLog
<1>1. CASE UNCHANGED wVars
  <2>1. Log /\ WriterAt
    BY <1>1 DEF CleanLog, wVars
  <2>2. Log'
    BY <2>1, <1>1 DEF Log, wVars
  <2>3. WriterAt'
    BY <2>1, <1>1 DEF WriterAt, Tip, Done, wVars
  <2> QED BY <2>2, <2>3
<1>2. CASE (\E n \in Lens : BeginWrite(n)) \/ WriteCell \/ EndWrite \/ WriterDies \/ Repair
  <2>1. torn = {}
    BY <1>2 DEF BeginWrite, WriteCell, EndWrite, WriterDies, Repair
  <2>2. Log /\ WriterAt
    BY <2>1 DEF CleanLog
  <2> QED BY <1>2, <2>2, LogBegin, LogCell, LogEnd, LogDies, LogRepair
<1> QED BY <1>1, <1>2, ReaderLeaves DEF Next, Writing, vars

-----------------------------------------------------------------------------
\* Files and blocks only grow; a new block is behind the reader's position, and what is newly
\* acknowledged is in its file or a later one.
Grows ==
  /\ \A i \in DOMAIN files :
       /\ i \in DOMAIN files' /\ Len(files[i]) <= Len(files'[i])
       /\ \A p \in 1..Len(files[i]) : files'[i][p] = files[i][p]
  /\ \A a \in DOMAIN blocks : a \in DOMAIN blocks' /\ blocks'[a] = blocks[a]
  /\ \A a \in DOMAIN blocks' :
       a \in DOMAIN blocks \/ ~(blocks'[a].file = rfile /\ blocks'[a].id <= rid)
  /\ \A a \in acked' : a \in acked \/ ~(blocks'[a].file < rfile)

\* Growing files do not disturb the reader.
LEMMA ReaderKept ==
  ASSUME Types, Types', Reader, UNCHANGED rVars, Grows
  PROVE  Reader'
<1>1. /\ rfile \in DOMAIN files /\ roff \in 0..Len(File)
      /\ Good(blocks, File) /\ File \in Seq(CellSet) /\ Len(File) \in Nat
  BY FilesGood DEF Reader, File
<1>2. UNCHANGED <<rpc, rfile, roff, rid, tries, buf, got, missed, looked>>
  BY DEF rVars
<1>3. /\ rfile \in DOMAIN files' /\ Len(File) <= Len(File') /\ \A p \in 1..Len(File) : File'[p] = File[p]
  BY <1>1, <1>2 DEF Grows, File
<1>4. /\ \A a \in DOMAIN blocks : a \in DOMAIN blocks' /\ blocks'[a] = blocks[a]
  BY DEF Grows
<1>5. Len(File') \in Nat
  <2>1. File' \in Seq(CellSet)
    BY <1>2, <1>3 DEF File, Types
  <2> QED BY <2>1
<1>6. roff \in Nat /\ roff <= Len(File) /\ roff \in 0..Len(File')
  BY <1>1, <1>3, <1>5
<1>7. Boundary(blocks', File', roff) /\ rid = LastId(blocks', File', roff)
  <2>1. roff # 0 => File'[roff] = File[roff]
    BY <1>1, <1>3, <1>6
  <2>2. Boundary(blocks, File, roff) /\ rid = LastId(blocks, File, roff)
    BY DEF Reader
  <2>3. CASE roff = 0
    BY <2>2, <2>3 DEF Boundary, LastId
  <2>4. CASE roff # 0
    <3>1. File'[roff] = File[roff] /\ File[roff].by \in DOMAIN blocks
      BY <2>1, <2>4, <1>1, <1>6 DEF Good
    <3>2. blocks'[File[roff].by] = blocks[File[roff].by]
      BY <3>1, <1>4
    <3> QED BY <2>2, <2>4, <3>1, <3>2 DEF Boundary, LastId
  <2> QED BY <2>3, <2>4
<1>8. \A p \in 1..roff : blocks'[File'[p].by].id <= rid
  <2> TAKE p \in 1..roff
  <2>1. p \in 1..Len(File)
    BY <1>1, <1>6
  <2>2. File'[p] = File[p] /\ File[p].by \in DOMAIN blocks
    BY <2>1, <1>1, <1>3 DEF Good
  <2> QED BY <2>2, <1>4 DEF Reader
<1>9. rpc = "body" =>
       /\ buf \in Seq(CellSet) /\ buf # <<>>
       /\ roff + Len(buf) <= Len(File') /\ buf[1].by \in DOMAIN blocks'
       /\ Len(buf) <= blocks'[buf[1].by].len
       /\ \A k \in 1..Len(buf) : buf[k] = Cell(buf[1].by, k - 1) /\ File'[roff + k] = buf[k]
  <2> HAVE rpc = "body"
  <2>1. /\ buf \in Seq(CellSet) /\ buf # <<>>
        /\ roff + Len(buf) <= Len(File) /\ buf[1].by \in DOMAIN blocks
        /\ Len(buf) <= blocks[buf[1].by].len
        /\ \A k \in 1..Len(buf) : buf[k] = Cell(buf[1].by, k - 1) /\ File[roff + k] = buf[k]
    BY DEF Reader
  <2>2. Len(buf) \in Nat
    BY <2>1
  <2>3. roff + Len(buf) <= Len(File')
    BY <2>1, <2>2, <1>1, <1>3, <1>5, <1>6
  <2>4. \A k \in 1..Len(buf) : File'[roff + k] = buf[k]
    <3> TAKE k \in 1..Len(buf)
    <3>1. roff + k \in 1..Len(File)
      BY <2>1, <2>2, <1>1, <1>6
    <3> QED BY <3>1, <2>1, <1>3
  <2> QED BY <2>1, <2>3, <2>4, <1>4
<1>10. \A a \in DOMAIN blocks' : blocks'[a].file = rfile /\ blocks'[a].id <= rid => a \in got
  BY <1>4 DEF Grows, Reader
<1>11. \A a \in acked' : blocks'[a].file < rfile => a \in got \cup missed
  <2> TAKE a \in acked'
  <2>1. CASE a \in acked
    <3>1. blocks'[a] = blocks[a]
      BY <2>1, <1>4 DEF Types
    <3> QED BY <2>1, <3>1 DEF Reader
  <2>2. CASE a \notin acked
    BY <2>2 DEF Grows
  <2> QED BY <2>1, <2>2
<1>12. tries \in Nat /\ rpc \in {"look", "body"} /\ (rpc = "look" /\ tries > 0 => looked \subseteq got)
  BY DEF Reader
<1> QED BY <1>2, <1>3, <1>6, <1>7, <1>8, <1>9, <1>10, <1>11, <1>12 DEF Reader

\* In the newest file the reader is behind the next id.
LEMMA ReaderBehind ==
  ASSUME Types, Log, WriterAt, Reader, wpc = "idle", rfile = Len(files)
  PROVE  rid < wid
<1>1. File = Tip /\ Good(blocks, Tip) /\ Len(Tip) \in Nat /\ wid \in Nat /\ Len(files) \in DOMAIN files
  BY TipGood DEF File, Tip, Types
<1>2. roff \in 0..Len(Tip) /\ rid = LastId(blocks, Tip, roff)
  BY <1>1 DEF Reader
<1>3. LastId(blocks, Tip, Len(Tip)) \in Nat /\ wid = LastId(blocks, Tip, Len(Tip)) + 1
  BY <1>1, LastIdNat DEF WriterAt
<1>4. CASE roff = 0
  BY <1>2, <1>3, <1>4 DEF LastId
<1>5. CASE roff # 0
  <2> DEFINE a == Tip[roff].by
  <2>1. roff \in 1..Len(Tip)
    BY <1>1, <1>2, <1>5
  <2>2. a \in DOMAIN blocks /\ blocks[a].file = Len(files)
    BY <2>1, <1>1 DEF Good, Log, Linked, Tip
  <2>3. rid = blocks[a].id
    BY <1>2, <1>5 DEF LastId
  <2>4. blocks[a].id <= LastId(blocks, Tip, Len(Tip)) /\ blocks[a].id \in Nat
    BY <2>2, IdNat DEF WriterAt
  <2> QED BY <2>3, <2>4, <1>3
<1> QED BY <1>4, <1>5

\* The writer, in a clean log, makes it grow.
LEMMA WriterGrows ==
  ASSUME TailInv, Log, WriterAt, Reader, torn' = {},
         (\E n \in Lens : BeginWrite(n)) \/ WriteCell \/ EndWrite \/ WriterDies \/ Repair
  PROVE  Grows /\ UNCHANGED rVars
<1>1. Types /\ rfile \in DOMAIN files /\ Len(files) \in DOMAIN files
  BY TipGood DEF TailInv, Reader
<1>2. \A i \in DOMAIN files : files[i] \in Seq(CellSet) /\ Len(files[i]) \in Nat
  BY <1>1, FilesGood
<1>3. ASSUME NEW n \in Lens, BeginWrite(n) PROVE Grows
  <2>1. /\ \A i \in DOMAIN files : i \in DOMAIN files' /\ files'[i] = files[i]
        /\ \A a \in DOMAIN blocks : a \in DOMAIN blocks' /\ blocks'[a] = blocks[a]
        /\ \A a \in DOMAIN blocks' : a \in DOMAIN blocks \/ a = Len(blocks')
        /\ blocks'[Len(blocks')] = [id |-> wid', file |-> Len(files'), len |-> n]
        /\ acked' = acked /\ wpc = "idle"
    BY <1>3, BeginFacts
  <2>2. ~(Len(files') = rfile /\ wid' <= rid)
    <3>1. CASE files' = files /\ wid' = wid
      <4>1. rfile = Len(files) => rid < wid
        BY <2>1, <1>1, ReaderBehind
      <4>2. rid \in Nat /\ wid \in Nat
        <5>1. Good(blocks, File) /\ roff \in 0..Len(File)
          BY <1>1, FilesGood DEF Reader, File
        <5> QED BY <5>1, <1>1, LastIdNat DEF Reader, Types
      <4> QED BY <4>1, <4>2, <3>1
    <3>2. CASE Len(files') \notin DOMAIN files
      BY <3>2, <1>1
    <3> QED BY <3>1, <3>2, <1>3, BeginFacts
  <2>3. \A i \in DOMAIN files : Len(files[i]) <= Len(files'[i])
    BY <2>1, <1>2
  <2> QED BY <2>1, <2>2, <2>3 DEF Grows
<1>4. ASSUME WriteCell PROVE Grows
  <2> DEFINE g == Tip'
  <2>1. wpos = Len(Tip) /\ Len(Tip) \in Nat /\ UNCHANGED <<blocks, acked>>
    BY <1>1, <1>4, TipGood DEF WriterAt, WriteCell
  <2>2. /\ files' = [files EXCEPT ![Len(files)] = g] /\ g \in Seq(CellSet)
        /\ Len(g) = Len(Tip) + 1 /\ \A p \in 1..Len(Tip) : g[p] = Tip[p]
    <3>1. wpos <= Len(Tip) /\ ~(wpos < Len(Tip))
      BY <2>1
    <3>2. \A p \in 1..Len(Tip) : p \in 1..Len(Tip) + 1 /\ p # wpos + 1
      BY <2>1
    <3> QED BY <3>1, <3>2, <1>4, CellWritten
  <2> HIDE DEF g
  <2>3. /\ DOMAIN files' = DOMAIN files /\ files'[Len(files)] = g
        /\ \A i \in DOMAIN files : i # Len(files) => files'[i] = files[i]
    BY <2>2, <1>1, ReplaceFile DEF Types
  <2>4. ASSUME NEW i \in DOMAIN files
        PROVE  Len(files[i]) <= Len(files'[i]) /\ \A p \in 1..Len(files[i]) : files'[i][p] = files[i][p]
    <3>1. CASE i = Len(files)
      <4>1. files[i] = Tip /\ files'[i] = g /\ Len(Tip) <= Len(g)
        BY <3>1, <2>1, <2>2, <2>3 DEF Tip
      <4> QED BY <4>1, <2>2
    <3>2. CASE i # Len(files)
      BY <3>2, <2>3, <1>2
    <3> QED BY <3>1, <3>2
  <2> QED BY <2>1, <2>3, <2>4 DEF Grows
<1>5. ASSUME files' = files, blocks' = blocks, \A a \in acked' : a \in acked \/ blocks[a].file = Len(files)
      PROVE  Grows
  <2>1. ~(Len(files) < rfile)
    BY <1>1 DEF Types
  <2> QED BY <2>1, <1>2, <1>5 DEF Grows
<1>6. ASSUME EndWrite PROVE Grows
  <2>1. wpc = "write" /\ UNCHANGED <<files, blocks>> /\ acked' = acked \cup {Len(blocks)}
    BY <1>6 DEF EndWrite
  <2>2. blocks[Len(blocks)].file = Len(files)
    BY <2>1 DEF WriterAt
  <2> QED BY <2>1, <2>2, <1>5
<1>7. ASSUME WriterDies PROVE Grows
  BY <1>5, <1>7 DEF WriterDies
<1>8. ASSUME Repair PROVE Grows
  BY <1>5, <1>8, LogRepair, RepairCases
<1>9. UNCHANGED rVars
  BY DEF BeginWrite, WriteCell, EndWrite, WriterDies, Repair
<1> QED BY <1>3, <1>4, <1>6, <1>7, <1>8, <1>9
-----------------------------------------------------------------------------
\* The file the reader is in.
LEMMA ReaderFile ==
  ASSUME Types, Log, Reader
  PROVE  /\ rfile \in DOMAIN files /\ rfile \in Nat /\ Good(blocks, File) /\ File \in Seq(CellSet)
         /\ Len(File) \in Nat /\ roff \in Nat /\ roff <= Len(File) /\ rid \in Nat
         /\ Linked(blocks, File, rfile)
         /\ \A p \in 1..Len(File) : File[p].by \in DOMAIN blocks /\ blocks[File[p].by].file = rfile
<1>1. rfile \in DOMAIN files /\ roff \in 0..Len(File) /\ rid = LastId(blocks, File, roff)
  BY DEF Reader
<1>2. Good(blocks, File) /\ File \in Seq(CellSet)
  BY <1>1, FilesGood DEF File
<1>3. Len(File) \in Nat /\ roff \in Nat /\ roff <= Len(File) /\ rfile \in Nat
  BY <1>1, <1>2 DEF Types
<1>4. rid \in Nat
  BY <1>1, <1>2, LastIdNat
<1>5. Linked(blocks, File, rfile)
  BY <1>1 DEF Log, File
<1>6. \A p \in 1..Len(File) : File[p].by \in DOMAIN blocks /\ blocks[File[p].by].file = rfile
  BY <1>2, <1>5 DEF Good, Linked
<1> QED BY <1>1, <1>2, <1>3, <1>4, <1>5, <1>6

\* What stays of Reader when the reader only looks.
Position ==
  /\ rfile \in DOMAIN files /\ roff \in 0..Len(File)
  /\ Boundary(blocks, File, roff) /\ rid = LastId(blocks, File, roff)
  /\ \A p \in 1..roff : blocks[File[p].by].id <= rid
  /\ \A a \in DOMAIN blocks : blocks[a].file = rfile /\ blocks[a].id <= rid => a \in got
  /\ \A a \in acked : blocks[a].file < rfile => a \in got \cup missed

\* Looking and reading do not move the reader.
LEMMA PositionKept ==
  ASSUME Reader, UNCHANGED <<wVars, rfile, roff, rid, got, missed>>
  PROVE  Position'
BY DEF Reader, Position, File, wVars

\* The reader finds nothing new: all it sees, it has returned.
LEMMA ReaderIdle ==
  ASSUME Types, Log, Reader, Idle
  PROVE  Reader'
<1>1. /\ rpc = "look" /\ rpc' = "look" /\ Len(File) = roff /\ looked' = {c.by : c \in Range(File)}
      /\ tries' = (IF tries < 3 THEN tries + 1 ELSE 3)
      /\ UNCHANGED <<wVars, rfile, roff, rid, got, missed>>
  BY DEF Idle
<1>2. Position'
  BY <1>1, PositionKept
<1>3. tries' \in Nat
  BY <1>1 DEF Reader
<1>4. looked' \subseteq got
  <2>1. ASSUME NEW p \in DOMAIN File PROVE File[p].by \in got
    <3>1. p \in 1..Len(File) /\ p \in 1..roff
      BY <2>1, <1>1, ReaderFile
    <3>2. File[p].by \in DOMAIN blocks /\ blocks[File[p].by].file = rfile
      BY <3>1, ReaderFile
    <3>3. blocks[File[p].by].id <= rid
      BY <3>1 DEF Reader
    <3> QED BY <3>2, <3>3 DEF Reader
  <2> QED BY <2>1, <1>1 DEF Range
<1> QED BY <1>1, <1>2, <1>3, <1>4 DEF Reader, Position

\* The reader leaves a file: what is in it was seen at the last look, and returned, or is missed.
LEMMA ReaderLeavesFile ==
  ASSUME Types, Log, Reader, LeaveFile
  PROVE  Reader'
<1>1. /\ rpc = "look" /\ rpc' = "look" /\ tries > 2 /\ rfile < Len(files)
      /\ rfile' = rfile + 1 /\ roff' = 0 /\ rid' = 0 /\ tries' = 0
      /\ missed' = missed \cup ({c.by : c \in Range(File)} \ looked) /\ UNCHANGED <<wVars, got>>
  BY DEF LeaveFile, Leaves, Newer, NewestFile
<1>2. rfile \in Nat /\ rfile' \in DOMAIN files' /\ files' = files /\ blocks' = blocks /\ acked' = acked
  <2>1. rfile \in Nat /\ rfile \in 1..Len(files) /\ Len(files) \in Nat /\ DOMAIN files = 1..Len(files)
    BY ReaderFile DEF Types
  <2>2. files' = files /\ blocks' = blocks /\ acked' = acked
    BY <1>1 DEF wVars
  <2> QED BY <2>1, <2>2, <1>1
<1>3. looked \subseteq got
  BY <1>1 DEF Reader
<1>4. \A a \in acked : blocks[a].file < rfile' => a \in got' \cup missed'
  <2> TAKE a \in acked
  <2>1. a \in DOMAIN blocks /\ blocks[a].file \in Nat
    BY IdNat DEF Types
  <2>2. CASE blocks[a].file < rfile
    BY <2>2, <1>1 DEF Reader
  <2>3. CASE blocks[a].file = rfile
    <3>1. PICK p \in DOMAIN File : File[p].by = a
      BY <2>3 DEF Log, File
    <3>2. a \in {c.by : c \in Range(File)}
      BY <3>1 DEF Range
    <3> QED BY <3>2, <1>1, <1>3
  <2> QED BY <2>1, <2>2, <2>3, <1>1, <1>2
<1>5. \A a \in DOMAIN blocks : ~(blocks[a].id <= 0)
  BY IdNat
<1>6. File' \in Seq(CellSet) /\ roff' \in 0..Len(File')
  <2>1. File' \in Seq(CellSet)
    BY <1>2, FilesGood DEF File
  <2> QED BY <2>1, <1>1
<1>7. Boundary(blocks', File', roff') /\ rid' = LastId(blocks', File', roff')
  BY <1>1 DEF Boundary, LastId
<1>8. \A p \in 1..roff' : FALSE
  BY <1>1
<1> QED BY <1>1, <1>2, <1>4, <1>5, <1>6, <1>7, <1>8 DEF Reader

\* A head: in a clean log the reader stands before one.
LEMMA ReaderHead ==
  ASSUME Types, Log, Reader, ReadHead
  PROVE  Reader'
<1> DEFINE c == File[roff + 1]
<1>1. /\ rpc' = "body" /\ buf' = <<c>> /\ Len(File) > roff /\ tries' = tries
      /\ UNCHANGED <<wVars, rfile, roff, rid, got, missed>>
  BY DEF ReadHead
<1>2. Position'
  BY <1>1, PositionKept
<1>3. File' = File /\ blocks' = blocks
  BY <1>1 DEF File, wVars
<1>4. roff \in 0..Len(File) - 1 /\ roff + 1 \in 1..Len(File)
  BY <1>1, ReaderFile
<1>5. c \in CellSet /\ c.by \in DOMAIN blocks
  BY <1>4, ReaderFile
<1>6. c.nth = 0
  <2>1. Boundary(blocks, File, roff) /\ Linked(blocks, File, rfile)
    BY ReaderFile DEF Reader
  <2> QED BY <2>1, <1>4 DEF Linked
<1>7. c = Cell(c.by, 0)
  BY <1>5, <1>6 DEF CellSet, Cell
<1>8. blocks[c.by].len >= 1
  <2>1. blocks[c.by].len \in 2..BlockMax /\ BlockMax \in Nat
    BY <1>5, LenRange, SizesAssumption DEF Types
  <2> QED BY <2>1
<1> HIDE DEF c
<1>9. /\ <<c>> \in Seq(CellSet) /\ <<c>> # <<>> /\ Len(<<c>>) = 1 /\ <<c>>[1] = c
  BY <1>5
<1>10. /\ roff + 1 <= Len(File)
       /\ \A k \in 1..1 : <<c>>[k] = Cell(c.by, k - 1) /\ File[roff + k] = <<c>>[k]
  <2>1. roff + 1 <= Len(File)
    BY <1>4, ReaderFile
  <2>2. \A k \in 1..1 : k = 1 /\ k - 1 = 0
    OBVIOUS
  <2> QED BY <2>1, <2>2, <1>7, <1>9 DEF c
<1> QED BY <1>1, <1>2, <1>3, <1>5, <1>8, <1>9, <1>10 DEF Reader, Position

\* What is in the buffer while a block is read.
LEMMA ReaderBuf ==
  ASSUME Types, Log, Reader, rpc = "body"
  PROVE  /\ buf \in Seq(CellSet) /\ Len(buf) \in Nat /\ Len(buf) >= 1
         /\ roff + Len(buf) <= Len(File) /\ buf[1].by \in DOMAIN blocks
         /\ Len(buf) <= blocks[buf[1].by].len /\ blocks[buf[1].by].len \in Nat
         /\ \A k \in 1..Len(buf) : buf[k] = Cell(buf[1].by, k - 1) /\ File[roff + k] = buf[k]
<1>1. /\ buf \in Seq(CellSet) /\ buf # <<>>
      /\ roff + Len(buf) <= Len(File) /\ buf[1].by \in DOMAIN blocks
      /\ Len(buf) <= blocks[buf[1].by].len
      /\ \A k \in 1..Len(buf) : buf[k] = Cell(buf[1].by, k - 1) /\ File[roff + k] = buf[k]
  BY DEF Reader
<1>2. blocks[buf[1].by].len \in 2..BlockMax /\ BlockMax \in Nat
  BY <1>1, LenRange, SizesAssumption DEF Types
<1>3. Len(buf) \in Nat /\ Len(buf) >= 1 /\ blocks[buf[1].by].len \in Nat
  BY <1>1, <1>2
<1> QED BY <1>1, <1>3

\* One more cell of the body: the next cell of the same block.
LEMMA ReaderBody ==
  ASSUME Types, Log, Reader, ReadBody
  PROVE  Reader'
<1> DEFINE n == Len(buf)
<1> DEFINE h == buf[1].by
<1> DEFINE c == File[roff + n + 1]
<1>1. /\ rpc = "body" /\ rpc' = "body" /\ buf' = Append(buf, c) /\ tries' = tries
      /\ n < blocks[h].len /\ roff + n < Len(File) /\ UNCHANGED <<wVars, rfile, roff, rid, got, missed>>
  BY DEF ReadBody
<1>2. Position'
  BY <1>1, PositionKept
<1>3. File' = File /\ blocks' = blocks
  BY <1>1 DEF File, wVars
<1>4. /\ buf \in Seq(CellSet) /\ n \in Nat /\ n >= 1 /\ h \in DOMAIN blocks /\ blocks[h].len \in Nat
      /\ \A k \in 1..n : buf[k] = Cell(h, k - 1) /\ File[roff + k] = buf[k]
  BY <1>1, ReaderBuf
<1>5. /\ roff \in Nat /\ Len(File) \in Nat /\ Linked(blocks, File, rfile) /\ File \in Seq(CellSet)
  BY ReaderFile
<1> HIDE DEF n, h
<1>6. File[roff + n] = Cell(h, n - 1)
  <2>1. n \in 1..n
    BY <1>4
  <2> QED BY <2>1, <1>4
<1>7. File[roff + n].by = h /\ File[roff + n].nth = n - 1
  BY <1>6 DEF Cell
<1>8. roff + n \in 0..Len(File) - 1 /\ roff + n # 0 /\ (n - 1) + 1 = n
  BY <1>1, <1>4, <1>5
<1>9. ~Boundary(blocks, File, roff + n)
  BY <1>1, <1>4, <1>7, <1>8 DEF Boundary
<1>10. c = Cell(h, n)
  <2> DEFINE q == roff + n
  <2>1. q \in 0..Len(File) - 1 /\ ~Boundary(blocks, File, q) /\ File[q].by = h /\ File[q].nth = n - 1
    BY <1>7, <1>8, <1>9
  <2> HIDE DEF q
  <2>2. File[q + 1] = Cell(File[q].by, File[q].nth + 1)
    BY <2>1, <1>5 DEF Linked
  <2> QED BY <2>1, <2>2, <1>8 DEF q
<1>11. c \in CellSet
  <2>1. roff + n + 1 \in 1..Len(File)
    BY <1>1, <1>4, <1>5
  <2> QED BY <2>1, <1>5
<1>12. c = File[roff + n + 1]
  OBVIOUS
<1> HIDE DEF c
<1>13. /\ buf' \in Seq(CellSet) /\ Len(buf') = n + 1 /\ buf'[n + 1] = c
       /\ \A k \in 1..n : buf'[k] = buf[k]
  BY <1>1, <1>4, <1>11 DEF n
<1>14. buf' # <<>> /\ buf'[1] = buf[1] /\ buf'[1].by = h
  <2>1. 1 \in 1..n
    BY <1>4
  <2>2. Len(buf') # 0
    BY <1>4, <1>13
  <2> QED BY <2>1, <2>2, <1>13 DEF h
<1>15. \A k \in 1..n + 1 : buf'[k] = Cell(h, k - 1) /\ File[roff + k] = buf'[k]
  <2> TAKE k \in 1..n + 1
  <2>1. CASE k = n + 1
    <3>1. k - 1 = n /\ roff + k = roff + n + 1
      BY <2>1, <1>4, <1>5
    <3> QED BY <2>1, <3>1, <1>10, <1>12, <1>13
  <2>2. CASE k # n + 1
    <3>1. k \in 1..n
      BY <2>2, <1>4
    <3> QED BY <3>1, <1>4, <1>13
  <2> QED BY <2>1, <2>2
<1>16. roff + (n + 1) <= Len(File) /\ n + 1 <= blocks[h].len
  BY <1>1, <1>4, <1>5
<1> QED BY <1>1, <1>2, <1>3, <1>4, <1>13, <1>14, <1>15, <1>16 DEF Reader, Position
-----------------------------------------------------------------------------
\* A block is returned: it is the one with the next id of the file.
LEMMA ReaderReturns ==
  ASSUME Types, Log, Reader, NEW sent \in BOOLEAN, Return(sent)
  PROVE  Reader'
<1> DEFINE n == Len(buf)
<1> DEFINE h == buf[1].by
<1>1. /\ rpc = "body" /\ n = blocks[h].len /\ blocks[h].id = rid + 1
      /\ roff' = roff + n /\ rid' = rid + 1 /\ tries' = 0 /\ rpc' = "look"
      /\ got' = got \cup Carried /\ UNCHANGED <<wVars, rfile, missed>>
  BY DEF Return
<1>2. File' = File /\ blocks' = blocks /\ files' = files /\ acked' = acked
  BY <1>1 DEF File, wVars
<1>3. /\ buf \in Seq(CellSet) /\ n \in Nat /\ n >= 1 /\ h \in DOMAIN blocks
      /\ roff + n <= Len(File)
      /\ \A k \in 1..n : buf[k] = Cell(h, k - 1) /\ File[roff + k] = buf[k]
  BY <1>1, ReaderBuf
<1>4. /\ rfile \in DOMAIN files /\ roff \in Nat /\ Len(File) \in Nat /\ rid \in Nat
      /\ \A p \in 1..Len(File) : File[p].by \in DOMAIN blocks /\ blocks[File[p].by].file = rfile
  BY ReaderFile
<1>5. h \in Carried
  <2>1. \A k \in 2..n : k \in 1..n
    BY <1>3
  <2> QED BY <2>1, <1>1, <1>3 DEF Carried
<1> HIDE DEF n, h
<1>6. File[roff + n] = Cell(h, n - 1) /\ roff + n # 0 /\ (n - 1) + 1 = n
  <2>1. n \in 1..n
    BY <1>3
  <2>2. File[roff + n] = Cell(h, n - 1)
    BY <2>1, <1>3
  <2>3. roff + n # 0 /\ (n - 1) + 1 = n
    BY <1>3, <1>4
  <2> QED BY <2>2, <2>3
<1>7. File[roff + n].by = h /\ File[roff + n].nth = n - 1
  BY <1>6 DEF Cell
<1>8. Boundary(blocks', File', roff') /\ rid' = LastId(blocks', File', roff')
  BY <1>1, <1>2, <1>6, <1>7 DEF Boundary, LastId
<1>9. \A p \in 1..roff' : blocks[File[p].by].id <= rid'
  <2> TAKE p \in 1..roff'
  <2>1. CASE p <= roff
    <3>1. p \in 1..roff /\ p \in 1..Len(File)
      BY <2>1, <1>1, <1>3, <1>4
    <3>2. blocks[File[p].by].id <= rid
      BY <3>1 DEF Reader
    <3>3. blocks[File[p].by].id \in Nat
      BY <3>1, <1>4, IdNat
    <3> QED BY <3>2, <3>3, <1>1, <1>4
  <2>2. CASE ~(p <= roff)
    <3> DEFINE k == p - roff
    <3>1. k \in 1..n /\ roff + k = p
      BY <2>2, <1>1, <1>3, <1>4
    <3>2. File[p].by = h
      <4> HIDE DEF k
      <4>1. File[roff + k] = Cell(h, k - 1)
        BY <3>1, <1>3
      <4> QED BY <4>1, <3>1 DEF Cell
    <3> QED BY <3>2, <1>1, <1>4
  <2> QED BY <2>1, <2>2
<1>10. blocks[h].file = rfile
  <2>1. roff + n \in 1..Len(File)
    BY <1>3, <1>4
  <2> QED BY <2>1, <1>4, <1>7
<1>11. \A a \in DOMAIN blocks : blocks[a].file = rfile /\ blocks[a].id <= rid' => a \in got'
  <2> TAKE a \in DOMAIN blocks
  <2> HAVE blocks[a].file = rfile /\ blocks[a].id <= rid'
  <2>1. blocks[a].id \in Nat
    BY IdNat
  <2>2. CASE blocks[a].id <= rid
    BY <2>2, <1>1 DEF Reader
  <2>3. CASE blocks[a].id = rid + 1
    <3>1. a = h
      BY <2>3, <1>1, <1>3, <1>10 DEF Log
    <3> QED BY <3>1, <1>1, <1>5
  <2> QED BY <2>1, <2>2, <2>3, <1>1, <1>4
<1>12. \A a \in acked : blocks[a].file < rfile => a \in got' \cup missed
  BY <1>1 DEF Reader
<1>13. roff' \in 0..Len(File)
  BY <1>1, <1>3, <1>4
<1> QED BY <1>1, <1>2, <1>4, <1>8, <1>9, <1>11, <1>12, <1>13 DEF Reader

\* The inductive invariant of the clean log.
CleanInv == TailInv /\ CleanLog /\ CleanReader

\* Every step keeps the invariant of the reader.
LEMMA ReaderStep ==
  ASSUME CleanInv, [Next]_vars
  PROVE  CleanReader'
<1> SUFFICES ASSUME torn' = {}, seeks' = 0, rpc' # "dead" PROVE Reader'
  BY DEF CleanReader
<1>1. TailInv /\ Types /\ Types' /\ seeks \in Nat
  BY TailStep DEF CleanInv, TailInv, Types
<1>2. ASSUME torn = {}, seeks = 0, rpc # "dead" PROVE Log /\ WriterAt /\ Reader
  BY <1>2 DEF CleanInv, CleanLog, CleanReader
<1>3. CASE UNCHANGED vars
  <2>1. Reader
    BY <1>2, <1>3 DEF vars, wVars, rVars
  <2> QED BY <2>1, <1>3 DEF Reader, File, vars, wVars, rVars
<1>4. CASE Reading
  <2>1. torn = {} /\ seeks = 0
    BY <1>4, ReaderLeaves DEF wVars
  <2>2. rpc # "dead"
    BY <1>4 DEF Reading, Idle, LeaveFile, ReadHead, DieAtHead, ReadBody, DieAtId, Return
  <2>3. Log /\ Reader
    BY <2>1, <2>2, <1>2
  <2>4. ~DieAtHead /\ ~DieAtId
    BY DEF DieAtHead, DieAtId, Suicide
  <2> QED BY <2>3, <2>4, <1>1, <1>4, ReaderIdle, ReaderLeavesFile, ReaderHead, ReaderBody, ReaderReturns
          DEF Reading
<1>5. CASE Seeking
  BY <1>1, <1>5, ReaderLeaves
<1>6. CASE (\E n \in Lens : BeginWrite(n)) \/ WriteCell \/ EndWrite \/ WriterDies \/ Repair
  <2>1. torn = {} /\ seeks = 0 /\ rpc # "dead"
    BY <1>6 DEF BeginWrite, WriteCell, EndWrite, WriterDies, Repair, rVars
  <2>2. Log /\ WriterAt /\ Reader
    BY <2>1, <1>2
  <2>3. Grows /\ UNCHANGED rVars
    BY <2>2, <1>1, <1>6, WriterGrows
  <2> QED BY <2>2, <2>3, <1>1, ReaderKept
<1> QED BY <1>3, <1>4, <1>5, <1>6 DEF Next, Writing

\* The first state: an empty file, and a reader at its beginning.
LEMMA CleanInit == Init => CleanInv
<1> SUFFICES ASSUME Init PROVE CleanInv
  OBVIOUS
<1>1. files = <<<<>>>> /\ Tip = <<>> /\ File = <<>> /\ blocks = <<>> /\ acked = {}
  BY DEF Init, Tip, File
<1>2. Len(files) = 1 /\ DOMAIN files = {1} /\ files[1] = <<>> /\ Len(<<>>) = 0 /\ DOMAIN blocks = {}
  BY <1>1
<1>3. Linked(blocks, <<>>, 1)
  BY <1>2 DEF Linked
<1>4. Log
  BY <1>1, <1>2, <1>3 DEF Log
<1>5. WriterAt
  BY <1>1, <1>2 DEF Init, WriterAt, Boundary, LastId
<1>6. Reader
  BY <1>1, <1>2 DEF Init, Reader, Boundary, LastId
<1> QED BY <1>4, <1>5, <1>6, TailInit DEF CleanInv, CleanLog, CleanReader

\* While no death cuts a block short and the reader has not been moved, it has returned every
\* acknowledged block up to its position, over any number of files and restarts of the server,
\* except those written between its last look at a file and the test for a newer one.
THEOREM NothingSkipped == Spec => []NoneSkipped
<1>1. Init => CleanInv
  BY CleanInit
<1>2. CleanInv /\ [Next]_vars => CleanInv'
  BY TailStep, LogStep, ReaderStep DEF CleanInv
<1>3. CleanInv => NoneSkipped
  <2> SUFFICES ASSUME CleanInv, rpc # "dead", torn = {}, seeks = 0, NEW a \in acked, Passed(a)
               PROVE  a \in got \cup missed
    BY DEF NoneSkipped
  <2>1. Reader /\ a \in DOMAIN blocks
    BY DEF CleanInv, CleanReader, TailInv, Types
  <2> QED BY <2>1 DEF Reader, Passed
<1> QED BY <1>1, <1>2, <1>3, PTL DEF Spec
-----------------------------------------------------------------------------
(***************************************************************************)
(* LogIntact and ReaderSafe, for any deaths and any seeks.  The blocks of  *)
(* a file whose check sums hold lie one behind the other from the          *)
(* beginning of the file on, whatever torn cells lie behind them: so the   *)
(* walk from block to block meets exactly these.                           *)
(***************************************************************************)
\* The end and the id of the whole block at o.
EndOf(bs, f, o) == o + bs[f[o + 1].by].len
IdOf(bs, f, o) == bs[f[o + 1].by].id

\* Offset s is the beginning of the file or the end of a whole block, and n is the id that comes next.
Begins(bs, f, s, n) ==
  \/ s = 0 /\ n = 1
  \/ \E p \in Nat : WholeIn(bs, f, p) /\ s = EndOf(bs, f, p) /\ n = IdOf(bs, f, p) + 1

\* The whole blocks of a file do not overlap, and each begins where the one before it ends, with the
\* next id; the one before it was begun earlier.
Tiled(bs, f) ==
  /\ \A p, o \in Nat : WholeIn(bs, f, p) /\ WholeIn(bs, f, o) /\ p < o =>
       EndOf(bs, f, p) <= o /\ f[p + 1].by < f[o + 1].by
  /\ \A o \in Nat : WholeIn(bs, f, o) => Begins(bs, f, o, IdOf(bs, f, o))

\* The block in work begins at s: all whole blocks end there, and its cells are where they belong.
WorksAt(s) ==
  /\ Begins(blocks, Tip, s, wid) /\ wpos = s + Done /\ Begun(Tip, s, Len(blocks), Done)
  /\ \A o \in Nat : WholeIn(blocks, Tip, o) => EndOf(blocks, Tip, o) <= s \/ (o = s /\ wrest = 0)
  /\ \A p \in 1..Len(Tip) : Tip[p].by = Len(blocks) => p = s + 1 + Tip[p].nth /\ Tip[p].nth < Done
  /\ s + blocks[Len(blocks)].len <= FileMax
WriterIn ==
  /\ wpc = "idle" =>
       /\ Begins(blocks, Tip, wpos, wid)
       /\ \A o \in Nat : WholeIn(blocks, Tip, o) => EndOf(blocks, Tip, o) <= wpos
  /\ wpc = "write" =>
       /\ blocks[Len(blocks)].id = wid /\ blocks[Len(blocks)].file = Len(files)
       /\ \E s \in Nat : WorksAt(s)

\* A cell is in a file of its block.  The last cell of a torn block was never written; another block is
\* in work, or it is whole and the cell in its place.
InPlace(bs, f, p) ==
  p > f[p].nth /\ WholeIn(bs, f, p - 1 - f[p].nth) /\ f[p - f[p].nth].by = f[p].by
InWork(a) == wpc = "write" /\ a = Len(blocks)
PlacedIn(i, f, p) ==
  /\ blocks[f[p].by].file = i /\ f[p].nth < blocks[f[p].by].len
  /\ f[p].by \in torn => f[p].nth + 1 < blocks[f[p].by].len
  /\ f[p].by \notin torn => InPlace(blocks, f, p) \/ InWork(f[p].by)
Placed ==
  /\ \A i \in DOMAIN files : Tiled(blocks, files[i]) /\ \A p \in 1..Len(files[i]) : PlacedIn(i, files[i], p)
  /\ torn \subseteq DOMAIN blocks /\ \A a \in torn : ~InWork(a)

\* An acknowledged block is whole.
AckedWhole ==
  \A a \in acked : \E o \in Nat :
    WholeIn(blocks, files[blocks[a].file], o) /\ files[blocks[a].file][o + 1].by = a

LogInv == WriterIn /\ Placed /\ AckedWhole

\* The reader is where a block begins; what it has read of a block is still there, but for torn cells.
ReadIn(k) ==
  /\ buf[k].by \in DOMAIN blocks /\ buf[k].nth \in Nat /\ buf[k].nth < blocks[buf[k].by].len
  /\ buf[k].by \in torn => buf[k].nth + 1 < blocks[buf[k].by].len
  /\ buf[k].by \notin torn => roff + k <= Len(File) /\ File[roff + k] = buf[k]
  /\ InWork(buf[k].by) => buf[k].nth < Done
ReaderIn ==
  /\ rfile \in DOMAIN files /\ roff \in Nat /\ rid \in Nat
  /\ rpc \in {"look", "body", "dead"} /\ buf \in Seq(CellSet)
  /\ rpc = "look" => buf = <<>>
  /\ rpc = "body" => buf # <<>> /\ buf[1].nth = 0 /\ Len(buf) <= blocks[buf[1].by].len
  /\ garbled = {} => Begins(blocks, File, roff, rid + 1)
  /\ \A k \in 1..Len(buf) : ReadIn(k)
  /\ saved.file \in DOMAIN files

\* The bounds of the model hold, for the writer and for the reader.
Bounded ==
  /\ Len(blocks) + seeks <= MaxWrites /\ seeks \in 0..MaxSeeks /\ deaths \in 0..MaxDeaths
  /\ wid <= Len(blocks) + 1 /\ wpos <= FileMax /\ wrest <= BlockMax
  /\ Len(files) <= Len(blocks) + 1 /\ \A i \in DOMAIN files : Len(files[i]) <= FileMax
  /\ \A a \in DOMAIN blocks : blocks[a].id <= a
ReaderBounded ==
  /\ roff + Len(buf) <= FileMax /\ rid <= Len(blocks) /\ tries \in 0..3
  /\ saved \in [file : DOMAIN files, off : 0..FileMax, id : 0..Len(blocks)]
  /\ got \subseteq DOMAIN blocks /\ garbled \subseteq SUBSET DOMAIN blocks
  /\ missed \subseteq DOMAIN blocks /\ looked \subseteq DOMAIN blocks

\* Every block among bs is among cs.
Extends(bs, cs) == \A a \in DOMAIN bs : a \in DOMAIN cs /\ cs[a] = bs[a]

\* What is known of a whole block.
LEMMA WholeFacts ==
  ASSUME NEW bs, NEW f, NEW o \in Nat, Good(bs, f), WholeIn(bs, f, o)
  PROVE  /\ o + 1 \in 1..Len(f) /\ Len(f) \in Nat /\ f[o + 1].by \in DOMAIN bs /\ f[o + 1].nth = 0
         /\ f[o + 1].by \in Nat /\ IdOf(bs, f, o) \in Nat \ {0}
         /\ EndOf(bs, f, o) = o + bs[f[o + 1].by].len /\ bs[f[o + 1].by].len \in 2..BlockMax
         /\ EndOf(bs, f, o) \in Nat /\ o + 2 <= EndOf(bs, f, o) /\ EndOf(bs, f, o) <= Len(f)
         /\ \A p \in o + 1..EndOf(bs, f, o) : f[p].by = f[o + 1].by /\ f[p].nth = (p - o) - 1
<1> DEFINE a == f[o + 1].by
<1> DEFINE n == bs[a].len
<1>1. Len(f) \in Nat /\ o + 1 \in 1..Len(f) /\ BlockMax \in Nat
  BY SizesAssumption DEF WholeIn, Good
<1>2. a \in DOMAIN bs
  BY <1>1 DEF Good
<1>3. n \in 2..BlockMax /\ bs[a].id \in Nat \ {0} /\ a \in Nat
  <2>1. bs[a] \in BlockSet /\ a \in Nat
    BY <1>2 DEF Good
  <2> QED BY <2>1, <1>2, LenRange DEF Good, BlockSet
<1>4. EndOf(bs, f, o) = o + n /\ IdOf(bs, f, o) = bs[a].id /\ f[o + 1].nth = 0
  BY DEF EndOf, IdOf, WholeIn
<1>5. o + n <= Len(f) /\ \A k \in 0..n - 1 : f[o + 1 + k] = Cell(a, k)
  BY DEF WholeIn
<1> HIDE DEF n
<1>6. ASSUME NEW p \in o + 1..o + n PROVE f[p].by = a /\ f[p].nth = (p - o) - 1
  <2>1. (p - o) - 1 \in 0..n - 1 /\ o + 1 + ((p - o) - 1) = p
    BY <1>3
  <2>2. f[p] = Cell(a, (p - o) - 1)
    BY <2>1, <1>5
  <2> QED BY <2>2 DEF Cell
<1>7. o + n \in Nat /\ o + 2 <= o + n
  BY <1>3, <1>1
<1> QED BY <1>1, <1>2, <1>3, <1>4, <1>5, <1>6, <1>7 DEF n

\* The cells in their places make a block whole.
LEMMA BegunIsWhole ==
  ASSUME NEW bs, NEW f, NEW s \in Nat, NEW a \in DOMAIN bs, Good(bs, f), Begun(f, s, a, bs[a].len)
  PROVE  /\ WholeIn(bs, f, s) /\ f[s + 1].by = a
         /\ EndOf(bs, f, s) = s + bs[a].len /\ IdOf(bs, f, s) = bs[a].id
<1> DEFINE n == bs[a].len
<1>1. n \in 2..BlockMax /\ BlockMax \in Nat /\ Len(f) \in Nat
  BY LenRange, SizesAssumption DEF Good
<1>2. s + n <= Len(f) /\ \A j \in 0..n - 1 : f[s + 1 + j] = Cell(a, j)
  BY DEF Begun
<1>3. f[s + 1] = Cell(a, 0)
  <2>1. f[s + 1 + 0] = Cell(a, 0)
    BY <1>1, <1>2
  <2> QED BY <2>1
<1>4. f[s + 1].by = a /\ f[s + 1].nth = 0
  BY <1>3 DEF Cell
<1>5. s < Len(f)
  <2> HIDE DEF n
  <2> QED BY <1>1, <1>2
<1> QED BY <1>2, <1>4, <1>5 DEF WholeIn, EndOf, IdOf

\* Two whole blocks are one, or one lies behind the other.
LEMMA Apart ==
  ASSUME NEW bs, NEW f, Good(bs, f), Tiled(bs, f), NEW p \in Nat, NEW q \in Nat,
         WholeIn(bs, f, p), WholeIn(bs, f, q)
  PROVE  p = q \/ EndOf(bs, f, p) <= q \/ EndOf(bs, f, q) <= p
<1>1. p = q \/ p < q \/ q < p
  OBVIOUS
<1> QED BY <1>1 DEF Tiled

\* What begins at an offset has one id.
LEMMA BeginsOnce ==
  ASSUME NEW bs, NEW f, Good(bs, f), Tiled(bs, f), NEW s, NEW n, NEW m,
         Begins(bs, f, s, n), Begins(bs, f, s, m)
  PROVE  n = m
<1>1. ASSUME NEW p \in Nat, WholeIn(bs, f, p)
      PROVE  EndOf(bs, f, p) \in Nat /\ p + 2 <= EndOf(bs, f, p)
  BY <1>1, WholeFacts
<1>2. ASSUME NEW p \in Nat, NEW q \in Nat, WholeIn(bs, f, p), WholeIn(bs, f, q),
             EndOf(bs, f, p) = EndOf(bs, f, q)
      PROVE  p = q
  <2>1. p = q \/ EndOf(bs, f, p) <= q \/ EndOf(bs, f, q) <= p
    BY <1>2, Apart
  <2> QED BY <2>1, <1>1, <1>2
<1>3. CASE s = 0
  <2>1. ASSUME NEW p \in Nat, WholeIn(bs, f, p) PROVE s # EndOf(bs, f, p)
    BY <2>1, <1>1, <1>3
  <2> QED BY <2>1 DEF Begins
<1>4. CASE s # 0
  <2>1. PICK p \in Nat : WholeIn(bs, f, p) /\ s = EndOf(bs, f, p) /\ n = IdOf(bs, f, p) + 1
    BY <1>4 DEF Begins
  <2>2. PICK q \in Nat : WholeIn(bs, f, q) /\ s = EndOf(bs, f, q) /\ m = IdOf(bs, f, q) + 1
    BY <1>4 DEF Begins
  <2>3. p = q
    BY <2>1, <2>2, <1>2
  <2> QED BY <2>1, <2>2, <2>3
<1> QED BY <1>3, <1>4

\* A block begins in the file, or at its end.
LEMMA BeginsIn ==
  ASSUME NEW bs, NEW f, Good(bs, f), NEW s, NEW n, Begins(bs, f, s, n)
  PROVE  s \in Nat /\ s <= Len(f) /\ n \in Nat
<1>1. Len(f) \in Nat
  BY DEF Good
<1>2. CASE s = 0 /\ n = 1
  BY <1>1, <1>2
<1>3. ASSUME NEW p \in Nat, WholeIn(bs, f, p), s = EndOf(bs, f, p), n = IdOf(bs, f, p) + 1
      PROVE  s \in Nat /\ s <= Len(f) /\ n \in Nat
  BY <1>3, WholeFacts
<1> QED BY <1>2, <1>3 DEF Begins

\* A block more changes nothing of the blocks in a file.
LEMMA SameWhole ==
  ASSUME NEW bs, NEW cs, NEW f, Good(bs, f), Good(cs, f), Extends(bs, cs)
  PROVE  \A o \in Nat :
           /\ WholeIn(cs, f, o) <=> WholeIn(bs, f, o)
           /\ WholeIn(bs, f, o) => EndOf(cs, f, o) = EndOf(bs, f, o) /\ IdOf(cs, f, o) = IdOf(bs, f, o)
<1> TAKE o \in Nat
<1>1. CASE o < Len(f)
  <2>1. o + 1 \in 1..Len(f)
    BY <1>1 DEF Good
  <2>2. f[o + 1].by \in DOMAIN bs
    BY <2>1 DEF Good
  <2>3. cs[f[o + 1].by] = bs[f[o + 1].by]
    BY <2>2 DEF Extends
  <2> QED BY <2>3 DEF WholeIn, EndOf, IdOf
<1>2. CASE ~(o < Len(f))
  BY <1>2 DEF WholeIn
<1> QED BY <1>1, <1>2

\* What begins stays when the whole blocks of a file stay.
LEMMA BeginsKept ==
  ASSUME NEW bs, NEW f, NEW cs, NEW g, NEW s, NEW n, Begins(bs, f, s, n),
         \A o \in Nat : WholeIn(bs, f, o) =>
           WholeIn(cs, g, o) /\ EndOf(cs, g, o) = EndOf(bs, f, o) /\ IdOf(cs, g, o) = IdOf(bs, f, o)
  PROVE  Begins(cs, g, s, n)
<1>1. CASE s = 0 /\ n = 1
  BY <1>1 DEF Begins
<1>2. ASSUME NEW p \in Nat, WholeIn(bs, f, p), s = EndOf(bs, f, p), n = IdOf(bs, f, p) + 1
      PROVE  Begins(cs, g, s, n)
  <2>1. WholeIn(cs, g, p) /\ s = EndOf(cs, g, p) /\ n = IdOf(cs, g, p) + 1
    BY <1>2
  <2> QED BY <2>1 DEF Begins
<1> QED BY <1>1, <1>2 DEF Begins

\* A block more leaves a file tiled.
LEMMA SameTiled ==
  ASSUME NEW bs, NEW cs, NEW f, Good(bs, f), Good(cs, f), Extends(bs, cs), Tiled(bs, f)
  PROVE  Tiled(cs, f)
<1>1. \A o \in Nat :
        /\ WholeIn(cs, f, o) <=> WholeIn(bs, f, o)
        /\ WholeIn(bs, f, o) => EndOf(cs, f, o) = EndOf(bs, f, o) /\ IdOf(cs, f, o) = IdOf(bs, f, o)
  BY SameWhole
<1>2. ASSUME NEW p \in Nat, NEW o \in Nat, WholeIn(cs, f, p), WholeIn(cs, f, o), p < o
      PROVE  EndOf(cs, f, p) <= o /\ f[p + 1].by < f[o + 1].by
  <2>1. WholeIn(bs, f, p) /\ WholeIn(bs, f, o) /\ EndOf(cs, f, p) = EndOf(bs, f, p)
    BY <1>1, <1>2
  <2> QED BY <2>1, <1>2 DEF Tiled
<1>3. ASSUME NEW o \in Nat, WholeIn(cs, f, o) PROVE Begins(cs, f, o, IdOf(cs, f, o))
  <2>1. WholeIn(bs, f, o) /\ IdOf(cs, f, o) = IdOf(bs, f, o)
    BY <1>1, <1>3
  <2>2. Begins(bs, f, o, IdOf(bs, f, o))
    BY <2>1 DEF Tiled
  <2> QED BY <2>1, <2>2, <1>1, BeginsKept
<1> QED BY <1>2, <1>3 DEF Tiled
\* The cell d of the newest block a, that is in work at s, comes into file f and makes it g.
OneCell(bs, f, g, s, a, d) ==
  /\ Good(bs, f) /\ Good(bs, g) /\ Tiled(bs, f)
  /\ s \in Nat /\ d \in Nat /\ a \in DOMAIN bs /\ a = Len(bs) /\ d < bs[a].len
  /\ Begins(bs, f, s, bs[a].id) /\ s + d <= Len(f) /\ Begun(g, s, a, d + 1)
  /\ Len(g) = IF s + d < Len(f) THEN Len(f) ELSE Len(f) + 1
  /\ \A p \in 1..Len(g) : g[p] = IF p = s + d + 1 THEN Cell(a, d) ELSE f[p]
  /\ \A o \in Nat : WholeIn(bs, f, o) => EndOf(bs, f, o) <= s
  /\ \A p \in 1..Len(f) : f[p].by = a => p = s + 1 + f[p].nth /\ f[p].nth < d

\* What is whole stays so.
LEMMA WholeStays ==
  ASSUME NEW bs, NEW f, NEW g, NEW s, NEW a, NEW d, OneCell(bs, f, g, s, a, d),
         NEW o \in Nat, WholeIn(bs, f, o)
  PROVE  /\ WholeIn(bs, g, o) /\ g[o + 1].by = f[o + 1].by
         /\ EndOf(bs, g, o) = EndOf(bs, f, o) /\ IdOf(bs, g, o) = IdOf(bs, f, o)
<1>1. Good(bs, f) /\ Good(bs, g) /\ s \in Nat /\ d \in Nat /\ Len(g) \in Nat /\ Len(f) \in Nat
  BY DEF OneCell, Good
<1>2. EndOf(bs, f, o) <= s /\ EndOf(bs, f, o) \in Nat /\ EndOf(bs, f, o) <= Len(f)
  BY <1>1, WholeFacts DEF OneCell
<1>3. EndOf(bs, f, o) <= Len(g)
  BY <1>1, <1>2 DEF OneCell
<1>4. \A p \in 1..EndOf(bs, f, o) : g[p] = f[p]
  <2> TAKE p \in 1..EndOf(bs, f, o)
  <2>1. p \in 1..Len(g) /\ p # s + d + 1
    BY <1>1, <1>2, <1>3
  <2> QED BY <2>1 DEF OneCell
<1>5. WholeIn(bs, g, o) /\ g[o + 1].by = f[o + 1].by
  <2>1. \A b \in DOMAIN bs : b \in DOMAIN bs /\ bs[b] = bs[b]
    OBVIOUS
  <2>2. /\ o + bs[f[o + 1].by].len <= Len(g)
        /\ \A p \in 1..o + bs[f[o + 1].by].len : g[p] = f[p]
    BY <1>3, <1>4 DEF EndOf
  <2> QED BY <2>1, <2>2, <1>1, WholeKept
<1> QED BY <1>5 DEF EndOf, IdOf

\* Nothing becomes whole but the block in work, by its last cell.
LEMMA NothingElseWhole ==
  ASSUME NEW bs, NEW f, NEW g, NEW s, NEW a, NEW d, OneCell(bs, f, g, s, a, d),
         NEW o \in Nat, WholeIn(bs, g, o)
  PROVE  WholeIn(bs, f, o) \/ (o = s /\ d + 1 = bs[a].len)
<1> DEFINE w == s + d + 1
<1> DEFINE e == EndOf(bs, g, o)
<1>1. /\ Good(bs, f) /\ Good(bs, g) /\ s \in Nat /\ d \in Nat /\ Len(g) \in Nat /\ Len(f) \in Nat
      /\ s + d <= Len(f) /\ Len(g) = (IF s + d < Len(f) THEN Len(f) ELSE Len(f) + 1)
      /\ \A p \in 1..Len(g) : g[p] = IF p = w THEN Cell(a, d) ELSE f[p]
  BY DEF OneCell, Good
<1>2. /\ e \in Nat /\ o + 2 <= e /\ e <= Len(g)
      /\ \A p \in o + 1..e : g[p].by = g[o + 1].by /\ g[p].nth = (p - o) - 1
      /\ e = o + bs[g[o + 1].by].len
  BY <1>1, WholeFacts
<1>3. CASE w \in o + 1..e
  <2>1. g[w].by = a /\ g[w].nth = d
    <3>1. w \in 1..Len(g)
      BY <1>1, <1>2, <1>3
    <3> QED BY <3>1, <1>1 DEF Cell
  <2>2. g[o + 1].by = a /\ d = (w - o) - 1
    BY <2>1, <1>2, <1>3
  <2>3. o = s
    BY <2>2, <1>1
  <2>4. e = s + bs[a].len
    BY <2>2, <2>3, <1>2
  <2>5. bs[a].len \in 2..BlockMax /\ BlockMax \in Nat /\ d < bs[a].len
    BY LenRange, SizesAssumption DEF OneCell, Good
  <2>6. ASSUME d + 1 # bs[a].len PROVE FALSE
    <3>1. w + 1 \in o + 1..e /\ w + 1 \in 1..Len(f) /\ w + 1 \in 1..Len(g) /\ w + 1 # w
      <4> DEFINE n == bs[a].len
      <4>1. d + 1 < n /\ n \in Nat /\ e = s + n
        BY <2>4, <2>5, <2>6, <1>1
      <4> HIDE DEF n, e
      <4>2. w + 1 <= e
        BY <4>1, <1>1
      <4> QED BY <4>1, <4>2, <2>3, <1>1, <1>2
    <3>2. g[w + 1].by = a /\ g[w + 1].nth = ((w + 1) - o) - 1
      BY <3>1, <2>2, <1>2
    <3>3. f[w + 1] = g[w + 1]
      BY <3>1, <1>1
    <3>4. f[w + 1].nth < d
      BY <3>1, <3>2, <3>3 DEF OneCell
    <3> QED BY <3>2, <3>3, <3>4, <2>3, <1>1
  <2> QED BY <2>3, <2>6
<1>4. CASE w \notin o + 1..e
  <2>1. e <= Len(f) /\ \A p \in o + 1..e : p \in 1..Len(g) /\ p \in 1..Len(f) /\ p # w
    <3> HIDE DEF e
    <3>1. ASSUME e > Len(f) PROVE FALSE
      <4>1. e = Len(g) /\ Len(g) = Len(f) + 1 /\ w = e
        BY <3>1, <1>1, <1>2
      <4>2. w \in o + 1..e
        <5> HIDE DEF w
        <5> QED BY <4>1, <1>2
      <4> QED BY <4>2, <1>4
    <3>2. e \in Nat /\ Len(f) \in Nat /\ Len(g) \in Nat /\ e <= Len(g) /\ o \in Nat
      BY <1>1, <1>2
    <3>3. e <= Len(f)
      <4> QED BY <3>1, <3>2
    <3>4. \A p \in o + 1..e : p # w
      BY <1>4
    <3> HIDE DEF w
    <3> QED BY <3>2, <3>3, <3>4
  <2>2. \A p \in o + 1..e : f[p] = g[p]
    BY <2>1, <1>1
  <2>3. f[o + 1] = g[o + 1] /\ o < Len(f) /\ g[o + 1].nth = 0
    <3>1. o + 1 \in o + 1..e
      BY <1>2
    <3> QED BY <3>1, <2>1, <2>2 DEF WholeIn
  <2>4. \A k \in 0..bs[f[o + 1].by].len - 1 : f[o + 1 + k] = Cell(f[o + 1].by, k)
    <3> DEFINE n == bs[f[o + 1].by].len
    <3>1. e = o + n
      BY <2>3, <1>2
    <3>2. n \in Nat
      <4>1. f[o + 1].by \in DOMAIN bs
        BY <2>3, <1>1, WholeFacts
      <4> QED BY <4>1, <1>1, LenRange DEF Good
    <3> HIDE DEF n, e
    <3> SUFFICES ASSUME NEW k \in 0..n - 1 PROVE f[o + 1 + k] = Cell(f[o + 1].by, k)
      BY DEF n
    <3>3. o + 1 + k \in o + 1..e
      BY <3>1, <3>2
    <3>4. f[o + 1 + k] = g[o + 1 + k]
      BY <3>3, <2>2
    <3>5. g[o + 1 + k] = Cell(g[o + 1].by, k)
      BY <2>3 DEF WholeIn, n
    <3> QED BY <3>4, <3>5, <2>3
  <2>5. o + bs[f[o + 1].by].len <= Len(f)
    BY <2>1, <2>3, <1>2
  <2> QED BY <2>3, <2>4, <2>5 DEF WholeIn
<1> QED BY <1>3, <1>4

\* The file stays tiled.
LEMMA TiledByCell ==
  ASSUME NEW bs, NEW f, NEW g, NEW s, NEW a, NEW d, OneCell(bs, f, g, s, a, d)
  PROVE  /\ Tiled(bs, g) /\ Begins(bs, g, s, bs[a].id)
         /\ \A o \in Nat : WholeIn(bs, g, o) => EndOf(bs, g, o) <= s \/ (o = s /\ d + 1 = bs[a].len)
<1>1. /\ Good(bs, f) /\ Good(bs, g) /\ s \in Nat /\ d \in Nat /\ a \in DOMAIN bs /\ a = Len(bs)
      /\ Tiled(bs, f) /\ Begins(bs, f, s, bs[a].id)
      /\ \A o \in Nat : WholeIn(bs, f, o) => EndOf(bs, f, o) <= s
      /\ Begun(g, s, a, d + 1)
  BY DEF OneCell
<1>2. \A o \in Nat : WholeIn(bs, f, o) =>
        /\ WholeIn(bs, g, o) /\ g[o + 1].by = f[o + 1].by
        /\ EndOf(bs, g, o) = EndOf(bs, f, o) /\ IdOf(bs, g, o) = IdOf(bs, f, o)
  BY WholeStays
<1>3. \A o \in Nat : WholeIn(bs, g, o) => WholeIn(bs, f, o) \/ (o = s /\ d + 1 = bs[a].len)
  BY NothingElseWhole
<1>4. ASSUME d + 1 = bs[a].len
      PROVE  WholeIn(bs, g, s) /\ g[s + 1].by = a /\ IdOf(bs, g, s) = bs[a].id
  BY <1>1, <1>4, BegunIsWhole
<1>5. \A n : \A q : Begins(bs, f, q, n) => Begins(bs, g, q, n)
  BY <1>2, BeginsKept
<1>6. ASSUME NEW o \in Nat, WholeIn(bs, g, o)
      PROVE  EndOf(bs, g, o) <= s \/ (o = s /\ d + 1 = bs[a].len)
  BY <1>1, <1>2, <1>3, <1>6
<1>7. ASSUME NEW o \in Nat, WholeIn(bs, g, o) PROVE Begins(bs, g, o, IdOf(bs, g, o))
  <2>1. CASE WholeIn(bs, f, o)
    <3>1. Begins(bs, f, o, IdOf(bs, f, o))
      BY <2>1, <1>1 DEF Tiled
    <3> QED BY <2>1, <3>1, <1>2, <1>5
  <2>2. CASE o = s /\ d + 1 = bs[a].len
    BY <2>2, <1>1, <1>4, <1>5
  <2> QED BY <2>1, <2>2, <1>3, <1>7
<1>8. ASSUME NEW p \in Nat, NEW o \in Nat, WholeIn(bs, g, p), WholeIn(bs, g, o), p < o
      PROVE  EndOf(bs, g, p) <= o /\ g[p + 1].by < g[o + 1].by
  <2>0. /\ EndOf(bs, g, o) \in Nat /\ o + 2 <= EndOf(bs, g, o)
        /\ EndOf(bs, g, p) \in Nat /\ p + 2 <= EndOf(bs, g, p)
    BY <1>1, <1>8, WholeFacts
  <2>1. CASE WholeIn(bs, f, p) /\ WholeIn(bs, f, o)
    BY <2>1, <1>1, <1>2, <1>8 DEF Tiled
  <2>2. CASE WholeIn(bs, f, p) /\ o = s /\ d + 1 = bs[a].len
    <3>1. EndOf(bs, g, p) <= s /\ EndOf(bs, f, p) <= s
      BY <2>2, <1>1, <1>2
    <3>2. /\ p + 1 \in 1..Len(f) /\ f[p + 1].by \in DOMAIN bs /\ f[p + 1].by \in Nat /\ f[p + 1].nth = 0
      BY <2>2, <1>1, WholeFacts
    <3>3. f[p + 1].by # a
      <4> SUFFICES ASSUME f[p + 1].by = a PROVE FALSE
        OBVIOUS
      <4>1. p + 1 = s + 1 + 0
        BY <3>2 DEF OneCell
      <4> QED BY <4>1, <1>1, <1>8, <2>2
    <3>4. f[p + 1].by < a
      <4>1. f[p + 1].by \in 1..Len(bs) /\ Len(bs) \in Nat
        BY <3>2, <1>1 DEF Good
      <4> QED BY <4>1, <3>3, <1>1
    <3> QED BY <3>1, <3>4, <2>2, <1>2, <1>4
  <2>3. CASE p = s /\ d + 1 = bs[a].len /\ WholeIn(bs, f, o)
    <3>1. EndOf(bs, g, o) <= s
      BY <2>3, <1>1, <1>2
    <3> QED BY <3>1, <2>0, <2>3, <1>1, <1>8
  <2>4. CASE p = s /\ o = s
    BY <2>4, <1>1, <1>8
  <2> QED BY <2>1, <2>2, <2>3, <2>4, <1>3, <1>8
<1> QED BY <1>1, <1>5, <1>6, <1>7, <1>8 DEF Tiled
-----------------------------------------------------------------------------
\* A cell of a file names a block and a place.
LEMMA CellFacts ==
  ASSUME NEW bs, NEW f, Good(bs, f), NEW p \in 1..Len(f)
  PROVE  f[p] \in CellSet /\ f[p].nth \in Nat /\ f[p].by \in DOMAIN bs /\ p \in Nat /\ Len(f) \in Nat
<1>1. f[p] \in CellSet /\ p \in Nat /\ f[p].by \in DOMAIN bs /\ Len(f) \in Nat
  BY DEF Good
<1> QED BY <1>1 DEF CellSet

\* A cell in its place stays there when the whole blocks do.
LEMMA PlaceKept ==
  ASSUME NEW bs, NEW f, NEW cs, NEW g, NEW p \in 1..Len(f), Good(bs, f), g[p] = f[p],
         \A o \in Nat : WholeIn(bs, f, o) => WholeIn(cs, g, o) /\ g[o + 1].by = f[o + 1].by,
         InPlace(bs, f, p)
  PROVE  InPlace(cs, g, p)
<1> DEFINE k == f[p].nth
<1>1. p \in Nat /\ k \in Nat
  BY CellFacts
<1>2. p > k /\ WholeIn(bs, f, p - 1 - k) /\ f[p - k].by = f[p].by
  BY DEF InPlace
<1>3. p - 1 - k \in Nat /\ (p - 1 - k) + 1 = p - k
  <2> HIDE DEF k
  <2> QED BY <1>1, <1>2
<1>4. WholeIn(cs, g, p - 1 - k) /\ g[p - k].by = f[p - k].by
  BY <1>2, <1>3
<1> QED BY <1>2, <1>4 DEF InPlace

\* An empty file has no block.
LEMMA EmptyTiled ==
  ASSUME NEW bs
  PROVE  Tiled(bs, <<>>) /\ \A o \in Nat : ~WholeIn(bs, <<>>, o)
<1>1. \A o \in Nat : ~WholeIn(bs, <<>>, o)
  BY DEF WholeIn
<1> QED BY <1>1 DEF Tiled

\* A step that leaves the writer and the files alone.
LEMMA LogSame ==
  ASSUME LogInv, UNCHANGED wVars
  PROVE  LogInv'
<1>1. WriterIn'
  BY DEF LogInv, WriterIn, WorksAt, Tip, Done, wVars
<1>2. Placed'
  BY DEF LogInv, Placed, PlacedIn, InWork, wVars
<1>3. AckedWhole'
  BY DEF LogInv, AckedWhole, wVars
<1> QED BY <1>1, <1>2, <1>3 DEF LogInv

\* The block in work, when its last cell is in the file.
LEMMA EndIsWhole ==
  ASSUME TailInv, wpc = "write", wrest = 0, NEW s \in Nat, WorksAt(s)
  PROVE  /\ WholeIn(blocks, Tip, s) /\ Tip[s + 1].by = Len(blocks)
         /\ EndOf(blocks, Tip, s) = wpos /\ IdOf(blocks, Tip, s) = blocks[Len(blocks)].id
         /\ \A p \in 1..Len(Tip) : Tip[p].by = Len(blocks) => InPlace(blocks, Tip, p)
<1> DEFINE a == Len(blocks)
<1>1. a \in DOMAIN blocks /\ Done = blocks[a].len /\ blocks[a].len \in 2..BlockMax
  BY CellNow
<1>2. Begun(Tip, s, a, blocks[a].len) /\ wpos = s + blocks[a].len /\ Good(blocks, Tip)
  BY <1>1, TipGood DEF WorksAt, TailInv
<1>3. /\ WholeIn(blocks, Tip, s) /\ Tip[s + 1].by = a
      /\ EndOf(blocks, Tip, s) = wpos /\ IdOf(blocks, Tip, s) = blocks[a].id
  BY <1>1, <1>2, BegunIsWhole
<1>4. ASSUME NEW p \in 1..Len(Tip), Tip[p].by = a PROVE InPlace(blocks, Tip, p)
  <2> DEFINE k == Tip[p].nth
  <2>1. p = s + 1 + k /\ k \in Nat /\ p \in Nat
    <3>1. k \in Nat /\ p \in Nat
      BY <1>2, CellFacts
    <3> QED BY <3>1, <1>4 DEF WorksAt
  <2>2. p > k /\ p - 1 - k = s /\ p - k = s + 1
    <3> HIDE DEF k
    <3> QED BY <2>1
  <2> QED BY <2>2, <1>3, <1>4 DEF InPlace
<1> QED BY <1>3, <1>4

\* A block is begun.
LEMMA LogBegins ==
  ASSUME TailInv, LogInv, NEW n \in Lens, BeginWrite(n)
  PROVE  LogInv'
<1>0. Types /\ Types' /\ n \in 2..BlockMax /\ BlockMax \in Nat /\ FileMax \in Nat /\ BlockMax <= FileMax
  BY TailBegin, SizesAssumption DEF TailInv
<1>1. /\ Len(files') \in DOMAIN files'
      /\ \A i \in DOMAIN files : i \in DOMAIN files' /\ files'[i] = files[i]
      /\ \A i \in DOMAIN files' : i \notin DOMAIN files => files'[i] = <<>>
      /\ blocks'[Len(blocks')] = [id |-> wid', file |-> Len(files'), len |-> n]
      /\ Len(blocks') \in DOMAIN blocks' /\ Len(blocks') \notin DOMAIN blocks
      /\ \A a \in DOMAIN blocks : a \in DOMAIN blocks' /\ blocks'[a] = blocks[a]
      /\ wpc = "idle" /\ wpc' = "write" /\ wrest' = n /\ Done' = 0
      /\ UNCHANGED <<acked, deaths, torn>>
  BY BeginFacts
<1>2. Extends(blocks, blocks')
  BY <1>1 DEF Extends
<1>3. ASSUME NEW i \in DOMAIN files
      PROVE  /\ Good(blocks, files[i]) /\ Good(blocks', files[i]) /\ files'[i] = files[i]
             /\ Tiled(blocks, files[i]) /\ Tiled(blocks', files[i])
             /\ \A o \in Nat :
                  /\ WholeIn(blocks', files[i], o) <=> WholeIn(blocks, files[i], o)
                  /\ WholeIn(blocks, files[i], o) =>
                       /\ EndOf(blocks', files[i], o) = EndOf(blocks, files[i], o)
                       /\ IdOf(blocks', files[i], o) = IdOf(blocks, files[i], o)
  <2>1. Good(blocks, files[i])
    BY <1>0, FilesGood
  <2>2. Good(blocks', files[i]) /\ files'[i] = files[i]
    <3>1. blocks' \in Seq(BlockSet)
      BY <1>0 DEF Types
    <3> QED BY <2>1, <3>1, <1>1 DEF Good
  <2>3. Tiled(blocks, files[i])
    BY DEF LogInv, Placed
  <2> QED BY <2>1, <2>2, <2>3, <1>2, SameTiled, SameWhole
<1>4. \/ Tip' = Tip /\ wpos' = wpos /\ wid' = wid /\ wpos + n <= FileMax
      \/ Tip' = <<>> /\ wpos' = 0 /\ wid' = 1
  <2>1. \/ Fits(n) /\ files' = files /\ wpos' = wpos /\ wid' = wid
        \/ files' = Append(files, <<>>)
    BY DEF BeginWrite
  <2>2. CASE files' = Append(files, <<>>)
    <3>1. files' # files
      <4>1. Len(Append(files, <<>>)) = Len(files) + 1 /\ Len(files) \in Nat
        BY <1>0 DEF Types
      <4> QED BY <2>2, <4>1
    <3> QED BY <3>1, BeginFacts
  <2> QED BY <2>1, <2>2 DEF Fits, Tip
<1>5. Len(files) \in DOMAIN files /\ Tip = files[Len(files)]
  BY <1>0, TipGood DEF Tip
<1>6. /\ Begins(blocks', Tip', wpos', wid')
      /\ \A o \in Nat : WholeIn(blocks', Tip', o) => EndOf(blocks', Tip', o) <= wpos'
      /\ wpos' + n <= FileMax
      /\ \A p \in 1..Len(Tip') : Tip'[p].by # Len(blocks')
  <2>1. CASE Tip' = Tip /\ wpos' = wpos /\ wid' = wid /\ wpos + n <= FileMax
    <3>1. /\ Begins(blocks, Tip, wpos, wid)
          /\ \A o \in Nat : WholeIn(blocks, Tip, o) => EndOf(blocks, Tip, o) <= wpos
      BY <1>1 DEF LogInv, WriterIn
    <3>2. \A o \in Nat :
            /\ WholeIn(blocks', Tip, o) <=> WholeIn(blocks, Tip, o)
            /\ WholeIn(blocks, Tip, o) => /\ EndOf(blocks', Tip, o) = EndOf(blocks, Tip, o)
                                          /\ IdOf(blocks', Tip, o) = IdOf(blocks, Tip, o)
      BY <1>3, <1>5
    <3>3. Begins(blocks', Tip, wpos, wid)
      BY <3>1, <3>2, BeginsKept
    <3>4. \A p \in 1..Len(Tip) : Tip[p].by # Len(blocks')
      BY <1>1, <1>3, <1>5 DEF Good
    <3> QED BY <2>1, <3>1, <3>2, <3>3, <3>4
  <2>2. CASE Tip' = <<>> /\ wpos' = 0 /\ wid' = 1
    <3>1. \A o \in Nat : ~WholeIn(blocks', Tip', o)
      BY <2>2, EmptyTiled
    <3>2. Begins(blocks', Tip', 0, 1)
      BY DEF Begins
    <3>3. 0 + n <= FileMax
      BY <1>0
    <3> QED BY <2>2, <3>1, <3>2, <3>3
  <2> QED BY <2>1, <2>2, <1>4
<1>7. WriterIn'
  <2>1. Good(blocks', Tip')
    BY <1>0, NewestGood DEF Types, Tip
  <2>2. wpos' \in Nat /\ wpos' <= Len(Tip') /\ wpos' + 0 = wpos'
    BY <2>1, <1>6, BeginsIn
  <2>3. Begun(Tip', wpos', Len(blocks'), 0)
    BY <2>2 DEF Begun
  <2>4. WorksAt(wpos)'
    BY <2>2, <2>3, <1>1, <1>6 DEF WorksAt
  <2>5. PICK u \in Nat : u = wpos'
    BY <2>2
  <2>6. WorksAt(u)'
    BY <2>4, <2>5 DEF WorksAt
  <2> QED BY <2>6, <1>1 DEF WriterIn
<1>8. Placed'
  <2>1. ASSUME NEW i \in DOMAIN files', NEW p \in 1..Len(files'[i])
        PROVE  PlacedIn(i, files[i], p)'
    <3>1. i \in DOMAIN files
      <4> SUFFICES ASSUME i \notin DOMAIN files PROVE FALSE
        OBVIOUS
      <4> QED BY <1>1
    <3>2. PlacedIn(i, files[i], p) /\ files'[i] = files[i] /\ files[i][p].by \in DOMAIN blocks
      BY <2>1, <3>1, <1>3 DEF LogInv, Placed, Good
    <3>3. blocks'[files[i][p].by] = blocks[files[i][p].by]
      BY <3>2, <1>1
    <3>4. InPlace(blocks, files[i], p) => InPlace(blocks', files[i], p)
      BY <2>1, <3>1, <3>2, <1>3, PlaceKept
    <3>5. ~InWork(files[i][p].by)
      BY <1>1 DEF InWork
    <3> QED BY <3>2, <3>3, <3>4, <3>5, <1>1 DEF PlacedIn
  <2>2. ASSUME NEW i \in DOMAIN files' PROVE Tiled(blocks', files'[i])
    BY <1>1, <1>3, EmptyTiled
  <2>3. torn' \subseteq DOMAIN blocks' /\ \A a \in torn' : ~InWork(a)'
    BY <1>1 DEF LogInv, Placed, InWork
  <2> QED BY <2>1, <2>2, <2>3 DEF Placed
<1>9. AckedWhole'
  <2>1. ASSUME NEW a \in acked'
        PROVE  \E o \in Nat : /\ WholeIn(blocks', files'[blocks'[a].file], o)
                              /\ files'[blocks'[a].file][o + 1].by = a
    <3>1. a \in acked /\ a \in DOMAIN blocks /\ blocks'[a] = blocks[a] /\ blocks[a].file \in DOMAIN files
      BY <1>0, <1>1 DEF Types
    <3>2. PICK o \in Nat : /\ WholeIn(blocks, files[blocks[a].file], o)
                           /\ files[blocks[a].file][o + 1].by = a
      BY <3>1 DEF LogInv, AckedWhole
    <3> QED BY <3>1, <3>2, <1>3
  <2> QED BY <2>1 DEF AckedWhole
<1> QED BY <1>7, <1>8, <1>9 DEF LogInv
\* WriteCell, to the block in work at s.
LEMMA CellIsOne ==
  ASSUME TailInv, LogInv, WriteCell, NEW s \in Nat, WorksAt(s)
  PROVE  /\ OneCell(blocks, Tip, Tip', s, Len(blocks), Done)
         /\ wpc = "write" /\ wrest \in Nat /\ wrest > 0 /\ Done \in Nat
         /\ Done + wrest = blocks[Len(blocks)].len /\ Len(blocks) \in DOMAIN blocks
         /\ wpos = s + Done /\ wpos' = wpos + 1 /\ wrest' = wrest - 1 /\ Done' = Done + 1
         /\ UNCHANGED <<blocks, acked, wpc, wid, deaths, torn, rVars>>
         /\ DOMAIN files' = DOMAIN files /\ Len(files') = Len(files) /\ Len(files) \in DOMAIN files
         /\ files'[Len(files)] = Tip' /\ files[Len(files)] = Tip
         /\ \A i \in DOMAIN files : i # Len(files) => files'[i] = files[i]
<1> DEFINE a == Len(blocks)
<1>1. /\ wpc = "write" /\ wrest > 0 /\ wpos' = wpos + 1 /\ wrest' = wrest - 1
      /\ UNCHANGED <<blocks, acked, wpc, wid, deaths, torn, rVars>>
  BY DEF WriteCell
<1>2. Types /\ Types' /\ wrest \in Nat
  BY TailCell DEF TailInv, Types
<1>3. a \in DOMAIN blocks /\ Done \in Nat /\ Done + wrest = blocks[a].len /\ blocks[a].len \in 2..BlockMax
  BY <1>1, CellNow
<1>4. /\ Begins(blocks, Tip, s, wid) /\ wpos = s + Done /\ Begun(Tip, s, a, Done)
      /\ \A o \in Nat : WholeIn(blocks, Tip, o) => EndOf(blocks, Tip, o) <= s \/ (o = s /\ wrest = 0)
      /\ \A p \in 1..Len(Tip) : Tip[p].by = a => p = s + 1 + Tip[p].nth /\ Tip[p].nth < Done
  BY DEF WorksAt
<1>5. wid = blocks[a].id
  BY <1>1 DEF LogInv, WriterIn
<1>6. Good(blocks, Tip) /\ Good(blocks, Tip') /\ Len(files) \in DOMAIN files /\ Len(Tip) \in Nat
  <2>1. Good(blocks', Tip')
    BY <1>2, NewestGood DEF Types, Tip
  <2> QED BY <2>1, <1>1, <1>2, TipGood
<1>7. s + Done <= Len(Tip) /\ \A j \in 0..Done - 1 : Tip[s + 1 + j] = Cell(a, j)
  BY <1>4 DEF Begun
<1> DEFINE g == Put(Tip, wpos, Cell(a, Done))
<1>8. /\ files' = [files EXCEPT ![Len(files)] = g] /\ g \in Seq(CellSet) /\ Tip' = g
      /\ Len(g) = IF wpos < Len(Tip) THEN Len(Tip) ELSE Len(Tip) + 1
      /\ \A p \in 1..Len(g) : g[p] = IF p = wpos + 1 THEN Cell(a, Done) ELSE Tip[p]
      /\ Len(files') = Len(files)
  BY <1>4, <1>7, CellWritten
<1> HIDE DEF g
<1>9. /\ DOMAIN files' = DOMAIN files /\ files'[Len(files)] = Tip' /\ files[Len(files)] = Tip
      /\ \A i \in DOMAIN files : i # Len(files) => files'[i] = files[i]
  BY <1>2, <1>8, ReplaceFile DEF Types, Tip
<1>10. Done' = Done + 1
  BY <1>1, <1>2, <1>3 DEF Done
<1>11. Begun(Tip', s, a, Done + 1)
  <2>1. s + (Done + 1) <= Len(g) /\ (Done + 1) - 1 = Done /\ Len(g) \in Nat
    BY <1>3, <1>4, <1>6, <1>7, <1>8
  <2>2. \A j \in 0..Done : g[s + 1 + j] = Cell(a, j)
    <3> TAKE j \in 0..Done
    <3>1. s + 1 + j \in 1..Len(g)
      BY <1>3, <2>1
    <3>2. CASE j = Done
      <4>1. s + 1 + j = wpos + 1
        BY <3>2, <1>4, <1>3
      <4> QED BY <4>1, <3>1, <3>2, <1>8
    <3>3. CASE j # Done
      <4>1. s + 1 + j # wpos + 1 /\ j \in 0..Done - 1
        BY <3>3, <1>4, <1>3
      <4> QED BY <4>1, <3>1, <1>7, <1>8
    <3> QED BY <3>2, <3>3
  <2> QED BY <2>1, <2>2, <1>8 DEF Begun
<1>12. OneCell(blocks, Tip, Tip', s, a, Done)
  <2>1. Tiled(blocks, Tip)
    BY <1>6 DEF LogInv, Placed, Tip
  <2>2. Done < blocks[a].len
    BY <1>1, <1>2, <1>3
  <2>3. \A o \in Nat : WholeIn(blocks, Tip, o) => EndOf(blocks, Tip, o) <= s
    BY <1>1, <1>2, <1>4
  <2>4. Len(Tip') = IF s + Done < Len(Tip) THEN Len(Tip) ELSE Len(Tip) + 1
    BY <1>4, <1>8
  <2>5. \A p \in 1..Len(Tip') : Tip'[p] = IF p = s + Done + 1 THEN Cell(a, Done) ELSE Tip[p]
    BY <1>4, <1>8
  <2> QED BY <2>1, <2>2, <2>3, <2>4, <2>5, <1>3, <1>4, <1>5, <1>6, <1>7, <1>11 DEF OneCell
<1> QED BY <1>1, <1>2, <1>3, <1>4, <1>6, <1>8, <1>9, <1>10, <1>12

\* A cell of the block in work.
LEMMA LogCells ==
  ASSUME TailInv, LogInv, WriteCell
  PROVE  LogInv'
<1> DEFINE a == Len(blocks)
<1>1. PICK s \in Nat : WorksAt(s)
  BY DEF LogInv, WriterIn, WriteCell
<1>2. /\ OneCell(blocks, Tip, Tip', s, a, Done)
      /\ wpc = "write" /\ wrest \in Nat /\ wrest > 0 /\ Done \in Nat /\ Done + wrest = blocks[a].len
      /\ a \in DOMAIN blocks
      /\ wpos = s + Done /\ wpos' = wpos + 1 /\ wrest' = wrest - 1 /\ Done' = Done + 1
      /\ UNCHANGED <<blocks, acked, wpc, wid, deaths, torn>>
      /\ DOMAIN files' = DOMAIN files /\ Len(files') = Len(files) /\ Len(files) \in DOMAIN files
      /\ files'[Len(files)] = Tip' /\ files[Len(files)] = Tip
      /\ \A i \in DOMAIN files : i # Len(files) => files'[i] = files[i]
  BY <1>1, CellIsOne
<1>4. /\ Tiled(blocks, Tip') /\ Begins(blocks, Tip', s, blocks[a].id)
      /\ \A o \in Nat : WholeIn(blocks, Tip', o) =>
           EndOf(blocks, Tip', o) <= s \/ (o = s /\ Done + 1 = blocks[a].len)
  BY <1>2, TiledByCell
<1>5. \A o \in Nat : WholeIn(blocks, Tip, o) =>
        WholeIn(blocks, Tip', o) /\ Tip'[o + 1].by = Tip[o + 1].by
  BY <1>2, WholeStays
<1>6. /\ Begun(Tip', s, a, Done + 1) /\ Good(blocks, Tip) /\ Good(blocks, Tip') /\ s + Done <= Len(Tip)
      /\ Len(Tip') = (IF s + Done < Len(Tip) THEN Len(Tip) ELSE Len(Tip) + 1)
      /\ \A p \in 1..Len(Tip') : Tip'[p] = IF p = s + Done + 1 THEN Cell(a, Done) ELSE Tip[p]
      /\ \A p \in 1..Len(Tip) : Tip[p].by = a => p = s + 1 + Tip[p].nth /\ Tip[p].nth < Done
      /\ Len(Tip) \in Nat
  BY <1>2 DEF OneCell, Good
<1>7. \A p \in 1..Len(Tip') : p # s + Done + 1 => p \in 1..Len(Tip) /\ Tip'[p] = Tip[p]
  BY <1>2, <1>6
<1>8. WriterIn'
  <2>1. wid' = blocks[a].id /\ blocks[a].file = Len(files) /\ wid' = wid /\ wid = blocks[a].id
    BY <1>2 DEF LogInv, WriterIn
  <2>2. \A p \in 1..Len(Tip') : Tip'[p].by = a => p = s + 1 + Tip'[p].nth /\ Tip'[p].nth < Done + 1
    <3> TAKE p \in 1..Len(Tip')
    <3> HAVE Tip'[p].by = a
    <3>1. CASE p = s + Done + 1
      <4>1. Tip'[p].nth = Done
        BY <3>1, <1>6 DEF Cell
      <4> QED BY <4>1, <3>1, <1>2
    <3>2. CASE p # s + Done + 1
      <4>1. p \in 1..Len(Tip) /\ Tip'[p] = Tip[p]
        BY <3>2, <1>7
      <4>2. Tip[p].nth \in Nat
        BY <4>1, <1>6, CellFacts
      <4>3. p = s + 1 + Tip[p].nth /\ Tip[p].nth < Done
        BY <4>1, <1>6
      <4>4. Tip[p].nth < Done + 1
        BY <4>2, <4>3, <1>2
      <4> QED BY <4>1, <4>3, <4>4
    <3> QED BY <3>1, <3>2
  <2>3. wpos' = s + (Done + 1)
    BY <1>2
  <2>4. Done + 1 = blocks[a].len => wrest' = 0
    BY <1>2
  <2>5. s + blocks[a].len <= FileMax
    BY <1>1 DEF WorksAt
  <2>6. WorksAt(s)'
    BY <2>1, <2>2, <2>3, <2>4, <2>5, <1>2, <1>4, <1>6 DEF WorksAt
  <2> QED BY <2>1, <2>6, <1>2 DEF WriterIn
<1>9. Placed'
  <2>1. ASSUME NEW i \in DOMAIN files, NEW p \in 1..Len(files'[i])
        PROVE  PlacedIn(i, files[i], p)'
    <3>1. CASE i # Len(files)
      <4>1. files'[i] = files[i] /\ PlacedIn(i, files[i], p)
        BY <3>1, <2>1, <1>2 DEF LogInv, Placed
      <4> QED BY <4>1, <1>2 DEF PlacedIn, InWork
    <3>2. CASE i = Len(files) /\ p = s + Done + 1
      <4>1. files'[i][p].by = a /\ files'[i][p].nth = Done
        BY <3>2, <2>1, <1>2, <1>6 DEF Cell
      <4>2. a \notin torn /\ blocks[a].file = Len(files)
        BY <1>2 DEF LogInv, Placed, WriterIn, InWork
      <4>3. Done < blocks[a].len
        BY <1>2
      <4> QED BY <4>1, <4>2, <4>3, <3>2, <1>2 DEF PlacedIn, InWork
    <3>3. CASE i = Len(files) /\ p # s + Done + 1
      <4>1. p \in 1..Len(Tip) /\ Tip'[p] = Tip[p]
        BY <3>3, <2>1, <1>2, <1>7
      <4>2. PlacedIn(i, Tip, p)
        BY <4>1, <3>3, <1>2 DEF LogInv, Placed
      <4>3. InPlace(blocks, Tip, p) => InPlace(blocks, Tip', p)
        BY <4>1, <1>5, <1>6, PlaceKept
      <4> QED BY <4>1, <4>2, <4>3, <3>3, <1>2 DEF PlacedIn, InWork
    <3> QED BY <3>1, <3>2, <3>3
  <2>2. ASSUME NEW i \in DOMAIN files PROVE Tiled(blocks, files'[i])
    BY <1>2, <1>4 DEF LogInv, Placed
  <2>3. torn' \subseteq DOMAIN blocks' /\ \A b \in torn' : ~InWork(b)'
    BY <1>2 DEF LogInv, Placed, InWork
  <2> QED BY <2>1, <2>2, <2>3, <1>2 DEF Placed
<1>10. AckedWhole'
  <2>1. ASSUME NEW b \in acked
        PROVE  \E o \in Nat : /\ WholeIn(blocks, files'[blocks[b].file], o)
                              /\ files'[blocks[b].file][o + 1].by = b
    <3>1. b \in DOMAIN blocks /\ blocks[b].file \in DOMAIN files
      BY DEF TailInv, Types
    <3>2. PICK o \in Nat : /\ WholeIn(blocks, files[blocks[b].file], o)
                           /\ files[blocks[b].file][o + 1].by = b
      BY DEF LogInv, AckedWhole
    <3>3. CASE blocks[b].file = Len(files)
      BY <3>2, <3>3, <1>2, <1>5
    <3>4. CASE blocks[b].file # Len(files)
      BY <3>1, <3>2, <3>4, <1>2
    <3> QED BY <3>3, <3>4
  <2> QED BY <2>1, <1>2 DEF AckedWhole
<1> QED BY <1>8, <1>9, <1>10 DEF LogInv

\* The block is complete: it is whole, and the next begins behind it.
LEMMA LogEnds ==
  ASSUME TailInv, LogInv, EndWrite
  PROVE  LogInv'
<1> DEFINE a == Len(blocks)
<1>1. /\ wpc = "write" /\ wrest = 0 /\ wpc' = "idle" /\ wid' = wid + 1 /\ acked' = acked \cup {a}
      /\ UNCHANGED <<files, blocks, wpos, wrest, deaths, torn>>
  BY DEF EndWrite
<1>2. PICK s \in Nat : WorksAt(s)
  BY <1>1 DEF LogInv, WriterIn
<1>3. /\ WholeIn(blocks, Tip, s) /\ Tip[s + 1].by = a
      /\ EndOf(blocks, Tip, s) = wpos /\ IdOf(blocks, Tip, s) = blocks[a].id
      /\ \A p \in 1..Len(Tip) : Tip[p].by = a => InPlace(blocks, Tip, p)
  BY <1>1, <1>2, EndIsWhole
<1>4. wid = blocks[a].id /\ blocks[a].file = Len(files)
  BY <1>1 DEF LogInv, WriterIn
<1>5. Good(blocks, Tip) /\ Len(files) \in DOMAIN files /\ Tip' = Tip /\ Tip = files[Len(files)]
  BY <1>1, TipGood DEF TailInv, Tip
<1>6. WriterIn'
  <2>1. Begins(blocks, Tip, wpos, wid + 1)
    <3>1. wpos = EndOf(blocks, Tip, s) /\ wid + 1 = IdOf(blocks, Tip, s) + 1
      BY <1>3, <1>4
    <3> QED BY <3>1, <1>3 DEF Begins
  <2>2. ASSUME NEW o \in Nat, WholeIn(blocks, Tip, o) PROVE EndOf(blocks, Tip, o) <= wpos
    <3>1. EndOf(blocks, Tip, o) <= s \/ o = s
      BY <2>2, <1>2 DEF WorksAt
    <3>2. EndOf(blocks, Tip, o) \in Nat /\ wpos \in Nat /\ s + 2 <= wpos
      BY <2>2, <1>3, <1>5, WholeFacts
    <3>3. CASE o = s
      BY <3>2, <3>3, <1>3
    <3>4. CASE EndOf(blocks, Tip, o) <= s
      BY <3>2, <3>4
    <3> QED BY <3>1, <3>3, <3>4
  <2> QED BY <2>1, <2>2, <1>1, <1>5 DEF WriterIn
<1>7. Placed'
  <2>1. ASSUME NEW i \in DOMAIN files, NEW p \in 1..Len(files[i])
        PROVE  PlacedIn(i, files[i], p)'
    <3>1. PlacedIn(i, files[i], p)
      BY <2>1 DEF LogInv, Placed
    <3>2. InWork(files[i][p].by) => InPlace(blocks, files[i], p)
      <4> HAVE InWork(files[i][p].by)
      <4>1. files[i][p].by = a /\ i = Len(files)
        BY <3>1, <1>4 DEF InWork, PlacedIn
      <4>2. files[i] = Tip
        BY <4>1, <1>5
      <4> QED BY <4>1, <4>2, <2>1, <1>3
    <3> QED BY <3>1, <3>2, <1>1 DEF PlacedIn
  <2>2. torn' \subseteq DOMAIN blocks' /\ \A b \in torn' : ~InWork(b)'
    BY <1>1 DEF LogInv, Placed, InWork
  <2>3. \A i \in DOMAIN files : Tiled(blocks, files[i])
    BY DEF LogInv, Placed
  <2> QED BY <2>1, <2>2, <2>3, <1>1 DEF Placed
<1>8. AckedWhole'
  <2>1. ASSUME NEW b \in acked'
        PROVE  \E o \in Nat : /\ WholeIn(blocks, files[blocks[b].file], o)
                              /\ files[blocks[b].file][o + 1].by = b
    <3>1. CASE b \in acked
      BY <3>1 DEF LogInv, AckedWhole
    <3>2. CASE b = a
      BY <3>2, <1>3, <1>4, <1>5
    <3> QED BY <3>1, <3>2, <1>1
  <2> QED BY <2>1, <1>1 DEF AckedWhole
<1> QED BY <1>6, <1>7, <1>8 DEF LogInv
\* The writer dies: a block that lacks its last cell is torn.
LEMMA LogDeath ==
  ASSUME TailInv, LogInv, WriterDies
  PROVE  LogInv'
<1> DEFINE a == Len(blocks)
<1>1. /\ wpc \in {"idle", "write"} /\ wpc' = "down" /\ wrest' = 0
      /\ torn' = (IF wpc = "write" /\ wrest > 0 THEN torn \cup {a} ELSE torn)
      /\ UNCHANGED <<files, blocks, acked, wpos, wid>>
  BY DEF WriterDies
<1>2. ASSUME NEW i \in DOMAIN files, NEW p \in 1..Len(files[i])
      PROVE  PlacedIn(i, files[i], p)'
  <2> DEFINE b == files[i][p].by
  <2>1. PlacedIn(i, files[i], p)
    BY <1>2 DEF LogInv, Placed
  <2>2. CASE InWork(b)
    <3>1. wpc = "write" /\ b = a /\ blocks[a].file = Len(files)
      BY <2>2 DEF InWork, LogInv, WriterIn
    <3>2. i = Len(files) /\ files[i] = Tip
      BY <2>1, <3>1 DEF PlacedIn, Tip
    <3>3. PICK s \in Nat : WorksAt(s)
      BY <3>1 DEF LogInv, WriterIn
    <3>4. Done \in Nat /\ Done + wrest = blocks[a].len /\ wrest \in Nat /\ a \notin torn
      BY <2>2, <3>1, CellNow DEF TailInv, Types, LogInv, Placed
    <3>5. CASE wrest = 0
      <4>1. InPlace(blocks, Tip, p)
        BY <1>2, <3>1, <3>2, <3>3, <3>5, EndIsWhole
      <4>2. torn' = torn
        BY <3>5, <1>1
      <4> QED BY <4>1, <4>2, <2>1, <3>2, <1>1 DEF PlacedIn
    <3>6. CASE wrest > 0
      <4>1. Tip[p].nth < Done /\ Tip[p].nth \in Nat
        <5>1. Good(blocks, Tip)
          BY TipGood DEF TailInv
        <5>2. Tip[p].nth \in Nat
          BY <5>1, <1>2, <3>2, CellFacts
        <5> QED BY <5>2, <1>2, <3>1, <3>2, <3>3 DEF WorksAt
      <4>2. Tip[p].nth + 1 < blocks[a].len
        BY <4>1, <3>4, <3>6
      <4>3. a \in torn'
        BY <3>1, <3>6, <1>1
      <4> QED BY <4>2, <4>3, <2>1, <3>1, <3>2, <1>1 DEF PlacedIn
    <3> QED BY <3>4, <3>5, <3>6
  <2>3. CASE ~InWork(b)
    <3>1. b \in torn' => b \in torn
      BY <2>3, <1>1 DEF InWork
    <3>2. b \notin torn' => b \notin torn
      BY <1>1
    <3> QED BY <2>1, <2>3, <3>1, <3>2, <1>1 DEF PlacedIn
  <2> QED BY <2>2, <2>3
<1>3. torn' \subseteq DOMAIN blocks' /\ \A b \in torn' : ~InWork(b)'
  <2>1. wpc = "write" => a \in DOMAIN blocks
    BY CellNow
  <2> QED BY <2>1, <1>1 DEF LogInv, Placed, InWork
<1>4. Placed'
  <2>1. \A i \in DOMAIN files : Tiled(blocks, files[i])
    BY DEF LogInv, Placed
  <2> QED BY <2>1, <1>1, <1>2, <1>3 DEF Placed
<1>5. WriterIn' /\ AckedWhole'
  BY <1>1 DEF LogInv, WriterIn, AckedWhole
<1> QED BY <1>4, <1>5 DEF LogInv

\* A file that check_and_repaire empties has no whole block.
LEMMA EmptiedHasNone ==
  ASSUME TailInv, Len(Tip) <= 1 \/ (EndBlock(Tip) = {} /\ Low(Tip) = 0)
  PROVE  \A o \in Nat : ~WholeIn(blocks, Tip, o)
<1>1. Good(blocks, Tip) /\ Tip \in Seq(CellSet) /\ Len(Tip) \in Nat
  BY TipGood DEF TailInv, Good
<1> SUFFICES ASSUME NEW o \in Nat, WholeIn(blocks, Tip, o) PROVE FALSE
  OBVIOUS
<1>2. o + 1 \in 1..Len(Tip) /\ o + 2 <= Len(Tip)
  <2>1. o + 1 \in 1..Len(Tip) /\ EndOf(blocks, Tip, o) \in Nat
        /\ o + 2 <= EndOf(blocks, Tip, o) /\ EndOf(blocks, Tip, o) <= Len(Tip)
    BY <1>1, WholeFacts
  <2> QED BY <2>1, <1>1
<1>3. EndBlock(Tip) = {} /\ Low(Tip) = 0
  BY <1>1, <1>2
<1>4. o \in Low(Tip)..Len(Tip) - 1
  BY <1>1, <1>2, <1>3
<1> QED BY <1>1, <1>3, <1>4, EndBlockIsLast

\* In a file without whole blocks all cells are torn, when no block is in work.
LEMMA NoneWholeTorn ==
  ASSUME TailInv, LogInv, NEW i \in DOMAIN files, \A o \in Nat : ~WholeIn(blocks, files[i], o),
         wpc # "write", NEW p \in 1..Len(files[i])
  PROVE  files[i][p].by \in torn
<1> SUFFICES ASSUME files[i][p].by \notin torn PROVE FALSE
  OBVIOUS
<1>1. InPlace(blocks, files[i], p)
  BY DEF LogInv, Placed, PlacedIn, InWork
<1>2. files[i][p].nth \in Nat /\ p \in Nat
  <2>1. Good(blocks, files[i])
    BY FilesGood DEF TailInv
  <2> QED BY <2>1, CellFacts
<1>3. p - 1 - files[i][p].nth \in Nat
  BY <1>1, <1>2 DEF InPlace
<1> QED BY <1>1, <1>3 DEF InPlace

\* The repair: no acknowledged block is in a file that is emptied, and the last good block is the last.
LEMMA LogRepaired ==
  ASSUME TailInv, LogInv, Repair
  PROVE  LogInv'
<1>1. wpc = "down" /\ UNCHANGED <<blocks, acked, wrest, deaths, torn, rVars>>
  BY RepairCases
<1>2. Good(blocks, Tip) /\ Tip \in Seq(CellSet) /\ Len(Tip) \in Nat /\ Types /\ Len(files) \in DOMAIN files
      /\ Tip = files[Len(files)] /\ Tiled(blocks, Tip)
  BY TipGood DEF TailInv, Good, Tip, LogInv, Placed
<1>3. CASE /\ Len(Tip) <= 1 \/ (EndBlock(Tip) = {} /\ Low(Tip) = 0)
           /\ files' = [files EXCEPT ![Len(files)] = <<>>]
           /\ wpos' = 0 /\ wid' = 1 /\ wpc' = "idle"
  <2>0. \A o \in Nat : ~WholeIn(blocks, Tip, o)
    BY <1>3, EmptiedHasNone
  <2>1. /\ DOMAIN files' = DOMAIN files /\ Len(files') = Len(files) /\ files'[Len(files)] = <<>>
        /\ \A i \in DOMAIN files : i # Len(files) => files'[i] = files[i]
    <3>1. <<>> \in Seq(CellSet)
      OBVIOUS
    <3> QED BY <3>1, <1>2, <1>3, ReplaceFile DEF Types
  <2>2. Tip' = <<>>
    BY <2>1 DEF Tip
  <2>3. WriterIn'
    <3>1. Begins(blocks, <<>>, 0, 1)
      BY DEF Begins
    <3> QED BY <3>1, <2>2, <1>1, <1>3, EmptyTiled DEF WriterIn
  <2>4. Placed'
    <3>1. ASSUME NEW i \in DOMAIN files, NEW p \in 1..Len(files'[i])
          PROVE  PlacedIn(i, files[i], p)'
      <4>1. i # Len(files)
        BY <3>1, <2>1
      <4>2. files'[i] = files[i] /\ PlacedIn(i, files[i], p)
        BY <4>1, <3>1, <2>1 DEF LogInv, Placed
      <4> QED BY <4>2, <1>1, <1>3 DEF PlacedIn, InWork
    <3>2. ASSUME NEW i \in DOMAIN files PROVE Tiled(blocks, files'[i])
      BY <2>1, EmptyTiled DEF LogInv, Placed
    <3>3. torn' \subseteq DOMAIN blocks' /\ \A b \in torn' : ~InWork(b)'
      BY <1>1, <1>3 DEF LogInv, Placed, InWork
    <3> QED BY <3>1, <3>2, <3>3, <2>1, <1>1 DEF Placed
  <2>5. AckedWhole'
    <3>1. ASSUME NEW b \in acked
          PROVE  \E o \in Nat : /\ WholeIn(blocks, files'[blocks[b].file], o)
                                /\ files'[blocks[b].file][o + 1].by = b
      <4>1. PICK o \in Nat : /\ WholeIn(blocks, files[blocks[b].file], o)
                             /\ files[blocks[b].file][o + 1].by = b
        BY DEF LogInv, AckedWhole
      <4>2. blocks[b].file \in DOMAIN files /\ blocks[b].file # Len(files)
        BY <4>1, <2>0, <1>2 DEF Types
      <4> QED BY <4>1, <4>2, <2>1
    <3> QED BY <3>1, <1>1 DEF AckedWhole
  <2> QED BY <2>3, <2>4, <2>5 DEF LogInv
<1>4. CASE Len(Tip) > 1 /\ EndBlock(Tip) = {} /\ Low(Tip) > 0
  <2>1. PICK s \in Nat : Anchor(blocks, Tip, s)
    BY <1>1 DEF TailInv, Anchored
  <2>2. \A p \in Low(Tip)..Len(Tip) - 1 : ~WholeIn(blocks, Tip, p)
    BY <1>2, <1>4, EndBlockIsLast
  <2>3. s = 0
    BY <2>1, <2>2, <1>2, SearchFinds
  <2>4. BlockMax \in Nat /\ Len(Tip) <= BlockMax
    BY <2>1, <2>3, <1>2, SizesAssumption DEF Anchor
  <2>5. Low(Tip) = 0
    BY <2>4, <1>2, <1>4 DEF Low
  <2> QED BY <2>5, <1>4
<1>5. ASSUME files' = files, wpc' = "idle", NEW o \in EndBlock(Tip),
             wpos' = o + blocks[Tip[o + 1].by].len, wid' = blocks[Tip[o + 1].by].id + 1
      PROVE  LogInv'
  <2>1. /\ o \in Low(Tip)..Len(Tip) - 1 /\ WholeIn(blocks, Tip, o)
        /\ \A p \in Low(Tip)..Len(Tip) - 1 : WholeIn(blocks, Tip, p) => p <= o
    BY <1>2, EndBlockIsLast
  <2>2. o \in Nat /\ Low(Tip) \in Nat
    <3>1. Low(Tip) \in 0..Len(Tip)
      BY <1>2, LowRange
    <3> QED BY <3>1, <2>1, <1>2
  <2>3. wpos' = EndOf(blocks, Tip, o) /\ wid' = IdOf(blocks, Tip, o) + 1
    BY <1>5 DEF EndOf, IdOf
  <2>4. Begins(blocks, Tip, wpos', wid')
    BY <2>1, <2>2, <2>3 DEF Begins
  <2>5. ASSUME NEW p \in Nat, WholeIn(blocks, Tip, p) PROVE EndOf(blocks, Tip, p) <= wpos'
    <3>1. p + 1 \in 1..Len(Tip) /\ EndOf(blocks, Tip, p) \in Nat
      BY <2>5, <1>2, WholeFacts
    <3>2. EndOf(blocks, Tip, o) \in Nat /\ o + 2 <= EndOf(blocks, Tip, o)
      BY <2>1, <2>2, <1>2, WholeFacts
    <3>3. p <= o
      <4>1. CASE p >= Low(Tip)
        BY <4>1, <2>1, <2>2, <2>5, <3>1, <1>2
      <4>2. CASE p < Low(Tip)
        BY <4>2, <2>1, <2>2, <1>2
      <4> QED BY <4>1, <4>2, <2>2
    <3>4. p = o \/ EndOf(blocks, Tip, p) <= o
      BY <3>3, <2>1, <2>2, <2>5, <1>2 DEF Tiled
    <3> QED BY <3>1, <3>2, <3>4, <2>2, <2>3
  <2>6. Tip' = Tip
    BY <1>5 DEF Tip
  <2>7. WriterIn'
    BY <2>4, <2>5, <2>6, <1>1, <1>5 DEF WriterIn
  <2>8. Placed'
    BY <1>1, <1>5 DEF LogInv, Placed, PlacedIn, InWork
  <2>9. AckedWhole'
    BY <1>1, <1>5 DEF LogInv, AckedWhole
  <2> QED BY <2>7, <2>8, <2>9 DEF LogInv
<1> QED BY <1>3, <1>4, <1>5, RepairCases

\* In the first state the file is empty.
LEMMA LogFirst == Init => LogInv
<1> SUFFICES ASSUME Init PROVE LogInv
  OBVIOUS
<1>1. Tip = <<>> /\ wpc = "idle" /\ wpos = 0 /\ wid = 1 /\ acked = {} /\ torn = {} /\ files = <<<<>>>>
  BY DEF Init, Tip
<1>2. WriterIn
  BY <1>1, EmptyTiled DEF WriterIn, Begins
<1>3. Placed
  <2>1. \A i \in DOMAIN files : files[i] = <<>>
    BY <1>1
  <2> QED BY <2>1, <1>1, EmptyTiled DEF Placed, InWork
<1>4. AckedWhole
  BY <1>1 DEF AckedWhole
<1> QED BY <1>2, <1>3, <1>4 DEF LogInv

\* Every step keeps the log.
LEMMA LogNext ==
  ASSUME TailInv, LogInv, [Next]_vars
  PROVE  LogInv'
<1>1. CASE UNCHANGED vars
  BY <1>1, LogSame DEF vars
<1>2. CASE Reading \/ Seeking
  BY <1>2, ReaderLeaves, LogSame
<1> QED BY <1>1, <1>2, LogBegins, LogCells, LogEnds, LogDeath, LogRepaired DEF Next, Writing
-----------------------------------------------------------------------------
\* The block around a cell that is in its place.
LEMMA BlockAround ==
  ASSUME NEW bs, NEW f, Good(bs, f), NEW p \in 1..Len(f), InPlace(bs, f, p), f[p].nth < bs[f[p].by].len
  PROVE  \E q \in Nat : /\ WholeIn(bs, f, q) /\ f[q + 1].by = f[p].by /\ p = q + 1 + f[p].nth
                        /\ q + 1 <= p /\ p <= EndOf(bs, f, q)
<1> DEFINE k == f[p].nth
<1> DEFINE n == bs[f[p].by].len
<1>1. k \in Nat /\ p \in Nat /\ n \in Nat /\ k < n
  <2>1. k \in Nat /\ p \in Nat /\ f[p].by \in DOMAIN bs
    BY CellFacts
  <2>2. n \in 2..BlockMax /\ BlockMax \in Nat
    BY <2>1, LenRange, SizesAssumption DEF Good
  <2> QED BY <2>1, <2>2
<1>2. p > k /\ WholeIn(bs, f, p - 1 - k) /\ f[p - k].by = f[p].by
  BY DEF InPlace
<1> HIDE DEF k, n
<1>3. PICK q \in Nat : q = p - 1 - k
  BY <1>1, <1>2
<1>4. q + 1 = p - k /\ p = q + 1 + k /\ q + 1 <= p
  BY <1>1, <1>3
<1>5. WholeIn(bs, f, q) /\ f[q + 1].by = f[p].by
  BY <1>2, <1>3, <1>4
<1>6. EndOf(bs, f, q) = q + n
  BY <1>5 DEF EndOf, n
<1>7. p <= q + n
  BY <1>1, <1>4
<1> QED BY <1>4, <1>5, <1>6, <1>7 DEF k

\* While a block is in work all cells behind the writer's position are torn.
LEMMA BehindTorn ==
  ASSUME TailInv, LogInv, wpc = "write", NEW p \in 1..Len(Tip), Tip[p].by \notin torn
  PROVE  p <= wpos
<1>1. PICK s \in Nat : WorksAt(s)
  BY DEF LogInv, WriterIn
<1>2. Good(blocks, Tip) /\ Len(files) \in DOMAIN files /\ Tip = files[Len(files)]
  BY TipGood DEF TailInv, Tip
<1>3. Done \in Nat /\ wpos = s + Done /\ p \in Nat /\ Tip[p].nth \in Nat
  BY <1>1, <1>2, CellNow, CellFacts DEF WorksAt
<1>4. PlacedIn(Len(files), Tip, p)
  BY <1>2 DEF LogInv, Placed
<1>5. CASE InWork(Tip[p].by)
  <2>1. p = s + 1 + Tip[p].nth /\ Tip[p].nth < Done
    BY <1>1, <1>5 DEF WorksAt, InWork
  <2> QED BY <2>1, <1>3
<1>6. CASE InPlace(blocks, Tip, p)
  <2>1. PICK q \in Nat : WholeIn(blocks, Tip, q) /\ p <= EndOf(blocks, Tip, q)
    <3>1. Tip[p].nth < blocks[Tip[p].by].len
      BY <1>4 DEF PlacedIn
    <3> QED BY <3>1, <1>2, <1>6, BlockAround
  <2>2. EndOf(blocks, Tip, q) \in Nat
    BY <2>1, <1>2, WholeFacts
  <2>3. EndOf(blocks, Tip, q) <= s \/ (q = s /\ wrest = 0)
    BY <2>1, <1>1 DEF WorksAt
  <2>4. CASE EndOf(blocks, Tip, q) <= s
    BY <2>1, <2>2, <2>4, <1>3
  <2>5. CASE q = s /\ wrest = 0
    <3>1. EndOf(blocks, Tip, q) = wpos
      BY <2>5, <1>1, EndIsWhole
    <3> QED BY <2>1, <3>1
  <2> QED BY <2>3, <2>4, <2>5
<1> QED BY <1>4, <1>5, <1>6 DEF PlacedIn

\* What has to be shown of the reader when the writer makes a step.
LEMMA ReaderStays ==
  ASSUME TailInv, ReaderIn, UNCHANGED rVars, Extends(blocks, blocks'), DOMAIN files \subseteq DOMAIN files',
         garbled = {} => Begins(blocks', files'[rfile], roff, rid + 1),
         \A k \in 1..Len(buf) : ReadIn(k)'
  PROVE  ReaderIn'
<1>1. UNCHANGED <<rpc, rfile, roff, rid, buf, garbled, saved>>
  BY DEF rVars
<1>2. rpc = "body" => Len(buf) <= blocks'[buf[1].by].len
  <2> HAVE rpc = "body"
  <2>1. buf # <<>> /\ buf \in Seq(CellSet) /\ Len(buf) <= blocks[buf[1].by].len
    BY DEF ReaderIn
  <2>2. 1 \in 1..Len(buf)
    BY <2>1
  <2>3. buf[1].by \in DOMAIN blocks
    BY <2>2 DEF ReaderIn, ReadIn
  <2> QED BY <2>1, <2>3 DEF Extends
<1>3. rfile \in DOMAIN files' /\ saved.file \in DOMAIN files'
  BY DEF ReaderIn
<1>4. garbled' = {} => Begins(blocks', File', roff', rid' + 1)
  BY <1>1 DEF File
<1>5. /\ roff \in Nat /\ rid \in Nat
      /\ rpc \in {"look", "body", "dead"} /\ buf \in Seq(CellSet)
      /\ rpc = "look" => buf = <<>>
      /\ rpc = "body" => buf # <<>> /\ buf[1].nth = 0
  BY DEF ReaderIn
<1>6. \A k \in 1..Len(buf') : ReadIn(k)'
  BY <1>1
<1> QED BY <1>1, <1>2, <1>3, <1>4, <1>5, <1>6 DEF ReaderIn

\* A new block: the reader's file stays as it is.
LEMMA ReaderAtBegin ==
  ASSUME TailInv, LogInv, ReaderIn, NEW n \in Lens, BeginWrite(n)
  PROVE  ReaderIn'
<1>1. /\ \A i \in DOMAIN files : i \in DOMAIN files' /\ files'[i] = files[i]
      /\ Len(blocks') \notin DOMAIN blocks /\ wpc' = "write"
      /\ \A a \in DOMAIN blocks : a \in DOMAIN blocks' /\ blocks'[a] = blocks[a]
      /\ UNCHANGED <<torn, rVars>>
  BY BeginFacts
<1>2. UNCHANGED <<rfile, roff, buf>>
  BY <1>1 DEF rVars
<1>3. rfile \in DOMAIN files /\ files'[rfile] = files[rfile]
  BY <1>1 DEF ReaderIn
<1>4. Extends(blocks, blocks')
  BY <1>1 DEF Extends
<1>5. ASSUME NEW k \in 1..Len(buf) PROVE ReadIn(k)'
  <2>1. ReadIn(k)
    BY DEF ReaderIn
  <2>2. buf[k].by \in DOMAIN blocks /\ ~InWork(buf[k].by)'
    BY <2>1, <1>1, <1>2 DEF ReadIn, InWork
  <2>3. File' = File
    BY <1>2, <1>3 DEF File
  <2> QED BY <2>1, <2>2, <2>3, <1>1, <1>2 DEF ReadIn
<1>6. garbled = {} => Begins(blocks', files'[rfile], roff, rid + 1)
  <2> HAVE garbled = {}
  <2>1. Begins(blocks, files[rfile], roff, rid + 1)
    BY DEF ReaderIn, File
  <2>2. Good(blocks, files[rfile]) /\ Good(blocks', files[rfile])
    <3>1. Good(blocks, files[rfile])
      BY <1>3, FilesGood DEF TailInv
    <3>2. blocks' \in Seq(BlockSet)
      BY BeginFacts
    <3> QED BY <3>1, <3>2, <1>1 DEF Good
  <2>3. \A o \in Nat :
          WholeIn(blocks, files[rfile], o) =>
            /\ WholeIn(blocks', files[rfile], o)
            /\ EndOf(blocks', files[rfile], o) = EndOf(blocks, files[rfile], o)
            /\ IdOf(blocks', files[rfile], o) = IdOf(blocks, files[rfile], o)
    BY <2>2, <1>4, SameWhole
  <2> QED BY <2>1, <2>3, <1>3, BeginsKept
<1> QED BY <1>1, <1>4, <1>5, <1>6, ReaderStays

\* A cell of the block in work comes over torn cells only.
LEMMA ReaderAtCell ==
  ASSUME TailInv, LogInv, ReaderIn, WriteCell
  PROVE  ReaderIn'
<1> DEFINE a == Len(blocks)
<1>1. PICK s \in Nat : WorksAt(s)
  BY DEF LogInv, WriterIn, WriteCell
<1>2. /\ OneCell(blocks, Tip, Tip', s, a, Done)
      /\ wpc = "write" /\ Done \in Nat /\ wpos = s + Done /\ Done' = Done + 1
      /\ UNCHANGED <<blocks, wpc, torn, rVars>>
      /\ DOMAIN files' = DOMAIN files /\ Len(files) \in DOMAIN files
      /\ files'[Len(files)] = Tip' /\ files[Len(files)] = Tip
      /\ \A i \in DOMAIN files : i # Len(files) => files'[i] = files[i]
  BY <1>1, CellIsOne
<1>3. UNCHANGED <<rfile, roff, buf>>
  BY <1>2 DEF rVars
<1>4. /\ Good(blocks, Tip) /\ Len(Tip) \in Nat
      /\ Len(Tip') = (IF s + Done < Len(Tip) THEN Len(Tip) ELSE Len(Tip) + 1)
      /\ \A p \in 1..Len(Tip') : Tip'[p] = IF p = s + Done + 1 THEN Cell(a, Done) ELSE Tip[p]
  BY <1>2 DEF OneCell, Good
<1>5. rfile \in DOMAIN files /\ roff \in Nat /\ buf \in Seq(CellSet)
  BY DEF ReaderIn
<1>6. ASSUME NEW k \in 1..Len(buf) PROVE ReadIn(k)'
  <2>1. ReadIn(k)
    BY DEF ReaderIn
  <2>2. InWork(buf[k].by) => buf[k].nth < Done + 1
    <3>1. buf[k].nth \in Nat
      BY <2>1 DEF ReadIn
    <3> QED BY <2>1, <3>1, <1>2 DEF ReadIn
  <2>3. buf[k].by \notin torn => roff + k <= Len(File') /\ File'[roff + k] = buf[k]
    <3> HAVE buf[k].by \notin torn
    <3>1. roff + k <= Len(File) /\ File[roff + k] = buf[k]
      BY <2>1 DEF ReadIn
    <3>2. CASE rfile # Len(files)
      <4>1. File' = File
        BY <3>2, <1>2, <1>3, <1>5 DEF File
      <4> QED BY <3>1, <4>1
    <3>3. CASE rfile = Len(files)
      <4>1. File = Tip /\ File' = Tip'
        BY <3>3, <1>2, <1>3 DEF File
      <4>2. roff + k \in 1..Len(Tip) /\ Tip[roff + k].by \notin torn
        BY <3>1, <4>1, <1>4, <1>5
      <4>3. roff + k <= s + Done
        BY <4>2, <1>2, BehindTorn
      <4>4. roff + k \in 1..Len(Tip') /\ roff + k # s + Done + 1 /\ roff + k <= Len(Tip')
        BY <4>2, <4>3, <1>2, <1>4
      <4>5. Tip'[roff + k] = Tip[roff + k]
        BY <4>4, <1>4
      <4> QED BY <3>1, <4>1, <4>4, <4>5
    <3> QED BY <3>2, <3>3
  <2> QED BY <2>1, <2>2, <2>3, <1>2, <1>3 DEF ReadIn, InWork
<1>7. garbled = {} => Begins(blocks', files'[rfile], roff, rid + 1)
  <2> HAVE garbled = {}
  <2>1. Begins(blocks, files[rfile], roff, rid + 1)
    BY DEF ReaderIn, File
  <2>2. CASE rfile # Len(files)
    BY <2>1, <2>2, <1>2, <1>5
  <2>3. CASE rfile = Len(files)
    <3>1. \A o \in Nat : WholeIn(blocks, Tip, o) =>
            /\ WholeIn(blocks, Tip', o)
            /\ EndOf(blocks, Tip', o) = EndOf(blocks, Tip, o) /\ IdOf(blocks, Tip', o) = IdOf(blocks, Tip, o)
      BY <1>2, WholeStays
    <3>2. Begins(blocks, Tip', roff, rid + 1)
      BY <2>1, <2>3, <3>1, <1>2, BeginsKept
    <3> QED BY <2>3, <3>2, <1>2
  <2> QED BY <2>2, <2>3
<1>8. Extends(blocks, blocks')
  BY <1>2 DEF Extends
<1> QED BY <1>2, <1>6, <1>7, <1>8, ReaderStays

\* The end of a write, and a death: of a torn block the reader has not read the last cell.
LEMMA ReaderAtEnd ==
  ASSUME TailInv, LogInv, ReaderIn, EndWrite \/ WriterDies
  PROVE  ReaderIn'
<1>1. /\ UNCHANGED <<files, blocks, rVars>> /\ wpc' # "write"
      /\ torn' = torn \/ (torn' = torn \cup {Len(blocks)} /\ wpc = "write" /\ wrest > 0)
  BY DEF EndWrite, WriterDies
<1>2. UNCHANGED <<rfile, roff, buf>>
  BY <1>1 DEF rVars
<1>3. ASSUME NEW k \in 1..Len(buf) PROVE ReadIn(k)'
  <2>1. ReadIn(k)
    BY DEF ReaderIn
  <2>2. ~InWork(buf[k].by)'
    BY <1>1 DEF InWork
  <2>3. buf[k].by \in torn' => buf[k].nth + 1 < blocks[buf[k].by].len
    <3>1. ASSUME wpc = "write", wrest > 0, buf[k].by = Len(blocks)
          PROVE  buf[k].nth + 1 < blocks[buf[k].by].len
      <4>1. Done \in Nat /\ Done + wrest = blocks[Len(blocks)].len /\ wrest \in Nat
        BY <3>1, CellNow DEF TailInv, Types
      <4>2. buf[k].nth < Done /\ buf[k].nth \in Nat
        BY <2>1, <3>1 DEF ReadIn, InWork
      <4> QED BY <4>1, <4>2, <3>1
    <3> QED BY <2>1, <3>1, <1>1 DEF ReadIn
  <2>4. buf[k].by \notin torn' => buf[k].by \notin torn
    BY <1>1
  <2>5. File' = File
    BY <1>1, <1>2 DEF File
  <2> QED BY <2>1, <2>2, <2>3, <2>4, <2>5, <1>1, <1>2 DEF ReadIn
<1>4. garbled = {} => Begins(blocks', files'[rfile], roff, rid + 1)
  BY <1>1 DEF ReaderIn, File
<1>5. Extends(blocks, blocks')
  BY <1>1 DEF Extends
<1> QED BY <1>1, <1>3, <1>4, <1>5, ReaderStays

\* The repair: what the reader has read of a file that is emptied is torn.
LEMMA ReaderAtRepair ==
  ASSUME TailInv, LogInv, ReaderIn, Repair
  PROVE  ReaderIn'
<1>1. wpc = "down" /\ UNCHANGED <<blocks, torn, rVars>>
  BY RepairCases
<1>2. UNCHANGED <<rfile, roff, buf>> /\ rfile \in DOMAIN files /\ roff \in Nat
  BY <1>1 DEF rVars, ReaderIn
<1>3. wpc' # "write"
  BY DEF Repair
<1>4. Extends(blocks, blocks')
  BY <1>1 DEF Extends
<1>5. ASSUME DOMAIN files' = DOMAIN files, files'[rfile] = files[rfile]
      PROVE  ReaderIn'
  <2>1. File' = File
    BY <1>5, <1>2 DEF File
  <2>2. ASSUME NEW k \in 1..Len(buf) PROVE ReadIn(k)'
    <3>1. ReadIn(k)
      BY DEF ReaderIn
    <3> QED BY <3>1, <2>1, <1>1, <1>2, <1>3 DEF ReadIn, InWork
  <2>3. garbled = {} => Begins(blocks', files'[rfile], roff, rid + 1)
    BY <1>1, <1>5 DEF ReaderIn, File
  <2> QED BY <2>2, <2>3, <1>1, <1>4, <1>5, ReaderStays
<1>6. CASE /\ Len(Tip) <= 1 \/ (EndBlock(Tip) = {} /\ Low(Tip) = 0)
           /\ files' = [files EXCEPT ![Len(files)] = <<>>]
  <2>1. /\ DOMAIN files' = DOMAIN files /\ files'[Len(files)] = <<>>
        /\ \A i \in DOMAIN files : i # Len(files) => files'[i] = files[i]
    <3>1. <<>> \in Seq(CellSet)
      OBVIOUS
    <3> QED BY <3>1, <1>6, ReplaceFile DEF TailInv, Types
  <2>2. CASE rfile # Len(files)
    BY <2>1, <2>2, <1>2, <1>5
  <2>3. CASE rfile = Len(files)
    <3>1. \A o \in Nat : ~WholeIn(blocks, files[rfile], o)
      BY <2>3, <1>6, EmptiedHasNone DEF Tip
    <3>2. ASSUME NEW k \in 1..Len(buf) PROVE ReadIn(k)'
      <4>1. ReadIn(k)
        BY DEF ReaderIn
      <4>2. buf[k].by \in torn
        <5> SUFFICES ASSUME buf[k].by \notin torn PROVE FALSE
          OBVIOUS
        <5>1. roff + k <= Len(files[rfile]) /\ files[rfile][roff + k] = buf[k]
          BY <4>1 DEF ReadIn, File
        <5>2. roff + k \in 1..Len(files[rfile])
          <6>1. Good(blocks, files[rfile])
            BY <1>2, FilesGood DEF TailInv
          <6>2. Len(files[rfile]) \in Nat
            BY <6>1 DEF Good
          <6> QED BY <5>1, <6>2, <1>2
        <5> QED BY <5>1, <5>2, <3>1, <1>1, <1>2, NoneWholeTorn
      <4> QED BY <4>1, <4>2, <1>1, <1>2, <1>3 DEF ReadIn, InWork
    <3>3. garbled = {} => Begins(blocks', files'[rfile], roff, rid + 1)
      <4> HAVE garbled = {}
      <4>1. Begins(blocks, files[rfile], roff, rid + 1)
        BY DEF ReaderIn, File
      <4> QED BY <4>1, <3>1 DEF Begins
    <3> QED BY <3>2, <3>3, <2>1, <1>1, <1>4, ReaderStays
  <2> QED BY <2>2, <2>3
<1>7. files' = files => ReaderIn'
  BY <1>5
<1>8. ~(Len(Tip) > 1 /\ EndBlock(Tip) = {} /\ Low(Tip) > 0)
  <2>1. TailInv'
    BY TailRepair
  <2>2. wpc' # "failed"
    BY <2>1 DEF TailInv, Anchored
  <2> QED BY <2>2 DEF Repair, Tip, NewestFile
<1> QED BY <1>6, <1>7, <1>8, RepairCases
-----------------------------------------------------------------------------
\* What is known of a cell that the reader takes.
LEMMA CellTaken ==
  ASSUME TailInv, LogInv, NEW i \in DOMAIN files, NEW p \in 1..Len(files[i])
  PROVE  LET c == files[i][p] IN
           /\ c \in CellSet /\ c.by \in DOMAIN blocks /\ c.nth \in Nat /\ c.nth < blocks[c.by].len
           /\ c.by \in torn => c.nth + 1 < blocks[c.by].len
           /\ InWork(c.by) => c.nth < Done
<1> DEFINE c == files[i][p]
<1>1. c \in CellSet /\ c.by \in DOMAIN blocks /\ c.nth \in Nat
  BY FilesGood, CellFacts DEF TailInv
<1>2. PlacedIn(i, files[i], p)
  BY DEF LogInv, Placed
<1>3. InWork(c.by) => c.nth < Done
  <2> HAVE InWork(c.by)
  <2>1. i = Len(files) /\ files[i] = Tip /\ c.by = Len(blocks) /\ wpc = "write"
    BY <1>2 DEF InWork, PlacedIn, LogInv, WriterIn, Tip
  <2>2. PICK s \in Nat : WorksAt(s)
    BY <2>1 DEF LogInv, WriterIn
  <2> QED BY <2>1, <2>2 DEF WorksAt
<1> QED BY <1>1, <1>2, <1>3 DEF PlacedIn

\* A cell that is not torn is in its place, or its block is in work and not complete.
LEMMA Placing ==
  ASSUME TailInv, LogInv, NEW i \in DOMAIN files, NEW p \in 1..Len(files[i]), files[i][p].by \notin torn
  PROVE  \/ InPlace(blocks, files[i], p)
         \/ wpc = "write" /\ files[i][p].by = Len(blocks) /\ i = Len(files) /\ files[i] = Tip /\ wrest # 0
<1>1. PlacedIn(i, files[i], p)
  BY DEF LogInv, Placed
<1>2. CASE InWork(files[i][p].by)
  <2>1. i = Len(files) /\ files[i] = Tip /\ files[i][p].by = Len(blocks) /\ wpc = "write"
    BY <1>1, <1>2 DEF InWork, PlacedIn, LogInv, WriterIn, Tip
  <2>2. PICK s \in Nat : WorksAt(s)
    BY <2>1 DEF LogInv, WriterIn
  <2>3. wrest = 0 => InPlace(blocks, Tip, p)
    BY <2>1, <2>2, EndIsWhole
  <2> QED BY <2>1, <2>3
<1> QED BY <1>1, <1>2 DEF PlacedIn

\* The file of the reader.
LEMMA FileFacts ==
  ASSUME TailInv, LogInv, ReaderIn
  PROVE  /\ rfile \in DOMAIN files /\ File = files[rfile] /\ Good(blocks, File) /\ Tiled(blocks, File)
         /\ File \in Seq(CellSet) /\ Len(File) \in Nat /\ roff \in Nat /\ rid \in Nat
<1>1. rfile \in DOMAIN files /\ File = files[rfile] /\ roff \in Nat /\ rid \in Nat
  BY DEF ReaderIn, File
<1>2. Good(blocks, File) /\ Tiled(blocks, File)
  BY <1>1, FilesGood DEF TailInv, LogInv, Placed
<1> QED BY <1>1, <1>2 DEF Good

\* The block that the reader has read.
LEMMA ReadFacts ==
  ASSUME TailInv, LogInv, ReaderIn, rpc = "body", Len(buf) = blocks[buf[1].by].len
  PROVE  /\ Len(buf) \in 2..BlockMax /\ BlockMax \in Nat /\ Len(buf) \in Nat
         /\ buf \in Seq(CellSet) /\ buf[1].nth = 0 /\ buf[1].by \in DOMAIN blocks
         /\ \A k \in 1..Len(buf) :
              /\ ReadIn(k)
              /\ buf[k].by \notin torn => roff + k \in 1..Len(File) /\ File[roff + k] = buf[k]
<1>1. buf # <<>> /\ buf \in Seq(CellSet) /\ buf[1].nth = 0 /\ \A k \in 1..Len(buf) : ReadIn(k)
  BY DEF ReaderIn
<1>2. 1 \in 1..Len(buf) /\ Len(buf) \in Nat
  BY <1>1
<1>3. buf[1].by \in DOMAIN blocks
  BY <1>1, <1>2 DEF ReadIn
<1>4. Len(buf) \in 2..BlockMax /\ BlockMax \in Nat
  BY <1>3, LenRange, SizesAssumption DEF TailInv, Types
<1>5. ASSUME NEW k \in 1..Len(buf), buf[k].by \notin torn
      PROVE  roff + k \in 1..Len(File) /\ File[roff + k] = buf[k]
  <2>1. roff + k <= Len(File) /\ File[roff + k] = buf[k]
    BY <1>1, <1>5 DEF ReadIn
  <2> QED BY <2>1, FileFacts
<1> QED BY <1>1, <1>2, <1>3, <1>4, <1>5

\* A block whose body was read is whole where the reader stands.
LEMMA CarriedWhole ==
  ASSUME TailInv, LogInv, ReaderIn, rpc = "body", Len(buf) = blocks[buf[1].by].len, NEW b \in Carried
  PROVE  WholeIn(blocks, File, roff) /\ EndOf(blocks, File, roff) = roff + Len(buf)
<1> DEFINE n == Len(buf)
<1>1. /\ n \in 2..BlockMax /\ BlockMax \in Nat /\ n \in Nat
      /\ \A k \in 1..n : /\ ReadIn(k)
                         /\ buf[k].by \notin torn => roff + k \in 1..Len(File) /\ File[roff + k] = buf[k]
  BY ReadFacts
<1>2. b \in DOMAIN blocks /\ blocks[b].len = n /\ \A k \in 2..n : buf[k] = Cell(b, k - 1)
  BY DEF Carried
<1>3. buf[n] = Cell(b, n - 1) /\ buf[2] = Cell(b, 1) /\ n \in 1..n /\ 2 \in 1..n
  <2> HIDE DEF n
  <2>1. 2 \in 2..n /\ n \in 2..n /\ 2 \in 1..n /\ n \in 1..n
    BY <1>1
  <2>2. buf[2] = Cell(b, 2 - 1)
    BY <2>1, <1>2
  <2> QED BY <2>1, <2>2, <1>2
<1>4. b \notin torn /\ (InWork(b) => n - 1 < Done)
  <2>1. buf[n].by = b /\ buf[n].nth = n - 1
    BY <1>3 DEF Cell
  <2>2. ReadIn(n)
    BY <1>1, <1>3
  <2>3. b \in torn => (n - 1) + 1 < n
    BY <2>1, <2>2, <1>2 DEF ReadIn
  <2> HIDE DEF n
  <2> QED BY <2>1, <2>2, <2>3, <1>1 DEF ReadIn
<1>5. roff + 2 \in 1..Len(File) /\ File[roff + 2].by = b /\ File[roff + 2].nth = 1
  <2>1. buf[2].by = b /\ buf[2].nth = 1
    BY <1>3 DEF Cell
  <2> QED BY <2>1, <1>1, <1>3, <1>4
<1>6. InPlace(blocks, File, roff + 2)
  <2>1. CASE wpc = "write" /\ b = Len(blocks) /\ wrest # 0
    <3>1. InWork(b)
      BY <2>1 DEF InWork
    <3>2. Done \in Nat /\ Done + wrest = blocks[b].len /\ wrest \in Nat
      BY <2>1, CellNow DEF TailInv, Types
    <3>3. n - 1 < Done /\ Done + wrest = n
      BY <3>1, <3>2, <1>2, <1>4
    <3> HIDE DEF n
    <3> QED BY <3>2, <3>3, <1>1, <2>1
  <2> QED BY <2>1, <1>4, <1>5, FileFacts, Placing
<1>7. PICK q \in Nat : WholeIn(blocks, File, q) /\ File[q + 1].by = b /\ roff + 2 = q + 1 + 1
  <2>1. File[roff + 2].nth < blocks[File[roff + 2].by].len
    <3> HIDE DEF n
    <3> QED BY <1>1, <1>2, <1>5
  <2>2. PICK r, g : r = roff + 2 /\ g = File
    OBVIOUS
  <2>3. Good(blocks, g) /\ r \in 1..Len(g) /\ InPlace(blocks, g, r) /\ g[r].nth < blocks[g[r].by].len
    BY <2>1, <2>2, <1>5, <1>6, FileFacts
  <2>4. \E q \in Nat : WholeIn(blocks, g, q) /\ g[q + 1].by = g[r].by /\ r = q + 1 + g[r].nth
    BY <2>3, BlockAround
  <2> QED BY <2>2, <2>4, <1>5
<1>8. q = roff
  BY <1>7, FileFacts
<1> QED BY <1>2, <1>7, <1>8 DEF EndOf

\* What was read without a torn cell is the block of the head.
LEMMA CleanIsCarried ==
  ASSUME TailInv, LogInv, ReaderIn, rpc = "body", Len(buf) = blocks[buf[1].by].len,
         \A k \in 1..Len(buf) : buf[k].by \notin torn
  PROVE  buf[1].by \in Carried /\ WholeIn(blocks, File, roff) /\ File[roff + 1].by = buf[1].by
<1> DEFINE n == Len(buf)
<1> DEFINE h == buf[1].by
<1>1. /\ n \in 2..BlockMax /\ BlockMax \in Nat /\ n \in Nat /\ buf[1].nth = 0 /\ h \in DOMAIN blocks
      /\ \A k \in 1..n : roff + k \in 1..Len(File) /\ File[roff + k] = buf[k]
  BY ReadFacts
<1>2. 1 \in 1..n /\ n \in 1..n
  BY <1>1
<1>3. /\ roff + 1 \in 1..Len(File) /\ File[roff + 1].by = h /\ File[roff + 1].nth = 0
      /\ roff + n \in 1..Len(File) /\ File[roff + n] = buf[n]
  BY <1>1, <1>2
<1>4. InPlace(blocks, File, roff + 1)
  <2>1. CASE wpc = "write" /\ h = Len(blocks) /\ File = Tip /\ wrest # 0
    <3>1. PICK s \in Nat : WorksAt(s)
      BY <2>1 DEF LogInv, WriterIn
    <3>2. roff + 1 = s + 1 + 0 /\ wpos = s + Done
      BY <2>1, <3>1, <1>3 DEF WorksAt
    <3>3. roff + n <= wpos
      BY <2>1, <1>2, <1>3, BehindTorn
    <3>4. Done \in Nat /\ Done + wrest = n /\ wrest \in Nat
      BY <2>1, CellNow DEF TailInv, Types
    <3> HIDE DEF n
    <3> QED BY <3>2, <3>3, <3>4, <2>1, <1>1, FileFacts
  <2> QED BY <2>1, <1>2, <1>3, FileFacts, Placing
<1>5. PICK q \in Nat : WholeIn(blocks, File, q) /\ File[q + 1].by = h /\ roff + 1 = q + 1 + 0
  <2>1. File[roff + 1].nth < blocks[File[roff + 1].by].len
    <3>1. blocks[h].len = n /\ 0 < n
      BY <1>1
    <3> QED BY <3>1, <1>3
  <2> QED BY <2>1, <1>3, <1>4, FileFacts, BlockAround
<1>6. q = roff
  BY <1>5, FileFacts
<1>7. \A k \in 2..n : buf[k] = Cell(h, k - 1)
  <2> TAKE k \in 2..n
  <2>1. k \in 1..n /\ k - 1 \in 0..blocks[File[roff + 1].by].len - 1 /\ roff + 1 + (k - 1) = roff + k
    <3>1. blocks[File[roff + 1].by].len = n
      BY <1>3
    <3> HIDE DEF n
    <3> QED BY <3>1, <1>1, FileFacts
  <2>2. File[roff + 1 + (k - 1)] = Cell(File[roff + 1].by, k - 1)
    BY <2>1, <1>5, <1>6 DEF WholeIn
  <2> QED BY <2>1, <2>2, <1>1, <1>3
<1> QED BY <1>1, <1>3, <1>5, <1>6, <1>7 DEF Carried
-----------------------------------------------------------------------------
\* Induction, for a set of numbers.
LEMMA Counting ==
  ASSUME NEW S, 0 \in S, \A n \in Nat : n \in S => n + 1 \in S
  PROVE  Nat \subseteq S
<1> SUFFICES ASSUME NEW m \in Nat \ S PROVE FALSE
  OBVIOUS
<1> DEFINE D == Nat \ S
<1>1. D \subseteq Nat /\ D # {}
  OBVIOUS
<1>2. PICK n \in D : \A e \in D : ~ (<<e, n>> \in OpToRel(<, Nat))
  BY <1>1, NatLessThanWellFounded, WFMin
<1>3. n \in Nat /\ n \notin S /\ n # 0
  OBVIOUS
<1>4. n - 1 \in Nat /\ (n - 1) + 1 = n /\ n - 1 < n
  BY <1>3
<1>5. n - 1 \notin S
  BY <1>3, <1>4
<1>6. <<n - 1, n>> \in OpToRel(<, Nat)
  BY <1>3, <1>4 DEF OpToRel
<1> QED BY <1>2, <1>4, <1>5, <1>6

\* The walk from offset o on: the block there, and the walk from its end.
FromStep(f, h, o) == IF Whole(f, o) THEN <<o>> \o h[o + blocks[f[o + 1].by].len] ELSE <<>>

\* Chain is what its recursion says.
LEMMA ChainIs ==
  ASSUME NEW f, Good(blocks, f)
  PROVE  \E h : Chain(f) = h[0] /\ \A o \in 0..Len(f) : h[o] = FromStep(f, h, o)
<1> DEFINE L == Len(f)
<1> DEFINE nxt(o) == o + blocks[f[o + 1].by].len
<1>0. L \in Nat
  BY DEF Good
<1>1. ASSUME NEW o \in 0..L, Whole(f, o) PROVE nxt(o) \in 0..L /\ o < nxt(o)
  <2>1. WholeIn(blocks, f, o) /\ o \in Nat
    BY <1>0, <1>1, WholeIsWholeIn
  <2>2. EndOf(blocks, f, o) \in Nat /\ o + 2 <= EndOf(blocks, f, o) /\ EndOf(blocks, f, o) <= L
    BY <2>1, WholeFacts
  <2>3. nxt(o) = EndOf(blocks, f, o)
    BY DEF EndOf
  <2> HIDE DEF nxt
  <2> QED BY <2>1, <2>2, <2>3, <1>0
<1> HIDE DEF L
<1> DEFINE S == {n \in Nat : n <= L => \E h : \A o \in L - n..L : h[o] = FromStep(f, h, o)}
<1>2. 0 \in S
  <2> DEFINE h == [o \in 0..L |-> <<>>]
  <2>1. ~Whole(f, L)
    BY <1>0, <1>1 DEF L, Whole
  <2>2. \A o \in L - 0..L : h[o] = FromStep(f, h, o)
    <3>1. \A o \in L - 0..L : o = L /\ o \in 0..L
      BY <1>0
    <3> QED BY <2>1, <3>1 DEF FromStep
  <2> HIDE DEF h
  <2> QED BY <2>2
<1>3. ASSUME NEW n \in Nat, n \in S PROVE n + 1 \in S
  <2> SUFFICES ASSUME n + 1 <= L
               PROVE  \E h : \A o \in L - (n + 1)..L : h[o] = FromStep(f, h, o)
    OBVIOUS
  <2>1. PICK h : \A o \in L - n..L : h[o] = FromStep(f, h, o)
    BY <1>0, <1>3
  <2> DEFINE m == L - (n + 1)
  <2> DEFINE g == [o \in 0..L |-> IF o = m THEN FromStep(f, h, m) ELSE h[o]]
  <2>2. ASSUME NEW o \in m..L PROVE g[o] = FromStep(f, g, o)
    <3>1. o \in 0..L /\ m \in 0..L /\ (o # m => o \in L - n..L)
      BY <1>0
    <3>2. Whole(f, o) => nxt(o) \in 0..L /\ nxt(o) # m
      <4> HAVE Whole(f, o)
      <4>1. nxt(o) \in 0..L /\ o < nxt(o)
        BY <3>1, <1>1
      <4> HIDE DEF nxt
      <4> QED BY <4>1, <1>0
    <3>3. Whole(f, o) => g[nxt(o)] = h[nxt(o)]
      <4> HIDE DEF nxt, m
      <4> QED BY <3>2
    <3>4. FromStep(f, g, o) = FromStep(f, h, o)
      <4> HIDE DEF g
      <4> QED BY <3>3 DEF FromStep
    <3>5. g[o] = FromStep(f, h, o)
      <4> HIDE DEF m
      <4> QED BY <2>1, <3>1
    <3> QED BY <3>4, <3>5
  <2> HIDE DEF g, m
  <2> QED BY <2>2 DEF m
<1>4. Nat \subseteq S
  <2> HIDE DEF S
  <2> QED BY <1>2, <1>3, Counting
<1>5. PICK h : \A o \in 0..L : h[o] = FromStep(f, h, o)
  <2>1. L \in S
    <3> HIDE DEF S
    <3> QED BY <1>0, <1>4
  <2>2. \E h : \A o \in L - L..L : h[o] = FromStep(f, h, o)
    BY <2>1, <1>0
  <2> QED BY <2>2, <1>0
<1> DEFINE g == [o \in 0..L |-> h[o]]
           F == CHOOSE k : k = [o \in 0..L |->
                  IF Whole(f, o) THEN <<o>> \o k[o + blocks[f[o + 1].by].len] ELSE <<>>]
<1>6. g = [o \in 0..L |-> IF Whole(f, o) THEN <<o>> \o g[o + blocks[f[o + 1].by].len] ELSE <<>>]
  <2>1. ASSUME NEW o \in 0..L
        PROVE  g[o] = IF Whole(f, o) THEN <<o>> \o g[nxt(o)] ELSE <<>>
    <3>1. Whole(f, o) => g[nxt(o)] = h[nxt(o)]
      <4> HAVE Whole(f, o)
      <4>1. nxt(o) \in 0..L
        BY <1>1
      <4> HIDE DEF nxt
      <4> QED BY <4>1
    <3>2. g[o] = h[o]
      OBVIOUS
    <3> HIDE DEF g
    <3> QED BY <1>5, <3>1, <3>2 DEF FromStep
  <2>2. [o \in 0..L |-> g[o]] = g
    OBVIOUS
  <2> QED BY <2>1, <2>2
<1>7. F = [o \in 0..L |-> IF Whole(f, o) THEN <<o>> \o F[o + blocks[f[o + 1].by].len] ELSE <<>>]
  <2> HIDE DEF g
  <2> QED BY <1>6
<1>8. Chain(f) = F[0]
  BY DEF Chain, L
<1> HIDE DEF F
<1>9. \A o \in 0..L : F[o] = FromStep(f, F, o)
  BY <1>7 DEF FromStep
<1> QED BY <1>8, <1>9 DEF L

\* The offsets c go from block to block, from o on to the last one.
Walks(f, c, o) ==
  /\ c \in Seq(Nat)
  /\ WholeIn(blocks, f, o) <=> c # <<>>
  /\ c # <<>> => c[1] = o /\ ~WholeIn(blocks, f, EndOf(blocks, f, c[Len(c)]))
  /\ \A i \in 1..Len(c) : WholeIn(blocks, f, c[i])
  /\ \A i \in 1..Len(c) - 1 : c[i + 1] = EndOf(blocks, f, c[i])

\* One block more in front.
LEMMA WalkFrom ==
  ASSUME NEW f, NEW o \in Nat, NEW c, WholeIn(blocks, f, o), Walks(f, c, EndOf(blocks, f, o))
  PROVE  Walks(f, <<o>> \o c, o)
<1> DEFINE d == <<o>> \o c
<1>1. /\ c \in Seq(Nat)
      /\ WholeIn(blocks, f, EndOf(blocks, f, o)) <=> c # <<>>
      /\ c # <<>> => c[1] = EndOf(blocks, f, o) /\ ~WholeIn(blocks, f, EndOf(blocks, f, c[Len(c)]))
      /\ \A i \in 1..Len(c) : WholeIn(blocks, f, c[i])
      /\ \A i \in 1..Len(c) - 1 : c[i + 1] = EndOf(blocks, f, c[i])
  BY DEF Walks
<1>2. /\ d \in Seq(Nat) /\ Len(d) = Len(c) + 1 /\ d[1] = o /\ Len(c) \in Nat
      /\ \A i \in 1..Len(c) : d[i + 1] = c[i]
  BY <1>1
<1>3. d # <<>>
  BY <1>2
<1> HIDE DEF d
<1>4. ASSUME NEW i \in 1..Len(d) PROVE WholeIn(blocks, f, d[i])
  <2>1. CASE i = 1
    BY <2>1, <1>2
  <2>2. CASE i # 1
    <3>1. i - 1 \in 1..Len(c) /\ (i - 1) + 1 = i
      BY <2>2, <1>2
    <3>2. d[i] = c[i - 1]
      BY <3>1, <1>2
    <3> QED BY <3>1, <3>2, <1>1
  <2> QED BY <2>1, <2>2
<1>5. ASSUME NEW i \in 1..Len(d) - 1 PROVE d[i + 1] = EndOf(blocks, f, d[i])
  <2>0. i \in 1..Len(c)
    BY <1>2
  <2>1. CASE i = 1
    <3>1. c # <<>>
      BY <2>0
    <3> QED BY <2>0, <2>1, <3>1, <1>1, <1>2
  <2>2. CASE i # 1
    <3>1. i - 1 \in 1..Len(c) - 1 /\ i - 1 \in 1..Len(c) /\ (i - 1) + 1 = i
      BY <2>0, <2>2, <1>2
    <3>2. d[i] = c[i - 1] /\ d[i + 1] = c[i] /\ c[i] = EndOf(blocks, f, c[i - 1])
      BY <2>0, <3>1, <1>1, <1>2
    <3> QED BY <3>2
  <2> QED BY <2>1, <2>2
<1>6. ~WholeIn(blocks, f, EndOf(blocks, f, d[Len(d)]))
  <2>1. CASE c = <<>>
    <3>1. Len(d) = 1
      BY <2>1, <1>2
    <3> QED BY <2>1, <3>1, <1>1, <1>2
  <2>2. CASE c # <<>>
    <3>1. Len(c) \in 1..Len(c)
      BY <2>2, <1>1
    <3>2. d[Len(d)] = c[Len(c)]
      BY <3>1, <1>2
    <3> QED BY <2>2, <3>2, <1>1
  <2> QED BY <2>1, <2>2
<1>7. Walks(f, d, o)
  BY <1>2, <1>3, <1>4, <1>5, <1>6 DEF Walks
<1> QED BY <1>7 DEF d

\* Chain goes from block to block, from the beginning of the file.
LEMMA ChainWalks ==
  ASSUME NEW f, Good(blocks, f)
  PROVE  Walks(f, Chain(f), 0)
<1> DEFINE L == Len(f)
<1>0. L \in Nat
  BY DEF Good
<1>1. PICK h : Chain(f) = h[0] /\ \A o \in 0..L : h[o] = FromStep(f, h, o)
  BY ChainIs
<1>2. ASSUME NEW o \in 0..L, WholeIn(blocks, f, o)
      PROVE  EndOf(blocks, f, o) \in 0..L /\ o < EndOf(blocks, f, o)
  BY <1>0, <1>2, WholeFacts
<1>3. ASSUME NEW o \in 0..L PROVE h[o] = IF WholeIn(blocks, f, o) THEN <<o>> \o h[EndOf(blocks, f, o)] ELSE <<>>
  <2>1. Whole(f, o) <=> WholeIn(blocks, f, o)
    BY WholeIsWholeIn
  <2> QED BY <2>1, <1>1 DEF FromStep, EndOf
<1>4. ASSUME NEW o \in 0..L, ~WholeIn(blocks, f, o) PROVE Walks(f, h[o], o)
  <2>1. h[o] = <<>>
    BY <1>3, <1>4
  <2> QED BY <2>1, <1>4 DEF Walks
<1> HIDE DEF L
<1> DEFINE S == {n \in Nat : n <= L => \A o \in L - n..L : Walks(f, h[o], o)}
<1>5. 0 \in S
  <2>1. ASSUME NEW o \in L - 0..L PROVE Walks(f, h[o], o)
    <3>1. o \in 0..L /\ o = L
      BY <1>0
    <3>2. ~WholeIn(blocks, f, o)
      <4> SUFFICES ASSUME WholeIn(blocks, f, o) PROVE FALSE
        OBVIOUS
      <4>1. EndOf(blocks, f, o) \in 0..L /\ o < EndOf(blocks, f, o)
        BY <3>1, <1>2
      <4> QED BY <4>1, <3>1, <1>0
    <3> QED BY <3>1, <3>2, <1>4
  <2> QED BY <2>1
<1>6. ASSUME NEW n \in Nat, n \in S PROVE n + 1 \in S
  <2> SUFFICES ASSUME n + 1 <= L, NEW o \in L - (n + 1)..L PROVE Walks(f, h[o], o)
    OBVIOUS
  <2>1. \A p \in L - n..L : Walks(f, h[p], p)
    BY <1>0, <1>6
  <2>2. o \in 0..L
    BY <1>0
  <2>3. CASE WholeIn(blocks, f, o)
    <3>1. EndOf(blocks, f, o) \in L - n..L
      <4>1. EndOf(blocks, f, o) \in 0..L /\ o < EndOf(blocks, f, o)
        BY <2>2, <2>3, <1>2
      <4> QED BY <4>1, <1>0
    <3>2. h[o] = <<o>> \o h[EndOf(blocks, f, o)]
      BY <2>2, <2>3, <1>3
    <3>3. o \in Nat
      BY <2>2
    <3>4. Walks(f, h[EndOf(blocks, f, o)], EndOf(blocks, f, o))
      BY <2>1, <3>1
    <3> QED BY <2>3, <3>2, <3>3, <3>4, WalkFrom
  <2> QED BY <2>2, <2>3, <1>4
<1>7. Nat \subseteq S
  <2> HIDE DEF S
  <2> QED BY <1>5, <1>6, Counting
<1>8. \A o \in L - L..L : Walks(f, h[o], o)
  <2>1. L \in S
    <3> HIDE DEF S
    <3> QED BY <1>0, <1>7
  <2> QED BY <2>1, <1>0
<1>9. 0 \in L - L..L
  BY <1>0
<1> QED BY <1>1, <1>8, <1>9

\* In a tiled file the walk meets all whole blocks, the one with id i as the i-th.
LEMMA ChainFacts ==
  ASSUME NEW f, Good(blocks, f), Tiled(blocks, f)
  PROVE  LET c == Chain(f) IN
           /\ c \in Seq(Nat)
           /\ \A i \in 1..Len(c) : WholeIn(blocks, f, c[i]) /\ IdOf(blocks, f, c[i]) = i
           /\ \A i \in 1..Len(c) : i > 1 => f[c[i - 1] + 1].by < f[c[i] + 1].by
           /\ \A o \in Nat : WholeIn(blocks, f, o) => \E i \in 1..Len(c) : c[i] = o
<1> DEFINE c == Chain(f)
<1>1. /\ c \in Seq(Nat) /\ Len(c) \in Nat
      /\ WholeIn(blocks, f, 0) <=> c # <<>>
      /\ c # <<>> => c[1] = 0 /\ ~WholeIn(blocks, f, EndOf(blocks, f, c[Len(c)]))
      /\ \A i \in 1..Len(c) : WholeIn(blocks, f, c[i])
      /\ \A i \in 1..Len(c) - 1 : c[i + 1] = EndOf(blocks, f, c[i])
  BY ChainWalks DEF Walks
<1> HIDE DEF c
<1>2. \A i \in 1..Len(c) : c[i] \in Nat
  BY <1>1
<1> DEFINE S == {n \in Nat : n + 1 <= Len(c) => IdOf(blocks, f, c[n + 1]) = n + 1}
<1>3. 0 \in S
  <2> SUFFICES ASSUME 1 <= Len(c) PROVE IdOf(blocks, f, c[1]) = 1
    OBVIOUS
  <2>1. c[1] = 0 /\ 1 \in 1..Len(c)
    BY <1>1
  <2>2. Begins(blocks, f, 0, IdOf(blocks, f, 0)) /\ Begins(blocks, f, 0, 1)
    BY <2>1, <1>1 DEF Tiled, Begins
  <2> QED BY <2>1, <2>2, BeginsOnce
<1>4. ASSUME NEW n \in Nat, n \in S PROVE n + 1 \in S
  <2> SUFFICES ASSUME (n + 1) + 1 <= Len(c) PROVE IdOf(blocks, f, c[(n + 1) + 1]) = (n + 1) + 1
    OBVIOUS
  <2>1. n + 1 \in 1..Len(c) /\ n + 1 \in 1..Len(c) - 1 /\ (n + 1) + 1 \in 1..Len(c)
    BY <1>1
  <2>2. IdOf(blocks, f, c[n + 1]) = n + 1
    BY <2>1, <1>4
  <2>3. c[(n + 1) + 1] = EndOf(blocks, f, c[n + 1])
    BY <2>1, <1>1
  <2>4. Begins(blocks, f, c[(n + 1) + 1], (n + 1) + 1)
    BY <2>1, <2>2, <2>3, <1>1, <1>2 DEF Begins
  <2>5. Begins(blocks, f, c[(n + 1) + 1], IdOf(blocks, f, c[(n + 1) + 1]))
    BY <2>1, <1>1, <1>2 DEF Tiled
  <2> QED BY <2>4, <2>5, BeginsOnce
<1>5. Nat \subseteq S
  <2> HIDE DEF S
  <2> QED BY <1>3, <1>4, Counting
<1>6. ASSUME NEW i \in 1..Len(c) PROVE IdOf(blocks, f, c[i]) = i
  <2>1. i - 1 \in Nat /\ (i - 1) + 1 = i /\ i <= Len(c)
    BY <1>1
  <2>2. i - 1 \in S
    <3> HIDE DEF S
    <3> QED BY <2>1, <1>5
  <2> QED BY <2>1, <2>2
<1>7. ASSUME NEW i \in 1..Len(c), i > 1 PROVE f[c[i - 1] + 1].by < f[c[i] + 1].by
  <2>1. i - 1 \in 1..Len(c) /\ i - 1 \in 1..Len(c) - 1 /\ (i - 1) + 1 = i
    BY <1>1, <1>7
  <2>2. c[i] = EndOf(blocks, f, c[i - 1]) /\ WholeIn(blocks, f, c[i - 1]) /\ WholeIn(blocks, f, c[i])
    BY <2>1, <1>1
  <2>3. c[i - 1] < c[i]
    <3>1. c[i - 1] \in Nat /\ c[i] \in Nat /\ c[i - 1] + 2 <= c[i]
      BY <2>1, <2>2, <1>2, WholeFacts
    <3> QED BY <3>1
  <2> QED BY <2>1, <2>2, <2>3, <1>2 DEF Tiled
<1>8. ASSUME NEW o \in Nat, WholeIn(blocks, f, o) PROVE \E i \in 1..Len(c) : c[i] = o
  <2> DEFINE B == {p \in Nat : WholeIn(blocks, f, p) /\ \A i \in 1..Len(c) : c[i] # p}
  <2> SUFFICES ASSUME B # {} PROVE FALSE
    BY <1>8
  <2>1. B \subseteq Nat
    OBVIOUS
  <2>2. PICK p \in B : \A q \in B : ~ (<<q, p>> \in OpToRel(<, Nat))
    BY <2>1, NatLessThanWellFounded, WFMin
  <2>3. p \in Nat /\ WholeIn(blocks, f, p) /\ \A i \in 1..Len(c) : c[i] # p
    OBVIOUS
  <2>4. Begins(blocks, f, p, IdOf(blocks, f, p))
    BY <2>3 DEF Tiled
  <2>5. CASE p = 0
    <3>1. c # <<>> /\ c[1] = 0
      BY <2>3, <2>5, <1>1
    <3>2. 1 \in 1..Len(c)
      BY <3>1, <1>1
    <3> QED BY <3>1, <3>2, <2>3, <2>5
  <2>6. ASSUME NEW q \in Nat, WholeIn(blocks, f, q), p = EndOf(blocks, f, q) PROVE FALSE
    <3>1. q < p
      <4>1. q + 2 <= p
        BY <2>6, WholeFacts
      <4> QED BY <4>1, <2>3
    <3>2. q \notin B
      <4>1. <<q, p>> \in OpToRel(<, Nat)
        BY <3>1, <2>3 DEF OpToRel
      <4> QED BY <4>1, <2>2
    <3>3. PICK i \in 1..Len(c) : c[i] = q
      BY <3>2, <2>6
    <3>4. CASE i < Len(c)
      <4>1. i \in 1..Len(c) - 1 /\ i + 1 \in 1..Len(c)
        BY <3>4, <1>1
      <4>2. c[i + 1] = p
        BY <4>1, <3>3, <2>6, <1>1
      <4> QED BY <4>1, <4>2, <2>3
    <3>5. CASE i = Len(c)
      <4>1. c # <<>>
        BY <3>3
      <4> QED BY <4>1, <3>3, <3>5, <2>3, <2>6, <1>1
    <3> QED BY <3>3, <3>4, <3>5, <1>1
  <2> QED BY <2>4, <2>5, <2>6 DEF Begins
<1> QED BY <1>1, <1>6, <1>7, <1>8 DEF c
-----------------------------------------------------------------------------
\* Every seek goes to where a block begins.
LEMMA SeekFacts ==
  ASSUME TailInv, LogInv, ReaderIn, Seeking
  PROVE  \E n \in DOMAIN files : \E o, id \in Nat :
           /\ SeekTo(n, o, id) /\ Begins(blocks, files[n], o, id + 1)
           /\ seeks < MaxSeeks /\ Len(blocks) + seeks < MaxWrites
<1>1. seeks < MaxSeeks /\ Len(blocks) + seeks < MaxWrites
  BY DEF Seeking, ReaderRestart, Resume, RollBack
<1>2. ASSUME NEW n \in DOMAIN files, SeekTo(n, 0, 0)
      PROVE  \E o, id \in Nat : SeekTo(n, o, id) /\ Begins(blocks, files[n], o, id + 1)
  <2>1. 0 + 1 = 1 /\ 0 \in Nat
    OBVIOUS
  <2>2. Begins(blocks, files[n], 0, 0 + 1)
    BY <2>1 DEF Begins
  <2> QED BY <2>1, <2>2, <1>2
<1>3. ASSUME NEW n \in DOMAIN files, NEW id, SeekBlock(n, id)
      PROVE  \E o, i \in Nat : SeekTo(n, o, i) /\ Begins(blocks, files[n], o, i + 1)
  <2> DEFINE f == files[n]
  <2> DEFINE c == Chain(f)
  <2>1. id \in DOMAIN c /\ SeekTo(n, c[id] + blocks[f[c[id] + 1].by].len, id)
    BY <1>3 DEF SeekBlock
  <2>2. Good(blocks, f) /\ Tiled(blocks, f)
    BY FilesGood DEF TailInv, LogInv, Placed
  <2>3. c \in Seq(Nat) /\ \A i \in 1..Len(c) : WholeIn(blocks, f, c[i]) /\ IdOf(blocks, f, c[i]) = i
    BY <2>2, ChainFacts
  <2> HIDE DEF c
  <2>4. id \in 1..Len(c) /\ c[id] \in Nat /\ id \in Nat
    BY <2>1, <2>3
  <2>5. WholeIn(blocks, f, c[id]) /\ IdOf(blocks, f, c[id]) = id
    BY <2>3, <2>4
  <2>6. Begins(blocks, f, EndOf(blocks, f, c[id]), id + 1)
    BY <2>4, <2>5 DEF Begins
  <2>7. EndOf(blocks, f, c[id]) \in Nat
    BY <2>2, <2>4, <2>5, WholeFacts
  <2>8. SeekTo(n, EndOf(blocks, f, c[id]), id)
    BY <2>1 DEF EndOf
  <2> QED BY <2>4, <2>6, <2>7, <2>8
<1>4. CASE ReaderRestart
  <2>1. NewestFile \in DOMAIN files
    BY TipGood DEF NewestFile, TailInv
  <2> QED BY <2>1, <1>1, <1>2, <1>4 DEF ReaderRestart
<1>5. CASE Resume
  <2>1. saved.file \in DOMAIN files
    BY DEF ReaderIn
  <2>2. SeekTo(saved.file, 0, 0) \/ SeekBlock(saved.file, saved.id)
    BY <1>5 DEF Resume
  <2> QED BY <2>1, <2>2, <1>1, <1>2, <1>3
<1>6. ASSUME NEW a \in acked, RollBack(a)
      PROVE  \E n \in DOMAIN files : \E o, id \in Nat :
               SeekTo(n, o, id) /\ Begins(blocks, files[n], o, id + 1)
  <2>1. blocks[a].file \in DOMAIN files
    BY DEF TailInv, Types
  <2>2. SeekBlock(blocks[a].file, blocks[a].id)
    BY <1>6 DEF RollBack
  <2> QED BY <2>1, <2>2, <1>3
<1> QED BY <1>1, <1>4, <1>5, <1>6 DEF Seeking

\* A seek.
LEMMA ReaderAtSeek ==
  ASSUME TailInv, LogInv, ReaderIn, Seeking
  PROVE  ReaderIn'
<1>1. PICK n \in DOMAIN files, o \in Nat, id \in Nat :
        SeekTo(n, o, id) /\ Begins(blocks, files[n], o, id + 1)
  BY SeekFacts
<1>2. /\ rpc' = "look" /\ rfile' = n /\ roff' = o /\ rid' = id /\ buf' = <<>>
      /\ UNCHANGED <<files, blocks, saved, garbled>>
  BY <1>1 DEF SeekTo, wVars
<1>3. Begins(blocks', File', roff', rid' + 1)
  BY <1>1, <1>2 DEF File
<1>4. saved'.file \in DOMAIN files' /\ rfile' \in DOMAIN files'
  BY <1>2 DEF ReaderIn
<1>5. buf' \in Seq(CellSet) /\ \A k \in 1..Len(buf') : ReadIn(k)'
  <2>1. Len(buf') = 0 /\ buf' \in Seq(CellSet)
    BY <1>2
  <2> QED BY <2>1
<1> QED BY <1>1, <1>2, <1>3, <1>4, <1>5 DEF ReaderIn

\* What was read stays read while the reader stands.
LEMMA ReadStays ==
  ASSUME NEW k, ReadIn(k), UNCHANGED <<wVars, rfile, roff>>, buf'[k] = buf[k]
  PROVE  ReadIn(k)'
<1>1. File' = File /\ Done' = Done
  BY DEF File, Done, wVars
<1> QED BY <1>1 DEF ReadIn, InWork, wVars

\* The next cell is read.
LEMMA ReadNext ==
  ASSUME TailInv, LogInv, ReaderIn, UNCHANGED <<wVars, rfile, roff>>, NEW k \in Nat \ {0},
         roff + k <= Len(File), buf'[k] = File[roff + k]
  PROVE  ReadIn(k)'
<1>1. File' = File /\ Done' = Done
  BY DEF File, Done, wVars
<1>2. roff + k \in 1..Len(File) /\ rfile \in DOMAIN files /\ File = files[rfile]
  BY FileFacts
<1> DEFINE c == File[roff + k]
<1>3. /\ c.by \in DOMAIN blocks /\ c.nth \in Nat /\ c.nth < blocks[c.by].len
      /\ c.by \in torn => c.nth + 1 < blocks[c.by].len
      /\ InWork(c.by) => c.nth < Done
  BY <1>2, CellTaken
<1> QED BY <1>1, <1>3 DEF ReadIn, InWork, wVars

\* The head of a block is read.
LEMMA ReaderAtHead ==
  ASSUME TailInv, LogInv, ReaderIn, ReadHead
  PROVE  ReaderIn'
<1> DEFINE c == File[roff + 1]
<1>1. /\ rpc' = "body" /\ buf' = <<c>> /\ c.nth = 0 /\ Len(File) > roff
      /\ UNCHANGED <<wVars, rfile, roff, rid, saved, garbled>>
  BY DEF ReadHead, GoodHead
<1>2. rfile \in DOMAIN files /\ File = files[rfile] /\ Len(File) \in Nat /\ roff \in Nat /\ Good(blocks, File)
  BY FileFacts
<1>3. roff + 1 \in 1..Len(File) /\ roff + 1 <= Len(File)
  BY <1>1, <1>2
<1>4. c \in CellSet /\ c.by \in DOMAIN blocks
  BY <1>2, <1>3, CellTaken
<1>5. blocks[c.by].len \in 2..BlockMax /\ BlockMax \in Nat
  BY <1>4, LenRange, SizesAssumption DEF TailInv, Types
<1>6. Len(buf') = 1 /\ buf'[1] = c /\ buf' \in Seq(CellSet) /\ buf' # <<>>
  BY <1>1, <1>4
<1>7. ReadIn(1)'
  BY <1>1, <1>3, <1>6, ReadNext
<1>8. \A k \in 1..Len(buf') : ReadIn(k)'
  <2>1. \A k \in 1..Len(buf') : k = 1
    BY <1>6
  <2> QED BY <2>1, <1>7
<1>9. Len(buf') <= blocks'[buf'[1].by].len
  <2>1. 1 <= blocks[c.by].len
    BY <1>5
  <2> QED BY <2>1, <1>1, <1>6 DEF wVars
<1>10. garbled' = {} => Begins(blocks', File', roff', rid' + 1)
  BY <1>1 DEF ReaderIn, File, wVars
<1>11. /\ rfile' \in DOMAIN files' /\ roff' \in Nat /\ rid' \in Nat /\ saved'.file \in DOMAIN files'
  BY <1>1 DEF ReaderIn, wVars
<1> QED BY <1>1, <1>6, <1>8, <1>9, <1>10, <1>11 DEF ReaderIn

\* A cell of the body is read.
LEMMA ReaderAtBody ==
  ASSUME TailInv, LogInv, ReaderIn, ReadBody
  PROVE  ReaderIn'
<1> DEFINE c == File[roff + Len(buf) + 1]
<1>1. /\ rpc = "body" /\ rpc' = "body" /\ buf' = Append(buf, c) /\ Len(buf) < blocks[buf[1].by].len
      /\ roff + Len(buf) < Len(File)
      /\ UNCHANGED <<wVars, rfile, roff, rid, saved, garbled>>
  BY DEF ReadBody
<1>2. /\ rfile \in DOMAIN files /\ File = files[rfile] /\ Len(File) \in Nat /\ roff \in Nat
      /\ buf \in Seq(CellSet) /\ buf # <<>> /\ Len(buf) \in Nat
  BY <1>1, FileFacts DEF ReaderIn
<1>3. /\ roff + Len(buf) + 1 \in 1..Len(File) /\ roff + (Len(buf) + 1) <= Len(File)
      /\ roff + (Len(buf) + 1) = roff + Len(buf) + 1 /\ Len(buf) + 1 \in Nat \ {0}
  BY <1>1, <1>2
<1>4. c \in CellSet
  BY <1>2, <1>3, CellTaken
<1>5. /\ buf' \in Seq(CellSet) /\ buf' # <<>> /\ Len(buf') = Len(buf) + 1 /\ buf'[Len(buf) + 1] = c
      /\ \A k \in 1..Len(buf) : buf'[k] = buf[k]
  BY <1>1, <1>2, <1>4
<1>6. buf'[1] = buf[1] /\ 1 \in 1..Len(buf)
  <2>1. 1 \in 1..Len(buf)
    BY <1>2
  <2> QED BY <2>1, <1>5
<1>7. \A k \in 1..Len(buf') : ReadIn(k)'
  <2> TAKE k \in 1..Len(buf')
  <2>1. CASE k \in 1..Len(buf)
    <3>1. ReadIn(k) /\ buf'[k] = buf[k]
      BY <2>1, <1>5 DEF ReaderIn
    <3> QED BY <3>1, <1>1, ReadStays
  <2>2. CASE k = Len(buf) + 1
    <3>1. buf'[k] = File[roff + k] /\ k \in Nat \ {0} /\ roff + k <= Len(File)
      BY <2>2, <1>3, <1>5
    <3> QED BY <3>1, <1>1, ReadNext
  <2> QED BY <2>1, <2>2, <1>2, <1>5
<1>8. Len(buf') <= blocks'[buf'[1].by].len
  <2>1. blocks[buf[1].by].len \in 2..BlockMax /\ BlockMax \in Nat
    <3>1. buf[1].by \in DOMAIN blocks
      BY <1>6 DEF ReaderIn, ReadIn
    <3> QED BY <3>1, LenRange, SizesAssumption DEF TailInv, Types
  <2>2. Len(buf) + 1 <= blocks[buf[1].by].len
    BY <2>1, <1>1, <1>2
  <2> QED BY <2>2, <1>1, <1>5, <1>6 DEF wVars
<1>9. garbled' = {} => Begins(blocks', File', roff', rid' + 1)
  BY <1>1 DEF ReaderIn, File, wVars
<1>10. /\ rfile' \in DOMAIN files' /\ roff' \in Nat /\ rid' \in Nat /\ saved'.file \in DOMAIN files'
       /\ buf'[1].nth = 0
  BY <1>1, <1>6 DEF ReaderIn, wVars
<1> QED BY <1>1, <1>5, <1>7, <1>8, <1>9, <1>10 DEF ReaderIn

\* A block is returned: the reader goes to its end.
LEMMA ReaderAtReturn ==
  ASSUME TailInv, LogInv, ReaderIn, NEW sent \in BOOLEAN, Return(sent)
  PROVE  ReaderIn'
<1>1. /\ rpc = "body" /\ Len(buf) = blocks[buf[1].by].len
      /\ roff' = roff + Len(buf) /\ rid' = rid + 1 /\ rpc' = "look" /\ buf' = <<>>
      /\ saved' = (IF sent THEN [file |-> rfile, off |-> roff', id |-> rid'] ELSE saved)
      /\ garbled' = (IF Carried = {} THEN garbled \cup {{c.by : c \in Range(buf)}} ELSE garbled)
      /\ UNCHANGED <<wVars, rfile>>
  BY DEF Return
<1>2. /\ rfile \in DOMAIN files /\ File = files[rfile] /\ Good(blocks, File) /\ Tiled(blocks, File)
      /\ roff \in Nat /\ rid \in Nat /\ Len(buf) \in Nat
  BY <1>1, FileFacts, ReadFacts
<1>3. garbled' = {} => Begins(blocks', File', roff', rid' + 1)
  <2> HAVE garbled' = {}
  <2>1. Carried # {} /\ garbled = {}
    <3> DEFINE g == {c.by : c \in Range(buf)}
    <3>1. garbled \cup {g} # {}
      OBVIOUS
    <3> HIDE DEF g
    <3> QED BY <3>1, <1>1 DEF g
  <2>2. PICK b \in Carried : TRUE
    BY <2>1
  <2>3. WholeIn(blocks, File, roff) /\ EndOf(blocks, File, roff) = roff + Len(buf)
    BY <1>1, CarriedWhole
  <2>4. Begins(blocks, File, roff, rid + 1) /\ Begins(blocks, File, roff, IdOf(blocks, File, roff))
    BY <2>1, <2>3, <1>2 DEF ReaderIn, Tiled
  <2>5. IdOf(blocks, File, roff) = rid + 1
    BY <2>4, <1>2, BeginsOnce
  <2>6. Begins(blocks, File, roff + Len(buf), (rid + 1) + 1)
    BY <2>3, <2>5, <1>2 DEF Begins
  <2>7. File' = File /\ blocks' = blocks
    BY <1>1 DEF File, wVars
  <2> QED BY <2>6, <2>7, <1>1
<1>4. buf' \in Seq(CellSet) /\ \A k \in 1..Len(buf') : ReadIn(k)'
  <2>1. Len(buf') = 0 /\ buf' \in Seq(CellSet)
    BY <1>1
  <2> QED BY <2>1
<1>5. saved'.file \in DOMAIN files'
  BY <1>1, <1>2 DEF ReaderIn, wVars
<1>6. rfile' \in DOMAIN files' /\ roff' \in Nat /\ rid' \in Nat
  BY <1>1, <1>2 DEF wVars
<1> QED BY <1>1, <1>3, <1>4, <1>5, <1>6 DEF ReaderIn

\* The reader looks, dies or leaves the file.
LEMMA ReaderAtLook ==
  ASSUME TailInv, LogInv, ReaderIn, Idle \/ LeaveFile \/ DieAtHead \/ DieAtId
  PROVE  ReaderIn'
<1>1. /\ UNCHANGED <<wVars, buf, saved, garbled>> /\ (rpc' = rpc \/ rpc' = "dead")
      /\ \/ UNCHANGED <<rfile, roff, rid>>
         \/ rfile' = rfile + 1 /\ roff' = 0 /\ rid' = 0 /\ rpc = "look" /\ rfile < Len(files)
  BY DEF Idle, LeaveFile, DieAtHead, DieAtId, Suicide, Leaves, Newer, NewestFile
<1>2. /\ buf' \in Seq(CellSet) /\ saved'.file \in DOMAIN files' /\ rpc' \in {"look", "body", "dead"}
      /\ rpc' = "look" => buf' = <<>>
      /\ rpc' = "body" => buf' # <<>> /\ buf'[1].nth = 0 /\ Len(buf') <= blocks'[buf'[1].by].len
  BY <1>1 DEF ReaderIn, wVars
<1>3. CASE UNCHANGED <<rfile, roff, rid>>
  <2>1. rfile' \in DOMAIN files' /\ roff' \in Nat /\ rid' \in Nat
    BY <1>1, <1>3 DEF ReaderIn, wVars
  <2>2. garbled' = {} => Begins(blocks', File', roff', rid' + 1)
    BY <1>1, <1>3 DEF ReaderIn, File, wVars
  <2>3. \A k \in 1..Len(buf') : ReadIn(k)'
    BY <1>1, <1>3, ReadStays DEF ReaderIn
  <2> QED BY <2>1, <2>2, <2>3, <1>2 DEF ReaderIn
<1>4. CASE rfile' = rfile + 1 /\ roff' = 0 /\ rid' = 0 /\ rpc = "look" /\ rfile < Len(files)
  <2>1. rfile' \in DOMAIN files'
    <3>1. rfile \in DOMAIN files /\ files \in Seq(Seq(CellSet))
      BY DEF ReaderIn, TailInv, Types
    <3>2. rfile + 1 \in DOMAIN files
      BY <3>1, <1>4
    <3> QED BY <3>2, <1>1, <1>4 DEF wVars
  <2>2. Begins(blocks', File', roff', rid' + 1)
    BY <1>4 DEF Begins
  <2>3. Len(buf') = 0
    BY <1>1, <1>4 DEF ReaderIn
  <2>4. \A k \in 1..Len(buf') : ReadIn(k)'
    BY <2>3
  <2> QED BY <2>1, <2>2, <2>4, <1>2, <1>4 DEF ReaderIn
<1> QED BY <1>1, <1>3, <1>4

\* In the first state the reader is at the beginning of the file.
LEMMA ReaderFirst == Init => ReaderIn
<1> SUFFICES ASSUME Init PROVE ReaderIn
  OBVIOUS
<1>1. /\ rfile \in DOMAIN files /\ roff = 0 /\ rid = 0 /\ rpc = "look" /\ buf = <<>> /\ saved.file \in DOMAIN files
  BY DEF Init
<1>2. Begins(blocks, File, roff, rid + 1)
  BY <1>1 DEF Begins
<1> QED BY <1>1, <1>2 DEF ReaderIn

\* Every step keeps the reader's part.
LEMMA ReaderNext ==
  ASSUME TailInv, LogInv, ReaderIn, [Next]_vars
  PROVE  ReaderIn'
<1>1. CASE UNCHANGED vars
  <2>1. Extends(blocks, blocks') /\ UNCHANGED rVars
    BY <1>1 DEF Extends, vars, wVars
  <2>2. \A k \in 1..Len(buf) : ReadIn(k)'
    BY <1>1, ReadStays DEF ReaderIn, vars, rVars
  <2>3. garbled = {} => Begins(blocks', files'[rfile], roff, rid + 1)
    BY <1>1 DEF ReaderIn, File, vars, wVars
  <2> QED BY <2>1, <2>2, <2>3, <1>1, ReaderStays DEF vars, wVars
<1> QED
  BY <1>1, ReaderAtBegin, ReaderAtCell, ReaderAtEnd, ReaderAtRepair, ReaderAtLook, ReaderAtHead,
     ReaderAtBody, ReaderAtReturn, ReaderAtSeek
  DEF Next, Writing, Reading
-----------------------------------------------------------------------------
\* A block that is returned and was never written is mixed with a torn one.
LEMMA GarbledIsTorn ==
  ASSUME TailInv, LogInv, ReaderIn, NEW sent \in BOOLEAN, Return(sent), NEW g \in garbled' \ garbled
  PROVE  g \cap torn # {}
<1>1. /\ rpc = "body" /\ Len(buf) = blocks[buf[1].by].len
      /\ garbled' = (IF Carried = {} THEN garbled \cup {{c.by : c \in Range(buf)}} ELSE garbled)
  BY DEF Return
<1>2. Carried = {} /\ g = {c.by : c \in Range(buf)}
  BY <1>1
<1>3. PICK k \in 1..Len(buf) : buf[k].by \in torn
  BY <1>1, <1>2, CleanIsCarried
<1>4. buf[k] \in Range(buf)
  BY <1>1, ReadFacts DEF Range
<1> QED BY <1>2, <1>3, <1>4

\* At an id that does not follow the reader is over a torn block.
LEMMA DeadAtId ==
  ASSUME TailInv, LogInv, ReaderIn, DieAtId
  PROVE  OverTorn
<1>1. rpc = "body" /\ Len(buf) = blocks[buf[1].by].len /\ blocks[buf[1].by].id # rid + 1
  BY DEF DieAtId
<1> SUFFICES ASSUME garbled = {}, ~(\E c \in Range(buf) : c.by \in torn) PROVE FALSE
  BY DEF OverTorn
<1>2. \A k \in 1..Len(buf) : buf[k].by \notin torn
  BY <1>1, ReadFacts DEF Range
<1>3. WholeIn(blocks, File, roff) /\ File[roff + 1].by = buf[1].by
  BY <1>1, <1>2, CleanIsCarried
<1>4. Good(blocks, File) /\ Tiled(blocks, File) /\ roff \in Nat
  BY FileFacts
<1>5. Begins(blocks, File, roff, rid + 1) /\ Begins(blocks, File, roff, IdOf(blocks, File, roff))
  BY <1>3, <1>4 DEF ReaderIn, Tiled
<1>6. IdOf(blocks, File, roff) = rid + 1
  BY <1>4, <1>5, BeginsOnce
<1> QED BY <1>1, <1>3, <1>6 DEF IdOf

\* Where a block begins there is no cell from inside a block, but for torn cells.
LEMMA HeadThere ==
  ASSUME TailInv, LogInv, NEW i \in DOMAIN files, NEW s \in Nat, NEW n, Begins(blocks, files[i], s, n),
         s + 1 \in 1..Len(files[i]), files[i][s + 1].by \notin torn
  PROVE  files[i][s + 1].nth = 0
<1> DEFINE f == files[i]
<1>1. Good(blocks, f) /\ Tiled(blocks, f)
  BY FilesGood DEF TailInv, LogInv, Placed
<1>2. /\ f[s + 1].nth \in Nat /\ f[s + 1].by \in DOMAIN blocks /\ f[s + 1].nth < blocks[f[s + 1].by].len
  BY CellTaken
<1>3. CASE InPlace(blocks, f, s + 1)
  <2>1. PICK q \in Nat : /\ WholeIn(blocks, f, q) /\ s + 1 = q + 1 + f[s + 1].nth
                         /\ q + 1 <= s + 1 /\ s + 1 <= EndOf(blocks, f, q)
    BY <1>1, <1>2, <1>3, BlockAround
  <2>2. CASE s = 0
    BY <2>1, <2>2, <1>2
  <2>3. CASE s # 0
    <3>1. PICK p \in Nat : WholeIn(blocks, f, p) /\ s = EndOf(blocks, f, p)
      BY <2>3 DEF Begins
    <3>2. p = q \/ EndOf(blocks, f, p) <= q \/ EndOf(blocks, f, q) <= p
      BY <2>1, <3>1, <1>1, Apart
    <3>3. EndOf(blocks, f, q) \in Nat /\ p + 2 <= s
      BY <2>1, <3>1, <1>1, WholeFacts
    <3>4. s <= q
      BY <2>1, <3>1, <3>2, <3>3
    <3> QED BY <2>1, <3>4, <1>2
  <2> QED BY <2>2, <2>3
<1>4. CASE wpc = "write" /\ f[s + 1].by = Len(blocks) /\ f = Tip /\ wrest # 0
  <2>1. PICK t \in Nat : WorksAt(t)
    BY <1>4 DEF LogInv, WriterIn
  <2>2. s + 1 = t + 1 + f[s + 1].nth
    BY <2>1, <1>4 DEF WorksAt
  <2>3. CASE s = 0
    BY <2>2, <2>3, <1>2
  <2>4. CASE s # 0
    <3>1. PICK p \in Nat : WholeIn(blocks, f, p) /\ s = EndOf(blocks, f, p)
      BY <2>4 DEF Begins
    <3>2. s <= t
      BY <2>1, <3>1, <1>4 DEF WorksAt
    <3> QED BY <2>2, <3>2, <1>2
  <2> QED BY <2>3, <2>4
<1> QED BY <1>3, <1>4, Placing

\* At a head that is none the reader is over a torn block, or at a block of the maximal length.
LEMMA DeadAtHead ==
  ASSUME TailInv, LogInv, ReaderIn, DieAtHead
  PROVE  OverTorn \/ (roff < Len(File) /\ blocks[File[roff + 1].by].len = BlockMax)
<1>1. Len(File) < roff \/ (Len(File) > roff /\ ~GoodHead(File[roff + 1]))
  BY DEF DieAtHead
<1> SUFFICES ASSUME garbled = {}, ~(roff < Len(File) /\ File[roff + 1].by \in torn)
             PROVE  roff < Len(File) /\ blocks[File[roff + 1].by].len = BlockMax
  BY DEF OverTorn
<1>2. /\ rfile \in DOMAIN files /\ File = files[rfile] /\ Good(blocks, File)
      /\ Len(File) \in Nat /\ roff \in Nat
  BY FileFacts
<1>3. Begins(blocks, File, roff, rid + 1)
  BY DEF ReaderIn
<1>4. roff <= Len(File)
  BY <1>2, <1>3, BeginsIn
<1>5. roff < Len(File) /\ roff + 1 \in 1..Len(File) /\ ~GoodHead(File[roff + 1])
  BY <1>1, <1>2, <1>4
<1>6. File[roff + 1].nth = 0
  BY <1>2, <1>3, <1>5, HeadThere
<1>7. ~(blocks[File[roff + 1].by].len < BlockMax)
  BY <1>5, <1>6 DEF GoodHead
<1>8. blocks[File[roff + 1].by].len \in 2..BlockMax /\ BlockMax \in Nat
  <2>1. File[roff + 1].by \in DOMAIN blocks
    BY <1>2, <1>5, CellFacts
  <2> QED BY <2>1, <1>2, LenRange, SizesAssumption DEF Good
<1> QED BY <1>5, <1>7, <1>8

\* Nothing but a read mixes blocks, and nothing but the reader's two tests kills it.
LEMMA SafeStep ==
  ASSUME TailInv, LogInv, ReaderIn, [Next]_vars
  PROVE  /\ \A g \in garbled' \ garbled : g \cap torn # {}
         /\ rpc # "dead" /\ rpc' = "dead" =>
              OverTorn \/ (roff < Len(File) /\ blocks[File[roff + 1].by].len = BlockMax)
<1>1. CASE UNCHANGED <<rpc, garbled>>
  BY <1>1
<1>2. UNCHANGED vars => UNCHANGED <<rpc, garbled>>
  BY DEF vars, rVars
<1>3. ASSUME (\E n \in Lens : BeginWrite(n)) \/ WriteCell \/ EndWrite \/ WriterDies \/ Repair
      PROVE  UNCHANGED <<rpc, garbled>>
  BY <1>3 DEF BeginWrite, WriteCell, EndWrite, WriterDies, Repair, rVars
<1>4. ASSUME Seeking PROVE rpc' = "look" /\ UNCHANGED garbled
  BY <1>4, SeekFacts DEF SeekTo
<1>5. ASSUME Idle \/ LeaveFile \/ ReadHead \/ ReadBody PROVE rpc' # "dead" /\ UNCHANGED garbled
  <2>1. Idle \/ LeaveFile => rpc = "look" /\ rpc' = rpc /\ UNCHANGED garbled
    BY DEF Idle, LeaveFile
  <2>2. ReadHead \/ ReadBody => (rpc' = "body" \/ (rpc = "body" /\ rpc' = rpc)) /\ UNCHANGED garbled
    BY DEF ReadHead, ReadBody
  <2> QED BY <1>5, <2>1, <2>2
<1>6. ASSUME NEW sent \in BOOLEAN, Return(sent) PROVE rpc' = "look"
  BY <1>6 DEF Return
<1>7. ASSUME DieAtHead \/ DieAtId PROVE UNCHANGED garbled
  BY <1>7 DEF DieAtHead, DieAtId, Suicide
<1>8. CASE Seeking \/ Idle \/ LeaveFile \/ ReadHead \/ ReadBody
  BY <1>4, <1>5, <1>8
<1>9. CASE \E sent \in BOOLEAN : Return(sent)
  BY <1>6, <1>9, GarbledIsTorn
<1>10. CASE DieAtHead \/ DieAtId
  BY <1>7, <1>10, DeadAtHead, DeadAtId
<1> QED BY <1>1, <1>2, <1>3, <1>8, <1>9, <1>10 DEF Next, Writing, Reading

\* The reader returns a message nobody wrote, or kills itself, for two reasons only: it is over a block
\* that a death of the writer has torn, or at a block of exactly the maximal length; for any deaths,
\* restarts and roll-backs.
THEOREM ReaderIsSafe == Spec => ReaderSafe
<1> DEFINE Inv == TailInv /\ LogInv /\ ReaderIn
<1>1. Init => Inv
  BY TailInit, LogFirst, ReaderFirst
<1>2. Inv /\ [Next]_vars => Inv'
  BY TailStep, LogNext, ReaderNext
<1>3. Inv /\ [Next]_vars =>
        [/\ \A g \in garbled' \ garbled : g \cap torn # {}
         /\ rpc # "dead" /\ rpc' = "dead" =>
              OverTorn \/ (roff < Len(File) /\ blocks[File[roff + 1].by].len = BlockMax)]_vars
  BY SafeStep
<1> HIDE DEF Inv
<1>4. Inv /\ Inv' /\ [Next]_vars =>
        [/\ \A g \in garbled' \ garbled : g \cap torn # {}
         /\ rpc # "dead" /\ rpc' = "dead" =>
              OverTorn \/ (roff < Len(File) /\ blocks[File[roff + 1].by].len = BlockMax)]_vars
  BY <1>3
<1> QED BY <1>1, <1>2, <1>4, PTL DEF Spec, ReaderSafe
-----------------------------------------------------------------------------
\* A new block keeps the bounds.
LEMMA BoundsAtBegin ==
  ASSUME TailInv, LogInv, Bounded, NEW n \in Lens, BeginWrite(n)
  PROVE  Bounded'
<1>1. /\ \/ files' = files /\ wpos' = wpos /\ wid' = wid
         \/ files' = Append(files, <<>>) /\ wpos' = 0 /\ wid' = 1 /\ Len(files') = Len(files) + 1
      /\ Len(blocks') = Len(blocks) + 1 /\ wrest' = n /\ UNCHANGED <<deaths, seeks>>
      /\ blocks'[Len(blocks')] = [id |-> wid', file |-> Len(files'), len |-> n]
      /\ \A i \in DOMAIN files : files'[i] = files[i]
      /\ \A i \in DOMAIN files' : i \notin DOMAIN files => files'[i] = <<>>
      /\ \A a \in DOMAIN blocks : blocks'[a] = blocks[a]
      /\ \A a \in DOMAIN blocks' : a \in DOMAIN blocks \/ a = Len(blocks')
  BY BeginFacts DEF rVars
<1>2. Len(blocks) + seeks < MaxWrites
  BY DEF BeginWrite
<1>3. /\ Len(blocks) \in Nat /\ seeks \in Nat /\ MaxWrites \in Nat /\ wid \in Nat /\ wpos \in Nat
      /\ Len(files) \in Nat /\ n \in 2..BlockMax /\ BlockMax \in Nat /\ FileMax \in Nat
  BY BoundsAssumption, SizesAssumption DEF TailInv, Types
<1>4. /\ wid <= Len(blocks) + 1 /\ wpos <= FileMax /\ Len(files) <= Len(blocks) + 1
      /\ \A i \in DOMAIN files : Len(files[i]) <= FileMax
      /\ \A a \in DOMAIN blocks : blocks[a].id <= a
      /\ seeks \in 0..MaxSeeks /\ deaths \in 0..MaxDeaths
  BY DEF Bounded
<1>5. Len(blocks') + seeks' <= MaxWrites /\ wrest' <= BlockMax
  BY <1>1, <1>2, <1>3
<1>6. wid' <= Len(blocks) + 1
  <2>1. CASE wid' = wid
    BY <2>1, <1>4
  <2>2. CASE wid' = 1
    BY <2>2, <1>3
  <2> QED BY <2>1, <2>2, <1>1
<1>7. wid' \in Nat /\ wid' <= Len(blocks') + 1 /\ wpos' <= FileMax /\ Len(files') <= Len(blocks') + 1
  BY <1>1, <1>3, <1>4
<1>8. \A i \in DOMAIN files' : Len(files'[i]) <= FileMax
  <2> TAKE i \in DOMAIN files'
  <2>1. CASE i \in DOMAIN files
    BY <2>1, <1>1, <1>4
  <2>2. CASE i \notin DOMAIN files
    <3>1. files'[i] = <<>>
      BY <2>2, <1>1
    <3>2. Len(files'[i]) = 0
      BY <3>1
    <3> QED BY <3>2, <1>3
  <2> QED BY <2>1, <2>2
<1>9. \A a \in DOMAIN blocks' : blocks'[a].id <= a
  <2> TAKE a \in DOMAIN blocks'
  <2>1. CASE a \in DOMAIN blocks
    BY <2>1, <1>1, <1>4
  <2>2. CASE a = Len(blocks')
    BY <2>2, <1>1, <1>6
  <2> QED BY <2>1, <2>2, <1>1
<1> QED BY <1>1, <1>4, <1>5, <1>7, <1>8, <1>9 DEF Bounded

\* A cell of the block in work stays within FILE_MAX_SIZE.
LEMMA BoundsAtCell ==
  ASSUME TailInv, LogInv, Bounded, WriteCell
  PROVE  Bounded'
<1>1. PICK s \in Nat : WorksAt(s)
  BY DEF LogInv, WriterIn, WriteCell
<1>2. /\ OneCell(blocks, Tip, Tip', s, Len(blocks), Done)
      /\ wrest \in Nat /\ wrest > 0 /\ Done \in Nat /\ Done + wrest = blocks[Len(blocks)].len
      /\ wpos = s + Done /\ wpos' = wpos + 1 /\ wrest' = wrest - 1
      /\ UNCHANGED <<blocks, wid, deaths, seeks>>
      /\ DOMAIN files' = DOMAIN files /\ Len(files') = Len(files)
      /\ files'[Len(files)] = Tip' /\ files[Len(files)] = Tip /\ Len(files) \in DOMAIN files
      /\ \A i \in DOMAIN files : i # Len(files) => files'[i] = files[i]
  BY <1>1, CellIsOne DEF rVars
<1>3. BlockMax \in Nat /\ FileMax \in Nat
  BY SizesAssumption
<1>4. s + blocks[Len(blocks)].len <= FileMax
  BY <1>1 DEF WorksAt
<1>5. wpos' <= FileMax /\ wrest' <= BlockMax /\ wpos' \in Nat
  <2>1. s + (Done + wrest) <= FileMax /\ wrest <= BlockMax
    BY <1>2, <1>4 DEF Bounded
  <2> QED BY <2>1, <1>2, <1>3
<1>6. Len(Tip') <= FileMax
  <2>1. Len(Tip') = (IF s + Done < Len(Tip) THEN Len(Tip) ELSE Len(Tip) + 1) /\ s + Done <= Len(Tip)
        /\ Len(Tip) \in Nat
    BY <1>2 DEF OneCell, Good
  <2>2. Len(Tip) <= FileMax
    BY <1>2 DEF Bounded
  <2> QED BY <2>1, <2>2, <1>2, <1>3, <1>5
<1>7. \A i \in DOMAIN files' : Len(files'[i]) <= FileMax
  BY <1>2, <1>6 DEF Bounded
<1> QED BY <1>2, <1>5, <1>7 DEF Bounded

\* Ends, deaths and repairs keep the bounds.
LEMMA BoundsAtEnd ==
  ASSUME TailInv, LogInv, Bounded, EndWrite \/ WriterDies \/ Repair
  PROVE  Bounded'
<1>0. BlockMax \in Nat /\ FileMax \in Nat /\ MaxDeaths \in Nat
  BY SizesAssumption, BoundsAssumption
<1>1. UNCHANGED <<blocks, seeks>>
  BY DEF EndWrite, WriterDies, Repair, rVars
<1>2. CASE EndWrite
  <2>1. wpc = "write" /\ wid' = wid + 1 /\ UNCHANGED <<files, wpos, wrest, deaths>>
    BY <1>2 DEF EndWrite
  <2>2. Len(blocks) \in DOMAIN blocks /\ blocks[Len(blocks)].id = wid
    BY <2>1, CellNow DEF LogInv, WriterIn
  <2>3. wid <= Len(blocks) /\ wid \in Nat /\ Len(blocks) \in Nat
    BY <2>2 DEF Bounded, TailInv, Types
  <2>4. wid' <= Len(blocks) + 1
    BY <2>1, <2>3
  <2> QED BY <2>1, <2>4, <1>1 DEF Bounded
<1>3. CASE WriterDies
  <2>1. deaths < MaxDeaths /\ deaths' = deaths + 1 /\ wrest' = 0 /\ UNCHANGED <<files, wpos, wid>>
    BY <1>3 DEF WriterDies
  <2>2. deaths' \in 0..MaxDeaths /\ wrest' <= BlockMax
    BY <2>1, <1>0 DEF Bounded
  <2> QED BY <2>1, <2>2, <1>1 DEF Bounded
<1>4. CASE Repair
  <2>0. UNCHANGED <<wrest, deaths>> /\ Types /\ Len(blocks) \in Nat
    BY <1>4, RepairCases DEF TailInv, Types
  <2>1. CASE files' = [files EXCEPT ![Len(files)] = <<>>] /\ wpos' = 0 /\ wid' = 1
    <3>1. /\ DOMAIN files' = DOMAIN files /\ Len(files') = Len(files) /\ files'[Len(files)] = <<>>
          /\ \A i \in DOMAIN files : i # Len(files) => files'[i] = files[i]
      <4>1. <<>> \in Seq(CellSet)
        OBVIOUS
      <4> QED BY <4>1, <2>0, <2>1, ReplaceFile DEF Types
    <3>2. \A i \in DOMAIN files' : Len(files'[i]) <= FileMax
      <4>1. Len(<<>>) = 0
        OBVIOUS
      <4>2. \A i \in DOMAIN files : Len(files[i]) <= FileMax
        BY DEF Bounded
      <4>3. Len(files'[Len(files)]) <= FileMax
        BY <3>1, <4>1, <1>0
      <4> QED BY <3>1, <4>2, <4>3
    <3>3. wid' <= Len(blocks) + 1 /\ wpos' <= FileMax
      BY <2>0, <2>1, <1>0
    <3> QED BY <3>1, <3>2, <3>3, <2>0, <1>1 DEF Bounded
  <2>2. ASSUME files' = files, NEW o \in EndBlock(Tip),
               wpos' = o + blocks[Tip[o + 1].by].len, wid' = blocks[Tip[o + 1].by].id + 1
        PROVE  Bounded'
    <3>1. Good(blocks, Tip) /\ Tip \in Seq(CellSet) /\ Len(Tip) \in Nat /\ Tip = files[Len(files)]
          /\ Len(files) \in DOMAIN files
      BY <2>0, TipGood DEF Tip, Good
    <3>2. o \in Low(Tip)..Len(Tip) - 1 /\ WholeIn(blocks, Tip, o) /\ Low(Tip) \in 0..Len(Tip)
      BY <3>1, EndBlockIsLast, LowRange
    <3>3. o \in Nat
      BY <3>1, <3>2
    <3>4. /\ EndOf(blocks, Tip, o) \in Nat /\ EndOf(blocks, Tip, o) <= Len(Tip)
          /\ Tip[o + 1].by \in DOMAIN blocks /\ IdOf(blocks, Tip, o) \in Nat
      BY <3>1, <3>2, <3>3, WholeFacts
    <3>5. wpos' <= FileMax
      <4>1. wpos' = EndOf(blocks, Tip, o)
        BY <2>2 DEF EndOf
      <4>2. Len(Tip) <= FileMax
        BY <3>1 DEF Bounded
      <4> QED BY <4>1, <4>2, <3>1, <3>4, <1>0
    <3>6. wid' <= Len(blocks) + 1
      <4>1. wid' = IdOf(blocks, Tip, o) + 1 /\ IdOf(blocks, Tip, o) <= Tip[o + 1].by
        BY <2>2, <3>4 DEF IdOf, Bounded
      <4>2. Tip[o + 1].by \in 1..Len(blocks)
        <5>1. DOMAIN blocks = 1..Len(blocks)
          BY DEF TailInv, Types
        <5> QED BY <5>1, <3>4
      <4> QED BY <4>1, <4>2, <3>4, <2>0
    <3> QED BY <2>0, <2>2, <3>5, <3>6, <1>1 DEF Bounded
  <2>3. ~(Len(Tip) > 1 /\ EndBlock(Tip) = {} /\ Low(Tip) > 0)
    <3>1. wpc' # "failed"
      BY <1>4, TailRepair DEF TailInv, Anchored
    <3> QED BY <3>1, <1>4 DEF Repair, Tip, NewestFile
  <2> QED BY <2>1, <2>2, <2>3, <1>4, RepairCases
<1> QED BY <1>2, <1>3, <1>4

\* Every step keeps the writer's bounds.
LEMMA BoundsNext ==
  ASSUME TailInv, LogInv, ReaderIn, Bounded, [Next]_vars
  PROVE  Bounded'
<1>1. CASE UNCHANGED wVars /\ UNCHANGED seeks
  BY <1>1 DEF Bounded, wVars
<1>2. UNCHANGED vars => UNCHANGED wVars /\ UNCHANGED seeks
  BY DEF vars, rVars
<1>3. CASE Seeking
  <2>1. UNCHANGED wVars /\ seeks' = seeks + 1
    BY <1>3, ReaderLeaves
  <2>2. seeks < MaxSeeks /\ Len(blocks) + seeks < MaxWrites
    BY <1>3, SeekFacts
  <2>3. Len(blocks') + seeks' <= MaxWrites /\ seeks' \in 0..MaxSeeks
    <3>1. Len(blocks) \in Nat /\ seeks \in Nat /\ MaxSeeks \in Nat /\ MaxWrites \in Nat
      BY BoundsAssumption DEF TailInv, Types
    <3>2. Len(blocks') = Len(blocks)
      BY <2>1 DEF wVars
    <3> QED BY <2>1, <2>2, <3>1, <3>2
  <2> QED BY <2>1, <2>3 DEF Bounded, wVars
<1> QED BY <1>1, <1>2, <1>3, ReaderLeaves, BoundsAtBegin, BoundsAtCell, BoundsAtEnd DEF Next, Writing

\* An id that comes next is at most the number of the next block.
LEMMA NextIdBound ==
  ASSUME NEW bs, NEW f, Good(bs, f), NEW s, NEW n, Begins(bs, f, s, n), \A a \in DOMAIN bs : bs[a].id <= a
  PROVE  n <= Len(bs) + 1
<1>1. Len(bs) \in Nat
  BY DEF Good
<1>2. CASE n = 1
  BY <1>1, <1>2
<1>3. ASSUME NEW p \in Nat, WholeIn(bs, f, p), n = IdOf(bs, f, p) + 1 PROVE n <= Len(bs) + 1
  <2>1. f[p + 1].by \in DOMAIN bs /\ IdOf(bs, f, p) \in Nat
    BY <1>3, WholeFacts DEF Good
  <2>2. IdOf(bs, f, p) <= f[p + 1].by
    BY <2>1 DEF IdOf
  <2>3. f[p + 1].by \in 1..Len(bs)
    BY <2>1 DEF Good
  <2> QED BY <1>1, <1>3, <2>1, <2>2, <2>3
<1> QED BY <1>2, <1>3 DEF Begins
\* The writer's steps leave the reader's bounds.
LEMMA ReaderBoundsStay ==
  ASSUME TailInv, ReaderIn, ReaderBounded, UNCHANGED rVars, Len(blocks') \in Nat, Len(blocks) <= Len(blocks'),
         DOMAIN blocks \subseteq DOMAIN blocks', DOMAIN files \subseteq DOMAIN files'
  PROVE  ReaderBounded'
<1>1. UNCHANGED <<rfile, roff, rid, tries, buf, saved, got, garbled, missed, looked>>
  BY DEF rVars
<1>2. Len(blocks) \in Nat
  BY DEF TailInv, Types
<1>3. saved' \in [file : DOMAIN files', off : 0..FileMax, id : 0..Len(blocks')]
  <2>1. 0..Len(blocks) \subseteq 0..Len(blocks')
    BY <1>2
  <2>2. saved \in [file : DOMAIN files, off : 0..FileMax, id : 0..Len(blocks)]
    BY DEF ReaderBounded
  <2> QED BY <2>1, <2>2, <1>1
<1>4. rid' <= Len(blocks')
  <2>1. rid <= Len(blocks)
    BY DEF ReaderBounded
  <2>2. rid \in Nat
    BY DEF ReaderIn
  <2> QED BY <2>1, <2>2, <1>1, <1>2
<1>5. /\ got' \subseteq DOMAIN blocks' /\ garbled' \subseteq SUBSET DOMAIN blocks'
      /\ missed' \subseteq DOMAIN blocks' /\ looked' \subseteq DOMAIN blocks'
  BY <1>1 DEF ReaderBounded
<1> QED BY <1>1, <1>3, <1>4, <1>5 DEF ReaderBounded

\* The attempts in the reader's file are blocks.
LEMMA SeenAreBlocks ==
  ASSUME TailInv, LogInv, ReaderIn
  PROVE  {c.by : c \in Range(File)} \subseteq DOMAIN blocks
<1>1. Good(blocks, File) /\ File \in Seq(CellSet)
  BY FileFacts
<1>2. \A p \in DOMAIN File : File[p].by \in DOMAIN blocks
  BY <1>1 DEF Good
<1> QED BY <1>2 DEF Range

\* The steps of the reader keep its bounds.
LEMMA ReaderBoundsRead ==
  ASSUME TailInv, LogInv, ReaderIn, Bounded, ReaderBounded, Reading
  PROVE  ReaderBounded'
<1>0. /\ UNCHANGED wVars
      /\ rfile \in DOMAIN files /\ File = files[rfile] /\ Len(File) \in Nat /\ roff \in Nat /\ rid \in Nat
      /\ buf \in Seq(CellSet) /\ Len(buf) \in Nat /\ FileMax \in Nat /\ Len(blocks) \in Nat
  <2>1. UNCHANGED wVars
    BY ReaderLeaves
  <2>2. rfile \in DOMAIN files /\ File = files[rfile] /\ Len(File) \in Nat /\ roff \in Nat /\ rid \in Nat
    BY FileFacts
  <2>3. buf \in Seq(CellSet) /\ Len(buf) \in Nat
    BY DEF ReaderIn
  <2>4. FileMax \in Nat /\ Len(blocks) \in Nat
    BY SizesAssumption DEF TailInv, Types
  <2> QED BY <2>1, <2>2, <2>3, <2>4
<1>1. /\ roff + Len(buf) <= FileMax /\ rid <= Len(blocks) /\ tries \in 0..3
      /\ saved \in [file : DOMAIN files, off : 0..FileMax, id : 0..Len(blocks)]
      /\ got \subseteq DOMAIN blocks /\ garbled \subseteq SUBSET DOMAIN blocks
      /\ missed \subseteq DOMAIN blocks /\ looked \subseteq DOMAIN blocks
      /\ Len(File) <= FileMax
  BY <1>0 DEF ReaderBounded, Bounded
<1>2. CASE Idle
  <2>1. /\ tries' = (IF tries < 3 THEN tries + 1 ELSE 3) /\ looked' = {c.by : c \in Range(File)}
        /\ UNCHANGED <<roff, rid, buf, saved, got, garbled, missed>>
    BY <1>2 DEF Idle
  <2>2. tries' \in 0..3
    BY <2>1, <1>1
  <2> QED BY <2>1, <2>2, <1>0, <1>1, SeenAreBlocks DEF ReaderBounded, wVars
<1>3. CASE LeaveFile
  <2>1. /\ rpc = "look" /\ roff' = 0 /\ rid' = 0 /\ tries' = 0
        /\ missed' = missed \cup ({c.by : c \in Range(File)} \ looked)
        /\ UNCHANGED <<buf, saved, got, garbled, looked>>
    BY <1>3 DEF LeaveFile
  <2>2. roff' + Len(buf') <= FileMax /\ rid' <= Len(blocks) /\ tries' \in 0..3
    BY <2>1, <1>0, <1>1
  <2>3. missed' \subseteq DOMAIN blocks
    <3> DEFINE seen == {c.by : c \in Range(File)}
    <3>1. seen \subseteq DOMAIN blocks
      BY SeenAreBlocks
    <3> HIDE DEF seen
    <3> QED BY <3>1, <2>1, <1>1 DEF seen
  <2> QED BY <2>1, <2>2, <2>3, <1>0, <1>1 DEF ReaderBounded, wVars
<1>4. CASE ReadHead
  <2>1. /\ Len(File) > roff /\ buf' = <<File[roff + 1]>> /\ looked' = {c.by : c \in Range(File)}
        /\ UNCHANGED <<roff, rid, tries, saved, got, garbled, missed>>
    BY <1>4 DEF ReadHead
  <2>2. roff' + Len(buf') <= FileMax
    <3>1. Len(buf') = 1
      BY <2>1
    <3> QED BY <3>1, <2>1, <1>0, <1>1
  <2> QED BY <2>1, <2>2, <1>0, <1>1, SeenAreBlocks DEF ReaderBounded, wVars
<1>5. CASE ReadBody
  <2>1. /\ roff + Len(buf) < Len(File) /\ buf' = Append(buf, File[roff + Len(buf) + 1])
        /\ UNCHANGED <<roff, rid, tries, saved, got, garbled, missed, looked>>
    BY <1>5 DEF ReadBody
  <2>2. roff' + Len(buf') <= FileMax
    <3>1. Len(buf') = Len(buf) + 1
      BY <2>1, <1>0
    <3> QED BY <3>1, <2>1, <1>0, <1>1
  <2> QED BY <2>1, <2>2, <1>0, <1>1 DEF ReaderBounded, wVars
<1>6. ASSUME NEW sent \in BOOLEAN, Return(sent) PROVE ReaderBounded'
  <2>1. /\ rpc = "body" /\ Len(buf) = blocks[buf[1].by].len /\ blocks[buf[1].by].id = rid + 1
        /\ roff' = roff + Len(buf) /\ rid' = rid + 1 /\ tries' = 0 /\ buf' = <<>>
        /\ saved' = (IF sent THEN [file |-> rfile, off |-> roff', id |-> rid'] ELSE saved)
        /\ got' = got \cup Carried
        /\ garbled' = (IF Carried = {} THEN garbled \cup {{c.by : c \in Range(buf)}} ELSE garbled)
        /\ UNCHANGED <<missed, looked>>
    BY <1>6 DEF Return
  <2>2. buf[1].by \in DOMAIN blocks /\ \A k \in 1..Len(buf) : buf[k].by \in DOMAIN blocks
    <3>1. \A k \in 1..Len(buf) : ReadIn(k)
      BY DEF ReaderIn
    <3> QED BY <3>1, <2>1, ReadFacts DEF ReadIn
  <2>3. rid' <= Len(blocks) /\ rid' \in Nat
    <3>1. buf[1].by \in 1..Len(blocks) /\ blocks[buf[1].by].id <= buf[1].by
      <4>1. DOMAIN blocks = 1..Len(blocks)
        BY DEF TailInv, Types
      <4> QED BY <4>1, <2>2 DEF Bounded
    <3> QED BY <3>1, <2>1, <1>0
  <2>4. roff' + Len(buf') <= FileMax /\ tries' \in 0..3 /\ roff' \in 0..FileMax
    <3>1. Len(buf') = 0
      BY <2>1
    <3>2. roff' = roff + Len(buf) /\ tries' = 0
      BY <2>1
    <3>3. roff' \in 0..FileMax
      BY <3>2, <1>0, <1>1
    <3>4. roff' + Len(buf') <= FileMax
      <4> DEFINE r == roff'
      <4> DEFINE l == Len(buf')
      <4>1. r \in 0..FileMax /\ l = 0 /\ FileMax \in Nat
        BY <3>1, <3>3, <1>0
      <4> HIDE DEF r, l
      <4>2. r + l <= FileMax
        BY <4>1
      <4> QED BY <4>2 DEF r, l
    <3> QED BY <3>2, <3>3, <3>4
  <2>5. saved' \in [file : DOMAIN files, off : 0..FileMax, id : 0..Len(blocks)]
    <3>1. rid' \in 0..Len(blocks)
      BY <2>3, <1>0
    <3>2. CASE sent
      BY <3>1, <3>2, <2>1, <2>4, <1>0
    <3>3. CASE ~sent
      BY <3>3, <2>1, <1>1
    <3> QED BY <3>2, <3>3
  <2>6. got' \subseteq DOMAIN blocks
    BY <2>1, <1>1 DEF Carried
  <2>7. garbled' \subseteq SUBSET DOMAIN blocks
    <3> DEFINE g == {c.by : c \in Range(buf)}
    <3>1. g \subseteq DOMAIN blocks
      <4>1. \A k \in DOMAIN buf : buf[k].by \in DOMAIN blocks
        BY <2>2, <1>0
      <4> QED BY <4>1 DEF Range
    <3>2. garbled' = garbled \/ garbled' = garbled \cup {g}
      BY <2>1
    <3> HIDE DEF g
    <3> QED BY <3>1, <3>2, <1>1
  <2> QED BY <2>1, <2>3, <2>4, <2>5, <2>6, <2>7, <1>0, <1>1 DEF ReaderBounded, wVars
<1>7. CASE DieAtHead \/ DieAtId
  <2>1. UNCHANGED <<roff, rid, tries, buf, saved, got, garbled, missed, looked>>
    BY <1>7 DEF DieAtHead, DieAtId, Suicide
  <2> QED BY <2>1, <1>0, <1>1 DEF ReaderBounded, wVars
<1> QED BY <1>2, <1>3, <1>4, <1>5, <1>6, <1>7 DEF Reading

\* Every step keeps the reader's bounds.
LEMMA ReaderBoundsNext ==
  ASSUME TailInv, LogInv, ReaderIn, Bounded, ReaderBounded, [Next]_vars
  PROVE  ReaderBounded'
<1>0. Len(blocks) \in Nat /\ blocks \in Seq(BlockSet)
  BY DEF TailInv, Types
<1>1. ASSUME UNCHANGED <<blocks, files>>, UNCHANGED rVars PROVE ReaderBounded'
  BY <1>0, <1>1, ReaderBoundsStay
<1>2. ASSUME NEW n \in Lens, BeginWrite(n) PROVE ReaderBounded'
  <2>1. /\ Len(blocks') = Len(blocks) + 1 /\ UNCHANGED rVars
        /\ \A i \in DOMAIN files : i \in DOMAIN files' /\ \A a \in DOMAIN blocks : a \in DOMAIN blocks'
    BY <1>2, BeginFacts
  <2>2. Len(blocks') \in Nat /\ Len(blocks) <= Len(blocks')
    BY <2>1, <1>0
  <2>3. DOMAIN blocks \subseteq DOMAIN blocks'
    BY <1>2, BeginFacts
  <2>4. DOMAIN files \subseteq DOMAIN files'
    BY <1>2, BeginFacts
  <2> QED BY <2>1, <2>2, <2>3, <2>4, ReaderBoundsStay
<1>3. ASSUME WriteCell PROVE ReaderBounded'
  <2>1. PICK s \in Nat : WorksAt(s)
    BY <1>3 DEF LogInv, WriterIn, WriteCell
  <2>2. UNCHANGED <<blocks, rVars>> /\ DOMAIN files' = DOMAIN files
    BY <1>3, <2>1, CellIsOne
  <2> QED BY <2>2, <1>0, ReaderBoundsStay
<1>4. ASSUME Repair PROVE ReaderBounded'
  <2>1. UNCHANGED <<blocks, rVars>>
    BY <1>4 DEF Repair
  <2>2. DOMAIN files' = DOMAIN files
    <3>1. files' = files \/ files' = [files EXCEPT ![NewestFile] = <<>>]
      BY <1>4 DEF Repair
    <3> QED BY <3>1
  <2> QED BY <2>1, <2>2, <1>0, ReaderBoundsStay
<1>5. EndWrite \/ WriterDies => UNCHANGED <<blocks, files>> /\ UNCHANGED rVars
  BY DEF EndWrite, WriterDies
<1>6. UNCHANGED vars => UNCHANGED <<blocks, files>> /\ UNCHANGED rVars
  BY DEF vars, wVars
<1>7. CASE Seeking
  <2>1. PICK n \in DOMAIN files, o \in Nat, id \in Nat :
          SeekTo(n, o, id) /\ Begins(blocks, files[n], o, id + 1)
    BY <1>7, SeekFacts
  <2>2. /\ roff' = o /\ rid' = id /\ tries' = 0 /\ buf' = <<>> /\ got' = {} /\ missed' = {}
        /\ UNCHANGED <<files, blocks, saved, garbled, looked>>
    BY <2>1 DEF SeekTo, wVars
  <2>3. Good(blocks, files[n]) /\ Len(files[n]) \in Nat
    <3>1. Good(blocks, files[n])
      BY FilesGood DEF TailInv
    <3> QED BY <3>1 DEF Good
  <2>4. o <= Len(files[n]) /\ Len(files[n]) <= FileMax /\ FileMax \in Nat
    BY <2>1, <2>3, BeginsIn, SizesAssumption DEF Bounded
  <2>5. id + 1 <= Len(blocks) + 1
    BY <2>1, <2>3, NextIdBound DEF Bounded
  <2>6. roff' + Len(buf') <= FileMax /\ rid' <= Len(blocks) /\ tries' \in 0..3
    <3>1. Len(buf') = 0
      BY <2>2
    <3> QED BY <3>1, <2>2, <2>3, <2>4, <2>5, <1>0
  <2> QED BY <2>2, <2>6 DEF ReaderBounded
<1> QED BY <1>1, <1>2, <1>3, <1>4, <1>5, <1>6, <1>7, ReaderBoundsRead DEF Next, Writing
\* In the first state the counters are at their beginnings.
LEMMA BoundsFirst == Init => Bounded /\ ReaderBounded
<1> SUFFICES ASSUME Init PROVE Bounded /\ ReaderBounded
  OBVIOUS
<1>1. /\ Len(blocks) = 0 /\ DOMAIN blocks = {} /\ Len(files) = 1 /\ DOMAIN files = {1}
      /\ files[1] = <<>> /\ Len(files[1]) = 0 /\ Len(buf) = 0
  BY DEF Init
<1>2. MaxWrites \in Nat /\ MaxDeaths \in Nat /\ MaxSeeks \in Nat /\ FileMax \in Nat /\ BlockMax \in Nat
  BY SizesAssumption, BoundsAssumption
<1>3. Bounded
  <2>1. \A i \in DOMAIN files : Len(files[i]) <= FileMax
    BY <1>1, <1>2
  <2>2. seeks = 0 /\ deaths = 0 /\ wid = 1 /\ wpos = 0 /\ wrest = 0
    BY DEF Init
  <2> QED BY <2>1, <2>2, <1>1, <1>2 DEF Bounded
<1>4. ReaderBounded
  <2>1. roff = 0 /\ rid = 0 /\ tries = 0 /\ saved = [file |-> 1, off |-> 0, id |-> 0]
    BY DEF Init
  <2>2. got = {} /\ garbled = {} /\ missed = {} /\ looked = {}
    BY DEF Init
  <2>3. saved \in [file : DOMAIN files, off : 0..FileMax, id : 0..Len(blocks)]
    BY <2>1, <1>1, <1>2
  <2> QED BY <2>1, <2>2, <2>3, <1>1, <1>2 DEF ReaderBounded
<1> QED BY <1>3, <1>4

\* A function on 1..n with values in S is a sequence of S.
LEMMA ValuesMakeSeq ==
  ASSUME NEW S, NEW f, NEW n, n \in Nat, f = [i \in 1..n |-> f[i]], \A i \in 1..n : f[i] \in S
  PROVE  f \in Seq(S)
OBVIOUS

\* The blocks fit their types, and so do the numbers of the files.
LEMMA BlockTypes ==
  ASSUME TailInv, Bounded
  PROVE  /\ Len(blocks) \in Nat /\ Len(blocks) <= MaxWrites /\ MaxWrites \in Nat
         /\ DOMAIN blocks \subseteq 1..MaxWrites
         /\ Len(files) \in Nat /\ DOMAIN files = 1..Len(files) /\ DOMAIN files \subseteq 1..MaxWrites + 1
         /\ blocks \in Seq([id : 1..MaxWrites, file : 1..Len(files), len : Lens])
<1>1. /\ blocks \in Seq(BlockSet) /\ Len(blocks) \in Nat /\ DOMAIN blocks = 1..Len(blocks)
      /\ Len(files) \in Nat /\ DOMAIN files = 1..Len(files) /\ seeks \in Nat /\ MaxWrites \in Nat
  BY BoundsAssumption DEF TailInv, Types
<1>2. Len(blocks) <= MaxWrites /\ Len(files) <= MaxWrites + 1
  BY <1>1 DEF Bounded
<1>3. DOMAIN blocks \subseteq 1..MaxWrites /\ DOMAIN files \subseteq 1..MaxWrites + 1
  BY <1>1, <1>2
<1>4. ASSUME NEW a \in DOMAIN blocks
      PROVE  blocks[a] \in [id : 1..MaxWrites, file : 1..Len(files), len : Lens]
  <2>1. blocks[a] \in BlockSet /\ a \in 1..MaxWrites
    BY <1>1, <1>3
  <2>2. blocks[a].file \in 1..Len(files)
    BY <1>1 DEF TailInv, Types
  <2>3. blocks[a].id \in 1..MaxWrites
    <3>1. blocks[a].id \in Nat \ {0} /\ blocks[a].id <= a
      BY <2>1 DEF BlockSet, Bounded
    <3> QED BY <3>1, <2>1, <1>1
  <2> QED BY <2>1, <2>2, <2>3 DEF BlockSet
<1>5. blocks \in Seq([id : 1..MaxWrites, file : 1..Len(files), len : Lens])
  <2> DEFINE S == [id : 1..MaxWrites, file : 1..Len(files), len : Lens]
  <2>1. \A a \in 1..Len(blocks) : blocks[a] \in S
    BY <1>4, <1>1
  <2>2. blocks = [a \in 1..Len(blocks) |-> blocks[a]]
    BY <1>1
  <2> HIDE DEF S
  <2>3. blocks \in Seq(S)
    BY <2>1, <2>2, <1>1
  <2> QED BY <2>3 DEF S
<1> QED BY <1>1, <1>2, <1>3, <1>5

\* A cell of one of the attempts, within its length, has its type.
LEMMA CellType ==
  ASSUME TailInv, Bounded, NEW c \in CellSet, c.by \in DOMAIN blocks, c.nth < blocks[c.by].len
  PROVE  c \in Cells
<1>1. c.by \in 1..MaxWrites /\ c.nth \in Nat
  BY BlockTypes DEF CellSet
<1>2. blocks[c.by].len \in 2..BlockMax /\ BlockMax \in Nat
  BY LenRange, SizesAssumption DEF TailInv, Types
<1>3. c.nth \in 0..BlockMax - 1
  BY <1>1, <1>2
<1> QED BY <1>1, <1>3 DEF Cells, CellSet

\* The variables have their types.
LEMMA TypesHold ==
  ASSUME TailInv, LogInv, ReaderIn, Bounded, ReaderBounded
  PROVE  TypeOK
<1>1. files \in Seq(Seq(Cells)) /\ files # <<>>
  <2>0. files \in Seq(Seq(CellSet)) /\ files # <<>> /\ Len(files) \in Nat /\ DOMAIN files = 1..Len(files)
    BY DEF TailInv, Types
  <2>1. ASSUME NEW i \in DOMAIN files PROVE files[i] \in Seq(Cells)
    <3>1. files[i] \in Seq(CellSet) /\ Len(files[i]) \in Nat
      BY <2>0
    <3>2. \A p \in 1..Len(files[i]) : files[i][p] \in Cells
      BY CellTaken, CellType
    <3>3. files[i] = [p \in 1..Len(files[i]) |-> files[i][p]]
      BY <3>1
    <3> QED BY <3>1, <3>2, <3>3
  <2>2. files = [i \in 1..Len(files) |-> files[i]]
    BY <2>0
  <2>3. \A i \in 1..Len(files) : files[i] \in Seq(Cells)
    BY <2>1, <2>0
  <2>4. files \in Seq(Seq(Cells))
    BY <2>0, <2>2, <2>3, ValuesMakeSeq, Zenon
  <2> QED BY <2>4, <2>0
<1>2. /\ blocks \in Seq([id : 1..MaxWrites, file : 1..Len(files), len : Lens])
      /\ acked \in SUBSET DOMAIN blocks /\ torn \in SUBSET DOMAIN blocks
  BY BlockTypes DEF TailInv, Types, LogInv, Placed
<1>3. /\ wpc \in {"idle", "write", "down", "failed"}
      /\ wpos \in 0..FileMax /\ wid \in 1..MaxWrites + 1 /\ wrest \in 0..BlockMax
      /\ deaths \in 0..MaxDeaths /\ seeks \in 0..MaxSeeks
  <2>1. /\ wpc \in {"idle", "write", "down", "failed"} /\ wpos \in Nat /\ wid \in Nat \ {0} /\ wrest \in Nat
        /\ FileMax \in Nat /\ BlockMax \in Nat
    BY SizesAssumption DEF TailInv, Types
  <2>2. /\ wpos <= FileMax /\ wid <= Len(blocks) + 1 /\ wrest <= BlockMax
        /\ deaths \in 0..MaxDeaths /\ seeks \in 0..MaxSeeks
    BY DEF Bounded
  <2>3. Len(blocks) \in Nat /\ Len(blocks) <= MaxWrites /\ MaxWrites \in Nat
    BY BlockTypes
  <2> QED BY <2>1, <2>2, <2>3
<1>4. rpc \in {"look", "body", "dead"} /\ rfile \in 1..Len(files)
  BY BlockTypes DEF ReaderIn
<1>5. roff \in 0..FileMax /\ rid \in 0..MaxWrites /\ tries \in 0..3
  <2>1. roff \in Nat /\ rid \in Nat /\ Len(buf) \in Nat /\ FileMax \in Nat
    BY SizesAssumption DEF ReaderIn
  <2>2. roff + Len(buf) <= FileMax /\ rid <= Len(blocks) /\ tries \in 0..3
    BY DEF ReaderBounded
  <2>3. Len(blocks) \in Nat /\ Len(blocks) <= MaxWrites /\ MaxWrites \in Nat
    BY BlockTypes
  <2> QED BY <2>1, <2>2, <2>3
<1>6. buf \in Seq(Cells)
  <2>1. buf \in Seq(CellSet) /\ Len(buf) \in Nat
    BY DEF ReaderIn
  <2>2. \A k \in 1..Len(buf) : buf[k] \in Cells
    <3> SUFFICES ASSUME NEW k \in 1..Len(buf) PROVE buf[k] \in Cells
      OBVIOUS
    <3>1. buf[k] \in CellSet /\ buf[k].by \in DOMAIN blocks /\ buf[k].nth < blocks[buf[k].by].len
      BY <2>1 DEF ReaderIn, ReadIn
    <3> QED BY <3>1, CellType
  <2>3. buf = [k \in 1..Len(buf) |-> buf[k]]
    BY <2>1
  <2> QED BY <2>1, <2>2, <2>3
<1>7. saved \in Positions
  <2>1. saved \in [file : DOMAIN files, off : 0..FileMax, id : 0..Len(blocks)]
    BY DEF ReaderBounded
  <2>2. DOMAIN files \subseteq 1..MaxWrites + 1 /\ 0..Len(blocks) \subseteq 0..MaxWrites
    BY BlockTypes
  <2> QED BY <2>1, <2>2 DEF Positions
<1>8. /\ got \in SUBSET DOMAIN blocks /\ garbled \in SUBSET SUBSET DOMAIN blocks
      /\ missed \in SUBSET DOMAIN blocks /\ looked \in SUBSET DOMAIN blocks
  BY DEF ReaderBounded
<1> QED BY <1>1, <1>2, <1>3, <1>4, <1>5, <1>6, <1>7, <1>8 DEF TypeOK

\* The walk over a file meets the acknowledged blocks of the file, and blocks of this file only, with the
\* ids 1, 2, 3... and in the order of writing.
LEMMA ChainIntact ==
  ASSUME TailInv, LogInv, Bounded, NEW n \in DOMAIN files
  PROVE  LET chain == ChainOf(files[n]) IN
           /\ \A a \in acked : blocks[a].file = n => a \in Range(chain)
           /\ \A i \in DOMAIN chain :
                /\ blocks[chain[i]].id = i /\ blocks[chain[i]].file = n
                /\ i > 1 => chain[i] > chain[i - 1]
<1> DEFINE f == files[n]
<1> DEFINE c == Chain(f)
<1> DEFINE chain == ChainOf(f)
<1>1. Good(blocks, f) /\ Tiled(blocks, f)
  BY FilesGood DEF TailInv, LogInv, Placed
<1>2. /\ c \in Seq(Nat)
      /\ \A i \in 1..Len(c) : WholeIn(blocks, f, c[i]) /\ IdOf(blocks, f, c[i]) = i
      /\ \A i \in 1..Len(c) : i > 1 => f[c[i - 1] + 1].by < f[c[i] + 1].by
      /\ \A o \in Nat : WholeIn(blocks, f, o) => \E i \in 1..Len(c) : c[i] = o
  BY <1>1, ChainFacts
<1>3. chain = [i \in DOMAIN c |-> f[c[i] + 1].by]
  BY DEF ChainOf
<1> HIDE DEF c, chain
<1>4. DOMAIN chain = 1..Len(c) /\ Len(c) \in Nat /\ \A i \in 1..Len(c) : chain[i] = f[c[i] + 1].by /\ c[i] \in Nat
  BY <1>2, <1>3
<1>5. ASSUME NEW a \in acked, blocks[a].file = n PROVE a \in Range(chain)
  <2>1. PICK o \in Nat : WholeIn(blocks, f, o) /\ f[o + 1].by = a
    BY <1>5 DEF LogInv, AckedWhole
  <2>2. PICK i \in 1..Len(c) : c[i] = o
    BY <2>1, <1>2
  <2>3. i \in DOMAIN chain /\ chain[i] = a
    BY <2>1, <2>2, <1>4
  <2> QED BY <2>3 DEF Range
<1>6. ASSUME NEW i \in DOMAIN chain
      PROVE  /\ blocks[chain[i]].id = i /\ blocks[chain[i]].file = n
             /\ i > 1 => chain[i] > chain[i - 1]
  <2>1. i \in 1..Len(c) /\ chain[i] = f[c[i] + 1].by /\ c[i] \in Nat
    BY <1>4
  <2>2. WholeIn(blocks, f, c[i]) /\ IdOf(blocks, f, c[i]) = i
    BY <2>1, <1>2
  <2>3. blocks[chain[i]].id = i
    BY <2>1, <2>2 DEF IdOf
  <2>4. blocks[chain[i]].file = n
    <3>1. c[i] + 1 \in 1..Len(f)
      BY <2>1, <2>2, <1>1, WholeFacts
    <3>2. PlacedIn(n, f, c[i] + 1)
      BY <3>1 DEF LogInv, Placed
    <3> QED BY <3>2, <2>1 DEF PlacedIn
  <2>5. ASSUME i > 1 PROVE chain[i] > chain[i - 1]
    <3>1. i - 1 \in 1..Len(c)
      BY <2>5, <2>1, <1>4
    <3>2. chain[i - 1] = f[c[i - 1] + 1].by /\ c[i - 1] \in Nat /\ WholeIn(blocks, f, c[i - 1])
      BY <3>1, <1>4, <1>2
    <3>3. f[c[i - 1] + 1].by \in Nat /\ f[c[i] + 1].by \in Nat
      BY <3>2, <2>1, <2>2, <1>1, WholeFacts
    <3>4. f[c[i - 1] + 1].by < f[c[i] + 1].by
      BY <2>5, <2>1, <1>2
    <3> QED BY <2>1, <3>2, <3>3, <3>4
  <2> QED BY <2>3, <2>4, <2>5
<1> QED BY <1>5, <1>6 DEF chain

\* LogIntact: whatever dies and is repaired, in whatever order the server writes and the readers seek,
\* every acknowledged message stays whole in its file (filelinkblock, check_and_repaire and
\* __write_message), the walk from head to head that seek_message does reaches it from the beginning, the
\* ids on the way are 1, 2, 3... and the messages lie in the order in which they were written.
THEOREM LogStaysIntact == Spec => []LogIntact
<1> DEFINE Inv == TailInv /\ LogInv /\ ReaderIn /\ Bounded /\ ReaderBounded
<1>1. Init => Inv
  BY TailInit, LogFirst, ReaderFirst, BoundsFirst
<1>2. Inv /\ [Next]_vars => Inv'
  BY TailStep, LogNext, ReaderNext, BoundsNext, ReaderBoundsNext
<1>3. Inv => LogIntact
  <2> SUFFICES ASSUME Inv PROVE LogIntact
    OBVIOUS
  <2>1. TypeOK
    BY TypesHold
  <2>2. \A n \in DOMAIN files :
          LET chain == ChainOf(files[n]) IN
            /\ \A a \in acked : blocks[a].file = n => a \in Range(chain)
            /\ \A i \in DOMAIN chain :
                 /\ blocks[chain[i]].id = i /\ blocks[chain[i]].file = n
                 /\ i > 1 => chain[i] > chain[i - 1]
    BY ChainIntact
  <2> QED BY <2>1, <2>2 DEF LogIntact
<1> QED BY <1>1, <1>2, <1>3, PTL DEF Spec
========================================================================================
