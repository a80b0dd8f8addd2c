------------------------- MODULE DiskIndexerProofs --------------------------
(***************************************************************************)
(* The three invariants of DiskIndexer, for every number of cells in a     *)
(* file, size of a data file, milestone, width and set of lengths.         *)
(*                                                                         *)
(* The argument.  IndexInv says where a build is: the file of the second   *)
(* level is absent, the beginning of the second level in memory, or all of *)
(* it, and only then does its last mark name the last cell.  So a restart  *)
(* can tell a finished index from an unfinished one (SurvivesDeath).  It   *)
(* also says what the files hold: the cells are the terms of the build in  *)
(* ascending order, and the bytes each points to are the list of its term. *)
(* Appending touches neither the cells nor the bytes before it, over       *)
(* however many files (Appended, DatStep, StoredStep), and fileblock::get  *)
(* reads back a run of cells (FbGetIs), which gives IteratesAll.  Level    *)
(* says which cells the marks of the second level name; with it lower_bound*)
(* leads to the block that has the term (BlockHas), and bsearch, whose     *)
(* equation has a solution (BsearchThere), finds it there (BsearchFinds):  *)
(* FindsAll.                                                               *)
(***************************************************************************)
EXTENDS DiskIndexer, SequenceTheorems, FiniteSetTheorems, WellFoundedInduction, TLAPS

(***************************************************************************)
(* The inductive invariants.                                               *)
(***************************************************************************)
\* Index entries, cells, marks of the second level, bytes.
Idxs == [file : Nat, off : Int, len : Nat]
Cells == [key : Terms, idx : Idxs]
Marks == [milestone : 0..MaxLists - 1, key : Terms]
Bytes == Nat \X Terms

\* The files.
Files ==
  /\ fb \in Seq(Seq(Cells)) /\ Len(fb) >= 1
  /\ \A f \in 1..Len(fb) : Len(fb[f]) <= CellsPerFile
  /\ \A f \in 1..Len(fb) - 1 : Len(fb[f]) = CellsPerFile
  /\ dat \in Seq(Seq(Bytes)) /\ \A f \in 1..Len(dat) : Len(dat[f]) <= DatMax

\* Types of the rest.
Types ==
  /\ Files
  /\ pc \in {"idle", "clear", "build", "finish"} /\ second \in Seq(Marks)
  /\ sfile = NoFile \/ sfile \in Seq(Marks)
  /\ readonly \in BOOLEAN /\ done \in BOOLEAN /\ broken \in BOOLEAN
  /\ DOMAIN built \subseteq Terms /\ (\A t \in DOMAIN built : built[t] \in Seq(Bytes))
  /\ builds \in 0..MaxBuilds /\ deaths \in 0..MaxDeaths

\* The second level ascends;
Ascends(s) == \A i, j \in 1..Len(s) : i < j => s[i].milestone < s[j].milestone
\* and ends with the last cell.
Covers(s) == s # <<>> /\ s[Len(s)].milestone = CellCount - 1

\* s begins t.
Begins(s, t) == Len(s) <= Len(t) /\ \A i \in 1..Len(s) : s[i] = t[i]

\* m_last_si in a build: the last cell, which is in the second level or past it.
LastMark ==
  /\ CellCount = 0 => second = <<>> /\ lastsi = NoSi
  /\ CellCount > 0 =>
       /\ lastsi \in Marks /\ lastsi.milestone = CellCount - 1
       /\ \A i \in 1..Len(second) : second[i].milestone < CellCount
       /\ lastsi.milestone % Milestone # 0 => \A i \in 1..Len(second) : second[i].milestone < CellCount - 1
       /\ lastsi.milestone % Milestone = 0 => second # <<>> /\ second[Len(second)] = lastsi

\* Where a build is.
Stage ==
  /\ pc \in {"clear", "build"} => sfile = NoFile
  /\ pc = "clear" => built = <<>> /\ second = <<>>
  /\ pc \in {"clear", "build", "finish"} => ~done
  /\ pc \in {"build", "finish"} => ~readonly /\ ~broken
  /\ pc = "build" => LastMark
  /\ pc \in {"build", "finish"} => Ascends(second)
  /\ pc = "finish" => Covers(second) /\ sfile \in Seq(Marks) /\ Begins(sfile, second)
  /\ pc = "idle" /\ done => readonly /\ ~broken /\ sfile \in Seq(Marks) /\ Covers(sfile)
  /\ pc = "idle" /\ ~done => sfile = NoFile /\ (readonly => broken)
  /\ broken => deaths > 0

\* Cell i, counted from 0.
CellAt(i) == fb[(i \div CellsPerFile) + 1][(i % CellsPerFile) + 1]

\* The bytes x points to are s.
Stored(x, s) ==
  /\ x.len = Len(s)
  /\ ~FilesWrap =>
       /\ x.file < Len(dat) /\ x.off \in Nat /\ x.off + x.len <= Len(dat[x.file + 1])
       /\ \A p \in 1..Len(s) : dat[x.file + 1][x.off + p] = s[p]

\* The cells are the terms set in this build, in order, with their lists.
Listed ==
  /\ \A i \in 0..CellCount - 1 : CellAt(i).key \in DOMAIN built /\ Stored(CellAt(i).idx, built[CellAt(i).key])
  /\ \A t \in DOMAIN built : \E i \in 0..CellCount - 1 : CellAt(i).key = t
  /\ \A i, j \in 0..CellCount - 1 : i < j => CellAt(i).key < CellAt(j).key

\* They are, from the first term set on until the index is cleared.
Content ==
  /\ pc \in {"build", "finish"} \/ (pc = "idle" /\ done) => Listed
  /\ pc = "build" /\ CellCount > 0 => lastsi.key = CellAt(CellCount - 1).key

\* The inductive invariant.
IndexInv == Types /\ Stage /\ Content

\* The second level names cells, every Milestone-th of them, and at last the last one; what
\* is in the cache is what the file holds.
Placed(s) == \A i \in 1..Len(s) : s[i].milestone \in 0..CellCount - 1 /\ s[i].key = CellAt(s[i].milestone).key
Rows(s, n) == \A i \in 1..n : s[i].milestone = (i - 1) * Milestone
Leveled(s) ==
  /\ s # <<>> /\ Placed(s) /\ Rows(s, Len(s) - 1) /\ s[Len(s)].milestone = CellCount - 1
  /\ CellCount - 1 <= (Len(s) - 1) * Milestone /\ (Len(s) > 1 => CellCount - 1 > (Len(s) - 2) * Milestone)
Level ==
  /\ pc = "build" => Placed(second) /\ Rows(second, Len(second)) /\ CellCount <= Len(second) * Milestone
  /\ pc = "finish" \/ (pc = "idle" /\ done) => Leveled(second)
  /\ pc = "idle" /\ done => second = sfile
  /\ pc \in {"build", "finish"} => cache = <<>>
  /\ pc = "idle" /\ done => \A b \in DOMAIN cache : cache[b] = FbGet(b, Milestone)
-----------------------------------------------------------------------------
(***************************************************************************)
(* Part 1.  Arithmetic, and where a cell is.                               *)
(***************************************************************************)
\* Products grow.
LEMMA MulMono ==
  ASSUME NEW c \in Nat \ {0}, NEW a \in Int, NEW b \in Int, a < b
  PROVE  a * c + c <= b * c
OBVIOUS

\* Quotient and remainder.
LEMMA DivRange ==
  ASSUME NEW c \in Nat \ {0}, NEW a \in Nat
  PROVE  /\ a \div c \in Nat /\ a % c \in 0..c - 1 /\ a = (a \div c) * c + (a % c)
<1> DEFINE d == a \div c
           m == a % c
<1>1. d \in Nat /\ m \in 0..c - 1 /\ a = c * d + m
  OBVIOUS
<1> HIDE DEF d, m
<1>2. d \in Nat /\ m \in 0..c - 1 /\ a = d * c + m
  BY <1>1
<1> QED
  BY <1>2 DEF d, m

\* There is one of each.
LEMMA DivMod ==
  ASSUME NEW c \in Nat \ {0}, NEW q \in Nat, NEW r \in 0..c - 1
  PROVE  (q * c + r) \div c = q /\ (q * c + r) % c = r
<1> DEFINE a == q * c + r
           d == a \div c
           m == a % c
<1>1. a \in Nat
  OBVIOUS
<1> HIDE DEF a
<1>2. d \in Nat /\ m \in 0..c - 1 /\ a = d * c + m
  BY <1>1, DivRange
<1> HIDE DEF d, m
<1> DEFINE x == q * c
           y == d * c
<1>3. x \in Int /\ y \in Int /\ x + r = y + m
  BY <1>2 DEF a
<1>4. q < d => x + c <= y
  BY <1>2, MulMono
<1>5. d < q => y + c <= x
  BY <1>2, MulMono
<1>8. q = d => x = y
  OBVIOUS
<1> HIDE DEF x, y
<1>6. d = q
  BY <1>2, <1>3, <1>4, <1>5
<1>7. m = r
  BY <1>2, <1>3, <1>6, <1>8
<1> QED
  BY <1>6, <1>7 DEF d, m, a

\* The constants.
LEMMA Constants ==
  /\ CellsPerFile \in Nat \ {0} /\ DatMax \in Nat \ {0} /\ Milestone \in Nat \ {0} /\ Lens \subseteq 1..DatMax
  /\ MaxLists \in Nat /\ MaxBuilds \in Nat /\ MaxDeaths \in Nat
BY BlocksAssumption, IndexAssumption

\* A product of numbers is one; one more of them.
LEMMA MulNat ==
  ASSUME NEW a \in Nat, NEW c \in Nat
  PROVE  a * c \in Nat /\ (a + 1) * c = a * c + c
OBVIOUS

\* The number of cells.
LEMMA CountIs ==
  ASSUME Files
  PROVE  /\ Len(fb) \in Nat \ {0} /\ Len(fb[Len(fb)]) \in 0..CellsPerFile
         /\ CellCount = (Len(fb) - 1) * CellsPerFile + Len(fb[Len(fb)]) /\ CellCount \in Nat
         /\ (Len(fb) - 1) * CellsPerFile \in Nat
         /\ Len(fb) * CellsPerFile = (Len(fb) - 1) * CellsPerFile + CellsPerFile
<1>1. fb \in Seq(Seq(Cells)) /\ Len(fb) \in Nat \ {0}
  BY DEF Files
<1>2. fb[Len(fb)] \in Seq(Cells) /\ Len(fb[Len(fb)]) \in 0..CellsPerFile
  BY <1>1 DEF Files
<1>3. CellCount = (Len(fb) - 1) * CellsPerFile + Len(fb[Len(fb)])
  BY DEF CellCount, Last
<1> DEFINE n == Len(fb) - 1
           x == n * CellsPerFile
<1>6. n \in Nat /\ n + 1 = Len(fb)
  BY <1>1
<1> HIDE DEF n
<1>4. x \in Nat /\ (n + 1) * CellsPerFile = x + CellsPerFile
  BY <1>6, Constants, MulNat
<1>7. CellCount = x + Len(fb[Len(fb)])
  BY <1>3 DEF n
<1> HIDE DEF x
<1>5. CellCount \in Nat
  BY <1>2, <1>4, <1>7, Constants
<1> QED
  BY <1>1, <1>2, <1>3, <1>4, <1>5, <1>6 DEF x, n

\* Where a cell is.
LEMMA CellPlace ==
  ASSUME Files, NEW i \in 0..CellCount - 1
  PROVE  /\ i \in Nat /\ i < CellCount
         /\ (i \div CellsPerFile) + 1 \in 1..Len(fb)
         /\ (i % CellsPerFile) + 1 \in 1..Len(fb[(i \div CellsPerFile) + 1])
         /\ CellAt(i) \in Cells
<1> DEFINE c == CellsPerFile
           d == i \div c
           m == i % c
           L == Len(fb)
           r == Len(fb[L])
           y == (L - 1) * c
           n == CellCount
<1>1. /\ L \in Nat \ {0} /\ r \in 0..c /\ n = y + r /\ n \in Nat /\ c \in Nat \ {0} /\ y \in Nat
  BY CountIs, Constants
<1> HIDE DEF n, y
<1>2. i \in Nat /\ i < n
  BY <1>1 DEF n
<1>3. d \in Nat /\ m \in 0..c - 1 /\ i = d * c + m
  BY <1>1, <1>2, DivRange
<1> HIDE DEF c, d, m, L, r
<1> DEFINE x == d * c
<1>4. x \in Int /\ y \in Int /\ x + m < y + r
  BY <1>1, <1>2, <1>3
<1>5. L - 1 < d => y + c <= x
  BY <1>1, <1>3, MulMono DEF y
<1>6. d = L - 1 => x = y
  BY DEF y
<1> HIDE DEF x
<1>7. d <= L - 1 /\ (d = L - 1 => m < r)
  BY <1>1, <1>3, <1>4, <1>5, <1>6
<1>8. d + 1 \in 1..L
  BY <1>1, <1>3, <1>7
<1>9. fb[d + 1] \in Seq(Cells) /\ Len(fb[d + 1]) \in Nat
  BY <1>8 DEF Files, L
<1>10. m + 1 \in 1..Len(fb[d + 1])
  <2>1. CASE d = L - 1
    <3>1. fb[d + 1] = fb[L]
      BY <1>1, <2>1
    <3> QED
      BY <1>3, <1>7, <1>9, <2>1, <3>1 DEF r
  <2>2. CASE d < L - 1
    <3>1. d + 1 \in 1..L - 1
      BY <1>1, <1>3, <2>2
    <3>2. Len(fb[d + 1]) = c
      BY <3>1 DEF Files, L, c
    <3> QED
      BY <1>1, <1>3, <1>9, <3>2
  <2> QED
    BY <1>1, <1>3, <1>7, <2>1, <2>2
<1>11. fb[d + 1][m + 1] \in Cells
  BY <1>9, <1>10
<1> QED
  BY <1>2, <1>8, <1>10, <1>11 DEF CellAt, d, m, c, L, n

\* A cell is appended: the files stay as they should be, the cells before it where they were.
LEMMA Appended ==
  ASSUME Files, NEW e \in Cells, fb' = FbAppended(e), dat' \in Seq(Seq(Bytes)),
         \A f \in 1..Len(dat') : Len(dat'[f]) <= DatMax
  PROVE  /\ Files' /\ CellCount' = CellCount + 1
         /\ \A i \in 0..CellCount - 1 : CellAt(i)' = CellAt(i)
         /\ \A n : n = CellCount => CellAt(n)' = e
<1> DEFINE c == CellsPerFile
           L == Len(fb)
           r == Len(fb[L])
           y == (L - 1) * c
<1>1. /\ L \in Nat \ {0} /\ r \in 0..c /\ CellCount = y + r /\ CellCount \in Nat /\ c \in Nat \ {0} /\ y \in Nat
      /\ L * c = y + c
  BY CountIs, Constants
<1>2. fb \in Seq(Seq(Cells)) /\ fb[L] \in Seq(Cells)
  BY <1>1 DEF Files
<1>a. /\ \A n : CellAt(n) = fb[(n \div c) + 1][(n % c) + 1]
      /\ \A n : CellAt(n)' = fb'[(n \div c) + 1][(n % c) + 1]
  BY DEF CellAt
<1>b. CellCount' = (Len(fb') - 1) * c + Len(fb'[Len(fb')])
  BY DEF CellCount, Last
<1>c. \A f \in 1..L - 1 : Len(fb[f]) = c
  BY DEF Files
<1>d. \A i \in 0..CellCount - 1 : (i \div c) + 1 \in 1..L /\ (i % c) + 1 \in 1..Len(fb[(i \div c) + 1])
  BY CellPlace
<1> HIDE DEF y
<1>3. CASE r = c
  <2>1. CellCount = L * c + 0
    BY <1>1, <1>3
  <2>2. CellCount \div c = L /\ CellCount % c = 0
    <3> DEFINE n == L * c + 0
    <3>1. 0 \in 0..c - 1
      BY <1>1
    <3>2. n \div c = L /\ n % c = 0
      BY <1>1, <3>1, DivMod
    <3> HIDE DEF n
    <3>3. n = CellCount
      BY <2>1 DEF n
    <3> QED
      BY <3>2, <3>3
  <2>3. fb' = Append(fb, <<e>>)
    BY <2>2 DEF FbAppended
  <2>4. <<e>> \in Seq(Cells) /\ Len(<<e>>) = 1 /\ <<e>>[1] = e
    OBVIOUS
  <2>5. /\ fb' \in Seq(Seq(Cells)) /\ Len(fb') = L + 1 /\ fb'[L + 1] = <<e>>
        /\ \A f \in 1..L : fb'[f] = fb[f]
    BY <1>1, <1>2, <2>3, <2>4
  <2>6. Files'
    <3>1. \A f \in 1..L : Len(fb'[f]) = c
      <4> TAKE f \in 1..L
      <4>1. f = L \/ f \in 1..L - 1
        BY <1>1
      <4> QED
        BY <1>3, <1>c, <2>5, <4>1
    <3>2. Len(fb'[L + 1]) <= c
      BY <1>1, <2>4, <2>5
    <3>3. \A f \in 1..L + 1 : Len(fb'[f]) <= c
      <4> TAKE f \in 1..L + 1
      <4>1. f = L + 1 \/ f \in 1..L
        BY <1>1
      <4> QED
        BY <1>1, <3>1, <3>2, <4>1
    <3>4. L + 1 >= 1 /\ (L + 1) - 1 = L
      BY <1>1
    <3> QED
      BY <2>5, <3>1, <3>3, <3>4 DEF Files
  <2>7. CellCount' = L * c + 1
    <3>1. (L + 1) - 1 = L
      BY <1>1
    <3> QED
      BY <1>b, <2>4, <2>5, <3>1
  <2>8. CellCount' = CellCount + 1
    <3> DEFINE z == L * c
    <3>1. CellCount = z + 0 /\ CellCount' = z + 1 /\ z = y + c
      BY <1>1, <2>1, <2>7
    <3> HIDE DEF z
    <3>2. y \in Nat /\ c \in Nat
      BY <1>1
    <3> QED
      BY <3>1, <3>2
  <2>9. \A i \in 0..CellCount - 1 : CellAt(i)' = CellAt(i)
    BY <1>a, <1>d, <2>5
  <2>10. \A n : n = CellCount => CellAt(n)' = e
    <3>1. 0 + 1 = 1
      OBVIOUS
    <3>2. \A n : n = CellCount => CellAt(n)' = fb'[L + 1][0 + 1]
      BY <1>a, <2>2
    <3> QED
      BY <2>4, <2>5, <3>1, <3>2
  <2> QED
    BY <2>6, <2>8, <2>9, <2>10
<1>4. CASE r < c
  <2>0. y = (L - 1) * c
    BY DEF y
  <2>1. CellCount = (L - 1) * c + r
    BY <1>1, <2>0
  <2>2. CellCount \div c = L - 1 /\ CellCount % c = r
    <3> DEFINE n == (L - 1) * c + r
    <3>1. r \in 0..c - 1 /\ L - 1 \in Nat
      BY <1>1, <1>4
    <3>2. n \div c = L - 1 /\ n % c = r
      BY <1>1, <3>1, DivMod
    <3> HIDE DEF n
    <3>3. n = CellCount
      BY <2>1 DEF n
    <3> QED
      BY <3>2, <3>3
  <2>3. fb' = [fb EXCEPT ![L] = Append(fb[L], e)]
    <3>1. L - 1 # L
      BY <1>1
    <3> QED
      BY <2>2, <3>1 DEF FbAppended
  <2>4. /\ Append(fb[L], e) \in Seq(Cells) /\ Len(Append(fb[L], e)) = r + 1 /\ Append(fb[L], e)[r + 1] = e
        /\ \A p \in 1..r : Append(fb[L], e)[p] = fb[L][p]
    BY <1>2
  <2>5. /\ fb' \in Seq(Seq(Cells)) /\ Len(fb') = L /\ fb'[L] = Append(fb[L], e)
        /\ \A f \in 1..L - 1 : fb'[f] = fb[f]
    <3>1. PICK a : a = Append(fb[L], e)
      OBVIOUS
    <3>2. a \in Seq(Cells) /\ fb' = [fb EXCEPT ![L] = a]
      BY <2>3, <2>4, <3>1
    <3>3. fb \in Seq(Seq(Cells)) /\ Len(fb) = L /\ L \in 1..L /\ L \in Nat
      BY <1>1, <1>2
    <3>4. fb' \in Seq(Seq(Cells)) /\ Len(fb') = L
      BY <3>2, <3>3
    <3>5. fb'[L] = a
      BY <3>2, <3>3
    <3>6. \A f \in 1..L - 1 : fb'[f] = fb[f]
      BY <3>2, <3>3
    <3> QED
      BY <3>1, <3>4, <3>5, <3>6
  <2>6. Files'
    <3>1. \A f \in 1..L - 1 : Len(fb'[f]) = c
      BY <1>c, <2>5
    <3>2. Len(fb'[L]) <= c
      BY <1>1, <1>4, <2>4, <2>5
    <3>3. \A f \in 1..L : Len(fb'[f]) <= c
      <4> TAKE f \in 1..L
      <4>1. f = L \/ f \in 1..L - 1
        BY <1>1
      <4> QED
        BY <1>1, <3>1, <3>2, <4>1
    <3>4. L >= 1
      BY <1>1
    <3> QED
      BY <2>5, <3>1, <3>3, <3>4 DEF Files
  <2>8. CellCount' = CellCount + 1
    <3>1. CellCount' = (L - 1) * c + (r + 1)
      BY <1>b, <2>4, <2>5
    <3>2. CellCount' = y + (r + 1)
      BY <2>0, <3>1
    <3> QED
      BY <1>1, <3>2
  <2>9. \A i \in 0..CellCount - 1 : CellAt(i)' = CellAt(i)
    <3> TAKE i \in 0..CellCount - 1
    <3> DEFINE f == (i \div c) + 1
               p == (i % c) + 1
    <3>1. f \in 1..L /\ p \in 1..Len(fb[f])
      BY <1>d
    <3>2. CellAt(i) = fb[f][p] /\ CellAt(i)' = fb'[f][p]
      BY <1>a
    <3> HIDE DEF f, p
    <3>3. CASE f = L
      BY <2>4, <2>5, <3>1, <3>2, <3>3
    <3>4. CASE f # L
      <4>1. f \in 1..L - 1
        BY <1>1, <3>1, <3>4
      <4> QED
        BY <2>5, <3>2, <4>1
    <3> QED
      BY <3>3, <3>4
  <2>10. \A n : n = CellCount => CellAt(n)' = e
    <3>1. (L - 1) + 1 = L
      BY <1>1
    <3>2. \A n : n = CellCount => CellAt(n)' = fb'[(L - 1) + 1][r + 1]
      BY <1>a, <2>2
    <3> QED
      BY <2>4, <2>5, <3>1, <3>2
  <2> QED
    BY <2>6, <2>8, <2>9, <2>10
<1> QED
  BY <1>1, <1>3, <1>4
-----------------------------------------------------------------------------
(***************************************************************************)
(* Part 2.  The data files.                                                *)
(***************************************************************************)
\* The width of file_no; no number is cut before the files wrap.
LEMMA FileNo ==
  ASSUME NEW n \in Nat
  PROVE  /\ n % 2^FileBits \in Nat
         /\ n + 1 <= 2^FileBits => n % 2^FileBits = n
<1> DEFINE w == 2^FileBits
<1>1. w \in Nat \ {0}
  BY BlocksAssumption
<1> HIDE DEF w
<1>2. n % w \in Nat /\ (n < w => n % w = n)
  BY <1>1
<1>3. n + 1 <= w => n < w
  BY <1>1
<1> QED
  BY <1>2, <1>3 DEF w

\* diskv::set: the files that were there keep their bytes, and the new ones are found by what it returns.
LEMMA DatStep ==
  ASSUME dat \in Seq(Seq(Bytes)), \A f \in 1..Len(dat) : Len(dat[f]) <= DatMax,
         NEW s \in Seq(Bytes), Len(s) \in 1..DatMax, dat' = DatAppended(s)
  PROVE  /\ dat' \in Seq(Seq(Bytes)) /\ \A f \in 1..Len(dat') : Len(dat'[f]) <= DatMax
         /\ Len(dat') >= Len(dat) /\ Len(dat') >= 1
         /\ \A f \in 1..Len(dat) : Len(dat'[f]) >= Len(dat[f]) /\ \A p \in 1..Len(dat[f]) : dat'[f][p] = dat[f][p]
         /\ Len(dat'[Len(dat')]) >= Len(s)
         /\ \A p \in 1..Len(s) : dat'[Len(dat')][(Len(dat'[Len(dat')]) - Len(s)) + p] = s[p]
<1> DEFINE n == Len(dat)
           k == Len(s)
<1>1. n \in Nat /\ k \in Nat /\ k >= 1 /\ k <= DatMax /\ DatMax \in Nat
  BY Constants
<1>2. CASE DatNewFile(k)
  <2>1. dat' = Append(dat, s)
    BY <1>2 DEF DatAppended
  <2>2. dat' \in Seq(Seq(Bytes)) /\ Len(dat') = n + 1 /\ dat'[n + 1] = s /\ \A f \in 1..n : dat'[f] = dat[f]
    BY <2>1
  <2>3. \A f \in 1..n + 1 : Len(dat'[f]) <= DatMax
    <3> TAKE f \in 1..n + 1
    <3>1. f = n + 1 \/ f \in 1..n
      BY <1>1
    <3> QED
      BY <1>1, <2>2, <3>1
  <2>4. \A f \in 1..n : Len(dat'[f]) >= Len(dat[f])
    <3> TAKE f \in 1..n
    <3>1. dat[f] \in Seq(Bytes) /\ Len(dat[f]) \in Nat
      OBVIOUS
    <3> QED
      BY <2>2, <3>1
  <2>5. \A p \in 1..k : s[(k - k) + p] = s[p]
    <3> TAKE p \in 1..k
    <3>1. (k - k) + p = p
      BY <1>1
    <3> QED
      BY <3>1
  <2>6. \A f \in 1..n : \A p \in 1..Len(dat[f]) : dat'[f][p] = dat[f][p]
    BY <2>2
  <2>7. Len(dat') >= n /\ Len(dat') >= 1 /\ Len(dat'[Len(dat')]) >= k
    BY <1>1, <2>2
  <2>8. \A p \in 1..k : dat'[Len(dat')][(Len(dat'[Len(dat')]) - k) + p] = s[p]
    BY <2>2, <2>5
  <2> QED
    BY <2>2, <2>3, <2>4, <2>6, <2>7, <2>8
<1>3. CASE ~DatNewFile(k)
  <2> DEFINE d == dat[n]
             l == Len(d)
  <2>1. dat # <<>> /\ l + k <= DatMax
    <3>1. dat # <<>> /\ ~(Len(Last(dat)) + k > DatMax)
      BY <1>3 DEF DatNewFile
    <3>2. n \in 1..n
      BY <1>1, <3>1
    <3>3. dat[n] \in Seq(Bytes)
      BY <3>2
    <3> QED
      BY <1>1, <3>1, <3>3 DEF Last
  <2>2. n >= 1 /\ n \in 1..n
    BY <1>1, <2>1
  <2>3. d \in Seq(Bytes) /\ l \in Nat
    BY <2>2
  <2>4. dat' = [dat EXCEPT ![n] = d \o s]
    BY <1>3 DEF DatAppended
  <2>5. d \o s \in Seq(Bytes) /\ Len(d \o s) = l + k
        /\ (\A p \in 1..l : (d \o s)[p] = d[p]) /\ \A p \in 1..k : (d \o s)[l + p] = s[p]
    BY <2>3
  <2> DEFINE e == d \o s
  <2> HIDE DEF e, d
  <2>6. dat' = [dat EXCEPT ![n] = e] /\ e \in Seq(Bytes) /\ Len(e) = l + k
    BY <2>4, <2>5 DEF e
  <2>7. dat' \in Seq(Seq(Bytes)) /\ Len(dat') = n /\ dat'[n] = e /\ \A f \in 1..n : f # n => dat'[f] = dat[f]
    BY <2>2, <2>6
  <2>8. \A f \in 1..n : Len(dat'[f]) <= DatMax
    BY <2>1, <2>6, <2>7
  <2>9. \A f \in 1..n : Len(dat'[f]) >= Len(dat[f]) /\ \A p \in 1..Len(dat[f]) : dat'[f][p] = dat[f][p]
    <3> TAKE f \in 1..n
    <3>1. CASE f = n
      <4>1. dat[f] = d /\ dat'[f] = e /\ Len(d) = l
        BY <2>7, <3>1 DEF d
      <4>2. Len(e) >= Len(d)
        BY <1>1, <2>3, <2>6, <4>1
      <4>3. \A p \in 1..Len(d) : e[p] = d[p]
        BY <2>5, <4>1 DEF e
      <4> QED
        BY <4>1, <4>2, <4>3
    <3>2. CASE f # n
      <4>1. dat[f] \in Seq(Bytes) /\ Len(dat[f]) \in Nat
        OBVIOUS
      <4> QED
        BY <2>7, <3>2, <4>1
    <3> QED
      BY <3>1, <3>2
  <2>10. (l + k) - k = l /\ l + k >= k
    BY <1>1, <2>3
  <2>11. \A p \in 1..k : dat'[n][(Len(dat'[n]) - k) + p] = s[p]
    <3>1. Len(dat'[n]) - k = l
      BY <2>6, <2>7, <2>10
    <3>2. \A p \in 1..k : e[l + p] = s[p]
      BY <2>5 DEF e
    <3> QED
      BY <3>1, <3>2, <2>7
  <2>12. Len(dat'[n]) >= k
    BY <2>6, <2>7, <2>10
  <2>13. Len(dat') = n /\ n >= n /\ n >= 1
    BY <1>1, <2>2, <2>7
  <2> QED
    BY <2>7, <2>8, <2>9, <2>11, <2>12, <2>13
<1> QED
  BY <1>2, <1>3

\* What was stored stays stored, and the new bytes are.
LEMMA StoredStep ==
  ASSUME dat \in Seq(Seq(Bytes)), \A f \in 1..Len(dat) : Len(dat[f]) <= DatMax,
         NEW s \in Seq(Bytes), Len(s) \in 1..DatMax, dat' = DatAppended(s)
  PROVE  /\ DatIdx(s) \in Idxs
         /\ \A x : x = DatIdx(s) => Stored(x, s)'
         /\ \A x \in Idxs : \A q \in Seq(Bytes) : Stored(x, q) => Stored(x, q)'
<1> DEFINE n == Len(dat)
           m == Len(dat')
           k == Len(s)
           w == 2^FileBits
<1>1. /\ dat' \in Seq(Seq(Bytes)) /\ m >= n /\ m >= 1
      /\ \A f \in 1..n : Len(dat'[f]) >= Len(dat[f]) /\ \A p \in 1..Len(dat[f]) : dat'[f][p] = dat[f][p]
      /\ Len(dat'[m]) >= k
      /\ \A p \in 1..k : dat'[m][(Len(dat'[m]) - k) + p] = s[p]
  BY DatStep
<1>2. n \in Nat /\ m \in Nat /\ k \in Nat /\ w \in Nat \ {0} /\ m \in 1..m /\ dat'[m] \in Seq(Bytes) /\ Len(dat'[m]) \in Nat
  BY <1>1, BlocksAssumption
<1>3. DatIdx(s) = [file |-> (m - 1) % w, off |-> Len(dat'[m]) - k, len |-> k]
  BY DEF DatIdx, Last
<1>4. (m - 1) % w \in Nat /\ (m <= w => (m - 1) % w = m - 1)
  <2>1. m - 1 \in Nat /\ (m - 1) + 1 = m
    BY <1>1, <1>2
  <2> DEFINE j == m - 1
  <2>2. j % w \in Nat /\ (j + 1 <= w => j % w = j)
    BY <2>1, FileNo
  <2> QED
    BY <2>1, <2>2
<1>a. m >= n /\ m >= 1 /\ Len(dat'[m]) >= k
  BY <1>1
<1>b. n \in Nat /\ m \in Nat /\ w \in Nat
  BY <1>2
<1>5. (~FilesWrap' => m <= w) /\ (n <= w => ~FilesWrap)
  <2>1. (~FilesWrap' => ~(m > w)) /\ (~(n > w) => ~FilesWrap)
    BY DEF FilesWrap
  <2> HIDE DEF m, n, w
  <2> QED
    BY <1>b, <2>1
<1> HIDE DEF w, n, m, k
<1>6. DatIdx(s) \in Idxs
  BY <1>2, <1>3, <1>4 DEF Idxs
<1>7. ASSUME NEW x, x = DatIdx(s) PROVE Stored(x, s)'
  <2>1. x.file = (m - 1) % w /\ x.off = Len(dat'[m]) - k /\ x.len = k
    BY <1>3, <1>7
  <2>2. ASSUME ~FilesWrap'
        PROVE  /\ x.file < Len(dat') /\ x.off \in Nat /\ x.off + x.len <= Len(dat'[x.file + 1])
               /\ \A p \in 1..Len(s) : dat'[x.file + 1][x.off + p] = s[p]
    <3>1. x.file = m - 1
      BY <1>4, <1>5, <2>1, <2>2
    <3>2. x.file + 1 = m /\ x.file < m
      BY <1>b, <3>1
    <3>3. x.off \in Nat /\ x.off + x.len = Len(dat'[m]) /\ x.off + x.len <= Len(dat'[m])
      <4> DEFINE l == Len(dat'[m])
      <4>1. l \in Nat /\ k \in Nat /\ l >= k /\ x.off = l - k /\ x.len = k
        BY <1>2, <1>a, <2>1
      <4> HIDE DEF l
      <4>2. x.off \in Nat /\ x.off + x.len = l /\ x.off + x.len <= l
        BY <4>1
      <4> QED
        BY <4>2 DEF l
    <3>4. \A p \in 1..Len(s) : dat'[x.file + 1][x.off + p] = s[p]
      BY <1>1, <2>1, <3>2 DEF k
    <3> QED
      BY <3>2, <3>3, <3>4 DEF m
  <2> QED
    BY <2>1, <2>2 DEF Stored, k
<1>8. ASSUME NEW x \in Idxs, NEW q \in Seq(Bytes), Stored(x, q) PROVE Stored(x, q)'
  <2>1. x.len = Len(q) /\ x.file \in Nat /\ Len(q) \in Nat
    BY <1>8 DEF Stored, Idxs
  <2>2. ASSUME ~FilesWrap'
        PROVE  /\ x.file < Len(dat') /\ x.off \in Nat /\ x.off + x.len <= Len(dat'[x.file + 1])
               /\ \A p \in 1..Len(q) : dat'[x.file + 1][x.off + p] = q[p]
    <3>1. ~FilesWrap
      <4>1. m <= w
        BY <1>5, <2>2
      <4>2. n <= w
        BY <1>a, <1>b, <4>1
      <4> QED
        BY <1>5, <4>2
    <3>2. /\ x.file < n /\ x.off \in Nat /\ x.off + x.len <= Len(dat[x.file + 1])
          /\ \A p \in 1..Len(q) : dat[x.file + 1][x.off + p] = q[p]
      BY <1>8, <3>1 DEF Stored, n
    <3>3. x.file + 1 \in 1..n
      BY <1>b, <2>1, <3>2
    <3> DEFINE g == x.file + 1
    <3>4. dat[g] \in Seq(Bytes) /\ Len(dat[g]) \in Nat
      BY <3>3 DEF n
    <3>5. Len(dat'[g]) >= Len(dat[g]) /\ \A p \in 1..Len(dat[g]) : dat'[g][p] = dat[g][p]
      BY <1>1, <3>3
    <3>6. g \in 1..m /\ x.file < m
      <4>1. x.file < n /\ n <= m /\ x.file \in Nat /\ n \in Nat /\ m \in Nat
        BY <1>a, <1>b, <2>1, <3>2
      <4> QED
        BY <4>1
    <3>7. dat'[g] \in Seq(Bytes) /\ Len(dat'[g]) \in Nat
      BY <1>1, <3>6 DEF m
    <3> HIDE DEF g
    <3>8. x.off + x.len <= Len(dat'[g])
      <4>1. x.off + x.len <= Len(dat[g])
        BY <3>2 DEF g
      <4>2. x.off \in Nat /\ x.len \in Nat /\ Len(dat[g]) \in Nat /\ Len(dat'[g]) \in Nat /\ Len(dat'[g]) >= Len(dat[g])
        BY <2>1, <3>2, <3>4, <3>5, <3>7
      <4> QED
        BY <4>1, <4>2
    <3>9. ASSUME NEW p \in 1..Len(q) PROVE dat'[g][x.off + p] = q[p]
      <4>1. x.off + p \in 1..Len(dat[g])
        <5>1. x.off + x.len <= Len(dat[g])
          BY <3>2 DEF g
        <5>2. x.off \in Nat /\ x.len \in Nat /\ Len(dat[g]) \in Nat /\ p \in 1..x.len
          BY <2>1, <3>2, <3>4
        <5> QED
          BY <5>1, <5>2
      <4>2. dat[g][x.off + p] = q[p]
        BY <3>2 DEF g
      <4>3. dat'[g][x.off + p] = dat[g][x.off + p]
        BY <3>5, <4>1
      <4> QED
        BY <4>2, <4>3
    <3> QED
      BY <3>2, <3>6, <3>8, <3>9 DEF g, m
  <2> QED
    BY <2>1, <2>2 DEF Stored
<1> QED
  BY <1>6, <1>7, <1>8
-----------------------------------------------------------------------------
(***************************************************************************)
(* Part 3.  Steps that leave the files alone, or empty them.               *)
(***************************************************************************)
\* Nothing that the invariant is about changes.
LEMMA Untouched ==
  ASSUME UNCHANGED <<fb, dat>>
  PROVE  /\ (Files' <=> Files) /\ CellCount' = CellCount
         /\ \A i : CellAt(i)' = CellAt(i)
         /\ built' = built => (Listed' <=> Listed)
<1>1. (Files' <=> Files) /\ CellCount' = CellCount
  BY DEF Files, CellCount
<1>2. \A i : CellAt(i)' = CellAt(i)
  BY DEF CellAt
<1>3. \A x, s : Stored(x, s)' <=> Stored(x, s)
  BY DEF Stored, FilesWrap
<1>4. built' = built => (Listed' <=> Listed)
  BY <1>1, <1>2, <1>3 DEF Listed
<1> QED
  BY <1>1, <1>2, <1>4

\* No cell, no data.
LEMMA Emptied ==
  ASSUME fb' = <<<<>>>>, dat' = <<>> \/ dat' = <<<<>>>>
  PROVE  Files' /\ CellCount' = 0 /\ (built' = <<>> => Listed')
<1>1. <<>> \in Seq(Cells) /\ Len(<<>>) = 0 /\ <<>> \in Seq(Bytes)
  OBVIOUS
<1>2. fb' \in Seq(Seq(Cells)) /\ Len(fb') = 1 /\ fb'[1] = <<>>
  BY <1>1
<1>3. dat' \in Seq(Seq(Bytes)) /\ \A f \in 1..Len(dat') : Len(dat'[f]) <= DatMax
  <2>1. CASE dat' = <<>>
    <3>1. dat' \in Seq(Seq(Bytes)) /\ Len(dat') = 0
      BY <2>1
    <3> QED
      BY <3>1
  <2>2. CASE dat' = <<<<>>>>
    <3>1. dat' \in Seq(Seq(Bytes)) /\ Len(dat') = 1 /\ dat'[1] = <<>>
      BY <1>1, <2>2
    <3> QED
      BY <1>1, <3>1, Constants
  <2> QED
    BY <2>1, <2>2
<1>4. Files'
  <2>1. \A f \in 1..1 : Len(fb'[f]) <= CellsPerFile
    BY <1>1, <1>2, Constants
  <2> QED
    BY <1>2, <1>3, <2>1 DEF Files
<1>5. CellCount' = 0
  <2>1. CellCount' = (Len(fb') - 1) * CellsPerFile + Len(fb'[Len(fb')])
    BY DEF CellCount, Last
  <2>2. CellCount' = 0 * CellsPerFile + 0
    BY <1>1, <1>2, <2>1
  <2> QED
    BY <2>2, Constants
<1>6. ASSUME built' = <<>> PROVE Listed'
  <2>1. DOMAIN built' = {}
    BY <1>6
  <2>2. \A i : ~(i \in 0..0 - 1)
    OBVIOUS
  <2> QED
    BY <1>5, <2>1, <2>2 DEF Listed
<1> QED
  BY <1>4, <1>5, <1>6

\* Init.
LEMMA InitHolds == Init => IndexInv
<1> SUFFICES ASSUME Init PROVE IndexInv
  OBVIOUS
<1>1. <<>> \in Seq(Cells) /\ Len(<<>>) = 0 /\ <<>> \in Seq(Bytes)
  OBVIOUS
<1>2. fb \in Seq(Seq(Cells)) /\ Len(fb) = 1 /\ fb[1] = <<>> /\ dat \in Seq(Seq(Bytes)) /\ Len(dat) = 1 /\ dat[1] = <<>>
  BY <1>1 DEF Init
<1>3. Files
  BY <1>1, <1>2, Constants DEF Files
<1>4. Types
  <2>1. <<>> \in Seq(Marks) /\ DOMAIN built = {}
    BY DEF Init
  <2>2. 0 \in 0..MaxBuilds /\ 0 \in 0..MaxDeaths
    BY Constants
  <2>3. \A t \in DOMAIN built : built[t] \in Seq(Bytes)
    BY <2>1
  <2> QED
    BY <1>3, <2>1, <2>2, <2>3 DEF Types, Init
<1>5. Stage /\ Content
  BY DEF Stage, Content, Init
<1> QED
  BY <1>4, <1>5 DEF IndexInv

\* A query changes the cache.
LEMMA SameHolds ==
  ASSUME IndexInv, UNCHANGED <<fb, dat, pc, second, sfile, lastsi, readonly, builds, deaths, built, done, broken>>
  PROVE  IndexInv'
<1>1. (Files' <=> Files) /\ CellCount' = CellCount /\ (\A i : CellAt(i)' = CellAt(i)) /\ (Listed' <=> Listed)
  BY Untouched
<1>2. Types'
  BY <1>1 DEF IndexInv, Types
<1>3. Stage'
  BY <1>1 DEF IndexInv, Stage, LastMark, Ascends, Covers
<1>4. Content'
  <2>1. CellAt(CellCount - 1)' = CellAt(CellCount - 1)
    BY DEF CellAt, CellCount
  <2> QED
    BY <1>1, <2>1 DEF IndexInv, Content
<1> QED
  BY <1>2, <1>3, <1>4 DEF IndexInv

\* The file of the second level goes.
LEMMA ClearBeginHolds ==
  ASSUME IndexInv, ClearBegin
  PROVE  IndexInv'
<1>1. (Files' <=> Files)
  BY Untouched DEF ClearBegin
<1>2. Types'
  <2>1. DOMAIN built' = {} /\ second' \in Seq(Marks)
    BY DEF ClearBegin
  <2>2. builds' \in 0..MaxBuilds
    BY Constants DEF ClearBegin, IndexInv, Types
  <2> QED
    BY <1>1, <2>1, <2>2 DEF IndexInv, Types, ClearBegin
<1>3. Stage' /\ Content'
  BY DEF Stage, Content, ClearBegin, IndexInv
<1> QED
  BY <1>2, <1>3 DEF IndexInv

\* The other files and the cache go.
LEMMA ClearEndHolds ==
  ASSUME IndexInv, ClearEnd
  PROVE  IndexInv'
<1>0. IndexInv /\ pc = "clear" /\ built' = built /\ pc' = "build" /\ second' = second /\ lastsi' = NoSi /\ sfile' = sfile /\ readonly' = FALSE /\ broken' = FALSE /\ done' = done
  BY DEF ClearEnd
<1>1. built' = <<>> /\ sfile' = NoFile /\ ~done
  BY <1>0 DEF Stage, IndexInv
<1>2. Files' /\ CellCount' = 0 /\ Listed'
  <2>1. fb' = <<<<>>>> /\ dat' = <<>>
    BY DEF ClearEnd, DatCleared
  <2> QED
    BY <1>1, <2>1, Emptied
<1>3. Types'
  BY <1>0, <1>2 DEF IndexInv, Types, ClearEnd
<1>4. second = <<>>
  BY <1>0 DEF IndexInv, Stage
<1>5. Stage'
  <2>1. Ascends(second)'
    BY <1>0, <1>4 DEF Ascends
  <2> QED
    BY <1>0, <1>1, <1>2, <1>4, <2>1 DEF Stage, LastMark
<1>6. Content'
  BY <1>0, <1>2 DEF Content
<1> QED
  BY <1>3, <1>5, <1>6 DEF IndexInv
-----------------------------------------------------------------------------
(***************************************************************************)
(* Part 4.  A term is set.                                                 *)
(***************************************************************************)
\* Whether built is there: a build without a cell has no term.
LEMMA NoTerm ==
  ASSUME IndexInv, pc = "build"
  PROVE  /\ CellCount = 0 => built = <<>>
         /\ CellCount > 0 => DOMAIN built # {}
<1>1. Listed /\ Files /\ CellCount \in Nat
  BY CountIs DEF IndexInv, Content, Types
<1>2. ASSUME CellCount = 0 PROVE built = <<>>
  <2>1. \A i : ~(i \in 0..CellCount - 1)
    BY <1>2
  <2>2. DOMAIN built = {}
    BY <1>1, <2>1 DEF Listed
  <2> QED
    BY <2>2 DEF IndexInv, Types
<1>3. ASSUME CellCount > 0 PROVE DOMAIN built # {}
  <2>1. 0 \in 0..CellCount - 1
    BY <1>1, <1>3
  <2> QED
    BY <1>1, <2>1 DEF Listed
<1> QED
  BY <1>2, <1>3

\* The term is greater than those before it.
LEMMA Greater ==
  ASSUME IndexInv, pc = "build", NEW k \in Terms, built # <<>> => k > lastsi.key
  PROVE  \A i \in 0..CellCount - 1 : CellAt(i).key < k
<1>1. Listed /\ Files /\ CellCount \in Nat
  BY CountIs DEF IndexInv, Content, Types
<1> TAKE i \in 0..CellCount - 1
<1>2. CellCount > 0 /\ CellCount - 1 \in 0..CellCount - 1
  BY <1>1
<1>3. DOMAIN built # {}
  BY <1>2, NoTerm
<1>4. k > CellAt(CellCount - 1).key
  BY <1>2, <1>3 DEF IndexInv, Content
<1>5. CellAt(i).key \in Int /\ CellAt(CellCount - 1).key \in Int /\ k \in Int
  BY <1>1, <1>2, CellPlace DEF Cells, Terms
<1>6. i = CellCount - 1 \/ i < CellCount - 1
  BY <1>1
<1>7. i < CellCount - 1 => CellAt(i).key < CellAt(CellCount - 1).key
  BY <1>1, <1>2 DEF Listed
<1> QED
  BY <1>4, <1>5, <1>6, <1>7

\* The cells are listed again.
LEMMA SetListed ==
  ASSUME IndexInv, pc = "build", NEW k \in Terms, built # <<>> => k > lastsi.key,
         NEW s \in Seq(Bytes), Len(s) \in 1..DatMax, dat' = DatAppended(s),
         NEW x, x = DatIdx(s), fb' = FbAppended([key |-> k, idx |-> x]), built' = Put(built, k, s)
  PROVE  /\ Files' /\ CellCount' = CellCount + 1 /\ Listed'
         /\ \A i \in 0..CellCount - 1 : CellAt(i)' = CellAt(i)
         /\ \A m : m = CellCount => CellAt(m)'.key = k
         /\ DOMAIN built' \subseteq Terms /\ \A t \in DOMAIN built' : built'[t] \in Seq(Bytes)
<1> DEFINE e == [key |-> k, idx |-> x]
           c == CellCount
<1>2. Files /\ Listed /\ CellCount \in Nat /\ DOMAIN built \subseteq Terms /\ (\A t \in DOMAIN built : built[t] \in Seq(Bytes))
  BY CountIs DEF IndexInv, Content, Types
<1>6. dat \in Seq(Seq(Bytes)) /\ \A f \in 1..Len(dat) : Len(dat[f]) <= DatMax
  BY <1>2 DEF Files
<1>7. dat' \in Seq(Seq(Bytes)) /\ \A f \in 1..Len(dat') : Len(dat'[f]) <= DatMax
  BY <1>6, DatStep
<1>8. x \in Idxs /\ Stored(x, s)' /\ \A y \in Idxs : \A q \in Seq(Bytes) : Stored(y, q) => Stored(y, q)'
  BY <1>6, StoredStep
<1>9. e \in Cells /\ e.key = k /\ e.idx = x
  BY <1>8 DEF Cells
<1>10. /\ Files' /\ CellCount' = c + 1
       /\ \A i \in 0..c - 1 : CellAt(i)' = CellAt(i)
       /\ \A m : m = c => CellAt(m)' = e
  <2> HIDE DEF e
  <2>1. fb' = FbAppended(e)
    BY DEF e
  <2> QED
    BY <1>2, <1>7, <1>9, <2>1, Appended
<1>11. \A i \in 0..c - 1 : CellAt(i).key < k /\ CellAt(i) \in Cells
  BY <1>2, Greater, CellPlace
<1>12. /\ DOMAIN built' = DOMAIN built \cup {k} /\ built'[k] = s
       /\ \A t \in DOMAIN built : t # k => built'[t] = built[t]
  BY DEF Put
<1>13. ~(k \in DOMAIN built)
  <2>1. \A i \in 0..c - 1 : CellAt(i).key # k
    <3> TAKE i \in 0..c - 1
    <3>1. CellAt(i).key \in Int /\ k \in Int /\ CellAt(i).key < k
      BY <1>11 DEF Cells, Terms
    <3> QED
      BY <3>1
  <2> QED
    BY <1>2, <2>1 DEF Listed
<1>14. \A i \in 0..c : i \in 0..c - 1 \/ i = c
  BY <1>2
<1>15. \A i \in 0..c - 1 : CellAt(i).key \in DOMAIN built /\ Stored(CellAt(i).idx, built[CellAt(i).key])
  BY <1>2 DEF Listed
<1> HIDE DEF e
<1>16. ASSUME NEW i \in 0..c
       PROVE  CellAt(i)'.key \in DOMAIN built' /\ Stored(CellAt(i).idx, built[CellAt(i).key])'
  <2>1. CASE i = c
    <3>1. CellAt(i)' = e
      BY <1>10, <2>1
    <3>2. CellAt(i)'.key = k /\ CellAt(i)'.idx = x /\ built'[CellAt(i)'.key] = s
      BY <1>9, <1>12, <3>1
    <3> QED
      BY <1>8, <1>12, <3>2 DEF Stored
  <2>2. CASE i \in 0..c - 1
    <3> PICK z : z = CellAt(i)
      OBVIOUS
    <3>1. z \in Cells /\ z.key \in DOMAIN built /\ Stored(z.idx, built[z.key])
      BY <1>11, <1>15, <2>2
    <3>2. PICK q : q = built[z.key]
      OBVIOUS
    <3>3. z.idx \in Idxs /\ q \in Seq(Bytes) /\ Stored(z.idx, q)
      BY <1>2, <3>1, <3>2 DEF Cells
    <3>4. Stored(z.idx, q)'
      BY <1>8, <3>3
    <3>5. CellAt(i)' = z
      BY <1>10, <2>2
    <3>6. built'[z.key] = q /\ z.key \in DOMAIN built'
      BY <1>12, <1>13, <3>1, <3>2
    <3> QED
      BY <3>4, <3>5, <3>6 DEF Stored
  <2> QED
    BY <1>14, <2>1, <2>2
<1>17. \A t \in DOMAIN built' : \E i \in 0..c : CellAt(i)'.key = t
  <2> TAKE t \in DOMAIN built'
  <2>1. CASE t = k
    <3>1. c \in 0..c
      BY <1>2
    <3> QED
      BY <1>9, <1>10, <2>1, <3>1
  <2>2. CASE t # k
    <3>1. PICK i \in 0..c - 1 : CellAt(i).key = t
      BY <1>2, <1>12, <2>2 DEF Listed
    <3>2. i \in 0..c
      BY <1>2
    <3> QED
      BY <1>10, <3>1, <3>2
  <2> QED
    BY <2>1, <2>2
<1>18. \A i, j \in 0..c : i < j => CellAt(i)'.key < CellAt(j)'.key
  <2> TAKE i, j \in 0..c
  <2> HAVE i < j
  <2>1. i \in 0..c - 1
    BY <1>2
  <2>2. CASE j = c
    <3>1. CellAt(i)' = CellAt(i) /\ CellAt(j)' = e
      BY <1>10, <2>1, <2>2
    <3> QED
      BY <1>9, <1>11, <2>1, <3>1
  <2>3. CASE j \in 0..c - 1
    BY <1>2, <1>10, <2>1, <2>3 DEF Listed
  <2> QED
    BY <1>14, <2>2, <2>3
<1>19. Listed'
  <2>1. CellCount' - 1 = c
    BY <1>2, <1>10
  <2> QED
    BY <1>16, <1>17, <1>18, <2>1 DEF Listed
<1>20. DOMAIN built' \subseteq Terms /\ \A t \in DOMAIN built' : built'[t] \in Seq(Bytes)
  BY <1>2, <1>12
<1> QED
  BY <1>9, <1>10, <1>19, <1>20

\* A term is set: what a build promises so far is kept.
LEMMA SetListHolds ==
  ASSUME IndexInv, NEW k \in Terms, NEW n \in Lens, SetList(k, n)
  PROVE  IndexInv'
<1> DEFINE c == CellCount
<1>1. PICK s : s = [i \in 1..n |-> <<builds, k>>]
  OBVIOUS
<1>2. PICK x : x = DatIdx(s)
  OBVIOUS
<1>3. PICK si : si = [milestone |-> c, key |-> k]
  OBVIOUS
<1>4. /\ pc = "build" /\ c < MaxLists /\ (built # <<>> => k > lastsi.key)
      /\ dat' = DatAppended(s) /\ fb' = FbAppended([key |-> k, idx |-> x]) /\ built' = Put(built, k, s)
      /\ lastsi' = si /\ second' = IF c % Milestone = 0 THEN Append(second, si) ELSE second
      /\ UNCHANGED <<pc, sfile, readonly, cache, builds, deaths, done, broken>>
  BY <1>1, <1>2, <1>3 DEF SetList
<1>5. n \in Nat /\ n \in 1..DatMax /\ builds \in Nat
  BY Constants DEF IndexInv, Types
<1>6. s \in Seq(Bytes) /\ Len(s) = n
  <2>1. <<builds, k>> \in Bytes
    BY <1>5 DEF Bytes
  <2> QED
    BY <1>1, <1>5, <2>1
<1>7. /\ Files' /\ CellCount' = c + 1 /\ Listed'
      /\ \A m : m = c => CellAt(m)'.key = k
      /\ DOMAIN built' \subseteq Terms /\ \A t \in DOMAIN built' : built'[t] \in Seq(Bytes)
  BY <1>2, <1>4, <1>5, <1>6, SetListed
<1>8. c \in Nat
  BY CountIs DEF IndexInv, Types
<1>9. si \in Marks /\ si.milestone = c /\ si.key = k
  BY <1>3, <1>4, <1>8, Constants DEF Marks
<1>10. second \in Seq(Marks) /\ Len(second) \in Nat
  BY DEF IndexInv, Types
<1> DEFINE l == Len(second)
<1>11. \/ /\ c % Milestone # 0 /\ second' = second
       \/ /\ c % Milestone = 0 /\ second' \in Seq(Marks) /\ Len(second') = l + 1 /\ second'[l + 1] = si
          /\ \A i \in 1..l : second'[i] = second[i]
  BY <1>4, <1>9, <1>10
<1>12. second' \in Seq(Marks)
  BY <1>10, <1>11
<1>13. Types'
  BY <1>4, <1>7, <1>12 DEF IndexInv, Types
<1>14. \A i \in 1..l : second[i].milestone < c /\ second[i].milestone \in Int
  <2>1. \A i \in 1..l : second[i].milestone \in Int
    <3> TAKE i \in 1..l
    <3>1. second[i] \in Marks
      BY <1>10
    <3> QED
      BY <3>1 DEF Marks
  <2>2. CASE c = 0
    <3>1. second = <<>>
      BY <1>4, <2>2 DEF IndexInv, Stage, LastMark
    <3> QED
      BY <3>1
  <2>3. CASE c > 0
    BY <1>4, <2>1, <2>3 DEF IndexInv, Stage, LastMark
  <2> QED
    BY <1>8, <2>2, <2>3
<1>15. Ascends(second)
  BY <1>4 DEF IndexInv, Stage, LastMark
<1>16. \A i \in 1..Len(second') : second'[i].milestone < c + 1
  <2>1. CASE second' = second
    BY <1>8, <1>14, <2>1
  <2>2. CASE second' # second
    <3> TAKE i \in 1..Len(second')
    <3>1. i \in 1..l \/ i = l + 1
      BY <1>10, <1>11, <2>2
    <3> QED
      BY <1>8, <1>9, <1>11, <1>14, <2>2, <3>1
  <2> QED
    BY <2>1, <2>2
<1>17. Ascends(second)'
  <2>1. CASE second' = second
    BY <1>15, <2>1 DEF Ascends
  <2>2. CASE second' # second
    <3> SUFFICES ASSUME NEW i \in 1..Len(second'), NEW j \in 1..Len(second'), i < j
                 PROVE  second'[i].milestone < second'[j].milestone
      BY DEF Ascends
    <3>1. i \in 1..l /\ (j \in 1..l \/ j = l + 1)
      BY <1>10, <1>11, <2>2
    <3>2. CASE j \in 1..l
      BY <1>11, <1>15, <2>2, <3>1, <3>2 DEF Ascends
    <3>3. CASE j = l + 1
      BY <1>9, <1>11, <1>14, <2>2, <3>1, <3>3
    <3> QED
      BY <3>1, <3>2, <3>3
  <2> QED
    BY <2>1, <2>2
<1>18. c % Milestone # 0 => \A i \in 1..Len(second') : second'[i].milestone < c
  BY <1>11, <1>14
<1>19. c % Milestone = 0 => second' # <<>> /\ second'[Len(second')] = si
  <2> SUFFICES ASSUME c % Milestone = 0 PROVE second' # <<>> /\ second'[Len(second')] = si
    OBVIOUS
  <2>1. Len(second') = l + 1 /\ second'[l + 1] = si
    BY <1>11
  <2>2. Len(second') # 0
    BY <1>10, <2>1
  <2> QED
    BY <2>1, <2>2
<1>20. CellCount' - 1 = c /\ CellCount' > 0
  BY <1>7, <1>8
<1>21. Stage'
  <2>1. pc' = "build" /\ sfile' = NoFile /\ ~done' /\ ~readonly' /\ ~broken'
    BY <1>4 DEF IndexInv, Stage, LastMark
  <2>2. lastsi' \in Marks /\ lastsi'.milestone = CellCount' - 1
    BY <1>4, <1>9, <1>20
  <2>3. \A i \in 1..Len(second') : second'[i].milestone < CellCount'
    BY <1>7, <1>16
  <2>5. lastsi'.milestone % Milestone # 0 => \A i \in 1..Len(second') : second'[i].milestone < CellCount' - 1
    BY <1>4, <1>9, <1>18, <1>20
  <2>6. lastsi'.milestone % Milestone = 0 => second' # <<>> /\ second'[Len(second')] = lastsi'
    BY <1>4, <1>9, <1>19
  <2>7. CellCount' # 0
    BY <1>20
  <2>4. LastMark'
    BY <2>2, <2>3, <2>5, <2>6, <2>7, Zenon DEF LastMark, Marks, Terms
  <2> QED
    BY <1>17, <2>1, <2>4 DEF Stage
<1>22. Content'
  <2>1. lastsi'.key = k
    BY <1>4, <1>9
  <2>2. \A m : m = CellCount' - 1 => CellAt(m)'.key = k
    BY <1>7, <1>20
  <2>3. CellAt(CellCount - 1)'.key = k
    BY <2>2 DEF CellAt
  <2> QED
    BY <1>4, <1>7, <2>1, <2>3 DEF Content
<1> QED
  BY <1>13, <1>21, <1>22 DEF IndexInv

\* The last term goes into the second level, which ends with the last cell then.
LEMMA FinishBeginHolds ==
  ASSUME IndexInv, FinishBegin
  PROVE  IndexInv'
<1> DEFINE c == CellCount
           l == Len(second)
<1>1. /\ pc = "build" /\ second' = WithLast /\ UNCHANGED <<fb, dat, lastsi, readonly, cache, builds, deaths, built, done, broken>>
      /\ \/ second' = <<>> /\ pc' = "idle" /\ sfile' = sfile
         \/ second' # <<>> /\ pc' = "finish" /\ sfile' = <<>>
  BY DEF FinishBegin
<1>2. Files' /\ CellCount' = c /\ Listed' /\ c \in Nat
  BY <1>1, Untouched, CountIs DEF IndexInv, Types, Content
<1>3. second \in Seq(Marks) /\ l \in Nat
  BY DEF IndexInv, Types
<1>4. CASE c = 0
  <2>1. second = <<>> /\ lastsi = NoSi
    BY <1>1, <1>4 DEF IndexInv, Stage, LastMark
  <2>2. lastsi.milestone = 0 /\ 0 % Milestone = 0
    BY <2>1, Constants DEF NoSi
  <2>3. second' = <<>>
    BY <1>1, <2>1, <2>2 DEF WithLast
  <2>4. Types'
    BY <1>1, <1>2, <2>3 DEF IndexInv, Types
  <2>5. Stage'
    BY <1>1, <2>3 DEF IndexInv, Stage, LastMark
  <2>6. Content'
    BY <1>1, <1>2, <2>3 DEF Content
  <2> QED
    BY <2>4, <2>5, <2>6 DEF IndexInv
<1>5. CASE c > 0
  <2>0. /\ lastsi \in Marks /\ lastsi.milestone = c - 1
        /\ \A i \in 1..Len(second) : second[i].milestone < c
        /\ lastsi.milestone % Milestone # 0 => \A i \in 1..Len(second) : second[i].milestone < c - 1
        /\ lastsi.milestone % Milestone = 0 => second # <<>> /\ second[Len(second)] = lastsi
        /\ Ascends(second) /\ ~readonly /\ ~broken /\ ~done
    BY <1>1, <1>5 DEF IndexInv, Stage, LastMark
  <2>1. \/ /\ lastsi.milestone % Milestone = 0 /\ second' = second /\ second # <<>>
        \/ /\ lastsi.milestone % Milestone # 0 /\ second' \in Seq(Marks) /\ Len(second') = l + 1 /\ second'[l + 1] = lastsi
           /\ \A i \in 1..l : second'[i] = second[i]
    <3>1. CASE lastsi.milestone % Milestone = 0
      BY <1>1, <2>0, <3>1 DEF WithLast
    <3>2. CASE lastsi.milestone % Milestone # 0
      <4>1. second' = Append(second, lastsi)
        BY <1>1, <3>2 DEF WithLast
      <4> QED
        BY <1>3, <2>0, <3>2, <4>1
    <3> QED
      BY <3>1, <3>2
  <2>2. second' \in Seq(Marks) /\ second' # <<>>
    BY <1>3, <2>1
  <2>3. pc' = "finish" /\ sfile' = <<>>
    BY <1>1, <2>2
  <2>4. Types'
    BY <1>1, <1>2, <2>2, <2>3 DEF IndexInv, Types
  <2>5. Covers(second)'
    <3>1. second'[Len(second')] = lastsi
      BY <2>0, <2>1
    <3> QED
      BY <1>2, <2>0, <2>2, <3>1 DEF Covers
  <2>6. Ascends(second)'
    <3>1. CASE second' = second
      BY <2>0, <3>1 DEF Ascends
    <3>2. CASE second' # second
      <4> SUFFICES ASSUME NEW i \in 1..Len(second'), NEW j \in 1..Len(second'), i < j
                   PROVE  second'[i].milestone < second'[j].milestone
        BY DEF Ascends
      <4>1. i \in 1..l /\ (j \in 1..l \/ j = l + 1)
        BY <1>3, <2>1, <3>2
      <4>2. CASE j \in 1..l
        BY <2>0, <2>1, <3>2, <4>1, <4>2 DEF Ascends
      <4>3. CASE j = l + 1
        BY <2>0, <2>1, <3>2, <4>1, <4>3
      <4> QED
        BY <4>1, <4>2, <4>3
    <3> QED
      BY <3>1, <3>2
  <2>7. sfile' \in Seq(Marks) /\ Begins(sfile', second')
    BY <2>2, <2>3 DEF Begins
  <2>8. Stage'
    BY <1>1, <2>0, <2>3, <2>5, <2>6, <2>7 DEF Stage, IndexInv
  <2>9. Content'
    BY <1>2, <2>3 DEF Content
  <2> QED
    BY <2>4, <2>8, <2>9 DEF IndexInv
<1> QED
  BY <1>2, <1>4, <1>5

\* A record of the second level is written, or the index is there.
LEMMA FinishWriteHolds ==
  ASSUME IndexInv, FinishWrite
  PROVE  IndexInv'
<1> DEFINE c == CellCount
           l == Len(sfile)
<1>1. /\ pc = "finish" /\ UNCHANGED <<fb, dat, second, lastsi, cache, builds, deaths, built, broken>>
      /\ \/ l < Len(second) /\ sfile' = Append(sfile, second[l + 1]) /\ pc' = pc /\ readonly' = readonly /\ done' = done
         \/ ~(l < Len(second)) /\ pc' = "idle" /\ readonly' = TRUE /\ done' = TRUE /\ sfile' = sfile
  BY DEF FinishWrite
<1>2. Files' /\ CellCount' = c /\ Listed'
  BY <1>1, Untouched DEF IndexInv, Types, Content
<1>3. second \in Seq(Marks) /\ sfile \in Seq(Marks) /\ l \in Nat /\ Len(second) \in Nat /\ Begins(sfile, second)
  BY <1>1 DEF IndexInv, Types, Stage
<1>4. Covers(second) /\ Ascends(second) /\ ~readonly /\ ~broken /\ ~done
  BY <1>1 DEF IndexInv, Stage
<1>5. Covers(second)' /\ Ascends(second)'
  BY <1>1, <1>2, <1>4 DEF Covers, Ascends
<1>6. CASE l < Len(second)
  <2>1. l + 1 \in 1..Len(second)
    BY <1>3, <1>6
  <2>2. /\ sfile' \in Seq(Marks) /\ Len(sfile') = l + 1 /\ sfile'[l + 1] = second[l + 1]
        /\ \A i \in 1..l : sfile'[i] = sfile[i]
    <3>1. second[l + 1] \in Marks /\ sfile' = Append(sfile, second[l + 1])
      BY <1>1, <1>3, <1>6, <2>1
    <3> QED
      BY <1>3, <3>1
  <2>3. Begins(sfile', second')
    <3>1. \A i \in 1..l + 1 : i \in 1..l \/ i = l + 1
      BY <1>3
    <3>2. l + 1 <= Len(second)
      BY <1>3, <1>6
    <3> QED
      BY <1>1, <1>3, <2>2, <3>1, <3>2 DEF Begins
  <2>4. pc' = "finish" /\ readonly' = readonly /\ done' = done
    BY <1>1, <1>6
  <2>5. Types'
    BY <1>1, <1>2, <2>2, <2>4 DEF IndexInv, Types
  <2>6. Stage'
    BY <1>1, <1>4, <1>5, <2>2, <2>3, <2>4 DEF Stage
  <2>7. Content'
    BY <1>2, <2>4 DEF Content
  <2> QED
    BY <2>5, <2>6, <2>7 DEF IndexInv
<1>7. CASE ~(l < Len(second))
  <2>1. sfile' = second
    <3>1. l = Len(second) /\ \A i \in 1..l : sfile[i] = second[i]
      BY <1>3, <1>7 DEF Begins
    <3>2. sfile = second
      BY <1>3, <3>1
    <3> QED
      BY <1>1, <1>7, <3>2
  <2>2. Covers(sfile)'
    BY <1>1, <1>5, <2>1 DEF Covers
  <2>3. pc' = "idle" /\ readonly' = TRUE /\ done' = TRUE
    BY <1>1, <1>7
  <2>4. Types'
    BY <1>1, <1>2, <1>3, <2>1, <2>3 DEF IndexInv, Types
  <2>5. Stage'
    BY <1>1, <1>3, <1>4, <2>1, <2>2, <2>3 DEF Stage
  <2>6. Content'
    BY <1>2, <2>3 DEF Content
  <2> QED
    BY <2>4, <2>5, <2>6 DEF IndexInv
<1> QED
  BY <1>6, <1>7

\* There is a mark in a sequence of them that NoFile does not hold.
LEMMA NoFileIs == ~(NoFile \in Seq(Marks))
<1> SUFFICES ASSUME NoFile \in Seq(Marks) PROVE FALSE
  OBVIOUS
<1>1. Len(NoFile) = 1 /\ NoFile[1].milestone = -1
  BY DEF NoFile
<1>2. NoFile[1] \in Marks
  BY <1>1
<1> QED
  BY <1>1, <1>2, Constants DEF Marks

\* What the constructor reads: no second level, the whole one of a finished build, or a part of it.
LEMMA WhatIsRead ==
  ASSUME IndexInv, NEW s, s = IF sfile = NoFile THEN <<>> ELSE sfile
  PROVE  /\ s \in Seq(Marks) /\ Len(s) \in Nat
         /\ \/ s = <<>> /\ ~done /\ ~(pc = "finish" /\ sfile = second)
            \/ s = sfile /\ s # <<>> /\ Covers(s) /\ Listed /\ (done \/ (pc = "finish" /\ sfile = second))
            \/ s = sfile /\ s # <<>> /\ s[Len(s)].milestone # CellCount - 1 /\ ~done /\ ~(pc = "finish" /\ sfile = second)
<1>1. s \in Seq(Marks) /\ Len(s) \in Nat
  BY DEF IndexInv, Types
<1>2. pc \in {"idle", "clear", "build", "finish"} /\ done \in BOOLEAN
  BY DEF IndexInv, Types
<1>3. CASE pc \in {"clear", "build"} \/ (pc = "idle" /\ ~done)
  <2>1. sfile = NoFile /\ ~done /\ pc # "finish"
    BY <1>3 DEF IndexInv, Stage
  <2> QED
    BY <1>1, <2>1
<1>4. CASE pc = "idle" /\ done
  <2>1. sfile \in Seq(Marks) /\ Covers(sfile) /\ Listed
    BY <1>4 DEF IndexInv, Stage, Content
  <2>2. s = sfile
    BY <2>1, NoFileIs
  <2> QED
    BY <1>1, <1>4, <2>1, <2>2 DEF Covers
<1>5. CASE pc = "finish"
  <2>1. sfile \in Seq(Marks) /\ Covers(second) /\ Ascends(second) /\ Begins(sfile, second) /\ ~done /\ Listed /\ second \in Seq(Marks)
    BY <1>5 DEF IndexInv, Stage, Content, Types
  <2>2. s = sfile
    BY <2>1, NoFileIs
  <2>3. CASE sfile = second
    BY <1>1, <1>5, <2>1, <2>2, <2>3 DEF Covers
  <2>4. CASE sfile # second /\ sfile # <<>>
    <3> DEFINE l == Len(sfile)
               m == Len(second)
    <3>1. l \in Nat /\ m \in Nat /\ l <= m /\ \A i \in 1..l : sfile[i] = second[i]
      BY <2>1 DEF Begins
    <3>2. l # m
      <4> SUFFICES ASSUME l = m PROVE FALSE
        OBVIOUS
      <4>1. sfile = second
        BY <2>1, <3>1
      <4> QED
        BY <2>4, <4>1
    <3>3. l # 0
      BY <2>1, <2>4
    <3>4. l \in 1..l /\ l \in 1..m /\ m \in 1..m /\ l < m
      BY <3>1, <3>2, <3>3
    <3>5. second[l].milestone < second[m].milestone
      BY <2>1, <3>4 DEF Ascends
    <3>6. second[l] \in Marks /\ second[m] \in Marks
      BY <2>1, <3>4
    <3>7. second[l].milestone # second[m].milestone
      BY <3>5, <3>6 DEF Marks
    <3>8. sfile[l].milestone # CellCount - 1
      BY <2>1, <3>1, <3>4, <3>7 DEF Covers
    <3> QED
      BY <1>1, <2>1, <2>2, <2>4, <3>8
  <2>5. CASE sfile = <<>> /\ sfile # second
    BY <1>1, <2>1, <2>2, <2>5
  <2> QED
    BY <2>3, <2>4, <2>5
<1> QED
  BY <1>2, <1>3, <1>4, <1>5

\* Where the files are complete they are opened as they are.
LEMMA Opened ==
  ASSUME IndexInv, Listed, CellCount > 0
  PROVE  FbOpened = fb /\ DatOpened = dat
<1>1. Files /\ CellCount \in Nat
  BY CountIs DEF IndexInv, Types
<1>2. FbOpened = fb
  BY <1>1 DEF FbOpened, Files
<1>3. dat # <<>>
  <2> SUFFICES ASSUME dat = <<>> PROVE FALSE
    OBVIOUS
  <2>1. 0 \in 0..CellCount - 1
    BY <1>1
  <2>2. CellAt(0) \in Cells /\ Stored(CellAt(0).idx, built[CellAt(0).key])
    BY <1>1, <2>1, CellPlace DEF Listed
  <2>3. Len(dat) = 0 /\ 2^FileBits \in Nat
    BY BlocksAssumption
  <2>4. ~FilesWrap
    BY <2>3 DEF FilesWrap
  <2>5. CellAt(0).idx.file < 0 /\ CellAt(0).idx.file \in Nat
    BY <2>2, <2>3, <2>4 DEF Stored, Cells, Idxs
  <2> QED
    BY <2>5
<1> QED
  BY <1>2, <1>3 DEF DatOpened

\* Death and restart.
LEMMA RestartHolds ==
  ASSUME IndexInv, Restart
  PROVE  IndexInv'
<1>1. PICK s : s = IF sfile = NoFile THEN <<>> ELSE sfile
  OBVIOUS
<1>2. /\ deaths < MaxDeaths /\ deaths' = deaths + 1 /\ second' = s /\ readonly' = (s # <<>>)
      /\ \/ /\ Complete(s) /\ fb' = FbOpened /\ dat' = DatOpened /\ sfile' = sfile /\ built' = built
         \/ /\ ~Complete(s) /\ fb' = <<<<>>>> /\ dat' = DatCleared /\ sfile' = NoFile /\ built' = <<>>
      /\ broken' = (s # <<>> /\ ~Complete(s)) /\ pc' = "idle"
      /\ done' = (done \/ (pc = "finish" /\ sfile = second)) /\ builds' = builds
  BY <1>1 DEF Restart
<1>3. deaths \in Nat /\ deaths' \in 0..MaxDeaths /\ deaths' > 0
  BY <1>2, Constants DEF IndexInv, Types
<1>4. /\ s \in Seq(Marks) /\ Len(s) \in Nat
      /\ \/ s = <<>> /\ ~done /\ ~(pc = "finish" /\ sfile = second)
         \/ s = sfile /\ s # <<>> /\ Covers(s) /\ Listed /\ (done \/ (pc = "finish" /\ sfile = second))
         \/ s = sfile /\ s # <<>> /\ s[Len(s)].milestone # CellCount - 1 /\ ~done /\ ~(pc = "finish" /\ sfile = second)
  BY <1>1, WhatIsRead
<1>5. Files /\ CellCount \in Nat
  BY CountIs DEF IndexInv, Types
<1>6. Complete(s) <=> s # <<>> /\ s[Len(s)].milestone + 1 = CellCount
  BY DEF Complete, Last
<1>7. s # <<>> => s[Len(s)].milestone \in Int
  <2> SUFFICES ASSUME s # <<>> PROVE s[Len(s)].milestone \in Int
    OBVIOUS
  <2>1. Len(s) \in 1..Len(s)
    BY <1>4
  <2>2. s[Len(s)] \in Marks
    BY <1>4, <2>1
  <2> QED
    BY <2>2 DEF Marks
<1>8. CASE s = sfile /\ s # <<>> /\ Covers(s) /\ Listed /\ (done \/ (pc = "finish" /\ sfile = second))
  <2>1. Complete(s) /\ CellCount > 0
    <3>1. s[Len(s)].milestone = CellCount - 1 /\ s[Len(s)].milestone >= 0
      <4>1. Len(s) \in 1..Len(s)
        BY <1>4, <1>8
      <4>2. s[Len(s)] \in Marks
        BY <1>4, <4>1
      <4> QED
        BY <1>8, <4>2, Constants DEF Covers, Marks
    <3> QED
      BY <1>5, <1>6, <1>7, <1>8, <3>1
  <2>2. fb' = fb /\ dat' = dat /\ sfile' = s /\ built' = built
    BY <1>2, <1>8, <2>1, Opened
  <2>3. Files' /\ CellCount' = CellCount /\ Listed'
    BY <1>5, <1>8, <2>2, Untouched
  <2>4. readonly' = TRUE /\ done' = TRUE /\ broken' = FALSE
    BY <1>2, <1>8, <2>1
  <2>5. Covers(sfile)'
    BY <1>8, <2>2, <2>3 DEF Covers
  <2>6. Types'
    BY <1>2, <1>3, <1>4, <2>2, <2>3, <2>4 DEF IndexInv, Types
  <2>7. Stage' /\ Content'
    BY <1>2, <1>4, <2>2, <2>3, <2>4, <2>5 DEF Stage, Content
  <2> QED
    BY <2>6, <2>7 DEF IndexInv
<1>9. CASE ~(s # <<>> /\ Covers(s)) /\ ~done /\ ~(pc = "finish" /\ sfile = second)
  <2>1. ~Complete(s)
    BY <1>5, <1>6, <1>7, <1>9 DEF Covers
  <2>2. fb' = <<<<>>>> /\ dat' = <<>> /\ sfile' = NoFile /\ built' = <<>>
    BY <1>2, <2>1 DEF DatCleared
  <2>3. Files'
    BY <2>2, Emptied
  <2>4. readonly' = (s # <<>>) /\ done' = FALSE /\ broken' = (s # <<>>)
    BY <1>2, <1>9, <2>1
  <2>5. Types'
    <3>1. DOMAIN built' = {} /\ second' \in Seq(Marks) /\ deaths' \in 0..MaxDeaths /\ builds' \in 0..MaxBuilds
      BY <1>2, <1>3, <1>4, <2>2 DEF IndexInv, Types
    <3>2. DOMAIN built' \subseteq Terms /\ \A t \in DOMAIN built' : built'[t] \in Seq(Bytes)
      BY <3>1
    <3>3. sfile' = NoFile' /\ pc' = "idle" /\ readonly' \in BOOLEAN /\ done' \in BOOLEAN /\ broken' \in BOOLEAN
      BY <1>2, <2>2, <2>4 DEF NoFile
    <3> QED
      BY <2>3, <3>1, <3>2, <3>3 DEF Types
  <2>6. Stage' /\ Content'
    BY <1>2, <1>3, <2>2, <2>4 DEF Stage, Content
  <2> QED
    BY <2>5, <2>6 DEF IndexInv
<1> QED
  BY <1>4, <1>8, <1>9 DEF Covers

\* The invariant is inductive.
LEMMA IndexInvStep ==
  ASSUME IndexInv, [Next]_vars
  PROVE  IndexInv'
<1>1. ASSUME NEW k \in Terms, Query(k) PROVE IndexInv'
  BY <1>1, SameHolds DEF Query
<1>2. CASE ClearBegin
  BY <1>2, ClearBeginHolds
<1>3. CASE ClearEnd
  BY <1>3, ClearEndHolds
<1>4. ASSUME NEW k \in Terms, NEW n \in Lens, SetList(k, n) PROVE IndexInv'
  BY <1>4, SetListHolds
<1>5. CASE FinishBegin
  BY <1>5, FinishBeginHolds
<1>6. CASE FinishWrite
  BY <1>6, FinishWriteHolds
<1>7. CASE Restart
  BY <1>7, RestartHolds
<1>8. CASE UNCHANGED vars
  BY <1>8, SameHolds DEF vars, iVars
<1> QED
  BY <1>1, <1>2, <1>3, <1>4, <1>5, <1>6, <1>7, <1>8 DEF Next

\* IndexInv holds in every state: what the files, the second level and its file hold fits the
\* stage of the build.
THEOREM IndexInvHolds == Spec => []IndexInv
<1>1. Init => IndexInv
  BY InitHolds
<1>2. IndexInv /\ [Next]_vars => IndexInv'
  BY IndexInvStep
<1> QED
  BY <1>1, <1>2, PTL DEF Spec

\* The types it says.
LEMMA TypesHold == IndexInv => TypeOK
<1> SUFFICES ASSUME IndexInv PROVE TypeOK
  OBVIOUS
<1>1. Types /\ Files
  BY DEF IndexInv, Types
<1>2. \A i \in DOMAIN second : second[i].milestone \in 0..MaxLists - 1 /\ second[i].key \in Terms
  <2> TAKE i \in DOMAIN second
  <2>1. second[i] \in Marks
    BY <1>1 DEF Types
  <2> QED
    BY <2>1 DEF Marks
<1>3. fb # <<>> /\ \A f \in DOMAIN fb : Len(fb[f]) \in (IF f < Len(fb) THEN {CellsPerFile} ELSE 0..CellsPerFile)
  <2>1. fb \in Seq(Seq(Cells)) /\ Len(fb) >= 1 /\ Len(fb) \in Nat
    BY <1>1 DEF Files
  <2>2. fb # <<>>
    BY <2>1
  <2>3. ASSUME NEW f \in DOMAIN fb PROVE Len(fb[f]) \in (IF f < Len(fb) THEN {CellsPerFile} ELSE 0..CellsPerFile)
    <3>1. f \in 1..Len(fb) /\ fb[f] \in Seq(Cells) /\ Len(fb[f]) \in Nat
      BY <2>1
    <3>2. Len(fb[f]) \in 0..CellsPerFile
      BY <1>1, <3>1, Constants DEF Files
    <3>3. f < Len(fb) => f \in 1..Len(fb) - 1
      BY <2>1, <3>1
    <3>4. f < Len(fb) => Len(fb[f]) = CellsPerFile
      BY <1>1, <3>3 DEF Files
    <3> QED
      BY <3>2, <3>4
  <2> QED
    BY <2>2, <2>3
<1>4. \A f \in DOMAIN dat : Len(dat[f]) \in 0..DatMax
  <2> TAKE f \in DOMAIN dat
  <2>1. f \in 1..Len(dat) /\ dat[f] \in Seq(Bytes) /\ Len(dat[f]) \in Nat
    BY <1>1 DEF Files
  <2> QED
    BY <1>1, <2>1, Constants DEF Files
<1> QED
  BY <1>1, <1>2, <1>3, <1>4 DEF TypeOK, Types

\* SurvivesDeath, for all sizes of files, widths and lengths: wherever the process dies and
\* however often, the constructor takes a finished index for a good one; an unfinished one
\* is readable only if the process died while write_second_index wrote its records.
THEOREM SurvivesDeathHolds == Spec => []SurvivesDeath
<1>1. IndexInv => SurvivesDeath
  BY TypesHold DEF IndexInv, Stage, SurvivesDeath
<1> QED
  BY <1>1, IndexInvHolds, PTL
-----------------------------------------------------------------------------
(***************************************************************************)
(* Part 5.  What fileblock::get reads.                                     *)
(***************************************************************************)
\* A function that satisfies the equation of FlattenSeq computes it.
LEMMA FlattenIs ==
  ASSUME NEW seqs, Len(seqs) \in Nat \ {0}, NEW g,
         g = [i \in 1..Len(seqs) |-> IF i = 1 THEN seqs[i] ELSE g[i - 1] \o seqs[i]]
  PROVE  FlattenSeq(seqs) = g[Len(seqs)]
<1> DEFINE n == Len(seqs)
           Eq(h) == h = [i \in 1..n |-> IF i = 1 THEN seqs[i] ELSE h[i - 1] \o seqs[i]]
           F == CHOOSE h : Eq(h)
<1>1. FlattenSeq(seqs) = F[n]
  BY DEF FlattenSeq
<1>2. Eq(g)
  OBVIOUS
<1>3. Eq(F)
  <2> HIDE DEF Eq
  <2> QED
    BY <1>2
<1> HIDE DEF F
<1>4. /\ \A i \in 1..n : g[i] = IF i = 1 THEN seqs[i] ELSE g[i - 1] \o seqs[i]
      /\ \A i \in 1..n : F[i] = IF i = 1 THEN seqs[i] ELSE F[i - 1] \o seqs[i]
  BY <1>2, <1>3
<1> DEFINE Bad == {i \in Nat : i \in 1..n /\ F[i] # g[i]}
<1>5. Bad = {}
  <2> SUFFICES ASSUME Bad # {} PROVE FALSE
    OBVIOUS
  <2>1. Bad \subseteq Nat /\ Bad # {}
    OBVIOUS
  <2> HIDE DEF Bad
  <2>2. PICK x \in Bad : \A y \in Bad : ~(<<y, x>> \in OpToRel(<, Nat))
    BY <2>1, NatLessThanWellFounded, WFMin
  <2>3. \A y \in Bad : ~(y < x)
    BY <2>1, <2>2 DEF OpToRel
  <2>4. x \in Nat /\ x \in 1..n /\ F[x] # g[x]
    BY DEF Bad
  <2>5. x # 1
    <3>1. 1 \in 1..n => F[1] = seqs[1] /\ g[1] = seqs[1]
      BY <1>4
    <3> QED
      BY <3>1, <2>4
  <2>6. x - 1 \in Nat /\ x - 1 \in 1..n /\ x - 1 < x
    BY <2>4, <2>5
  <2>7. F[x - 1] = g[x - 1]
    BY <2>3, <2>6 DEF Bad
  <2>8. g[x] = g[x - 1] \o seqs[x]
    BY <1>4, <2>4, <2>5
  <2>9. F[x] = F[x - 1] \o seqs[x]
    BY <1>4, <2>4, <2>5
  <2> QED
    BY <2>4, <2>7, <2>8, <2>9
<1>6. n \in Nat /\ n \in 1..n
  OBVIOUS
<1>7. F[n] = g[n]
  BY <1>5, <1>6
<1> QED
  BY <1>1, <1>7

\* The cells from lo up to hi.
Run(lo, hi) == [p \in 1..hi - lo |-> CellAt(lo + p - 1)]

\* Two runs, one behind the other.
LEMMA RunJoin ==
  ASSUME Files, NEW lo \in Nat, NEW mid \in Nat, NEW hi \in Nat, lo <= mid, mid <= hi, hi <= CellCount
  PROVE  Run(lo, hi) \in Seq(Cells) /\ Run(lo, mid) \o Run(mid, hi) = Run(lo, hi)
<1>0. CellCount \in Nat
  BY CountIs
<1>1. \A a \in Nat, b \in Nat : a <= b /\ b <= CellCount => Run(a, b) \in Seq(Cells) /\ Len(Run(a, b)) = b - a
  <2> TAKE a \in Nat, b \in Nat
  <2> HAVE a <= b /\ b <= CellCount
  <2>1. \A p \in 1..b - a : a + p - 1 \in 0..CellCount - 1
    BY <1>0
  <2>2. \A p \in 1..b - a : CellAt(a + p - 1) \in Cells
    BY <2>1, CellPlace
  <2>3. b - a \in Nat
    OBVIOUS
  <2> QED
    BY <2>2, <2>3 DEF Run
<1> DEFINE A == Run(lo, mid)
           B == Run(mid, hi)
           C == Run(lo, hi)
<1>2. A \in Seq(Cells) /\ Len(A) = mid - lo /\ B \in Seq(Cells) /\ Len(B) = hi - mid /\ C \in Seq(Cells) /\ Len(C) = hi - lo
  <2>1. mid <= CellCount /\ lo <= hi
    BY <1>0
  <2> QED
    BY <1>1, <2>1
<1>3. /\ \A p \in 1..mid - lo : A[p] = CellAt(lo + p - 1)
      /\ \A p \in 1..hi - mid : B[p] = CellAt(mid + p - 1)
      /\ \A p \in 1..hi - lo : C[p] = CellAt(lo + p - 1)
  BY DEF Run
<1> HIDE DEF A, B, C
<1> DEFINE D == A \o B
<1>4. D \in Seq(Cells) /\ Len(D) = hi - lo
  BY <1>2
<1>5. \A p \in 1..hi - lo : D[p] = C[p]
  <2> TAKE p \in 1..hi - lo
  <2>1. CASE p <= mid - lo
    <3>1. p \in 1..mid - lo
      BY <2>1
    <3> QED
      BY <1>2, <1>3, <3>1
  <2>2. CASE p > mid - lo
    <3> DEFINE q == p - (mid - lo)
    <3>1. q \in 1..hi - mid /\ mid + q - 1 = lo + p - 1
      BY <2>2
    <3>2. D[p] = B[q]
      BY <1>2, <2>2, <3>1
    <3> HIDE DEF q
    <3> QED
      BY <1>3, <3>1, <3>2
  <2>3. p <= mid - lo \/ p > mid - lo
    OBVIOUS
  <2> QED
    BY <2>1, <2>2, <2>3
<1> HIDE DEF D
<1>6. D = C
  BY <1>2, <1>4, <1>5
<1> QED
  BY <1>2, <1>6 DEF A, B, C, D

\* A file holds a run.
LEMMA FileRun ==
  ASSUME Files, NEW f \in 0..Len(fb) - 1
  PROVE  LET s == fb[f + 1] base == f * CellsPerFile
         IN  /\ s \in Seq(Cells) /\ base \in Nat /\ Len(s) \in Nat /\ Len(s) <= CellsPerFile
             /\ base + Len(s) <= CellCount
             /\ base + Len(s) = CellCount \/ Len(s) = CellsPerFile
             /\ \A a \in Nat, b \in Nat : a <= b /\ b <= Len(s) => SubSeq(s, a + 1, b) = Run(base + a, base + b)
<1> DEFINE s == fb[f + 1]
           c == CellsPerFile
           base == f * c
           L == Len(fb)
           y == (L - 1) * c
           r == Len(fb[L])
           n == Len(s)
<1>1. /\ L \in Nat \ {0} /\ r \in 0..c /\ CellCount = y + r /\ CellCount \in Nat /\ c \in Nat \ {0} /\ y \in Nat
  BY CountIs, Constants
<1>2. f \in Nat /\ f + 1 \in 1..L /\ f <= L - 1
  BY <1>1
<1>3. s \in Seq(Cells) /\ n \in Nat /\ n <= c
  BY <1>2 DEF Files
<1>4. base \in Nat
  BY <1>1, <1>2, MulNat
<1>5. f < L - 1 => base + c <= y
  BY <1>1, <1>2, MulMono
<1>6. f = L - 1 => base = y /\ n = r
  <2> SUFFICES ASSUME f = L - 1 PROVE base = y /\ n = r
    OBVIOUS
  <2>1. f + 1 = L
    BY <1>1
  <2> QED
    BY <2>1
<1>7. f < L - 1 => n = c
  <2> SUFFICES ASSUME f < L - 1 PROVE n = c
    OBVIOUS
  <2>1. f + 1 \in 1..L - 1
    BY <1>1, <1>2
  <2> QED
    BY <2>1 DEF Files
<1>8. \A p \in 1..n : CellAt(base + (p - 1)) = s[p]
  <2> TAKE p \in 1..n
  <2>1. p - 1 \in 0..c - 1
    BY <1>1, <1>3
  <2>2. (base + (p - 1)) \div c = f /\ (base + (p - 1)) % c = p - 1
    BY <1>1, <1>2, <2>1, DivMod
  <2>3. (p - 1) + 1 = p
    BY <1>3
  <2> HIDE DEF base
  <2> QED
    BY <2>2, <2>3 DEF CellAt
<1> HIDE DEF s, c, base, L, y, r, n
<1>9. base + n <= CellCount /\ (base + n = CellCount \/ n = c)
  BY <1>1, <1>2, <1>3, <1>4, <1>5, <1>6, <1>7
<1>10. ASSUME NEW a \in Nat, NEW b \in Nat, a <= b, b <= n
       PROVE  SubSeq(s, a + 1, b) = Run(base + a, base + b)
  <2> DEFINE S == SubSeq(s, a + 1, b)
             R == Run(base + a, base + b)
  <2>1. /\ S \in Seq(Cells) /\ Len(S) = b - a /\ \A p \in 1..b - a : S[p] = s[a + p]
        /\ S = [p \in 1..b - a |-> s[a + p]]
    <3>1. S = [p \in 1..b - (a + 1) + 1 |-> s[p + (a + 1) - 1]]
      BY <1>3, <1>10 DEF n
    <3>2. b - (a + 1) + 1 = b - a /\ b - a \in Nat
      BY <1>10
    <3>3. \A p \in 1..b - a : p + (a + 1) - 1 = a + p /\ a + p \in 1..n
      BY <1>3, <1>10
    <3>4. S = [p \in 1..b - a |-> s[a + p]]
      BY <3>1, <3>2, <3>3
    <3>6. \A q \in 1..n : s[q] \in Cells
      BY <1>3 DEF n
    <3>5. \A p \in 1..b - a : s[a + p] \in Cells
      BY <3>3, <3>6
    <3> HIDE DEF S
    <3> QED
      BY <3>2, <3>4, <3>5
  <2>2. (base + b) - (base + a) = b - a
    BY <1>4, <1>10
  <2>3. R = [p \in 1..b - a |-> CellAt((base + a) + p - 1)]
    BY <2>2 DEF Run
  <2>4. \A p \in 1..b - a : CellAt((base + a) + p - 1) = s[a + p]
    <3> TAKE p \in 1..b - a
    <3>1. (base + a) + p - 1 = base + ((a + p) - 1) /\ a + p \in 1..n
      BY <1>3, <1>4, <1>10
    <3> QED
      BY <1>8, <3>1
  <2>5. S = [p \in 1..b - a |-> s[a + p]]
    BY <2>1
  <2> QED
    BY <2>3, <2>4, <2>5
<1> QED
  BY <1>3, <1>4, <1>9, <1>10 DEF s, base, c, n

\* The smaller of two numbers.
Mn(a, b) == IF a < b THEN a ELSE b

\* What is read of file f when n cells from cell o on are.
Part(o, n, f) ==
  LET from == IF f = o \div CellsPerFile THEN o % CellsPerFile ELSE 0
      past == IF f = o \div CellsPerFile THEN 0 ELSE f * CellsPerFile - o
      most == IF n - past < CellsPerFile - from THEN n - past ELSE CellsPerFile - from
  IN IF most <= 0 THEN <<>> ELSE FbPread(f, from, most)

\* How far the cells read reach after file f.
Reach(o, n, f) == Mn(Mn(o + n, (f + 1) * CellsPerFile), CellCount)

\* The first file.
LEMMA FirstPart ==
  ASSUME Files, NEW o \in 0..CellCount - 1, NEW n \in Nat \ {0}, NEW f, f = o \div CellsPerFile
  PROVE  Part(o, n, f) = Run(o, Reach(o, n, f)) /\ Reach(o, n, f) \in Nat /\ o <= Reach(o, n, f) /\ f \in 0..Len(fb) - 1
<1> DEFINE c == CellsPerFile
           from == o % c
           s == fb[f + 1]
           base == f * c
           l == Len(s)
           up == (f + 1) * c
           N == CellCount
<1>0. N \in Nat /\ c \in Nat \ {0}
  BY CountIs, Constants
<1>1. N \in Nat /\ c \in Nat \ {0} /\ o \in Nat /\ o < N
  BY <1>0
<1>2. f \in Nat /\ from \in 0..c - 1 /\ o = base + from
  BY <1>1, DivRange
<1>3. f + 1 \in 1..Len(fb) /\ from + 1 \in 1..l /\ Len(fb) \in Nat
  BY CellPlace, CountIs
<1>4. f \in 0..Len(fb) - 1
  BY <1>2, <1>3
<1>5. /\ s \in Seq(Cells) /\ base \in Nat /\ l \in Nat /\ l <= c
      /\ base + l <= N /\ (base + l = N \/ l = c)
      /\ \A a \in Nat, b \in Nat : a <= b /\ b <= l => SubSeq(s, a + 1, b) = Run(base + a, base + b)
  BY <1>4, FileRun
<1>6. up = base + c
  BY <1>1, <1>2, MulNat
<1> DEFINE most == IF n < c - from THEN n ELSE c - from
           to == IF from + most < l THEN from + most ELSE l
<1>7. Part(o, n, f) = SubSeq(s, from + 1, to)
  <2>1. n - 0 = n /\ ~(most <= 0)
    BY <1>1, <1>2
  <2>2. Part(o, n, f) = FbPread(f, from, most)
    BY <2>1 DEF Part
  <2> QED
    BY <2>2 DEF FbPread
<1>8. Reach(o, n, f) = Mn(Mn(o + n, up), N)
  BY DEF Reach
<1>a. l \in Nat /\ l <= c /\ base \in Nat /\ base + l <= N /\ (base + l = N \/ l = c) /\ from < l
  <2>1. l \in Nat /\ l <= c /\ base \in Nat /\ base + l <= N /\ (base + l = N \/ l = c)
    BY <1>5
  <2> HIDE DEF from, l
  <2>2. from < l
    BY <1>2, <1>3, <2>1
  <2> QED
    BY <2>1, <2>2
<1> HIDE DEF from, base, up, N, l, s, c
<1>9. to \in Nat /\ from \in Nat /\ from <= to /\ to <= l
  BY <1>1, <1>2, <1>a
<1>10. Mn(Mn(o + n, up), N) = base + to
  BY <1>1, <1>2, <1>6, <1>a DEF Mn
<1> HIDE DEF to, most
<1>11. SubSeq(s, from + 1, to) = Run(base + from, base + to)
  BY <1>5, <1>9
<1>12. base + to \in Nat /\ o <= base + to
  BY <1>2, <1>9, <1>a
<1> QED
  BY <1>2, <1>4, <1>7, <1>8, <1>10, <1>11, <1>12

\* The files behind it.
LEMMA NextPart ==
  ASSUME Files, NEW o \in 0..CellCount - 1, NEW n \in Nat \ {0}, NEW f \in 0..Len(fb) - 1, f > o \div CellsPerFile
  PROVE  /\ Run(o, Reach(o, n, f - 1)) \o Part(o, n, f) = Run(o, Reach(o, n, f))
<1> DEFINE c == CellsPerFile
           first == o \div c
           s == fb[f + 1]
           base == f * c
           l == Len(s)
           up == (f + 1) * c
           N == CellCount
           low == Reach(o, n, f - 1)
           high == Reach(o, n, f)
<1>0. N \in Nat /\ c \in Nat \ {0}
  BY CountIs, Constants
<1>1. N \in Nat /\ c \in Nat \ {0} /\ o \in Nat /\ o < N
  BY <1>0
<1>2. first \in Nat /\ o % c \in 0..c - 1 /\ o = first * c + (o % c)
  BY <1>1, DivRange
<1>3. f \in Nat /\ f # first /\ (f - 1) + 1 = f
  BY <1>2
<1>5. /\ s \in Seq(Cells) /\ base \in Nat /\ l \in Nat /\ l <= c
      /\ base + l <= N /\ (base + l = N \/ l = c)
      /\ \A a \in Nat, b \in Nat : a <= b /\ b <= l => SubSeq(s, a + 1, b) = Run(base + a, base + b)
  BY FileRun
<1>6. up = base + c
  BY <1>1, <1>3, MulNat
<1>7. o < base
  <2> DEFINE z == first * c
  <2>1. z + c <= base
    BY <1>1, <1>2, <1>3, MulMono
  <2>2. z \in Nat
    BY <1>1, <1>2, MulNat
  <2>3. o = z + (o % c)
    BY <1>2
  <2> HIDE DEF z, base
  <2> DEFINE m == o % c
  <2>4. m \in 0..c - 1 /\ o = z + m
    BY <1>2, <2>3
  <2> HIDE DEF m
  <2> QED
    BY <1>1, <1>5, <2>1, <2>2, <2>4
<1>8. low = Mn(Mn(o + n, base), N) /\ high = Mn(Mn(o + n, up), N)
  BY <1>3 DEF Reach
<1> DEFINE rest == n - (base - o)
           most == IF rest < c THEN rest ELSE c
           to == IF most < l THEN most ELSE l
<1>9. Part(o, n, f) = IF most <= 0 THEN <<>> ELSE SubSeq(s, 0 + 1, to)
  <2>1. c - 0 = c /\ 0 + most = most
    BY <1>1, <1>5
  <2>2. Part(o, n, f) = IF most <= 0 THEN <<>> ELSE FbPread(f, 0, most)
    BY <1>3, <2>1 DEF Part
  <2> QED
    BY <2>1, <2>2 DEF FbPread
<1>a. l \in Nat /\ l <= c /\ base \in Nat /\ base + l <= N /\ (base + l = N \/ l = c)
  BY <1>5
<1> HIDE DEF base, up, N, l, s, c, first, low, high
<1>10. low \in Nat /\ o <= low
  BY <1>1, <1>7, <1>8, <1>a DEF Mn
<1>11. CASE most <= 0
  <2>1. high = low
    BY <1>1, <1>6, <1>7, <1>8, <1>11, <1>a DEF Mn
  <2>2. Part(o, n, f) = <<>>
    BY <1>9, <1>11
  <2>3. low <= N
    BY <1>1, <1>7, <1>8, <1>a DEF Mn
  <2>4. Run(o, low) \in Seq(Cells)
    <3>1. low <= low
      BY <1>10
    <3> QED
      BY <1>1, <1>10, <2>3, <3>1, RunJoin DEF N
  <2> QED
    BY <2>1, <2>2, <2>4 DEF low, high
<1>12. CASE ~(most <= 0)
  <2>1. to \in Nat /\ to <= l
    BY <1>1, <1>12, <1>a
  <2>2. low = base /\ high = base + to /\ base <= high /\ high <= N
    BY <1>1, <1>6, <1>7, <1>8, <1>12, <1>a DEF Mn
  <2> HIDE DEF to, most
  <2>3. SubSeq(s, 0 + 1, to) = Run(base + 0, base + to)
    <3>1. 0 \in Nat /\ 0 <= to
      BY <2>1
    <3> QED
      BY <1>5, <2>1, <3>1
  <2>4. Part(o, n, f) = Run(base, high)
    <3>1. base + 0 = base
      BY <1>a
    <3> QED
      BY <1>9, <1>12, <2>2, <2>3, <3>1
  <2>5. high \in Nat
    BY <1>a, <2>1, <2>2
  <2>6. Run(o, base) \o Run(base, high) = Run(o, high)
    <3>1. o <= base /\ base \in Nat
      BY <1>1, <1>7, <1>a
    <3> QED
      BY <1>1, <2>2, <2>5, <3>1, RunJoin DEF N
  <2> QED
    BY <2>2, <2>4, <2>6 DEF low, high
<1> QED
  BY <1>11, <1>12

\* fileblock::get(o, n) reads the cells from o on, n of them or as many as there are, over
\* however many files.
LEMMA FbGetIs ==
  ASSUME Files, NEW o \in 0..CellCount - 1, NEW n \in Nat \ {0}
  PROVE  FbGet(o, n) = Run(o, Mn(o + n, CellCount))
<1> DEFINE c == CellsPerFile
           first == o \div c
           L == Len(fb) - first
           seqs == [i \in 1..L |-> Part(o, n, first + i - 1)]
           g == [i \in 1..L |-> Run(o, Reach(o, n, first + i - 1))]
           N == CellCount
<1>0. N \in Nat /\ c \in Nat \ {0} /\ Len(fb) \in Nat \ {0}
  BY CountIs, Constants
<1>1. FbGet(o, n) = FlattenSeq(seqs)
  BY DEF FbGet, Part
<1>2. /\ Part(o, n, first) = Run(o, Reach(o, n, first)) /\ first \in 0..Len(fb) - 1
  BY FirstPart
<1> HIDE DEF first
<1>3. L \in Nat \ {0} /\ first \in Nat
  BY <1>0, <1>2
<1> HIDE DEF L
<1>4. Len(seqs) = L
  BY <1>3
<1>5. ASSUME NEW i \in 1..L
      PROVE  g[i] = IF i = 1 THEN seqs[i] ELSE g[i - 1] \o seqs[i]
  <2>1. CASE i = 1
    <3>1. first + i - 1 = first
      BY <1>3, <2>1
    <3> QED
      BY <1>2, <2>1, <3>1
  <2>2. CASE i # 1
    <3> DEFINE f == first + i - 1
    <3>1. i - 1 \in 1..L /\ first + (i - 1) - 1 = f - 1 /\ f \in 0..Len(fb) - 1 /\ f > first
      BY <1>0, <1>2, <1>3, <2>2 DEF L
    <3>2. g[i] = Run(o, Reach(o, n, f)) /\ g[i - 1] = Run(o, Reach(o, n, f - 1)) /\ seqs[i] = Part(o, n, f)
      BY <3>1
    <3> HIDE DEF f, g, seqs
    <3>3. Run(o, Reach(o, n, f - 1)) \o Part(o, n, f) = Run(o, Reach(o, n, f))
      BY <3>1, NextPart DEF first
    <3> QED
      BY <2>2, <3>2, <3>3
  <2> QED
    BY <2>1, <2>2
<1>6. g = [i \in 1..L |-> IF i = 1 THEN seqs[i] ELSE g[i - 1] \o seqs[i]]
  BY <1>5
<1>7. FlattenSeq(seqs) = g[L]
  <2> HIDE DEF seqs, g
  <2> QED
    BY <1>3, <1>4, <1>6, FlattenIs
<1>8. g[L] = Run(o, Reach(o, n, first + L - 1))
  BY <1>3
<1>9. Reach(o, n, first + L - 1) = Mn(o + n, N)
  <2> DEFINE up == Len(fb) * c
             y == (Len(fb) - 1) * c
  <2>1. (first + L - 1) + 1 = Len(fb)
    BY <1>0, <1>2 DEF L
  <2>2. Reach(o, n, first + L - 1) = Mn(Mn(o + n, up), N)
    BY <2>1 DEF Reach
  <2>3. N = y + Len(fb[Len(fb)]) /\ up = y + c /\ y \in Nat /\ Len(fb[Len(fb)]) \in 0..c
    BY CountIs
  <2> HIDE DEF y, up, c, N
  <2>4. N <= up /\ up \in Nat
    BY <1>0, <2>3
  <2>5. o + n \in Nat
    BY <1>0 DEF N
  <2>6. Mn(Mn(o + n, up), N) = Mn(o + n, N)
    BY <1>0, <2>4, <2>5 DEF Mn
  <2> QED
    BY <2>2, <2>6
<1> QED
  BY <1>1, <1>7, <1>8, <1>9

\* The iterator delivers the cells.
LEMMA ItGetIs ==
  ASSUME Files, NEW i \in 0..CellCount - 1
  PROVE  FbItGet(i) = CellAt(i)
<1>0. CellCount \in Nat
  BY CountIs
<1>1. 1 \in Nat \ {0}
  OBVIOUS
<1>2. FbGet(i, 1) = Run(i, Mn(i + 1, CellCount))
  BY <1>1, FbGetIs
<1>3. Mn(i + 1, CellCount) = i + 1
  BY <1>0 DEF Mn
<1>4. (i + 1) - i = 1 /\ i + 1 - 1 = i
  BY <1>0
<1>5. Run(i, i + 1)[1] = CellAt(i)
  BY <1>4 DEF Run
<1> QED
  BY <1>2, <1>3, <1>5 DEF FbItGet

\* diskv::get returns what was stored.
LEMMA DatGetIs ==
  ASSUME Files, ~FilesWrap, NEW x \in Idxs, NEW s \in Seq(Bytes), Stored(x, s)
  PROVE  DatGet(x) = s
<1>1. /\ x.len = Len(s) /\ x.file < Len(dat) /\ x.off \in Nat /\ x.off + x.len <= Len(dat[x.file + 1])
      /\ \A p \in 1..Len(s) : dat[x.file + 1][x.off + p] = s[p]
  BY DEF Stored
<1> DEFINE g == x.file + 1
           d == dat[g]
           o == x.off
           l == Len(s)
<1>2. x.file \in Nat /\ dat \in Seq(Seq(Bytes)) /\ Len(dat) \in Nat /\ l \in Nat
  BY DEF Idxs, Files
<1>3. g \in 1..Len(dat)
  BY <1>1, <1>2
<1>4. d \in Seq(Bytes) /\ Len(d) \in Nat
  BY <1>2, <1>3
<1>5. ~(x.file >= Len(dat))
  BY <1>1, <1>2
<1>6. ~(x.file = Len(dat) - 1 /\ x.off + x.len > Len(Last(dat)))
  <2> SUFFICES ASSUME x.file = Len(dat) - 1 PROVE ~(x.off + x.len > Len(Last(dat)))
    OBVIOUS
  <2>1. g = Len(dat)
    BY <1>2
  <2>2. Last(dat) = d
    BY <2>1 DEF Last
  <2> QED
    BY <1>1, <1>2, <1>4, <2>2
<1>7. DatGet(x) = SubSeq(d, o + 1, IF o + l < Len(d) THEN o + l ELSE Len(d))
  BY <1>1, <1>5, <1>6 DEF DatGet
<1> HIDE DEF g, d, o, l
<1>a. o \in Nat /\ o + l <= Len(d) /\ l \in Nat /\ Len(d) \in Nat /\ \A p \in 1..l : d[o + p] = s[p]
  BY <1>1, <1>2, <1>4 DEF g, d, o, l
<1>8. (IF o + l < Len(d) THEN o + l ELSE Len(d)) = o + l
  BY <1>a
<1>9. SubSeq(d, o + 1, o + l) = [p \in 1..(o + l) - (o + 1) + 1 |-> d[p + (o + 1) - 1]]
  BY <1>4, <1>a
<1>10. (o + l) - (o + 1) + 1 = l
  BY <1>a
<1>11. \A p \in 1..l : p + (o + 1) - 1 = o + p
  BY <1>a
<1>12. SubSeq(d, o + 1, o + l) = [p \in 1..l |-> s[p]]
  BY <1>9, <1>10, <1>11, <1>a
<1>13. s = [p \in 1..l |-> s[p]]
  BY DEF l
<1> QED
  BY <1>7, <1>8, <1>12, <1>13

\* As many terms as cells.
LEMMA CountTerms ==
  ASSUME Files, Listed
  PROVE  Cardinality(DOMAIN built) = CellCount
<1> DEFINE N == CellCount
           key == [i \in 0..N - 1 |-> CellAt(i).key]
<1>1. N \in Nat
  BY CountIs
<1>2. \A i, j \in 0..N - 1 : i # j => key[i] # key[j]
  <2> SUFFICES ASSUME NEW i \in 0..N - 1, NEW j \in 0..N - 1, i # j PROVE key[i] # key[j]
    OBVIOUS
  <2>1. CellAt(i).key \in Int /\ CellAt(j).key \in Int
    BY CellPlace DEF Cells, Terms
  <2>2. i < j \/ j < i
    BY <1>1
  <2>3. CellAt(i).key < CellAt(j).key \/ CellAt(j).key < CellAt(i).key
    BY <2>2 DEF Listed
  <2> QED
    BY <2>1, <2>3
<1>3. key \in Bijection(0..N - 1, DOMAIN built)
  <2>1. key \in [0..N - 1 -> DOMAIN built]
    BY DEF Listed
  <2>2. \A t \in DOMAIN built : \E i \in 0..N - 1 : key[i] = t
    BY DEF Listed
  <2> HIDE DEF key
  <2>3. key \in Injection(0..N - 1, DOMAIN built)
    BY <1>2, <2>1 DEF Injection, IsInjective
  <2>4. key \in Surjection(0..N - 1, DOMAIN built)
    BY <2>1, <2>2 DEF Surjection
  <2> QED
    BY <2>3, <2>4 DEF Bijection
<1>4. IsFiniteSet(0..N - 1) /\ Cardinality(0..N - 1) = N
  <2>1. 0 \in Int /\ N - 1 \in Int
    BY <1>1
  <2>2. IsFiniteSet(0..N - 1) /\ Cardinality(0..N - 1) = IF 0 > N - 1 THEN 0 ELSE N - 1 - 0 + 1
    BY <2>1, FS_Interval
  <2> QED
    BY <1>1, <2>2
<1>5. ExistsBijection(0..N - 1, DOMAIN built)
  BY <1>3 DEF ExistsBijection
<1>6. Cardinality(DOMAIN built) = Cardinality(0..N - 1)
  BY <1>4, <1>5, FS_Bijection
<1> QED
  BY <1>4, <1>6

\* IteratesAll, for all sizes of files, widths and lengths: the merges read from a finished
\* index every term once, in ascending order, with the list that was set.
THEOREM IteratesAllHolds == Spec => []IteratesAll
<1>1. ASSUME IndexInv PROVE IteratesAll
  <2> SUFFICES ASSUME done, pc = "idle", ~FilesWrap
               PROVE  /\ FbIsEnd(Cardinality(DOMAIN built))
                      /\ \A i \in 0..Cardinality(DOMAIN built) - 1 :
                           /\ ItGet(i).key \in DOMAIN built /\ ItGet(i).list = built[ItGet(i).key]
                           /\ i > 0 => ItGet(i - 1).key < ItGet(i).key
    BY DEF IteratesAll
  <2>1. Files /\ Listed /\ (\A t \in DOMAIN built : built[t] \in Seq(Bytes))
    BY <1>1 DEF IndexInv, Types, Content
  <2>2. Cardinality(DOMAIN built) = CellCount /\ CellCount \in Nat
    BY <2>1, CountTerms, CountIs
  <2>3. FbIsEnd(Cardinality(DOMAIN built))
    BY <2>2 DEF FbIsEnd
  <2>4. \A i \in 0..CellCount - 1 : ItGet(i).key = CellAt(i).key /\ ItGet(i).list = DatGet(CellAt(i).idx)
    BY <2>1, ItGetIs DEF ItGet
  <2>5. \A i \in 0..CellCount - 1 : CellAt(i).key \in DOMAIN built /\ DatGet(CellAt(i).idx) = built[CellAt(i).key]
    <3> TAKE i \in 0..CellCount - 1
    <3>1. CellAt(i).idx \in Idxs /\ CellAt(i).key \in DOMAIN built /\ Stored(CellAt(i).idx, built[CellAt(i).key])
      BY <2>1, CellPlace DEF Listed, Cells
    <3> QED
      BY <2>1, <3>1, DatGetIs
  <2>6. ASSUME NEW i \in 0..CellCount - 1, i > 0 PROVE CellAt(i - 1).key < CellAt(i).key /\ i - 1 \in 0..CellCount - 1
    <3>1. i - 1 \in 0..CellCount - 1 /\ i - 1 < i
      BY <2>2, <2>6
    <3> QED
      BY <2>1, <3>1 DEF Listed
  <2> QED
    BY <2>2, <2>3, <2>4, <2>5, <2>6
<1> QED
  BY <1>1, IndexInvHolds, PTL
-----------------------------------------------------------------------------
(***************************************************************************)
(* Part 6.  bsearch.                                                       *)
(***************************************************************************)
\* ikey_comp: it answers 0 for equal terms only, and rightly for terms that are less than half
\* of all signatures apart.
LEMMA CompIs ==
  ASSUME NEW a \in Terms, NEW b \in Terms
  PROVE  /\ Comp(a, b) = 0 <=> a = b
         /\ b - a < 2^(Bits - 1) /\ a < b => Comp(a, b) < 0
         /\ a - b < 2^(Bits - 1) /\ b < a => Comp(a, b) > 0
<1> DEFINE h == 2^(Bits - 1)
           w == 2^Bits
           d == (a - b) % w
<1>1. h \in Nat \ {0} /\ w = 2 * h /\ a \in 0..w - 1 /\ b \in 0..w - 1
  BY IndexAssumption DEF Terms
<1>2. Comp(a, b) = IF d >= h THEN -1 ELSE IF d > 0 THEN 1 ELSE 0
  BY DEF Comp
<1> HIDE DEF h, w
<1>3. w \in Nat \ {0} /\ a - b \in Int
  BY <1>1
<1>4. CASE a >= b
  <2>1. a - b \in 0..w - 1
    BY <1>1, <1>3, <1>4
  <2>2. d = a - b
    BY <1>3, <2>1
  <2> HIDE DEF d
  <2>3. Comp(a, b) = IF a - b >= h THEN -1 ELSE IF a - b > 0 THEN 1 ELSE 0
    BY <1>2, <2>2
  <2> QED
    BY <1>1, <1>4, <2>3 DEF h
<1>5. CASE a < b
  <2>1. (a - b) + w \in 1..w - 1
    BY <1>1, <1>3, <1>5
  <2>2. d = (a - b) + w
    BY <1>3, <2>1
  <2> HIDE DEF d
  <2>3. d > 0 /\ (b - a < h => d >= h)
    BY <1>1, <2>1, <2>2
  <2>4. Comp(a, b) # 0 /\ (b - a < h => Comp(a, b) < 0)
    BY <1>1, <1>2, <2>2, <2>3
  <2> QED
    BY <1>1, <1>5, <2>4 DEF h
<1> QED
  BY <1>1, <1>4, <1>5

\* The ranges of places, and the equation of bsearch.
Ranges(s) == (0..Len(s)) \X (0..Len(s))
Step(k, s, f, r) ==
  IF r[1] >= r[2] THEN 0
  ELSE LET i == (r[1] + r[2]) \div 2
           c == Comp(k, s[i + 1].key)
       IN IF c = 0 THEN i + 1 ELSE IF c < 0 THEN f[<<r[1], i>>] ELSE f[<<i + 1, r[2]>>]

\* Half of a range is shorter.
LEMMA Half ==
  ASSUME NEW s, Len(s) \in Nat, NEW r \in Ranges(s), r[1] < r[2]
  PROVE  LET i == (r[1] + r[2]) \div 2
         IN  /\ r[1] \in 0..Len(s) /\ r[2] \in 0..Len(s) /\ i \in Nat /\ r[1] <= i /\ i < r[2] /\ i + 1 \in 1..Len(s)
             /\ <<r[1], i>> \in Ranges(s) /\ <<i + 1, r[2]>> \in Ranges(s)
<1>1. r[1] \in 0..Len(s) /\ r[2] \in 0..Len(s)
  BY DEF Ranges
<1> DEFINE a == r[1]
           b == r[2]
           i == (a + b) \div 2
<1> HIDE DEF a, b
<1>2. a \in Nat /\ b \in Nat /\ a < b
  BY <1>1 DEF a, b
<1>3. i \in Nat /\ a <= i /\ i < b
  BY <1>2
<1> HIDE DEF i
<1>4. i \in 0..Len(s) /\ i + 1 \in 0..Len(s) /\ i + 1 \in 1..Len(s)
  BY <1>1, <1>2, <1>3 DEF a, b
<1>5. <<a, i>> \in Ranges(s) /\ <<i + 1, b>> \in Ranges(s)
  BY <1>1, <1>4 DEF Ranges, a, b
<1> QED
  BY <1>1, <1>3, <1>4, <1>5 DEF a, b, i

\* A function that satisfies it for ranges of n places and less.
Solves(k, s, f, n) == \A r \in Ranges(s) : r[2] - r[1] <= n => f[r] = Step(k, s, f, r)

\* There is one for every n.
LEMMA BsearchThere ==
  ASSUME NEW k, NEW s, Len(s) \in Nat
  PROVE  \A n \in Nat : \E f : Solves(k, s, f, n)
<1> DEFINE Bad == {n \in Nat : ~ \E f : Solves(k, s, f, n)}
<1> SUFFICES ASSUME Bad # {} PROVE FALSE
  OBVIOUS
<1>1. Bad \subseteq Nat
  OBVIOUS
<1>2. PICK x \in Bad : \A y \in Bad : ~(<<y, x>> \in OpToRel(<, Nat))
  <2> HIDE DEF Bad
  <2> QED
    BY <1>1, NatLessThanWellFounded, WFMin
<1>3. \A y \in Bad : ~(y < x)
  BY <1>1, <1>2 DEF OpToRel
<1>4. x \in Nat /\ ~ \E f : Solves(k, s, f, x)
  OBVIOUS
<1>5. CASE x = 0
  <2> DEFINE f == [r \in Ranges(s) |-> 0]
  <2>1. ASSUME NEW r \in Ranges(s), r[2] - r[1] <= 0 PROVE f[r] = Step(k, s, f, r)
    <3>1. r[1] >= r[2]
      BY <2>1 DEF Ranges
    <3> QED
      BY <3>1 DEF Step
  <2> HIDE DEF f
  <2>2. Solves(k, s, f, 0)
    BY <2>1 DEF Solves
  <2> QED
    BY <1>4, <1>5, <2>2
<1>6. CASE x # 0
  <2>1. x - 1 \in Nat /\ x - 1 < x
    BY <1>4, <1>6
  <2>2. ~(x - 1 \in Bad)
    BY <1>3, <2>1
  <2>3. PICK g : Solves(k, s, g, x - 1)
    BY <2>1, <2>2
  <2> HIDE DEF Bad
  <2> DEFINE f == [r \in Ranges(s) |-> IF r[2] - r[1] <= x - 1 THEN g[r] ELSE Step(k, s, g, r)]
  <2>4. \A r \in Ranges(s) : r[2] - r[1] <= x - 1 => f[r] = g[r]
    OBVIOUS
  <2>5. ASSUME NEW r \in Ranges(s), r[2] - r[1] <= x PROVE f[r] = Step(k, s, g, r) /\ Step(k, s, g, r) = Step(k, s, f, r)
    <3>1. f[r] = Step(k, s, g, r)
      BY <2>3 DEF Solves
    <3>2. Step(k, s, g, r) = Step(k, s, f, r)
      <4> HIDE DEF f
      <4>1. CASE r[1] >= r[2]
        BY <4>1 DEF Step
      <4>2. CASE ~(r[1] >= r[2])
        <5> DEFINE i == (r[1] + r[2]) \div 2
        <5>1. r[1] < r[2] /\ r[1] \in Nat /\ r[2] \in Nat
          BY <4>2 DEF Ranges
        <5>2. i \in Nat /\ r[1] <= i /\ i < r[2] /\ <<r[1], i>> \in Ranges(s) /\ <<i + 1, r[2]>> \in Ranges(s)
          BY <5>1, Half
        <5> HIDE DEF i
        <5>3. i - r[1] <= x - 1 /\ r[2] - (i + 1) <= x - 1
          BY <1>4, <2>5, <5>1, <5>2
        <5>4. <<r[1], i>>[2] - <<r[1], i>>[1] <= x - 1 /\ <<i + 1, r[2]>>[2] - <<i + 1, r[2]>>[1] <= x - 1
          BY <5>3
        <5>5. f[<<r[1], i>>] = g[<<r[1], i>>] /\ f[<<i + 1, r[2]>>] = g[<<i + 1, r[2]>>]
          BY <2>4, <5>2, <5>4
        <5> QED
          BY <5>5 DEF Step, i
      <4> QED
        BY <4>1, <4>2
    <3> QED
      BY <3>1, <3>2
  <2> HIDE DEF f
  <2>6. Solves(k, s, f, x)
    BY <2>5 DEF Solves
  <2> QED
    BY <1>4, <2>6
<1> QED
  BY <1>5, <1>6

\* bsearch satisfies its equation.
LEMMA BsearchIs ==
  ASSUME NEW k, NEW s, Len(s) \in Nat
  PROVE  \E f : Bsearch(k, s) = f[<<0, Len(s)>>] /\ \A r \in Ranges(s) : f[r] = Step(k, s, f, r)
<1> DEFINE Eq(f) == f = [r \in Ranges(s) |-> Step(k, s, f, r)]
           F == CHOOSE f : Eq(f)
<1>1. Bsearch(k, s) = F[<<0, Len(s)>>]
  BY DEF Bsearch, Step, Ranges
<1>2. PICK g : Solves(k, s, g, Len(s))
  BY BsearchThere
<1>3. \A r \in Ranges(s) : g[r] = Step(k, s, g, r)
  <2> TAKE r \in Ranges(s)
  <2>1. r[2] - r[1] <= Len(s)
    BY DEF Ranges
  <2> QED
    BY <1>2, <2>1 DEF Solves
<1> DEFINE h == [r \in Ranges(s) |-> g[r]]
<1>4. \A r \in Ranges(s) : Step(k, s, h, r) = Step(k, s, g, r)
  <2> TAKE r \in Ranges(s)
  <2>1. CASE r[1] >= r[2]
    BY <2>1 DEF Step
  <2>2. CASE ~(r[1] >= r[2])
    <3> DEFINE i == (r[1] + r[2]) \div 2
    <3>1. r[1] < r[2]
      BY <2>2 DEF Ranges
    <3>2. <<r[1], i>> \in Ranges(s) /\ <<i + 1, r[2]>> \in Ranges(s)
      BY <3>1, Half
    <3> HIDE DEF i
    <3>3. h[<<r[1], i>>] = g[<<r[1], i>>] /\ h[<<i + 1, r[2]>>] = g[<<i + 1, r[2]>>]
      BY <3>2
    <3> HIDE DEF h
    <3> QED
      BY <3>3 DEF Step, i
  <2> QED
    BY <2>1, <2>2
<1>5. Eq(h)
  BY <1>3, <1>4
<1>6. Eq(F)
  <2> HIDE DEF Eq, h
  <2> QED
    BY <1>5
<1> HIDE DEF F
<1>7. \A r \in Ranges(s) : F[r] = Step(k, s, F, r)
  BY <1>6
<1> QED
  BY <1>1, <1>7

\* The keys ascend, and none is half of all signatures away from k.
Near(k, s) ==
  /\ \A p, q \in 1..Len(s) : p < q => s[p].key < s[q].key
  /\ \A p \in 1..Len(s) : s[p].key - k < 2^(Bits - 1) /\ k - s[p].key < 2^(Bits - 1)

\* What the search of a range may answer.
Answers(k, s, r, v) ==
  /\ v = 0 \/ (v \in 1..Len(s) /\ s[v].key = k)
  /\ Near(k, s) => \A p \in 1..Len(s) : r[1] < p /\ p <= r[2] /\ s[p].key = k => v # 0

\* bsearch finds k or nothing; where the keys ascend and are near, it finds k if it is there.
LEMMA BsearchFinds ==
  ASSUME NEW k \in Terms, NEW s, Len(s) \in Nat, \A p \in 1..Len(s) : s[p].key \in Terms
  PROVE  Answers(k, s, <<0, Len(s)>>, Bsearch(k, s))
<1>1. PICK f : Bsearch(k, s) = f[<<0, Len(s)>>] /\ \A r \in Ranges(s) : f[r] = Step(k, s, f, r)
  BY BsearchIs
<1> DEFINE Bad == {n \in Nat : \E r \in Ranges(s) : r[2] - r[1] <= n /\ ~Answers(k, s, r, f[r])}
<1>2. Bad = {}
  <2> SUFFICES ASSUME Bad # {} PROVE FALSE
    OBVIOUS
  <2>1. Bad \subseteq Nat
    OBVIOUS
  <2>2. PICK x \in Bad : \A y \in Bad : ~(<<y, x>> \in OpToRel(<, Nat))
    <3> HIDE DEF Bad
    <3> QED
      BY <2>1, NatLessThanWellFounded, WFMin
  <2>3. \A y \in Bad : ~(y < x)
    BY <2>1, <2>2 DEF OpToRel
  <2>4. PICK r \in Ranges(s) : r[2] - r[1] <= x /\ ~Answers(k, s, r, f[r])
    OBVIOUS
  <2>5. x \in Nat
    OBVIOUS
  <2>6. f[r] = Step(k, s, f, r)
    BY <1>1
  <2>7. r[1] \in Nat /\ r[2] \in Nat
    BY DEF Ranges
  <2>8. CASE r[1] >= r[2]
    <3>1. f[r] = 0
      BY <2>6, <2>8 DEF Step
    <3>2. \A p \in 1..Len(s) : ~(r[1] < p /\ p <= r[2])
      BY <2>7, <2>8
    <3> QED
      BY <2>4, <3>1, <3>2 DEF Answers
  <2>9. CASE r[1] < r[2]
    <3> DEFINE i == (r[1] + r[2]) \div 2
               lo == <<r[1], i>>
               hi == <<i + 1, r[2]>>
               c == Comp(k, s[i + 1].key)
    <3>1. i \in Nat /\ r[1] <= i /\ i < r[2] /\ i + 1 \in 1..Len(s) /\ lo \in Ranges(s) /\ hi \in Ranges(s)
      BY <2>9, Half
    <3>2. f[r] = IF c = 0 THEN i + 1 ELSE IF c < 0 THEN f[lo] ELSE f[hi]
      <4>1. ~(r[1] >= r[2])
        BY <2>7, <2>9
      <4> QED
        BY <2>6, <4>1 DEF Step
    <3> HIDE DEF i, c
    <3>3. x - 1 \in Nat /\ ~(x - 1 \in Bad) /\ i - r[1] <= x - 1 /\ r[2] - (i + 1) <= x - 1
      <4>1. x - 1 \in Nat /\ x - 1 < x /\ i - r[1] <= x - 1 /\ r[2] - (i + 1) <= x - 1
        BY <2>4, <2>5, <2>7, <2>9, <3>1
      <4> QED
        BY <2>3, <4>1
    <3>4. Answers(k, s, lo, f[lo]) /\ Answers(k, s, hi, f[hi])
      <4>1. lo[2] - lo[1] <= x - 1 /\ hi[2] - hi[1] <= x - 1
        BY <3>3
      <4> QED
        BY <3>1, <3>3, <4>1
    <3> HIDE DEF Bad
    <3> DEFINE e == s[i + 1].key
    <3>5. e \in Terms /\ c = Comp(k, e)
      BY <3>1 DEF c
    <3>6. /\ c = 0 <=> k = e
          /\ e - k < 2^(Bits - 1) /\ k < e => c < 0
          /\ k - e < 2^(Bits - 1) /\ e < k => c > 0
      <4> HIDE DEF e
      <4> QED
        BY <3>5, CompIs
    <3>7. CASE c = 0
      <4>1. f[r] = i + 1 /\ s[i + 1].key = k
        BY <3>2, <3>6, <3>7
      <4>2. i + 1 # 0
        BY <3>1
      <4> QED
        BY <2>4, <3>1, <4>1, <4>2 DEF Answers
    <3>8. CASE c # 0
      <4>1. \A v : Answers(k, s, r, v) <=>
              /\ v = 0 \/ (v \in 1..Len(s) /\ s[v].key = k)
              /\ Near(k, s) => \A p \in 1..Len(s) : r[1] < p /\ p <= r[2] /\ s[p].key = k => v # 0
        BY DEF Answers
      <4>2. f[r] = f[lo] \/ f[r] = f[hi]
        BY <3>2, <3>8
      <4>3. f[r] = 0 \/ (f[r] \in 1..Len(s) /\ s[f[r]].key = k)
        BY <3>4, <4>2 DEF Answers
      <4>4. ASSUME Near(k, s), NEW p \in 1..Len(s), r[1] < p, p <= r[2], s[p].key = k PROVE f[r] # 0
        <5>1. e - k < 2^(Bits - 1) /\ k - e < 2^(Bits - 1)
          BY <3>1, <4>4 DEF Near
        <5>2. k \in Int /\ e \in Int
          BY <3>5 DEF Terms
        <5>3. p # i + 1
          BY <3>6, <3>8, <4>4
        <5>4. CASE p < i + 1
          <6>1. k < e
            BY <3>1, <4>4, <5>4 DEF Near
          <6>2. f[r] = f[lo]
            BY <3>2, <3>6, <3>8, <5>1, <6>1
          <6>3. lo[1] = r[1] /\ lo[2] = i /\ p <= i
            BY <3>1, <5>4
          <6>4. f[lo] # 0
            <7> HIDE DEF lo
            <7> QED
              BY <3>4, <4>4, <6>3 DEF Answers
          <6> QED
            BY <6>2, <6>4
        <5>5. CASE i + 1 < p
          <6>1. e < k
            BY <3>1, <4>4, <5>5 DEF Near
          <6>2. c > 0
            BY <3>6, <5>1, <6>1
          <6>6. c \in {-1, 0, 1}
            BY DEF c, Comp
          <6>7. c # 0 /\ ~(c < 0)
            BY <6>2, <6>6
          <6>3. f[r] = f[hi]
            BY <3>2, <6>7
          <6>4. hi[1] = i + 1 /\ hi[2] = r[2]
            OBVIOUS
          <6>5. f[hi] # 0
            <7> HIDE DEF hi
            <7> QED
              BY <3>4, <4>4, <5>5, <6>4 DEF Answers
          <6> QED
            BY <6>3, <6>5
        <5> QED
          BY <3>1, <5>3, <5>4, <5>5
      <4> QED
        BY <2>4, <4>1, <4>3, <4>4
    <3> QED
      BY <3>7, <3>8
  <2> QED
    BY <2>7, <2>8, <2>9
<1> DEFINE r == <<0, Len(s)>>
<1>3. r \in Ranges(s) /\ r[2] - r[1] <= Len(s)
  BY DEF Ranges
<1>4. Answers(k, s, r, f[r])
  <2> HIDE DEF r
  <2>1. ~(Len(s) \in Bad)
    BY <1>2
  <2> QED
    BY <1>3, <2>1
<1> QED
  BY <1>1, <1>4
-----------------------------------------------------------------------------
(***************************************************************************)
(* Part 7.  The second level.                                              *)
(***************************************************************************)
\* Files, cells and second level stay.
LEMMA LevelKept ==
  ASSUME UNCHANGED <<fb, dat, second>>
  PROVE  /\ Leveled(second)' <=> Leveled(second)
         /\ \A b, n : FbGet(b, n)' = FbGet(b, n)
<1>1. CellCount' = CellCount /\ \A i : CellAt(i)' = CellAt(i)
  BY Untouched
<1>2. Placed(second)' <=> Placed(second)
  <2>1. \A i : (CellAt(second[i].milestone))' = CellAt(second[i].milestone)
    BY DEF CellAt
  <2> QED
    BY <1>1, <2>1 DEF Placed
<1>3. Rows(second, Len(second) - 1)' <=> Rows(second, Len(second) - 1)
  BY DEF Rows
<1>4. Leveled(second)' <=> Leveled(second)
  BY <1>1, <1>2, <1>3 DEF Leveled
<1>5. \A b, n : FbGet(b, n)' = FbGet(b, n)
  BY DEF FbGet, FbPread
<1> QED
  BY <1>4, <1>5

\* Init.
LEMMA LevelInit == Init => Level
BY DEF Init, Level

\* A query puts what it read into the cache.
LEMMA LevelQuery ==
  ASSUME IndexInv, Level, NEW k \in Terms, Query(k)
  PROVE  Level'
<1>1. /\ UNCHANGED <<fb, dat, pc, second, sfile, lastsi, readonly, builds, deaths, built, done, broken>>
      /\ cache' = Put(cache, BlockNo(k), Block(k)) /\ readonly
  BY DEF Query
<1>2. (Leveled(second)' <=> Leveled(second)) /\ \A b, n : FbGet(b, n)' = FbGet(b, n)
  BY <1>1, LevelKept
<1>3. ~(pc \in {"build", "finish"})
  BY <1>1 DEF IndexInv, Stage
<1>4. ASSUME pc = "idle", done PROVE \A b \in DOMAIN cache' : cache'[b] = FbGet(b, Milestone)
  <2>1. \A b \in DOMAIN cache : cache[b] = FbGet(b, Milestone)
    BY <1>4 DEF Level
  <2>2. Block(k) = FbGet(BlockNo(k), Milestone)
    BY <2>1 DEF Block
  <2> TAKE b \in DOMAIN cache'
  <2>3. b = BlockNo(k) \/ b \in DOMAIN cache
    BY <1>1 DEF Put
  <2>4. cache'[b] = IF b = BlockNo(k) THEN Block(k) ELSE cache[b]
    BY <1>1 DEF Put
  <2> QED
    BY <2>1, <2>2, <2>3, <2>4
<1>5. \A b \in DOMAIN cache' : FbGet(b, Milestone)' = FbGet(b, Milestone)
  BY <1>2
<1>6. Leveled(second) => Leveled(second)'
  BY <1>2
<1> QED
  BY <1>1, <1>3, <1>4, <1>5, <1>6 DEF Level

\* The steps of a build that change neither cells nor marks.
LEMMA LevelClearBegin ==
  ASSUME Level, ClearBegin
  PROVE  Level'
BY DEF ClearBegin, Level

\* An empty build.
LEMMA LevelClearEnd ==
  ASSUME IndexInv, Level, ClearEnd
  PROVE  Level'
<1>1. second' = <<>>
  BY DEF ClearEnd, IndexInv, Stage
<1>2. CellCount' = 0
  BY Emptied DEF ClearEnd, DatCleared
<1>3. Placed(second)' /\ Rows(second, Len(second))'
  BY <1>1 DEF Placed, Rows
<1>4. (CellCount <= Len(second) * Milestone)'
  <2>1. Len(second') = 0 /\ 0 * Milestone = 0
    BY <1>1, Constants
  <2> QED
    BY <1>2, <2>1
<1> QED
  BY <1>3, <1>4 DEF ClearEnd, Level

\* A term is set: every Milestone-th goes into the second level.
LEMMA LevelSetList ==
  ASSUME IndexInv, Level, NEW k \in Terms, NEW n \in Lens, SetList(k, n)
  PROVE  Level'
<1> DEFINE c == CellCount
           l == Len(second)
           M == Milestone
<1>1. PICK s : s = [i \in 1..n |-> <<builds, k>>]
  OBVIOUS
<1>2. PICK x : x = DatIdx(s)
  OBVIOUS
<1>3. PICK si : si = [milestone |-> c, key |-> k]
  OBVIOUS
<1>4. /\ pc = "build" /\ c < MaxLists /\ (built # <<>> => k > lastsi.key)
      /\ dat' = DatAppended(s) /\ fb' = FbAppended([key |-> k, idx |-> x]) /\ built' = Put(built, k, s)
      /\ lastsi' = si /\ second' = IF c % Milestone = 0 THEN Append(second, si) ELSE second
      /\ UNCHANGED <<pc, sfile, readonly, cache, builds, deaths, done, broken>>
  BY <1>1, <1>2, <1>3 DEF SetList
<1>5. n \in Nat /\ n \in 1..DatMax /\ builds \in Nat
  BY Constants DEF IndexInv, Types
<1>6. s \in Seq(Bytes) /\ Len(s) = n
  <2>1. <<builds, k>> \in Bytes
    BY <1>5 DEF Bytes
  <2> QED
    BY <1>1, <1>5, <2>1
<1>7. /\ CellCount' = c + 1
      /\ \A i \in 0..c - 1 : CellAt(i)' = CellAt(i)
      /\ \A m : m = c => CellAt(m)'.key = k
  BY <1>2, <1>4, <1>5, <1>6, SetListed
<1>a. Files /\ second \in Seq(Marks)
  BY DEF IndexInv, Types
<1>b. l \in Nat
  BY <1>a
<1>8. c \in Nat /\ second \in Seq(Marks) /\ l \in Nat /\ M \in Nat \ {0}
  BY <1>a, <1>b, CountIs, Constants
<1>9. Placed(second) /\ Rows(second, l) /\ c <= l * M /\ cache = <<>>
  BY <1>4 DEF Level
<1>10. si \in Marks /\ si.milestone = c /\ si.key = k
  BY <1>3, <1>4, <1>8, Constants DEF Marks
<1>11. \A i \in 1..l : second[i].milestone \in 0..c /\ \A m : m = second[i].milestone => second[i].key = CellAt(m)'.key
  <2> TAKE i \in 1..l
  <2>1. PICK m : m = second[i].milestone
    OBVIOUS
  <2>2. m \in 0..c - 1 /\ second[i].key = CellAt(m).key
    BY <1>9, <2>1 DEF Placed
  <2>3. m \in 0..c /\ CellAt(m)' = CellAt(m)
    BY <1>7, <1>8, <2>2
  <2>4. second[i].key = CellAt(m)'.key
    BY <2>2, <2>3
  <2> QED
    BY <2>1, <2>3, <2>4
<1>12. CellCount' - 1 = c /\ c \in 0..c
  BY <1>7, <1>8
<1> DEFINE P == l * M
<1>13. P \in Nat /\ (l + 1) * M = P + M
  BY <1>8, MulNat
<1>14. \A i \in 1..l : second[i].milestone = (i - 1) * M
  BY <1>9 DEF Rows
<1>15. Placed(second)' <=> \A i \in 1..Len(second') : second'[i].milestone \in 0..c /\ \A m : m = second'[i].milestone => second'[i].key = CellAt(m)'.key
  <2>1. \A i : (CellAt(second[i].milestone))' = fb'[(second'[i].milestone \div CellsPerFile) + 1][(second'[i].milestone % CellsPerFile) + 1]
    BY DEF CellAt
  <2>2. \A m : CellAt(m)' = fb'[(m \div CellsPerFile) + 1][(m % CellsPerFile) + 1]
    BY DEF CellAt
  <2> QED
    BY <1>12, <2>1, <2>2 DEF Placed
<1>16. CASE c % M = 0
  <2>1. second' \in Seq(Marks) /\ Len(second') = l + 1 /\ second'[l + 1] = si /\ \A i \in 1..l : second'[i] = second[i]
    BY <1>4, <1>8, <1>10, <1>16
  <2>2. \A i \in 1..l + 1 : i \in 1..l \/ i = l + 1
    BY <1>8
  <2>3. c = P
    <3> DEFINE q == c \div M
               z == q * M
    <3>1. q \in Nat /\ c = z + (c % M)
      BY <1>8, DivRange
    <3>2. c = z
      <4> HIDE DEF z
      <4>1. c = z + 0
        BY <1>16, <3>1
      <4>2. z \in Int
        BY <1>8, <3>1 DEF z
      <4> QED
        BY <4>1, <4>2
    <3>3. l < q => P + M <= z
      BY <1>8, <3>1, MulMono
    <3>4. q < l => z + M <= P
      BY <1>8, <3>1, MulMono
    <3>5. l > 0 => P - M < c
      <4> SUFFICES ASSUME l > 0 PROVE P - M < c
        OBVIOUS
      <4>1. l \in 1..l
        BY <1>8
      <4>2. second[l].milestone \in 0..c - 1 /\ second[l].milestone = (l - 1) * M
        BY <1>9, <1>14, <4>1 DEF Placed
      <4>3. l - 1 \in Nat /\ (l - 1) + 1 = l
        BY <1>8
      <4> DEFINE y == (l - 1) * M
                 l1 == l - 1
      <4>4. y = l1 * M /\ (l1 + 1) * M = l1 * M + M
        BY <1>8, <4>3, MulNat
      <4>5. P = y + M
        BY <4>3, <4>4
      <4>6. y \in 0..c - 1
        BY <4>2
      <4> HIDE DEF y, P
      <4> QED
        BY <1>8, <4>5, <4>6
    <3>6. q = l => z = P
      OBVIOUS
    <3> HIDE DEF q, z, P
    <3>7. c <= P
      BY <1>9 DEF P
    <3>8. z \in Nat
      BY <1>8, <3>2
    <3>9. l >= 0
      BY <1>8
    <3>10. ~(q < l)
      <4> SUFFICES ASSUME q < l PROVE FALSE
        OBVIOUS
      <4>1. l > 0
        BY <1>8, <3>1
      <4> QED
        BY <1>8, <1>13, <3>1, <3>2, <3>4, <3>5, <4>1
    <3>11. ~(l < q)
      BY <1>8, <1>13, <3>1, <3>2, <3>3, <3>7
    <3> QED
      BY <1>8, <3>1, <3>2, <3>6, <3>10, <3>11
  <2>4. Placed(second)'
    BY <1>7, <1>10, <1>11, <1>12, <1>15, <2>1, <2>2
  <2>5. Rows(second, Len(second))'
    <3>1. \A i \in 1..l + 1 : second'[i].milestone = (i - 1) * M
      <4> TAKE i \in 1..l + 1
      <4>1. CASE i \in 1..l
        BY <1>14, <2>1, <4>1
      <4>2. CASE i = l + 1
        <5>1. i - 1 = l
          BY <1>8, <4>2
        <5> QED
          BY <1>10, <2>1, <2>3, <4>2, <5>1
      <4> QED
        BY <2>2, <4>1, <4>2
    <3> QED
      BY <2>1, <3>1 DEF Rows
  <2>6. (CellCount <= Len(second) * Milestone)'
    <3>1. c + 1 <= (l + 1) * M
      <4> HIDE DEF P
      <4>1. c + 1 <= P + M
        BY <1>8, <1>13, <2>3
      <4> QED
        BY <1>13, <4>1
    <3> QED
      BY <1>7, <2>1, <3>1
  <2> QED
    BY <1>4, <1>9, <2>4, <2>5, <2>6 DEF Level
<1>17. CASE c % M # 0
  <2>1. second' = second
    BY <1>4, <1>17
  <2>2. c # P
    <3> SUFFICES ASSUME c = P PROVE FALSE
      OBVIOUS
    <3>1. 0 \in 0..M - 1
      BY <1>8
    <3>2. (l * M + 0) % M = 0
      BY <1>8, <3>1, DivMod
    <3>3. l * M + 0 = c
      BY <1>13
    <3> QED
      BY <1>17, <3>2, <3>3
  <2>3. c + 1 <= P
    <3> HIDE DEF P
    <3>1. c <= P
      BY <1>9 DEF P
    <3> QED
      BY <1>8, <1>13, <2>2, <3>1
  <2>4. Placed(second)'
    BY <1>11, <1>15, <2>1
  <2>5. Rows(second, Len(second))'
    BY <1>14, <2>1 DEF Rows
  <2>6. (CellCount <= Len(second) * Milestone)'
    BY <1>7, <2>1, <2>3
  <2> QED
    BY <1>4, <1>9, <2>4, <2>5, <2>6 DEF Level
<1> QED
  BY <1>16, <1>17

\* The last term is in the second level.
LEMMA LevelFinishBegin ==
  ASSUME IndexInv, Level, FinishBegin
  PROVE  Level'
<1> DEFINE c == CellCount
           l == Len(second)
           M == Milestone
<1>1. /\ pc = "build" /\ second' = WithLast /\ UNCHANGED <<fb, dat, lastsi, readonly, cache, builds, deaths, built, done, broken>>
      /\ \/ second' = <<>> /\ pc' = "idle" /\ sfile' = sfile
         \/ second' # <<>> /\ pc' = "finish" /\ sfile' = <<>>
  BY DEF FinishBegin
<1>2. Files /\ second \in Seq(Marks) /\ ~done
  BY <1>1 DEF IndexInv, Types, Stage
<1>a. l \in Nat
  BY <1>2
<1>b. CellCount' = c /\ \A m : CellAt(m)' = CellAt(m)
  BY <1>1, Untouched
<1>3. c \in Nat /\ l \in Nat /\ M \in Nat \ {0} /\ CellCount' = c /\ \A m : CellAt(m)' = CellAt(m)
  BY <1>2, <1>a, <1>b, CountIs, Constants
<1>4. Placed(second) /\ Rows(second, l) /\ c <= l * M /\ cache = <<>>
  BY <1>1 DEF Level
<1>5. CASE pc' = "idle"
  BY <1>1, <1>2, <1>5 DEF Level
<1>6. CASE second' # <<>> /\ pc' = "finish"
  <2>1. c > 0
    <3> SUFFICES ASSUME c = 0 PROVE FALSE
      BY <1>3
    <3>1. second = <<>> /\ lastsi = NoSi
      BY <1>1 DEF IndexInv, Stage, LastMark
    <3>2. lastsi.milestone = 0 /\ 0 % Milestone = 0
      BY <3>1, Constants DEF NoSi
    <3>3. second' = <<>>
      BY <1>1, <3>1, <3>2 DEF WithLast
    <3> QED
      BY <1>6, <3>3
  <2>2. /\ lastsi \in Marks /\ lastsi.milestone = c - 1 /\ lastsi.key = CellAt(c - 1).key
        /\ lastsi.milestone % Milestone # 0 => \A i \in 1..Len(second) : second[i].milestone < c - 1
        /\ lastsi.milestone % Milestone = 0 => second # <<>> /\ second[Len(second)] = lastsi
    BY <1>1, <2>1 DEF IndexInv, Stage, LastMark, Content
  <2>3. l # 0 /\ l \in 1..l
    <3>1. l = 0 => l * M = 0
      BY <1>3
    <3>2. l # 0
      <4> SUFFICES ASSUME l = 0 PROVE FALSE
        OBVIOUS
      <4>1. c <= 0
        BY <1>4, <3>1
      <4> QED
        BY <1>3, <2>1, <4>1
    <3> QED
      BY <1>3, <3>2
  <2>4. /\ \A i \in 1..l : second[i].milestone \in 0..c - 1 /\ second[i].key = CellAt(second[i].milestone).key
        /\ \A i \in 1..l : second[i].milestone = (i - 1) * M
    BY <1>4 DEF Placed, Rows
  <2> DEFINE y == (l - 1) * M
             P == l * M
  <2>5. y \in Nat /\ P = y + M
    <3> DEFINE l1 == l - 1
    <3>1. l1 \in Nat /\ l1 + 1 = l
      BY <1>3, <2>3
    <3>2. l1 * M \in Nat /\ (l1 + 1) * M = l1 * M + M
      BY <1>3, <3>1, MulNat
    <3> QED
      BY <3>1, <3>2
  <2>6. Leveled(second)' <=>
          /\ second' # <<>>
          /\ \A i \in 1..Len(second') : second'[i].milestone \in 0..c - 1 /\ second'[i].key = CellAt(second'[i].milestone).key
          /\ \A i \in 1..Len(second') - 1 : second'[i].milestone = (i - 1) * M
          /\ second'[Len(second')].milestone = c - 1
          /\ c - 1 <= (Len(second') - 1) * M /\ (Len(second') > 1 => c - 1 > (Len(second') - 2) * M)
    <3>1. \A i : (CellAt(second[i].milestone))' = CellAt(second'[i].milestone)
      BY <1>1 DEF CellAt
    <3>2. Placed(second)' <=> \A i \in 1..Len(second') : second'[i].milestone \in 0..c - 1 /\ second'[i].key = CellAt(second'[i].milestone).key
      BY <1>3, <3>1 DEF Placed
    <3>3. Rows(second, Len(second) - 1)' <=> \A i \in 1..Len(second') - 1 : second'[i].milestone = (i - 1) * M
      BY DEF Rows
    <3> QED
      BY <1>3, <3>2, <3>3 DEF Leveled
  <2>7. CASE lastsi.milestone % Milestone = 0
    <3>1. second' = second /\ second # <<>> /\ second[l] = lastsi
      BY <1>1, <2>2, <2>7 DEF WithLast
    <3>2. c - 1 = y /\ second[l].milestone = c - 1
      BY <2>2, <2>3, <2>4, <3>1
    <3>3. l > 1 => c - 1 > (l - 2) * M
      <4> SUFFICES ASSUME l > 1 PROVE c - 1 > (l - 2) * M
        OBVIOUS
      <4>1. l - 2 \in Int /\ l - 1 \in Int /\ l - 2 < l - 1
        BY <1>3
      <4> DEFINE a == l - 2
                 b == l - 1
                 w == a * M
      <4>2. w + M <= b * M
        BY <1>3, <4>1, MulMono
      <4>3. w \in Int
        BY <1>3, <4>1
      <4>4. w + M <= y
        BY <4>2
      <4> HIDE DEF w, y, a, b
      <4>5. c - 1 > w
        BY <1>3, <2>5, <3>2, <4>3, <4>4
      <4> QED
        BY <4>5 DEF w, a
    <3>4. \A i \in 1..l - 1 : i \in 1..l
      BY <1>3
    <3>5. c - 1 <= (l - 1) * M
      <4> HIDE DEF y
      <4>1. c - 1 <= y
        BY <1>3, <3>2
      <4> QED
        BY <4>1 DEF y
    <3> HIDE DEF y, P
    <3>6. Leveled(second)'
      <4>1. \A i \in 1..l - 1 : second[i].milestone = (i - 1) * M
        BY <2>4, <3>4
      <4> QED
        BY <2>4, <2>6, <3>1, <3>2, <3>3, <3>5, <4>1
    <3> QED
      BY <1>1, <1>4, <1>6, <3>6 DEF Level
  <2>8. CASE lastsi.milestone % Milestone # 0
    <3>1. second' \in Seq(Marks) /\ Len(second') = l + 1 /\ second'[l + 1] = lastsi /\ \A i \in 1..l : second'[i] = second[i]
      <4>1. second' = Append(second, lastsi)
        BY <1>1, <2>8 DEF WithLast
      <4> QED
        BY <1>2, <2>2, <4>1
    <3>2. \A i \in 1..l + 1 : i \in 1..l \/ i = l + 1
      BY <1>3
    <3>3. c - 1 \in 0..c - 1
      BY <1>3, <2>1
    <3>4. \A i \in 1..l + 1 : second'[i].milestone \in 0..c - 1 /\ second'[i].key = CellAt(second'[i].milestone).key
      BY <2>2, <2>4, <3>1, <3>2, <3>3
    <3>5. (l + 1) - 1 = l /\ (l + 1) - 2 = l - 1
      BY <1>3
    <3>6. y < c - 1 /\ c - 1 <= P
      <4>1. second[l].milestone = y /\ second[l].milestone < c - 1
        BY <2>2, <2>3, <2>4, <2>8
      <4>2. c <= P
        BY <1>4
      <4> HIDE DEF y, P
      <4> QED
        BY <1>3, <2>5, <4>1, <4>2
    <3>7. c - 1 > (l - 1) * M
      <4> HIDE DEF y, P
      <4>1. c - 1 > y
        BY <1>3, <2>5, <3>6
      <4> QED
        BY <4>1 DEF y
    <3>8. Leveled(second)'
      <4>1. \A i \in 1..l : second'[i].milestone = (i - 1) * M
        BY <2>4, <3>1
      <4>2. second'[l + 1].milestone = c - 1 /\ c - 1 <= l * M
        BY <2>2, <3>1, <3>6
      <4> HIDE DEF y, P
      <4> QED
        BY <1>6, <2>6, <3>1, <3>4, <3>5, <3>7, <4>1, <4>2
    <3> QED
      BY <1>1, <1>4, <1>6, <3>8 DEF Level
  <2> QED
    BY <2>7, <2>8
<1> QED
  BY <1>1, <1>5, <1>6

\* A record is written.
LEMMA LevelFinishWrite ==
  ASSUME IndexInv, Level, FinishWrite
  PROVE  Level'
<1>1. /\ pc = "finish" /\ UNCHANGED <<fb, dat, second, cache>>
      /\ \/ pc' = pc
         \/ ~(Len(sfile) < Len(second)) /\ pc' = "idle" /\ sfile' = sfile
  BY DEF FinishWrite
<1>2. Leveled(second)' /\ cache' = <<>>
  BY <1>1, LevelKept DEF Level
<1>3. ~(Len(sfile) < Len(second)) => sfile = second
  <2> SUFFICES ASSUME ~(Len(sfile) < Len(second)) PROVE sfile = second
    OBVIOUS
  <2>1. sfile \in Seq(Marks) /\ second \in Seq(Marks) /\ Begins(sfile, second)
    BY <1>1 DEF IndexInv, Stage, Types
  <2>2. Len(sfile) = Len(second) /\ \A i \in 1..Len(sfile) : sfile[i] = second[i]
    BY <2>1 DEF Begins
  <2> QED
    BY <2>1, <2>2
<1>4. \A b \in DOMAIN cache' : cache'[b] = FbGet(b, Milestone)'
  <2>1. DOMAIN cache' = {}
    BY <1>2
  <2> QED
    BY <2>1
<1> QED
  BY <1>1, <1>2, <1>3, <1>4 DEF Level

\* Death and restart.
LEMMA LevelRestart ==
  ASSUME IndexInv, Level, Restart
  PROVE  Level'
<1>1. PICK s : s = IF sfile = NoFile THEN <<>> ELSE sfile
  OBVIOUS
<1>2. /\ second' = s /\ pc' = "idle" /\ cache' = <<>>
      /\ \/ /\ Complete(s) /\ fb' = FbOpened /\ dat' = DatOpened /\ sfile' = sfile
         \/ /\ ~Complete(s)
      /\ done' = (done \/ (pc = "finish" /\ sfile = second))
  BY <1>1 DEF Restart
<1>3. \A b \in DOMAIN cache' : cache'[b] = FbGet(b, Milestone)'
  <2>1. DOMAIN cache' = {}
    BY <1>2
  <2> QED
    BY <2>1
<1>4. ASSUME done' PROVE Leveled(second)' /\ second' = sfile'
  <2>1. s = sfile /\ s # <<>> /\ Covers(s) /\ Listed /\ (done \/ (pc = "finish" /\ sfile = second))
    BY <1>1, <1>2, <1>4, WhatIsRead
  <2>2. CellCount \in Nat /\ s[Len(s)].milestone = CellCount - 1
    BY <2>1, CountIs DEF IndexInv, Types, Covers
  <2>3. Complete(s)
    BY <2>1, <2>2 DEF Complete, Last
  <2>4. CellCount > 0
    <3>1. s \in Seq(Marks) /\ Len(s) \in 1..Len(s)
      BY <1>1, <2>1, WhatIsRead
    <3>2. s[Len(s)] \in Marks
      BY <3>1
    <3> QED
      BY <2>2, <3>2, Constants DEF Marks
  <2>5. fb' = fb /\ dat' = dat /\ sfile' = sfile
    BY <1>2, <2>1, <2>3, <2>4, Opened
  <2>6. second = s /\ Leveled(second)
    <3>1. pc = "finish" \/ (pc = "idle" /\ done)
      BY <2>1 DEF IndexInv, Stage, Types
    <3> QED
      BY <2>1, <3>1 DEF Level, IndexInv, Stage
  <2> QED
    BY <1>2, <2>1, <2>5, <2>6, LevelKept
<1> QED
  BY <1>2, <1>3, <1>4 DEF Level

\* The second level is what it should be in every state.
THEOREM LevelHolds == Spec => [](IndexInv /\ Level)
<1>1. Init => IndexInv /\ Level
  BY InitHolds, LevelInit
<1>2. ASSUME IndexInv, Level, [Next]_vars PROVE IndexInv' /\ Level'
  <2>1. IndexInv'
    BY <1>2, IndexInvStep
  <2>2. ASSUME NEW k \in Terms, Query(k) PROVE Level'
    BY <1>2, <2>2, LevelQuery
  <2>3. CASE ClearBegin
    BY <1>2, <2>1, <2>3, LevelClearBegin
  <2>4. CASE ClearEnd
    BY <1>2, <2>1, <2>4, LevelClearEnd
  <2>5. ASSUME NEW k \in Terms, NEW n \in Lens, SetList(k, n) PROVE Level'
    BY <1>2, <2>5, LevelSetList
  <2>6. CASE FinishBegin
    BY <1>2, <2>1, <2>6, LevelFinishBegin
  <2>7. CASE FinishWrite
    BY <1>2, <2>1, <2>7, LevelFinishWrite
  <2>8. CASE Restart
    BY <1>2, <2>1, <2>8, LevelRestart
  <2>9. CASE UNCHANGED vars
    <3>1. UNCHANGED <<fb, dat, second, pc, done, sfile, cache>>
      BY <2>9 DEF vars, iVars
    <3>2. (Leveled(second)' <=> Leveled(second)) /\ (\A b, n : FbGet(b, n)' = FbGet(b, n)) /\ CellCount' = CellCount
      BY <3>1, LevelKept, Untouched
    <3>3. Placed(second)' <=> Placed(second)
      BY <3>1 DEF Placed, CellAt, CellCount
    <3>4. Rows(second, Len(second))' <=> Rows(second, Len(second))
      BY <3>1 DEF Rows
    <3> QED
      BY <1>2, <2>1, <3>1, <3>2, <3>3, <3>4 DEF Level
  <2> QED
    BY <1>2, <2>1, <2>2, <2>3, <2>4, <2>5, <2>6, <2>7, <2>8, <2>9 DEF Next
<1> QED
  BY <1>1, <1>2, PTL DEF Spec
-----------------------------------------------------------------------------
(***************************************************************************)
(* Part 8.  A term is looked up.                                           *)
(***************************************************************************)
\* lower_bound finds the first mark that is not less.
LEMMA LowerBoundIs ==
  ASSUME NEW k \in Terms, second \in Seq(Marks), second # <<>>, k <= second[Len(second)].key
  PROVE  /\ LowerBound(k) \in 1..Len(second) /\ second[LowerBound(k)].key >= k
         /\ \A j \in 1..LowerBound(k) - 1 : second[j].key < k
<1> DEFINE L == Len(second)
           S == {i \in Nat : i \in 1..L /\ second[i].key >= k}
<1>1. L \in Nat /\ L \in 1..L /\ \A i \in 1..L : second[i] \in Marks
  OBVIOUS
<1>2. \A i \in 1..L : second[i].key \in Int /\ k \in Int
  BY <1>1 DEF Marks, Terms
<1>3. L \in S /\ S \subseteq Nat
  BY <1>1, <1>2
<1> HIDE DEF S
<1>4. PICK x \in S : \A y \in S : ~(<<y, x>> \in OpToRel(<, Nat))
  BY <1>3, NatLessThanWellFounded, WFMin
<1>5. \A y \in S : ~(y < x)
  BY <1>3, <1>4 DEF OpToRel
<1>6. x \in Nat /\ x \in 1..L /\ second[x].key >= k
  BY DEF S
<1>7. \A j \in 1..x - 1 : second[j].key < k
  <2> TAKE j \in 1..x - 1
  <2>1. j \in Nat /\ j \in 1..L /\ j < x
    BY <1>1, <1>6
  <2>2. ~(second[j].key >= k)
    BY <1>5, <2>1 DEF S
  <2> QED
    BY <1>2, <2>1, <2>2
<1>8. x \in DOMAIN second /\ DOMAIN second = 1..L
  BY <1>6
<1> DEFINE Q(i) == i \in DOMAIN second /\ second[i].key >= k /\ \A j \in 1..i - 1 : second[j].key < k
<1>9. Q(x)
  BY <1>6, <1>7, <1>8
<1>10. LowerBound(k) = CHOOSE i : Q(i)
  BY DEF LowerBound
<1>11. Q(LowerBound(k))
  <2> HIDE DEF Q
  <2> QED
    BY <1>9, <1>10
<1> QED
  BY <1>8, <1>11

\* The block of a term in the range of the index: where it begins, and that it has the term.
LEMMA BlockHas ==
  ASSUME IndexInv, Level, done, pc = "idle", NEW k \in Terms, InRange(k)
  PROVE  /\ BlockNo(k) \in 0..CellCount - 1
         /\ k \in DOMAIN built => \E j \in 0..CellCount - 1 : CellAt(j).key = k /\ BlockNo(k) <= j /\ j < BlockNo(k) + Milestone
<1> DEFINE N == CellCount
           L == Len(second)
           M == Milestone
           i == LowerBound(k)
           m == second[i].milestone
           e == second[i].key
           b == BlockNo(k)
<1>1. Files /\ Listed /\ second \in Seq(Marks) /\ Leveled(second)
  BY DEF IndexInv, Types, Content, Level
<1>2. N \in Nat /\ M \in Nat \ {0}
  BY <1>1, CountIs, Constants
<1>3. second # <<>> /\ k >= second[1].key /\ k <= second[L].key
  BY DEF InRange, Last
<1>4. /\ i \in 1..L /\ e >= k /\ \A j \in 1..i - 1 : second[j].key < k
  BY <1>1, <1>3, LowerBoundIs
<1> HIDE DEF i
<1>5. L \in Nat /\ 1 \in 1..L
  BY <1>1, <1>3
<1>6. \A j \in 1..L : second[j].milestone \in 0..N - 1 /\ second[j].key = CellAt(second[j].milestone).key
  BY <1>1 DEF Leveled, Placed
<1>7. m \in 0..N - 1 /\ e = CellAt(m).key
  BY <1>4, <1>6
<1>8. \A j \in 0..N - 1 : CellAt(j).key \in Int
  BY <1>1, CellPlace DEF Cells, Terms
<1>9. k \in Int /\ e \in Int
  BY <1>7, <1>8 DEF Terms
<1>10. b = IF e = k THEN m ELSE IF m < M THEN 0 ELSE m - M
  BY DEF BlockNo, i
<1> HIDE DEF b, e, m
<1>11. CASE e = k
  <2>1. b = m
    BY <1>10, <1>11
  <2>2. m \in 0..N - 1 /\ m <= m /\ m < m + M
    BY <1>2, <1>7
  <2>3. CellAt(m).key = k
    BY <1>7, <1>11
  <2> QED
    BY <2>1, <2>2, <2>3 DEF b
<1>12. CASE e # k
  <2>1. i # 1
    <3> SUFFICES ASSUME i = 1 PROVE FALSE
      OBVIOUS
    <3>1. e = second[1].key
      BY DEF e
    <3> QED
      BY <1>3, <1>4, <1>9, <1>12, <3>1
  <2>2. i \in Nat /\ i - 1 \in 1..i - 1 /\ i - 1 \in 1..L - 1 /\ i - 1 \in 1..L
    BY <1>4, <1>5, <2>1
  <2> DEFINE a == second[i - 1].milestone
  <2>3. second[i - 1].key < k
    BY <1>4, <2>2
  <2>4. a \in 0..N - 1 /\ CellAt(a).key < k
    BY <1>6, <2>2, <2>3
  <2>5. a = ((i - 1) - 1) * M
    BY <1>1, <2>2 DEF Leveled, Rows
  <2>6. (i - 1) * M = a + M
    <3> DEFINE q == (i - 1) - 1
    <3>1. q \in Nat /\ q + 1 = i - 1
      BY <2>2
    <3>2. (q + 1) * M = q * M + M
      BY <1>2, <3>1, MulNat
    <3> QED
      BY <2>5, <3>1, <3>2
  <2> HIDE DEF a
  <2>7. m <= a + M
    <3>1. CASE i = L
      <4>1. m = N - 1 /\ N - 1 <= (L - 1) * M
        BY <1>1, <3>1 DEF Leveled, m
      <4> QED
        BY <2>6, <3>1, <4>1
    <3>2. CASE i # L
      <4>1. i \in 1..L - 1
        BY <1>4, <1>5, <3>2
      <4>2. m = (i - 1) * M
        BY <1>1, <4>1 DEF Leveled, Rows, m
      <4>3. m = a + M
        BY <2>6, <4>2
      <4> QED
        BY <1>2, <1>7, <4>3
    <3> QED
      BY <3>1, <3>2
  <2>8. b = IF m < M THEN 0 ELSE m - M
    BY <1>10, <1>12
  <2>9. b \in 0..N - 1 /\ b <= a /\ m <= b + M
    BY <1>2, <1>7, <2>4, <2>7, <2>8
  <2>10. ASSUME k \in DOMAIN built PROVE \E j \in 0..N - 1 : CellAt(j).key = k /\ b <= j /\ j < b + M
    <3>1. PICK j \in 0..N - 1 : CellAt(j).key = k
      BY <1>1, <2>10 DEF Listed
    <3>2. \A x, y \in 0..N - 1 : x < y => CellAt(x).key < CellAt(y).key
      BY <1>1 DEF Listed
    <3>3. a < j
      <4>1. j < a => k < CellAt(a).key
        BY <2>4, <3>1, <3>2
      <4>2. j = a => CellAt(a).key = k
        BY <3>1
      <4> QED
        BY <1>8, <1>9, <2>4, <4>1, <4>2
    <3>4. j < m
      <4>1. m < j => e < k
        BY <1>7, <3>1, <3>2
      <4>2. j = m => e = k
        BY <1>7, <3>1
      <4> QED
        BY <1>4, <1>7, <1>9, <1>12, <4>1, <4>2
    <3>5. b <= j /\ j < b + M
      BY <1>2, <1>7, <2>4, <2>9, <3>3, <3>4
    <3> QED
      BY <3>1, <3>5
  <2> QED
    BY <2>9, <2>10 DEF b
<1> QED
  BY <1>11, <1>12

\* A term outside the range is in no list.
LEMMA OutOfRange ==
  ASSUME IndexInv, Level, done, pc = "idle", NEW k \in Terms, k \in DOMAIN built
  PROVE  InRange(k)
<1> DEFINE N == CellCount
           L == Len(second)
           M == Milestone
<1>1. Files /\ Listed /\ second \in Seq(Marks) /\ Leveled(second)
  BY DEF IndexInv, Types, Content, Level
<1>a. L \in Nat
  BY <1>1
<1>2. N \in Nat /\ M \in Nat \ {0} /\ L \in Nat
  BY <1>1, <1>a, CountIs, Constants
<1>3. second # <<>> /\ L \in 1..L /\ 1 \in 1..L
  BY <1>1 DEF Leveled
<1>4. \A j \in 1..L : second[j].milestone \in 0..N - 1 /\ second[j].key = CellAt(second[j].milestone).key
  BY <1>1 DEF Leveled, Placed
<1>5. second[1].milestone = 0
  <2>1. CASE L = 1
    <3>1. N - 1 <= (1 - 1) * M /\ second[1].milestone \in 0..N - 1
      BY <1>1, <1>3, <1>4, <2>1 DEF Leveled
    <3>2. (1 - 1) * M = 0
      BY <1>2
    <3> QED
      BY <1>2, <3>1, <3>2
  <2>2. CASE L # 1
    <3>1. 1 \in 1..L - 1
      <4>1. L \in Nat /\ L # 1 /\ L >= 1
        BY <1>2, <1>3, <2>2
      <4> HIDE DEF L
      <4> QED
        BY <4>1
    <3>2. second[1].milestone = (1 - 1) * M
      BY <1>1, <3>1 DEF Leveled, Rows
    <3> QED
      BY <1>2, <3>2
  <2> QED
    BY <2>1, <2>2
<1>6. second[L].milestone = N - 1
  BY <1>1 DEF Leveled
<1>7. second[1].key = CellAt(0).key /\ second[L].key = CellAt(N - 1).key /\ 0 \in 0..N - 1 /\ N - 1 \in 0..N - 1
  BY <1>3, <1>4, <1>5, <1>6
<1>8. PICK j \in 0..N - 1 : CellAt(j).key = k
  BY <1>1 DEF Listed
<1>9. \A x, y \in 0..N - 1 : x < y => CellAt(x).key < CellAt(y).key
  BY <1>1 DEF Listed
<1>10. CellAt(0).key \in Int /\ CellAt(N - 1).key \in Int /\ k \in Int
  BY <1>1, <1>7, CellPlace DEF Cells, Terms
<1>11. k >= CellAt(0).key
  <2>1. j = 0 \/ 0 < j
    BY <1>2
  <2>2. 0 < j => CellAt(0).key < k
    BY <1>7, <1>8, <1>9
  <2>3. j = 0 => CellAt(0).key = k
    BY <1>8
  <2> QED
    BY <1>10, <2>1, <2>2, <2>3
<1>12. k <= CellAt(N - 1).key
  <2>1. j = N - 1 \/ j < N - 1
    BY <1>2
  <2>2. j < N - 1 => k < CellAt(N - 1).key
    BY <1>7, <1>8, <1>9
  <2>3. j = N - 1 => CellAt(N - 1).key = k
    BY <1>8
  <2> QED
    BY <1>10, <2>1, <2>2, <2>3
<1> QED
  BY <1>3, <1>7, <1>11, <1>12 DEF InRange, Last

\* The answer of get_posting_list.
LEMMA LookupIs ==
  ASSUME IndexInv, Level, done, pc = "idle", ~FilesWrap, NEW k \in Terms, InRange(k)
  PROVE  \/ k \in DOMAIN built /\ Lookup(k) = built[k]
         \/ ~(k \in DOMAIN built) /\ Lookup(k) = NotFound
         \/ Spread(k) /\ Lookup(k) = NotFound
<1> DEFINE N == CellCount
           M == Milestone
           b == BlockNo(k)
           hi == Mn(b + M, N)
           s == Block(k)
           n == Len(s)
           v == Bsearch(k, s)
           h == 2^(Bits - 1)
<1>1. Files /\ Listed /\ readonly /\ (\A t \in DOMAIN built : built[t] \in Seq(Bytes))
  BY DEF IndexInv, Types, Content, Stage
<1>2. N \in Nat /\ M \in Nat \ {0}
  BY <1>1, CountIs, Constants
<1>3. b \in 0..N - 1 /\ (k \in DOMAIN built => \E j \in 0..N - 1 : CellAt(j).key = k /\ b <= j /\ j < b + M)
  BY BlockHas
<1>4. s = FbGet(b, M) /\ FbGet(b, M) = Run(b, hi)
  <2>1. FbGet(b, M) = Run(b, hi)
    BY <1>1, <1>2, <1>3, FbGetIs
  <2>2. s = FbGet(b, M)
    BY DEF Block, Level
  <2> QED
    BY <2>1, <2>2
<1> HIDE DEF b, s
<1>5. hi \in Nat /\ b < hi /\ hi <= N /\ (\A j \in 0..N - 1 : j < b + M => j < hi)
  BY <1>2, <1>3 DEF Mn
<1> HIDE DEF hi
<1>6. s = [p \in 1..hi - b |-> CellAt(b + p - 1)]
  BY <1>4 DEF Run
<1>7. \A p \in 1..hi - b : b + p - 1 \in 0..N - 1
  BY <1>2, <1>3, <1>5
<1>8. \A p \in 1..hi - b : CellAt(b + p - 1) \in Cells
  BY <1>1, <1>7, CellPlace
<1>9. s \in Seq(Cells) /\ n = hi - b /\ n \in Nat \ {0}
  <2>1. hi - b \in Nat \ {0}
    BY <1>2, <1>3, <1>5
  <2> QED
    BY <1>6, <1>8, <2>1
<1>10. \A p \in 1..n : s[p] = CellAt(b + p - 1) /\ s[p] \in Cells /\ b + p - 1 \in 0..N - 1
  BY <1>6, <1>7, <1>8, <1>9
<1>11. \A p \in 1..n : s[p].key \in Terms
  BY <1>10 DEF Cells
<1> HIDE DEF n
<1>12. Answers(k, s, <<0, n>>, v)
  BY <1>9, <1>11, BsearchFinds DEF n
<1>13. Lookup(k) = IF v = 0 THEN NotFound ELSE DatGet(s[v].idx)
  <2>1. s # <<>>
    BY <1>9 DEF n
  <2> QED
    BY <1>1, <2>1 DEF Lookup, s
<1> HIDE DEF v
<1>14. CASE v # 0
  <2>1. v \in 1..n /\ s[v].key = k
    BY <1>12, <1>14 DEF Answers, n
  <2>2. PICK j \in 0..N - 1 : s[v] = CellAt(j)
    BY <1>10, <2>1
  <2>3. k \in DOMAIN built /\ Stored(s[v].idx, built[k])
    BY <1>1, <2>1, <2>2 DEF Listed
  <2>4. s[v].idx \in Idxs
    BY <1>10, <2>1 DEF Cells
  <2>5. DatGet(s[v].idx) = built[k]
    BY <1>1, <2>3, <2>4, DatGetIs
  <2> QED
    BY <1>13, <1>14, <2>3, <2>5
<1>15. CASE v = 0 /\ k \in DOMAIN built
  <2>1. PICK j \in 0..N - 1 : CellAt(j).key = k /\ b <= j /\ j < b + M
    BY <1>3, <1>15
  <2> DEFINE p == (j - b) + 1
  <2>2. p \in 1..n /\ b + p - 1 = j
    BY <1>2, <1>3, <1>5, <1>9, <2>1
  <2>3. s[p].key = k
    BY <1>10, <2>1, <2>2
  <2>4. ~Near(k, s)
    <3> SUFFICES ASSUME Near(k, s) PROVE FALSE
      OBVIOUS
    <3>1. <<0, n>>[1] < p /\ p <= <<0, n>>[2]
      BY <1>9, <2>2
    <3> HIDE DEF p
    <3>2. v # 0
      BY <1>12, <2>2, <2>3, <3>1 DEF Answers, n
    <3> QED
      BY <1>15, <3>2
  <2> HIDE DEF p
  <2>5. \A x, y \in 1..n : x < y => s[x].key < s[y].key
    <3> TAKE x, y \in 1..n
    <3> HAVE x < y
    <3>1. b + x - 1 < b + y - 1 /\ b + x - 1 \in 0..N - 1 /\ b + y - 1 \in 0..N - 1
      BY <1>2, <1>3, <1>10, <1>9
    <3> QED
      BY <1>1, <1>10, <3>1 DEF Listed
  <2>6. PICK x \in 1..n : ~(s[x].key - k < h /\ k - s[x].key < h)
    BY <2>4, <2>5 DEF Near, n
  <2>7. s[x].key \in Int /\ k \in Int /\ h \in Nat
    BY <1>11, IndexAssumption DEF Terms
  <2>8. s[x].key - k >= h \/ k - s[x].key >= h
    <3> HIDE DEF h
    <3> QED
      BY <2>6, <2>7
  <2>9. Spread(k)
    <3> DEFINE keys == {c.key : c \in Range(s)} \cup {k}
    <3>1. s[x] \in Range(s)
      BY <1>9 DEF Range, n
    <3>2. s[x].key \in keys /\ k \in keys
      BY <3>1
    <3>3. Spread(k) <=> \E y, z \in keys : y - z >= h
      BY <1>4 DEF Spread, b
    <3> HIDE DEF keys
    <3> QED
      BY <2>8, <3>2, <3>3
  <2> QED
    BY <1>13, <1>15, <2>9
<1>16. CASE v = 0 /\ ~(k \in DOMAIN built)
  BY <1>13, <1>16
<1> QED
  BY <1>14, <1>15, <1>16

\* FindsAll, for all sizes of files and milestones, widths and lengths: a finished index finds
\* every term with its list, and no other, from the file and from the cache; but for the two
\* limits of the code, file_no and ikey_comp, and even then no wrong list is returned.
THEOREM FindsAllHolds == Spec => []FindsAll
<1>1. ASSUME IndexInv, Level PROVE FindsAll
  <2> SUFFICES ASSUME done, pc = "idle", ~FilesWrap, NEW k \in Terms
               PROVE  LET should == IF k \in DOMAIN built THEN built[k] ELSE NotFound
                      IN  Lookup(k) = should \/ (InRange(k) /\ Spread(k) /\ Lookup(k) = NotFound)
    BY DEF FindsAll
  <2>1. CASE InRange(k)
    BY <1>1, <2>1, LookupIs
  <2>2. CASE ~InRange(k)
    <3>1. ~(k \in DOMAIN built)
      BY <1>1, <2>2, OutOfRange
    <3>2. Lookup(k) = NotFound
      BY <2>2 DEF Lookup
    <3> QED
      BY <3>1, <3>2
  <2> QED
    BY <2>1, <2>2
<1> QED
  BY <1>1, LevelHolds, PTL
=============================================================================
