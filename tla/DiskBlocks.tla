----------------------------- MODULE DiskBlocks -----------------------------
(***************************************************************************)
(* The two kinds of files under a disk index: fileblock, an array of cells *)
(* of one size spread over numbered files, and diskv, byte strings that    *)
(* are appended to numbered files and found again by file number, offset   *)
(* and length.                                                             *)
(***************************************************************************)
EXTENDS Integers, Sequences, SequencesExt

CONSTANTS
  CellsPerFile,  \* m_cell_num_per_file
  DatMax,        \* MAX_FILE_SIZE of diskv
  FileBits       \* width of diskv_idx_t.file_no

\* (That a power of two is a positive number is said for the provers.)
ASSUME BlocksAssumption ==
  /\ CellsPerFile \in Nat \ {0} /\ DatMax \in Nat \ {0} /\ FileBits \in Nat /\ 2^FileBits \in Nat \ {0}

VARIABLES
  fb,   \* the files of the fileblock, each a sequence of cells; there is always one
  dat   \* the files of diskv, each a sequence of bytes

-----------------------------------------------------------------------------
\* fileblock::get_cell_count: all files but the last are full.
CellCount == (Len(fb) - 1) * CellsPerFile + Len(Last(fb))

\* fileblock::set(CellCount, c): the cell behind the last one.
FbAppended(c) ==
  IF CellCount \div CellsPerFile = Len(fb)
    THEN Append(fb, <<c>>)
    ELSE [fb EXCEPT ![Len(fb)] = Append(@, c)]

\* pread of up to n cells of file f (counted from 0).
FbPread(f, from, n) ==
  LET s == fb[f + 1]
      to == IF from + n < Len(s) THEN from + n ELSE Len(s)
  IN SubSeq(s, from + 1, to)

\* fileblock::get(o, n): n cells from cell o on, file after file.
FbGet(o, n) ==
  LET part(f) == LET from == IF f = o \div CellsPerFile THEN o % CellsPerFile ELSE 0
                     past == IF f = o \div CellsPerFile THEN 0 ELSE f * CellsPerFile - o
                     most == IF n - past < CellsPerFile - from THEN n - past ELSE CellsPerFile - from
                 IN IF most <= 0 THEN <<>> ELSE FbPread(f, from, most)
      first == o \div CellsPerFile
  IN FlattenSeq([i \in 1..Len(fb) - first |-> part(first + i - 1)])

\* The iterator (begin, itget, next, is_end): the cell it points at, and where it ends.
FbItGet(i) == FbGet(i, 1)[1]
FbIsEnd(i) == i = CellCount

\* The constructor goes on behind the highest numbered file it finds.
FbOpened == IF fb = <<>> THEN <<<<>>>> ELSE fb

-----------------------------------------------------------------------------
\* check_new_file: the data does not fit, or there is no file.
DatNewFile(n) == dat = <<>> \/ Len(Last(dat)) + n > DatMax

\* diskv::set: the data goes behind the last byte.
DatAppended(s) ==
  IF DatNewFile(Len(s)) THEN Append(dat, s) ELSE [dat EXCEPT ![Len(dat)] = @ \o s]

\* Mutant: the offset behind the data.
DatIdxBehind(s) ==
  [file |-> (Len(DatAppended(s)) - 1) % 2^FileBits,
   off |-> Len(Last(DatAppended(s))), len |-> Len(s)]

\* The diskv_idx_t it returns; the number of the file is cut to its width.
DatIdx(s) ==
  [file |-> (Len(DatAppended(s)) - 1) % 2^FileBits,
   off |-> Len(Last(DatAppended(s))) - Len(s), len |-> Len(s)]

\* The constructor: as for a fileblock; the first file is made.
DatOpened == IF dat = <<>> THEN <<<<>>>> ELSE dat

\* diskv::clear: no file is left.
DatCleared == <<>>

\* diskv::get.
DatGet(x) ==
  IF x.file >= Len(dat) \/ (x.file = Len(dat) - 1 /\ x.off + x.len > Len(Last(dat)))
    THEN <<>>
    ELSE LET s == dat[x.file + 1]
             to == IF x.off + x.len < Len(s) THEN x.off + x.len ELSE Len(s)
         IN SubSeq(s, x.off + 1, to)
=============================================================================
