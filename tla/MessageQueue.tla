---------------------------- MODULE MessageQueue ----------------------------
(***************************************************************************)
(* The queue files (utils/filelinkblock): the queue server appends blocks  *)
(* to the newest file and goes to a new file when one is full; a sender in *)
(* another process polls the files and reads block after block.  The       *)
(* writer may die in the middle of a block; the next one repairs the file. *)
(*                                                                         *)
(* A file is a sequence of cells.  A block is one head cell and the cells  *)
(* of its body; a cell names the attempt (the call of write_message) that  *)
(* wrote it and its place in the block, so it stands for the bytes and for *)
(* their check sum.                                                        *)
(***************************************************************************)
EXTENDS Integers, Sequences, Functions

CONSTANTS
  Lens,       \* lengths of blocks in cells, head included
  BlockMax,   \* BLOCK_MAX_SIZE in cells
  FileMax,    \* FILE_MAX_SIZE in cells
  MaxWrites,  \* calls of write_message, one less for each seek of the reader (bound)
  MaxDeaths,  \* deaths of the writer (bound)
  MaxSeeks    \* restarts and roll-backs of the reader (bound)

ASSUME SizesAssumption ==
  /\ BlockMax \in Nat /\ FileMax \in Nat /\ BlockMax <= FileMax
  /\ Lens \subseteq 2..BlockMax
ASSUME BoundsAssumption == MaxWrites \in Nat /\ MaxDeaths \in Nat /\ MaxSeeks \in Nat

VARIABLES
  files,    \* the files, files[i] is name.(i-1)
  blocks,   \* the attempts so far: [id, file, len], as in their heads
  acked,    \* attempts whose write_message returned
  wpc,      \* the writer: "idle", "write" (in writev), "down", "failed"
  wpos,     \* offset of m_flb_w_fd
  wid,      \* m_block_id
  wrest,    \* cells of the block that writev still has to write
  rpc,      \* the reader: "look", "body" (in readn), "dead" (MySuicideAssert)
  rfile,    \* m_flb_read_file_no + 1
  roff,     \* m_flb_read_offset
  rid,      \* m_flb_read_block_id
  tries,    \* try_count, 3 stands for more
  buf,      \* cells of the block being read
  saved,    \* the channel's offset file
  seeks,    \* restarts and roll-backs so far
  deaths,   \* deaths of the writer so far
  torn,     \* history: attempts cut short by a death
  got,      \* history: attempts returned since the last seek
  garbled,  \* history: the attempts mixed in a returned block
  missed,   \* history: attempts put into a file between the reader's last look at it
            \* and its leaving it
  looked    \* history: attempts in the file when the reader last looked at it

wVars == <<files, blocks, acked, wpc, wpos, wid, wrest, deaths, torn>>
rVars == <<rpc, rfile, roff, rid, tries, buf, saved, seeks, got, garbled, missed, looked>>
vars == <<wVars, rVars>>

NewestFile == Len(files)
Cell(a, k) == [by |-> a, nth |-> k]

\* A block whose check sum holds begins at offset o of file f.
Whole(f, o) ==
  /\ o < Len(f) /\ f[o + 1].nth = 0
  /\ LET a == f[o + 1].by IN
       /\ o + blocks[a].len <= Len(f)
       /\ \A k \in 0..blocks[a].len - 1 : f[o + 1 + k] = Cell(a, k)

\* The offsets at which the blocks begin, going from one whole block to the next.
Chain(f) ==
  LET from[o \in 0..Len(f)] ==
        IF Whole(f, o) THEN <<o>> \o from[o + blocks[f[o + 1].by].len] ELSE <<>>
  IN from[0]

-----------------------------------------------------------------------------
(***************************************************************************)
(* The writer.                                                             *)
(***************************************************************************)
Fits(n) == wpos + n <= FileMax

\* Mutant: the ids go on in the new file.
BeginWriteKeepsId(n) ==
  /\ wpc = "idle" /\ Len(blocks) + seeks < MaxWrites
  /\ IF Fits(n) THEN UNCHANGED <<files, wpos, wid>>
                ELSE files' = Append(files, <<>>) /\ wpos' = 0 /\ UNCHANGED wid
  /\ blocks' = Append(blocks, [id |-> wid', file |-> Len(files'), len |-> n])
  /\ wpc' = "write" /\ wrest' = n
  /\ UNCHANGED <<acked, deaths, torn, rVars>>

\* __write_message up to writev, under m_mutex.  A block that does not fit goes
\* to a new file, which exists before the block is in it.
BeginWrite(n) ==
  /\ wpc = "idle" /\ Len(blocks) + seeks < MaxWrites
  /\ IF Fits(n) THEN UNCHANGED <<files, wpos, wid>>
                ELSE files' = Append(files, <<>>) /\ wpos' = 0 /\ wid' = 1
  /\ blocks' = Append(blocks, [id |-> wid', file |-> Len(files'), len |-> n])
  /\ wpc' = "write" /\ wrest' = n
  /\ UNCHANGED <<acked, deaths, torn, rVars>>

\* writev puts one more cell into the file, over an old one if there is one.
WriteCell ==
  /\ wpc = "write" /\ wrest > 0
  /\ LET a == Len(blocks)
         c == Cell(a, blocks[a].len - wrest)
         f == files[NewestFile]
     IN files' = [files EXCEPT ![NewestFile] =
                    IF wpos < Len(f) THEN [f EXCEPT ![wpos + 1] = c] ELSE Append(f, c)]
  /\ wpos' = wpos + 1 /\ wrest' = wrest - 1
  /\ UNCHANGED <<blocks, acked, wpc, wid, deaths, torn, rVars>>

\* writev returned: the next id, the mutex released, the client answered.
EndWrite ==
  /\ wpc = "write" /\ wrest = 0
  /\ wpc' = "idle" /\ wid' = wid + 1 /\ acked' = acked \cup {Len(blocks)}
  /\ UNCHANGED <<files, blocks, wpos, wrest, deaths, torn, rVars>>

\* The queue server dies, or finds that writev wrote too little and kills itself.
WriterDies ==
  /\ wpc \in {"idle", "write"} /\ deaths < MaxDeaths
  /\ deaths' = deaths + 1
  /\ torn' = IF wpc = "write" /\ wrest > 0 THEN torn \cup {Len(blocks)} ELSE torn
  /\ wpc' = "down" /\ wrest' = 0
  /\ UNCHANGED <<files, blocks, acked, wpos, wid, rVars>>

\* Mutant: one block's length of the tail is searched.
LowShort(f) == IF Len(f) >= BlockMax THEN Len(f) - BlockMax ELSE 0

\* Where the search for the last good block ends.
Low(f) == IF Len(f) >= 2 * BlockMax THEN Len(f) - 2 * BlockMax ELSE 0

\* Mutant: the first good block found from the front is taken.
EndBlockFirst(f) ==
  LET good == {o \in Low(f)..Len(f) - 1 : Whole(f, o)}
  IN IF good = {} THEN good ELSE {CHOOSE o \in good : \A p \in good : p >= o}

\* The offset of the last good block, if there is one ("最后一块正确").
EndBlock(f) ==
  LET good == {o \in Low(f)..Len(f) - 1 : Whole(f, o)}
  IN IF good = {} THEN good ELSE {CHOOSE o \in good : \A p \in good : p <= o}

\* The next queue server: check_and_repaire.  It goes on behind the last good
\* block of the newest file and leaves in place what comes after it; a file
\* without a good block is emptied.
Repair ==
  /\ wpc = "down"
  /\ LET f == files[NewestFile] IN
       \/ /\ Len(f) <= 1 \/ (EndBlock(f) = {} /\ Low(f) = 0)
          /\ files' = [files EXCEPT ![NewestFile] = <<>>]
          /\ wpos' = 0 /\ wid' = 1 /\ wpc' = "idle"
       \/ /\ Len(f) > 1 /\ EndBlock(f) = {} /\ Low(f) > 0
          /\ wpc' = "failed" /\ UNCHANGED <<files, wpos, wid>>
       \/ /\ Len(f) > 1
          /\ \E o \in EndBlock(f) :
               LET b == blocks[f[o + 1].by]
               IN wpos' = o + b.len /\ wid' = b.id + 1
          /\ wpc' = "idle" /\ UNCHANGED files
  /\ UNCHANGED <<blocks, acked, wrest, deaths, torn, rVars>>

-----------------------------------------------------------------------------
(***************************************************************************)
(* The reader: read_message.                                               *)
(***************************************************************************)
File == files[rfile]
Newer == rfile < NewestFile

\* Mutant: a newer file is enough to leave this one.
LeavesAtOnce == Newer

\* The test at the head of the loop: the file did not grow three times, and there
\* is a newer one.
Leaves == tries > 2 /\ Newer

\* Mutant: the count of tries starts again at every sleep.
IdleResets ==
  /\ rpc = "look" /\ ~Leaves /\ Len(File) = roff
  /\ tries' = 1
  /\ looked' = {c.by : c \in Range(File)}
  /\ UNCHANGED <<wVars, rpc, rfile, roff, rid, buf, saved, seeks, got, garbled, missed>>

\* Nothing new in the file: sleep.  The file is never shorter than what was read.
Idle ==
  /\ rpc = "look" /\ ~Leaves /\ Len(File) = roff
  /\ tries' = IF tries < 3 THEN tries + 1 ELSE 3
  /\ looked' = {c.by : c \in Range(File)}
  /\ UNCHANGED <<wVars, rpc, rfile, roff, rid, buf, saved, seeks, got, garbled, missed>>

\* The next file, without another look at this one.
LeaveFile ==
  /\ rpc = "look" /\ Leaves
  /\ rfile' = rfile + 1 /\ roff' = 0 /\ rid' = 0 /\ tries' = 0
  /\ missed' = missed \cup ({c.by : c \in Range(File)} \ looked)
  /\ UNCHANGED <<wVars, rpc, buf, saved, seeks, got, garbled, looked>>

Suicide ==
  /\ rpc' = "dead"
  /\ UNCHANGED <<wVars, rfile, roff, rid, tries, buf, saved, seeks, got, garbled, missed, looked>>

\* The head of the next block: it must be a head, of a block shorter than the maximum.
GoodHead(c) == c.nth = 0 /\ blocks[c.by].len < BlockMax

ReadHead ==
  /\ rpc = "look" /\ ~Leaves /\ Len(File) > roff
  /\ GoodHead(File[roff + 1])
  /\ rpc' = "body" /\ buf' = <<File[roff + 1]>> /\ looked' = {c.by : c \in Range(File)}
  /\ UNCHANGED <<wVars, rfile, roff, rid, tries, saved, seeks, got, garbled, missed>>

DieAtHead ==
  /\ rpc = "look" /\ ~Leaves
  /\ Len(File) < roff \/ (Len(File) > roff /\ ~GoodHead(File[roff + 1]))
  /\ Suicide

\* readn takes what there is and tries again until it has the whole block.
ReadBody ==
  /\ rpc = "body" /\ Len(buf) < blocks[buf[1].by].len
  /\ roff + Len(buf) < Len(File)
  /\ buf' = Append(buf, File[roff + Len(buf) + 1])
  /\ UNCHANGED <<wVars, rpc, rfile, roff, rid, tries, saved, seeks, got, garbled, missed, looked>>

\* The attempts whose body is what was read.
Carried ==
  {a \in DOMAIN blocks :
     /\ blocks[a].len = Len(buf)
     /\ \A k \in 2..Len(buf) : buf[k] = Cell(a, k - 1)}

\* The ids must follow each other; the check sum is not looked at.  The sender calls
\* save_offset when it has sent the message, before it reads on.
Return(sent) ==
  /\ rpc = "body" /\ Len(buf) = blocks[buf[1].by].len
  /\ blocks[buf[1].by].id = rid + 1
  /\ roff' = roff + Len(buf) /\ rid' = rid + 1 /\ tries' = 0
  /\ rpc' = "look" /\ buf' = <<>>
  /\ saved' = IF sent THEN [file |-> rfile, off |-> roff', id |-> rid'] ELSE saved
  /\ got' = got \cup Carried
  /\ garbled' = IF Carried = {} THEN garbled \cup {{c.by : c \in Range(buf)}} ELSE garbled
  /\ UNCHANGED <<wVars, rfile, seeks, missed, looked>>

DieAtId ==
  /\ rpc = "body" /\ Len(buf) = blocks[buf[1].by].len
  /\ blocks[buf[1].by].id # rid + 1
  /\ Suicide

\* seek_message(file_no, file_offset, block_id).
SeekTo(f, o, i) ==
  /\ rpc' = "look" /\ rfile' = f /\ roff' = o /\ rid' = i /\ tries' = 0 /\ buf' = <<>>
  /\ seeks' = seeks + 1
  /\ got' = {} /\ missed' = {}
  /\ UNCHANGED <<wVars, saved, garbled, looked>>

\* A new reader: the constructor goes to the beginning of the newest file.
ReaderRestart ==
  /\ seeks < MaxSeeks /\ Len(blocks) + seeks < MaxWrites
  /\ SeekTo(NewestFile, 0, 0)

\* seek_message(file_no, block_id) goes from head to head until it meets the id.  It
\* dies on the way at a block of the maximal length.
SeekBlock(n, id) ==
  LET f == files[n]
      c == Chain(f)
  IN /\ id \in DOMAIN c
     /\ \A i \in 1..id : GoodHead(f[c[i] + 1])
     /\ SeekTo(n, c[id] + blocks[f[c[id] + 1].by].len, id)

\* A roll-back to a message the engine has.
RollBack(a) ==
  /\ seeks < MaxSeeks /\ Len(blocks) + seeks < MaxWrites /\ rpc = "look"
  /\ SeekBlock(blocks[a].file, blocks[a].id)

\* A reader that is started at the saved position (load_offset).
Resume ==
  /\ seeks < MaxSeeks /\ Len(blocks) + seeks < MaxWrites
  /\ IF saved.id = 0 THEN SeekTo(saved.file, 0, 0) ELSE SeekBlock(saved.file, saved.id)

-----------------------------------------------------------------------------
Init ==
  /\ files = <<<<>>>> /\ blocks = <<>> /\ acked = {} /\ torn = {} /\ deaths = 0
  /\ wpc = "idle" /\ wpos = 0 /\ wid = 1 /\ wrest = 0
  /\ rpc = "look" /\ rfile = 1 /\ roff = 0 /\ rid = 0 /\ tries = 0 /\ buf = <<>>
  /\ saved = [file |-> 1, off |-> 0, id |-> 0] /\ seeks = 0
  /\ got = {} /\ garbled = {} /\ missed = {} /\ looked = {}

Writing == (\E n \in Lens : BeginWrite(n)) \/ WriteCell \/ EndWrite
Reading == Idle \/ LeaveFile \/ ReadHead \/ DieAtHead \/ ReadBody \/ DieAtId
           \/ \E sent \in BOOLEAN : Return(sent)
Seeking == ReaderRestart \/ Resume \/ \E a \in acked : RollBack(a)

Next == Writing \/ WriterDies \/ Repair \/ Reading \/ Seeking

Spec == Init /\ [][Next]_vars

\* The server and the sender run; a dead server is started again.
FairSpec == Spec /\ WF_vars(Writing) /\ WF_vars(Repair) /\ WF_vars(Reading)

-----------------------------------------------------------------------------
(***************************************************************************)
(* Properties                                                              *)
(***************************************************************************)
Positions == [file : 1..MaxWrites + 1, off : 0..FileMax, id : 0..MaxWrites]
Cells == [by : 1..MaxWrites, nth : 0..BlockMax - 1]

\* Types of the variables.
TypeOK ==
  /\ files \in Seq(Seq(Cells)) /\ files # <<>>
  /\ blocks \in Seq([id : 1..MaxWrites, file : 1..Len(files), len : Lens])
  /\ acked \in SUBSET DOMAIN blocks /\ torn \in SUBSET DOMAIN blocks
  /\ wpc \in {"idle", "write", "down", "failed"}
  /\ wpos \in 0..FileMax /\ wid \in 1..MaxWrites + 1 /\ wrest \in 0..BlockMax
  /\ deaths \in 0..MaxDeaths
  /\ rpc \in {"look", "body", "dead"} /\ rfile \in 1..Len(files)
  /\ roff \in 0..FileMax /\ rid \in 0..MaxWrites /\ tries \in 0..3
  /\ buf \in Seq(Cells) /\ saved \in Positions /\ seeks \in 0..MaxSeeks
  /\ got \in SUBSET DOMAIN blocks /\ garbled \in SUBSET SUBSET DOMAIN blocks
  /\ missed \in SUBSET DOMAIN blocks /\ looked \in SUBSET DOMAIN blocks

\* The attempts in the chain of a file, in its order.
ChainOf(f) == LET c == Chain(f) IN [i \in DOMAIN c |-> f[c[i] + 1].by]

\* The variables have their types, and every acknowledged message stays in its file, whole and reachable from the
\* beginning; the ids of a file count 1, 2, 3... and follow the order of writing.
\* This is what check_and_repaire and the readers rely on.
LogIntact ==
  /\ TypeOK
  /\ \A f \in DOMAIN files :
       LET chain == ChainOf(files[f]) IN
         /\ \A a \in acked : blocks[a].file = f => a \in Range(chain)
         /\ \A i \in DOMAIN chain :
              /\ blocks[chain[i]].id = i /\ blocks[chain[i]].file = f
              /\ i > 1 => chain[i] > chain[i - 1]

\* The search of the last two block lengths always finds a good block in a file
\* that is longer ("不可能没有 MAGIC_NUM"): the server can be started.
RepairFinds == wpc # "failed"

\* The reader stands on, has read or has returned cells of a torn block.
OverTorn ==
  \/ garbled # {}
  \/ \E c \in Range(buf) : c.by \in torn
  \/ roff < Len(File) /\ File[roff + 1].by \in torn

\* Torn blocks are not cut off and not recognised, so the reader may mix them with the
\* block written over them; it returns a message nobody wrote, or kills itself,
\* for no other reason - except at a block of exactly the maximal length, which the
\* writer allows and the reader does not.
ReaderSafe ==
  [][/\ \A g \in garbled' \ garbled : g \cap torn # {}
     /\ rpc # "dead" /\ rpc' = "dead" =>
          OverTorn \/ (roff < Len(File) /\ blocks[File[roff + 1].by].len = BlockMax)]_vars

\* The reader is behind block a.
Passed(a) == blocks[a].file < rfile \/ (blocks[a].file = rfile /\ blocks[a].id <= rid)

\* Up to its position the reader has returned every acknowledged block, over all changes
\* of files, except those written between its last look at a file and the test for a
\* newer one ("消息一个不少").
NoneSkipped ==
  (rpc # "dead" /\ torn = {} /\ seeks = 0) =>
    \A a \in acked : Passed(a) => a \in got \cup missed

\* The reader always catches up with the server again, also over a change of files and a
\* restart of the server: it has passed every acknowledged message, unless it died or
\* waits in a torn block.
ReaderAdvances ==
  []<>(rpc = "dead" \/ OverTorn \/ \A a \in acked : Passed(a))
=============================================================================
