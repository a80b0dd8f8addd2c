------------------------------ MODULE DocStore ------------------------------
(***************************************************************************)
(* The documents of the search engine (flexse/update_thread.cpp add, del,  *)
(* undel; utils/idmap, bitmap, bitlist, secore): every version of a        *)
(* document gets an inner id of its own; the id map, the attribute cells   *)
(* and the bitmaps of replaced and deleted ids are memory-mapped files     *)
(* that outlive the process, the posting lists are durable only up to the  *)
(* check point of the index.  After a death the messages behind the check  *)
(* point come again (module Delivery) and meet what is left of their first *)
(* run.  Queries run in other threads, without a lock.                     *)
(*                                                                         *)
(* A message is a number, its place in the queue, and the value it gives   *)
(* to an attribute is that number.  Posting lists are one set of inner     *)
(* ids: which terms an id is listed under makes no difference here.        *)
(***************************************************************************)
EXTENDS Integers, Sequences, FiniteSets

CONSTANTS
  Docs,       \* outer ids
  Outer,      \* the outer ids below m_max_outerid
  Fields,     \* attributes, beside the outer id
  LastField,  \* the attribute in the last byte of a cell
  NoDoc,      \* the outer id in a cell never written
  MaxInner,   \* m_max_innerid
  MaxMsgs,    \* messages (bound)
  MaxDeaths   \* deaths of the process (bound)

ASSUME ConstantsAssumption ==
  /\ Outer \subseteq Docs /\ NoDoc \notin Docs /\ LastField \in Fields
  /\ MaxInner \in Nat \ {0} /\ MaxMsgs \in Nat /\ MaxDeaths \in Nat

VARIABLES
  log,     \* the messages the queue has delivered at least once
  upc,     \* the update thread: the next step of the message it works on
  last,    \* last_file_no, last_block_id
  tmpid,   \* the inner id of the document when its message came
  rest,    \* documents of a DELETE or RESTORE still to do
  o2i,     \* m_po2imap (mapped file)
  cur,     \* m_cur_innerid (saved file)
  mod,     \* m_mod_bitmap (mapped file)
  del,     \* m_del_bitmap (mapped file)
  cell,    \* m_docattr_bitlist (mapped file)
  posts,   \* inner id -> message, the posting lists
  disk,    \* the part of posts that is on disk
  cp,      \* the check point of the index
  qpc,     \* a query: "idle", "filter", "done"
  qlist,   \* inner ids merged and not yet filtered
  qans,    \* inner ids of the answer
  deaths,  \* deaths so far
  seen,    \* history: the newest message that was begun
  cut,     \* history: documents left with two live ids by a death
  thin     \* history: documents that lost attributes by a death

docVars == <<o2i, cur, mod, del, cell>>
qVars == <<qpc, qlist, qans>>
history == <<deaths, seen, cut, thin>>
vars == <<log, upc, last, tmpid, rest, docVars, posts, disk, cp, qVars, history>>

Ids == 1..MaxInner - 1
Messages ==
  [op : {"add", "attr"}, docs : {{d} : d \in Docs}, sets : SUBSET Fields]
    \cup [op : {"del", "undel"}, docs : (SUBSET Docs) \ {{}}, sets : {{}}]
Doc(m) == CHOOSE d \in m.docs : TRUE

Now == log[last + 1]

\* getInnerID: 0 for a document that never came.
InnerID(d) == IF d \in Outer THEN o2i[d] ELSE 0

-----------------------------------------------------------------------------
(***************************************************************************)
(* The update thread.                                                      *)
(***************************************************************************)
\* The next message: one that came before the last death, or a new one.
Receive(m) ==
  /\ upc = "idle" /\ last < MaxMsgs
  /\ IF last < Len(log) THEN m = Now /\ UNCHANGED log ELSE log' = Append(log, m)
  /\ seen' = IF last + 1 > seen THEN last + 1 ELSE seen
  /\ IF m.op \in {"add", "attr"}
       THEN upc' = "attrs" /\ tmpid' = InnerID(Doc(m)) /\ UNCHANGED rest
       ELSE upc' = "bits" /\ rest' = m.docs /\ UNCHANGED tmpid
  /\ UNCHANGED <<last, docVars, posts, disk, cp, qVars, deaths, cut, thin>>

\* The message is done: the sender gets its OK.
Done == last' = last + 1 /\ upc' = "idle"

\* The attributes go into the cell of the current inner id, or into cell 0.  A
\* message without terms ends here.
SetAttrs ==
  /\ upc = "attrs"
  /\ cell' = [cell EXCEPT ![tmpid] =
       [doc |-> Doc(Now),
        val |-> [f \in Fields |-> IF f \in Now.sets THEN last + 1 ELSE @.val[f]]]]
  /\ IF Now.op = "attr" THEN Done ELSE upc' = "alloc" /\ UNCHANGED last
  /\ UNCHANGED <<log, tmpid, rest, o2i, cur, mod, del, posts, disk, cp, qVars, history>>

CanAlloc(d) == d \in Outer /\ cur + 1 < MaxInner

\* allocInnerID, first half: the counter, saved.
SaveCur ==
  /\ upc = "alloc" /\ CanAlloc(Doc(Now))
  /\ cur' = cur + 1 /\ upc' = "map"
  /\ UNCHANGED <<log, last, tmpid, rest, o2i, mod, del, cell, posts, disk, cp, qVars, history>>

\* No id left, or an outer id too large: add fails, the connection is closed and the
\* sender sends the message again.
AllocFails ==
  /\ upc = "alloc" /\ ~CanAlloc(Doc(Now))
  /\ upc' = "idle"
  /\ UNCHANGED <<log, last, tmpid, rest, docVars, posts, disk, cp, qVars, history>>

\* allocInnerID, second half.
MapDoc ==
  /\ upc = "map"
  /\ o2i' = [o2i EXCEPT ![Doc(Now)] = cur] /\ upc' = "mod"
  /\ UNCHANGED <<log, last, tmpid, rest, cur, mod, del, cell, posts, disk, cp, qVars, history>>

\* Mutant: the bit of the new id is set.
SetModNew ==
  /\ upc = "mod" /\ upc' = "copy"
  /\ mod' = IF tmpid > 0 THEN mod \cup {cur} ELSE mod
  /\ UNCHANGED <<log, last, tmpid, rest, o2i, cur, del, cell, posts, disk, cp, qVars, history>>

\* The old id is replaced.
SetMod ==
  /\ upc = "mod" /\ upc' = "copy"
  /\ mod' = IF tmpid > 0 THEN mod \cup {tmpid} ELSE mod
  /\ UNCHANGED <<log, last, tmpid, rest, o2i, cur, del, cell, posts, disk, cp, qVars, history>>

\* Mutant: the attributes of a replaced version are not carried over.
CopyCellNot ==
  /\ upc = "copy" /\ upc' = "post"
  /\ cell' = [cell EXCEPT ![cur] = [doc |-> Doc(Now), val |-> [f \in Fields |->
                IF f \in Now.sets THEN last + 1 ELSE 0]]]
  /\ UNCHANGED <<log, last, tmpid, rest, o2i, cur, mod, del, posts, disk, cp, qVars, history>>

\* The attributes of the old version, or of cell 0, become those of the new one.
CopyCell ==
  /\ upc = "copy" /\ upc' = "post"
  /\ cell' = [cell EXCEPT ![cur] = cell[tmpid]]
  /\ UNCHANGED <<log, last, tmpid, rest, o2i, cur, mod, del, posts, disk, cp, qVars, history>>

\* set_posting_list: the new version can be found.
Post ==
  /\ upc = "post"
  /\ posts' = [i \in DOMAIN posts \cup {cur} |-> IF i = cur THEN last + 1 ELSE posts[i]]
  /\ Done
  /\ UNCHANGED <<log, tmpid, rest, docVars, disk, cp, qVars, history>>

\* DELETE and RESTORE, one document of the list; unknown ones are passed over.
SetDelBit(d) ==
  /\ upc = "bits" /\ d \in rest
  /\ rest' = rest \ {d}
  /\ del' = IF InnerID(d) = 0 THEN del
            ELSE IF Now.op = "del" THEN del \cup {InnerID(d)} ELSE del \ {InnerID(d)}
  /\ IF rest' = {} THEN Done ELSE UNCHANGED <<last, upc>>
  /\ UNCHANGED <<log, tmpid, o2i, cur, mod, cell, posts, disk, cp, qVars, history>>

-----------------------------------------------------------------------------
(***************************************************************************)
(* The index, deaths, and queries.                                         *)
(***************************************************************************)
\* A dump of the index: the check point is the newest message with postings.
Persist ==
  /\ posts # disk
  /\ disk' = posts
  /\ cp' = posts[CHOOSE i \in DOMAIN posts : \A j \in DOMAIN posts : posts[j] <= posts[i]]
  /\ UNCHANGED <<log, upc, last, tmpid, rest, docVars, posts, qVars, history>>

ResumesAt == cp

\* The counter that the constructor of the id map reads back.
LoadedCur == cur

\* The process dies and is started again.  The attribute file's constructor writes a zero
\* into its last byte.
Death ==
  /\ deaths < MaxDeaths /\ deaths' = deaths + 1
  /\ posts' = disk /\ last' = ResumesAt /\ upc' = "idle"
  /\ cell' = [cell EXCEPT ![MaxInner - 1].val[LastField] = 0]
  /\ tmpid' = 0 /\ rest' = {} /\ qpc' = "idle" /\ qlist' = {} /\ qans' = {}
  /\ cut' = IF upc = "mod" /\ tmpid > 0 THEN cut \cup {Doc(Now)} ELSE cut
  /\ thin' = IF upc \in {"mod", "copy"} /\ tmpid > 0 THEN thin \cup {Doc(Now)} ELSE thin
  /\ cur' = LoadedCur
  /\ UNCHANGED <<log, o2i, mod, del, disk, cp, seen>>

\* weight_merge: a query has its list of inner ids.
Merge ==
  /\ qpc = "idle"
  /\ qpc' = "filter" /\ qlist' = DOMAIN posts
  /\ UNCHANGED <<log, upc, last, tmpid, rest, docVars, posts, disk, cp, qans, history>>

\* Mutant: only deleted ids are filtered out.
LiveUndeleted(i) == i \notin del

Live(i) == i \notin mod /\ i \notin del

\* The filter over the bitmaps, one id after the other.
Filter(i) ==
  /\ qpc = "filter" /\ i \in qlist
  /\ qlist' = qlist \ {i}
  /\ qans' = IF Live(i) THEN qans \cup {i} ELSE qans
  /\ qpc' = IF qlist' = {} THEN "done" ELSE qpc
  /\ UNCHANGED <<log, upc, last, tmpid, rest, docVars, posts, disk, cp, history>>

-----------------------------------------------------------------------------
Init ==
  /\ log = <<>> /\ upc = "idle" /\ last = 0 /\ tmpid = 0 /\ rest = {}
  /\ o2i = [d \in Docs |-> 0] /\ cur = 0 /\ mod = {} /\ del = {}
  /\ cell = [i \in 0..MaxInner - 1 |-> [doc |-> NoDoc, val |-> [f \in Fields |-> 0]]]
  /\ posts = <<>> /\ disk = <<>> /\ cp = 0
  /\ qpc = "idle" /\ qlist = {} /\ qans = {}
  /\ deaths = 0 /\ seen = 0 /\ cut = {} /\ thin = {}

Update ==
  \/ \E m \in Messages : Receive(m)
  \/ SetAttrs \/ SaveCur \/ AllocFails \/ MapDoc \/ SetMod \/ CopyCell \/ Post
  \/ \E d \in rest : SetDelBit(d)
Query == Merge \/ \E i \in qlist : Filter(i)

Next == Update \/ Persist \/ Death \/ Query

Spec == Init /\ [][Next]_vars

-----------------------------------------------------------------------------
(***************************************************************************)
(* What the messages mean: the reference.                                  *)
(***************************************************************************)
About(d, op) == {i \in 1..last : log[i].op = op /\ d \in log[i].docs}
Latest(S) == IF S = {} THEN 0 ELSE CHOOSE i \in S : \A j \in S : j <= i
\* The version of d, its message.
Version(d) == Latest(About(d, "add"))
\* A new version is not deleted, whatever happened to the ones before.
Deleted(d) == Latest(About(d, "del") \cup {0}) > Latest(About(d, "undel") \cup {Version(d)})
\* The messages since the first version that give d the attribute f.
Setters(d, f) ==
  {i \in About(d, "add") \cup About(d, "attr") :
     f \in log[i].sets /\ \E a \in About(d, "add") : a <= i}

\* The update thread has nothing half done and nothing to repeat.
CaughtUp == upc = "idle" /\ last = seen

Found(d) == {i \in DOMAIN posts : Live(i) /\ cell[i].doc = d}

-----------------------------------------------------------------------------
(***************************************************************************)
(* Properties                                                              *)
(***************************************************************************)
\* Types of the variables; every inner id has a cell in the attribute file.
TypeOK ==
  /\ log \in Seq(Messages) /\ last \in 0..Len(log) /\ cp \in 0..last /\ seen \in 0..Len(log)
  /\ upc \in {"idle", "attrs", "alloc", "map", "mod", "copy", "post", "bits"}
  /\ cur \in 0..MaxInner - 1 /\ o2i \in [Docs -> 0..cur] /\ tmpid \in 0..cur
  /\ mod \subseteq 1..cur /\ del \subseteq 1..cur /\ rest \subseteq Docs
  /\ cell \in [0..MaxInner - 1 -> [doc : Docs \cup {NoDoc}, val : [Fields -> 0..MaxMsgs]]]
  /\ DOMAIN posts \subseteq 1..cur /\ DOMAIN disk \subseteq DOMAIN posts
  /\ qpc \in {"idle", "filter", "done"} /\ qlist \subseteq Ids /\ qans \subseteq Ids
  /\ deaths \in 0..MaxDeaths /\ cut \subseteq thin /\ thin \subseteq Docs

\* The variables have their types, and whenever the update thread has caught up, also after deaths and replays, a query finds
\* exactly the documents that are not deleted, each in its last version and under one
\* inner id.  A death between the id map and the bitmap leaves the old id live too.
Converged ==
  TypeOK /\ (CaughtUp => \A d \in Docs \ cut :
    {posts[i] : i \in Found(d)} = (IF Version(d) = 0 \/ Deleted(d) THEN {} ELSE {Version(d)})
      /\ Cardinality(Found(d)) <= 1)

\* And every attribute that a message set since the document exists has the last value set:
\* replay goes over the old values, a new version inherits them.  Excepted are a death
\* before the copy, and the last byte of the file.
AttrsExact ==
  CaughtUp => \A d \in Docs \ thin, f \in Fields :
    LET i == InnerID(d) IN
      (Setters(d, f) # {} /\ ~(i = MaxInner - 1 /\ f = LastField /\ deaths > 0)) =>
        cell[i].val[f] = Latest(Setters(d, f))

\* A query never answers with two versions of a document, whatever the update thread does
\* between the reading of the list and the filter.
OneVersion ==
  \A i, j \in qans : i # j => cell[i].doc # cell[j].doc \/ cell[i].doc \in cut
=============================================================================
