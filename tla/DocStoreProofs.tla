--------------------------- MODULE DocStoreProofs ---------------------------
(***************************************************************************)
(* The documents, for any documents, attributes, inner ids, messages and   *)
(* deaths.                                                                 *)
(*                                                                         *)
(* A query never answers with two versions of a document (OneVersion): a   *)
(* version can be found only after the one before it was marked in the     *)
(* bitmap of replaced ids, and marks are never taken back, so a query that *)
(* read both in the posting lists drops the older one, whenever it comes   *)
(* to filter it.                                                           *)
(*                                                                         *)
(* When the update thread has caught up, a query finds what the messages   *)
(* mean (Converged), with the attributes they set (AttrsExact), however    *)
(* often a death sent the thread back to the check point and whatever the  *)
(* mapped files kept of the first run of a message.                        *)
(***************************************************************************)
EXTENDS DocStore, FiniteSetTheorems, SequenceTheorems, WellFoundedInduction, TLAPS

(***************************************************************************)
(* The invariant: types.  TypeOK needs that the messages in the lists      *)
(* are done, that those on disk are covered by the check point, and that a *)
(* message in work was delivered.                                          *)
(***************************************************************************)
Lists ==
  /\ posts \in [DOMAIN posts -> 1..last] /\ disk \in [DOMAIN disk -> 1..cp]
  /\ upc # "idle" => last < Len(log)
  /\ Len(log) <= MaxMsgs
  /\ qlist \cup qans \subseteq DOMAIN posts
Types == TypeOK /\ Lists

(***************************************************************************)
(* The invariant: versions.                                                *)
(***************************************************************************)
\* The step of add the update thread is at: what of the new version is there already.
Working ==
  /\ upc \in {"attrs", "alloc", "map"} => tmpid = InnerID(Doc(Now))
  /\ upc \in {"alloc", "map", "mod", "copy"} => cell[tmpid].doc = Doc(Now)
  /\ upc \in {"map", "mod", "copy", "post"} => Doc(Now) \in Outer /\ cur \notin DOMAIN posts /\ cur > 0
  /\ upc = "map" => \A d \in Docs : o2i[d] # cur
  /\ upc \in {"mod", "copy", "post"} => \A d \in Docs : o2i[d] = cur <=> d = Doc(Now)
  /\ upc = "post" => cell[cur].doc = Doc(Now)

\* The id map and the cells agree on ids that can be found.
Owned == \A d \in Docs : o2i[d] \in DOMAIN posts => cell[o2i[d]].doc = d

\* An id that can be found is marked as replaced, or is the id of its document, or is just
\* being replaced; or a death came between the id map and the mark.
Current(i) == cell[i].doc \in Docs /\ o2i[cell[i].doc] = i
Leaving(i) == upc = "mod" /\ cell[i].doc = Doc(Now) /\ i = tmpid
Replaced == \A i \in DOMAIN posts : cell[i].doc \in cut \/ i \in mod \/ Current(i) \/ Leaving(i)

\* Of what is left to filter, other versions of what passed the filter are marked.
Filtered ==
  /\ qpc = "idle" => qans = {}
  /\ \A i \in qans, j \in qlist :
       i # j /\ cell[i].doc = cell[j].doc => cell[i].doc \in cut \/ j \in mod

VersionInv == Types /\ Working /\ Owned /\ Replaced /\ Filtered /\ OneVersion

(***************************************************************************)
(* Part 1.  Types.                                                         *)
(***************************************************************************)
\* What a message is about.
LEMMA MessageTypes ==
  ASSUME NEW m \in Messages
  PROVE  Doc(m) \in Docs /\ Doc(m) \in m.docs /\ m.docs \subseteq Docs /\ m.sets \subseteq Fields
<1>1. m.docs \subseteq Docs /\ m.docs # {} /\ m.sets \subseteq Fields
  <2>1. CASE m \in [op : {"add", "attr"}, docs : {{d} : d \in Docs}, sets : SUBSET Fields]
    <3>1. m.docs \in {{d} : d \in Docs} /\ m.sets \in SUBSET Fields
      BY <2>1
    <3> QED BY <3>1
  <2>2. CASE m \in [op : {"del", "undel"}, docs : (SUBSET Docs) \ {{}}, sets : {{}}]
    <3>1. m.docs \in (SUBSET Docs) \ {{}} /\ m.sets = {}
      BY <2>2
    <3>2. m.docs \in SUBSET Docs /\ m.docs \notin {{}}
      BY <3>1, Zenon
    <3> QED BY <3>1, <3>2
  <2> QED BY <2>1, <2>2 DEF Messages
<1> QED BY <1>1 DEF Doc

\* The message in work.
LEMMA NowTypes ==
  ASSUME Types, upc # "idle"
  PROVE  Now \in Messages /\ Doc(Now) \in Docs /\ last + 1 \in 1..MaxMsgs
<1>1. log \in Seq(Messages) /\ last \in Nat /\ last < Len(log) /\ Len(log) <= MaxMsgs /\ MaxMsgs \in Nat
  BY ConstantsAssumption DEF Types, TypeOK, Lists
<1>2. Len(log) \in Nat
  BY <1>1, LenProperties
<1>3. Now \in Messages
  BY <1>1, <1>2 DEF Now
<1> QED BY <1>1, <1>2, <1>3, MessageTypes

\* An inner id is one that was allocated.
LEMMA InnerTypes ==
  ASSUME Types, NEW d \in Docs
  PROVE  InnerID(d) \in 0..cur /\ (d \in Outer => InnerID(d) = o2i[d])
BY DEF Types, TypeOK, InnerID

\* Some of the messages in the posting lists is the newest.
LEMMA Newest ==
  ASSUME NEW n \in Nat, NEW f, f \in [DOMAIN f -> 1..n], DOMAIN f # {}
  PROVE  \E i \in DOMAIN f : \A j \in DOMAIN f : f[j] <= f[i]
<1> DEFINE D == {n - f[i] : i \in DOMAIN f}
<1>1. D \subseteq Nat /\ D # {}
  <2>1. \A i \in DOMAIN f : f[i] \in 1..n
    OBVIOUS
  <2>2. \A i \in DOMAIN f : n - f[i] \in Nat
    BY <2>1
  <2> QED BY <2>2
<1>2. PICK d \in D : \A e \in D : ~ (<<e, d>> \in OpToRel(<, Nat))
  BY <1>1, NatLessThanWellFounded, WFMin
<1>3. PICK i \in DOMAIN f : d = n - f[i]
  BY <1>2
<1>4. \A j \in DOMAIN f : f[j] <= f[i]
  <2> TAKE j \in DOMAIN f
  <2>1. f[i] \in 1..n /\ f[j] \in 1..n
    OBVIOUS
  <2>2. n - f[j] \in D /\ n - f[j] \in Nat /\ d \in Nat
    BY <2>1, <1>3
  <2>3. ~ (n - f[j] < d)
    BY <1>2, <2>2 DEF OpToRel
  <2> QED BY <2>1, <2>3, <1>3
<1> QED BY <1>4

\* Two functions without arguments are the same.
LEMMA NoArguments ==
  ASSUME NEW f, NEW g, NEW S, NEW R, f \in [DOMAIN f -> S], g \in [DOMAIN g -> R],
         DOMAIN f = {}, DOMAIN g = {}
  PROVE  f = g
<1>1. f = [x \in DOMAIN f |-> f[x]] /\ g = [x \in DOMAIN g |-> g[x]]
  OBVIOUS
<1> QED BY <1>1

\* The initial state is typed.
LEMMA TypesInit == Init => Types
<1> SUFFICES ASSUME Init PROVE Types
  OBVIOUS
<1>1. <<>> \in Seq(Messages) /\ Len(<<>>) = 0 /\ DOMAIN <<>> = {}
  BY EmptySeq
<1>2. MaxInner - 1 \in Nat /\ MaxMsgs \in Nat /\ MaxDeaths \in Nat
  BY ConstantsAssumption
<1>3. cell \in [0..MaxInner - 1 -> [doc : Docs \cup {NoDoc}, val : [Fields -> 0..MaxMsgs]]]
  BY <1>2 DEF Init
<1>4. posts \in [DOMAIN posts -> 1..last] /\ disk \in [DOMAIN disk -> 1..cp]
  BY <1>1 DEF Init
<1>5. TypeOK
  BY <1>1, <1>2, <1>3 DEF Init, TypeOK
<1> QED BY <1>1, <1>2, <1>4, <1>5 DEF Init, Types, Lists

\* The next message, delivered again or for the first time.
LEMMA TypesReceive ==
  ASSUME Types, NEW m \in Messages, Receive(m)
  PROVE  Types' /\ Now' = m
<1> USE DEF docVars, qVars, history
<1>0. log \in Seq(Messages) /\ last \in Nat /\ last <= Len(log) /\ last < MaxMsgs /\ upc = "idle"
      /\ Len(log) <= MaxMsgs /\ MaxMsgs \in Nat /\ seen \in 0..Len(log)
  BY ConstantsAssumption DEF Types, TypeOK, Lists, Receive
<1>00. Len(log) \in Nat
  BY <1>0, LenProperties
<1>1. /\ log' \in Seq(Messages) /\ last < Len(log') /\ Len(log') <= MaxMsgs /\ log'[last + 1] = m
      /\ Len(log') \in Nat /\ Len(log) <= Len(log')
  <2>1. CASE last < Len(log)
    BY <1>0, <1>00, <2>1 DEF Receive, Now
  <2>2. CASE last = Len(log)
    <3>1. log' = Append(log, m)
      BY <1>0, <2>2 DEF Receive
    <3>2. Len(log') = Len(log) + 1 /\ log' \in Seq(Messages) /\ log'[Len(log) + 1] = m
      BY <1>0, <1>00, <3>1
    <3> QED BY <1>0, <1>00, <2>2, <3>2
  <2> QED BY <1>0, <1>00, <2>1, <2>2
<1>2. last' = last
  BY DEF Receive
<1>3. seen' \in 0..Len(log')
  <2>1. seen' = IF last + 1 > seen THEN last + 1 ELSE seen
    BY DEF Receive
  <2> QED BY <1>0, <1>00, <1>1, <2>1
<1>4. tmpid' \in 0..cur /\ rest' \subseteq Docs /\ upc' \in {"attrs", "bits"}
  BY MessageTypes, InnerTypes DEF Receive, Types, TypeOK
<1>5. UNCHANGED <<docVars, posts, disk, cp, qVars, deaths, cut, thin>>
  BY DEF Receive
<1>6. TypeOK'
  BY <1>0, <1>1, <1>2, <1>3, <1>4, <1>5 DEF Types, TypeOK
<1>7. Lists'
  BY <1>1, <1>2, <1>5 DEF Types, Lists
<1> QED BY <1>1, <1>2, <1>6, <1>7 DEF Types, Now

\* The attributes go into a cell.
LEMMA TypesSetAttrs ==
  ASSUME Types, SetAttrs
  PROVE  Types'
<1> USE DEF qVars, history
<1>1. upc = "attrs" /\ Doc(Now) \in Docs /\ last + 1 \in 1..MaxMsgs /\ last < Len(log) /\ last \in Nat
      /\ tmpid \in 0..MaxInner - 1 /\ Len(log) \in Nat /\ MaxMsgs \in Nat
  <2>1. upc = "attrs"
    BY DEF SetAttrs
  <2>2. Doc(Now) \in Docs /\ last + 1 \in 1..MaxMsgs
    BY <2>1, NowTypes
  <2>3. last < Len(log) /\ last \in Nat /\ MaxMsgs \in Nat /\ log \in Seq(Messages)
    BY <2>1, ConstantsAssumption DEF Types, TypeOK, Lists
  <2>4. tmpid \in 0..MaxInner - 1
    BY ConstantsAssumption DEF Types, TypeOK
  <2>5. Len(log) \in Nat
    BY <2>3, LenProperties
  <2> QED BY <2>1, <2>2, <2>3, <2>4, <2>5
<1>2. cell' \in [0..MaxInner - 1 -> [doc : Docs \cup {NoDoc}, val : [Fields -> 0..MaxMsgs]]]
  <2> DEFINE v == [f \in Fields |-> IF f \in Now.sets THEN last + 1 ELSE cell[tmpid].val[f]]
  <2>1. cell \in [0..MaxInner - 1 -> [doc : Docs \cup {NoDoc}, val : [Fields -> 0..MaxMsgs]]]
    BY DEF Types, TypeOK
  <2>2. cell[tmpid].val \in [Fields -> 0..MaxMsgs]
    BY <1>1, <2>1
  <2>3. v \in [Fields -> 0..MaxMsgs]
    BY <1>1, <2>2
  <2>4. cell' = [cell EXCEPT ![tmpid] = [doc |-> Doc(Now), val |-> v]]
    BY DEF SetAttrs
  <2> HIDE DEF v
  <2> QED BY <1>1, <2>1, <2>3, <2>4
<1>3. \/ last' = last + 1 /\ upc' = "idle"
      \/ last' = last /\ upc' = "alloc"
  BY DEF SetAttrs, Done
<1>4. UNCHANGED <<log, tmpid, rest, o2i, cur, mod, del, posts, disk, cp, qpc, qlist, qans, deaths, seen, cut, thin>>
  BY DEF SetAttrs
<1>5. TypeOK'
  BY <1>1, <1>2, <1>3, <1>4 DEF Types, TypeOK
<1>6. posts \in [DOMAIN posts -> 1..last']
  BY <1>1, <1>3 DEF Types, Lists
<1>7. Lists'
  BY <1>1, <1>3, <1>4, <1>6 DEF Types, Lists
<1> QED BY <1>5, <1>7 DEF Types
\* An inner id is allocated and mapped, the old one is marked and its cell copied.
LEMMA TypesAlloc ==
  ASSUME Types, SaveCur \/ AllocFails \/ MapDoc \/ SetMod
  PROVE  Types'
<1> USE DEF qVars, history
<1>1. UNCHANGED <<log, last, tmpid, rest, del, cell, posts, disk, cp, qpc, qlist, qans, deaths, seen, cut, thin>>
  BY DEF SaveCur, AllocFails, MapDoc, SetMod, docVars
<1>2. cur \in Nat /\ cur' \in 0..MaxInner - 1 /\ cur <= cur' /\ MaxInner \in Nat
  BY ConstantsAssumption DEF SaveCur, AllocFails, MapDoc, SetMod, docVars, Types, TypeOK, CanAlloc
<1>3. o2i' \in [Docs -> 0..cur']
  <2>1. CASE MapDoc
    <3>1. Doc(Now) \in Docs
      BY <2>1, NowTypes DEF MapDoc
    <3> QED BY <1>2, <2>1, <3>1 DEF MapDoc, Types, TypeOK
  <2>2. CASE ~MapDoc
    BY <1>2, <2>2 DEF SaveCur, AllocFails, SetMod, docVars, Types, TypeOK
  <2> QED BY <2>1, <2>2
<1>4. mod' \subseteq 1..cur'
  <2>1. mod \subseteq 1..cur /\ tmpid \in 0..cur
    BY DEF Types, TypeOK
  <2>2. mod' = mod \/ (tmpid > 0 /\ mod' = mod \cup {tmpid})
    BY DEF SaveCur, AllocFails, MapDoc, SetMod, docVars
  <2>3. mod' \subseteq 1..cur
    <3>1. tmpid > 0 => tmpid \in 1..cur
      BY <1>2, <2>1
    <3> QED BY <2>1, <2>2, <3>1
  <2>4. 1..cur \subseteq 1..cur'
    BY <1>2
  <2> QED BY <2>3, <2>4
<1>5. /\ upc' \in {"idle", "attrs", "alloc", "map", "mod", "copy", "post", "bits"}
      /\ upc # "idle"
  BY DEF SaveCur, AllocFails, MapDoc, SetMod
<1>6. TypeOK'
  BY <1>1, <1>2, <1>3, <1>4, <1>5 DEF Types, TypeOK
<1>7. Lists'
  BY <1>1, <1>5 DEF Types, Lists
<1> QED BY <1>6, <1>7 DEF Types

\* The cell of the new version.
LEMMA TypesCopyCell ==
  ASSUME Types, CopyCell
  PROVE  Types'
<1> USE DEF qVars, history
<1>1. UNCHANGED <<log, last, tmpid, rest, o2i, cur, mod, del, posts, disk, cp, qpc, qlist, qans, deaths, seen, cut, thin>>
      /\ upc = "copy" /\ upc' = "post"
  BY DEF CopyCell
<1>2. cell' \in [0..MaxInner - 1 -> [doc : Docs \cup {NoDoc}, val : [Fields -> 0..MaxMsgs]]]
  <2>1. cell \in [0..MaxInner - 1 -> [doc : Docs \cup {NoDoc}, val : [Fields -> 0..MaxMsgs]]]
    BY DEF Types, TypeOK
  <2>2. tmpid \in 0..MaxInner - 1
    BY ConstantsAssumption DEF Types, TypeOK
  <2> QED BY <2>1, <2>2 DEF CopyCell
<1>3. TypeOK'
  BY <1>1, <1>2 DEF Types, TypeOK
<1>4. Lists'
  BY <1>1 DEF Types, Lists
<1> QED BY <1>3, <1>4 DEF Types

\* The new version can be found.
LEMMA TypesPost ==
  ASSUME Types, Working, Post
  PROVE  Types' /\ DOMAIN posts' = DOMAIN posts \cup {cur}
<1> USE DEF docVars, qVars, history
<1>1. UNCHANGED <<log, tmpid, rest, o2i, cur, mod, del, cell, disk, cp, qpc, qlist, qans, deaths, seen, cut, thin>>
      /\ upc = "post" /\ upc' = "idle" /\ last' = last + 1
  BY DEF Post, Done
<1>2. last \in Nat /\ last < Len(log) /\ Len(log) \in Nat /\ cp \in 0..last
  BY <1>1, LenProperties DEF Types, TypeOK, Lists
<1>3. DOMAIN posts' = DOMAIN posts \cup {cur} /\ posts' \in [DOMAIN posts' -> 1..last']
  <2>1. posts' = [i \in DOMAIN posts \cup {cur} |-> IF i = cur THEN last + 1 ELSE posts[i]]
    BY DEF Post
  <2>2. \A i \in DOMAIN posts : posts[i] \in 1..last
    BY DEF Types, Lists
  <2> QED BY <1>1, <1>2, <2>1, <2>2
<1>4. cur \in Nat \ {0}
  BY <1>1, ConstantsAssumption DEF Working, Types, TypeOK
<1>5. TypeOK'
  BY <1>1, <1>2, <1>3, <1>4 DEF Types, TypeOK
<1>6. Lists'
  BY <1>1, <1>2, <1>3 DEF Types, Lists
<1> QED BY <1>3, <1>5, <1>6 DEF Types

\* DELETE and RESTORE.
LEMMA TypesSetDelBit ==
  ASSUME Types, NEW d \in rest, SetDelBit(d)
  PROVE  Types'
<1> USE DEF qVars, history
<1>1. UNCHANGED <<log, tmpid, o2i, cur, mod, cell, posts, disk, cp, qpc, qlist, qans, deaths, seen, cut, thin>>
      /\ upc = "bits" /\ rest' \subseteq rest
  BY DEF SetDelBit
<1>2. \/ last' = last + 1 /\ upc' = "idle"
      \/ last' = last /\ upc' = "bits"
  BY <1>1 DEF SetDelBit, Done
<1>3. last \in Nat /\ last < Len(log) /\ Len(log) \in Nat /\ cp \in 0..last /\ cur \in Nat
  BY <1>1, LenProperties, ConstantsAssumption DEF Types, TypeOK, Lists
<1>4. del' \subseteq 1..cur
  <2>1. d \in Docs /\ del \subseteq 1..cur
    BY DEF Types, TypeOK
  <2>2. InnerID(d) \in 0..cur
    BY <2>1, InnerTypes
  <2>3. InnerID(d) # 0 => InnerID(d) \in 1..cur
    BY <1>3, <2>2
  <2>4. del' \subseteq del \/ (InnerID(d) # 0 /\ del' = del \cup {InnerID(d)})
    BY DEF SetDelBit
  <2> QED BY <2>1, <2>3, <2>4
<1>5. TypeOK'
  BY <1>1, <1>2, <1>3, <1>4 DEF Types, TypeOK
<1>6. posts \in [DOMAIN posts -> 1..last']
  BY <1>2, <1>3 DEF Types, Lists
<1>7. Lists'
  BY <1>1, <1>2, <1>3, <1>6 DEF Types, Lists
<1> QED BY <1>5, <1>7 DEF Types

\* A dump: the check point is the newest message of the posting lists, all of them covered.
LEMMA TypesPersist ==
  ASSUME Types, Persist
  PROVE  Types'
<1> USE DEF docVars, qVars, history
<1>1. UNCHANGED <<log, upc, last, tmpid, rest, o2i, cur, mod, del, cell, posts, qpc, qlist, qans, deaths, seen, cut, thin>>
      /\ disk' = posts /\ posts # disk
  BY DEF Persist
<1>2. posts \in [DOMAIN posts -> 1..last] /\ disk \in [DOMAIN disk -> 1..cp] /\ last \in Nat
      /\ DOMAIN disk \subseteq DOMAIN posts
  BY DEF Types, TypeOK, Lists
<1>3. DOMAIN posts # {}
  <2> SUFFICES ASSUME DOMAIN posts = {} PROVE FALSE
    OBVIOUS
  <2>1. DOMAIN disk = {}
    BY <1>2
  <2> QED BY <1>1, <1>2, <2>1, NoArguments
<1>4. \E i \in DOMAIN posts : \A j \in DOMAIN posts : posts[j] <= posts[i]
  BY <1>2, <1>3, Newest
<1> DEFINE top == CHOOSE i \in DOMAIN posts : \A j \in DOMAIN posts : posts[j] <= posts[i]
<1>5. top \in DOMAIN posts /\ \A j \in DOMAIN posts : posts[j] <= posts[top]
  BY <1>4
<1>6. cp' = posts[top]
  BY DEF Persist
<1> HIDE DEF top
<1>7. cp' \in 1..last
  BY <1>2, <1>5, <1>6
<1>8. posts \in [DOMAIN posts -> 1..cp']
  <2>1. \A j \in DOMAIN posts : posts[j] \in 1..last /\ posts[j] <= cp'
    BY <1>2, <1>5, <1>6
  <2>2. \A j \in DOMAIN posts : posts[j] \in 1..cp'
    BY <1>2, <1>7, <2>1
  <2> QED BY <1>2, <2>2
<1>9. TypeOK'
  BY <1>1, <1>2, <1>7 DEF Types, TypeOK
<1>10. Lists'
  BY <1>1, <1>8 DEF Types, Lists
<1> QED BY <1>9, <1>10 DEF Types

\* A death: the posting lists on disk are those of messages the check point covers.
LEMMA TypesDeath ==
  ASSUME Types, Death
  PROVE  Types'
<1>1. /\ UNCHANGED <<log, o2i, mod, del, disk, cp, seen, cur>> /\ posts' = disk /\ last' = cp
      /\ upc' = "idle" /\ tmpid' = 0 /\ rest' = {} /\ qpc' = "idle" /\ qlist' = {} /\ qans' = {}
      /\ deaths' = deaths + 1 /\ deaths < MaxDeaths
  BY DEF Death, ResumesAt, LoadedCur
<1>2. cell' \in [0..MaxInner - 1 -> [doc : Docs \cup {NoDoc}, val : [Fields -> 0..MaxMsgs]]]
  <2> DEFINE c == cell[MaxInner - 1]
  <2>1. cell \in [0..MaxInner - 1 -> [doc : Docs \cup {NoDoc}, val : [Fields -> 0..MaxMsgs]]]
        /\ MaxInner - 1 \in 0..MaxInner - 1 /\ MaxMsgs \in Nat /\ LastField \in Fields
    BY ConstantsAssumption DEF Types, TypeOK
  <2>2. c \in [doc : Docs \cup {NoDoc}, val : [Fields -> 0..MaxMsgs]]
    BY <2>1
  <2>3. cell' = [cell EXCEPT ![MaxInner - 1] = [c EXCEPT !.val = [c.val EXCEPT ![LastField] = 0]]]
    BY DEF Death
  <2> HIDE DEF c
  <2> DEFINE v == [c.val EXCEPT ![LastField] = 0]
  <2>4. v \in [Fields -> 0..MaxMsgs]
    <3>1. c.val \in [Fields -> 0..MaxMsgs] /\ 0 \in 0..MaxMsgs
      BY <2>1, <2>2
    <3> QED BY <3>1
  <2> HIDE DEF v
  <2>5. [c EXCEPT !.val = v] \in [doc : Docs \cup {NoDoc}, val : [Fields -> 0..MaxMsgs]]
    BY <2>2, <2>4
  <2>6. cell' = [cell EXCEPT ![MaxInner - 1] = [c EXCEPT !.val = v]]
    BY <2>3 DEF v
  <2> QED BY <2>1, <2>5, <2>6
<1>3. upc # "idle" => Doc(Now) \in Docs
  BY NowTypes
<1>4. cut' \subseteq thin' /\ thin' \subseteq Docs
  <2>1. cut \subseteq thin /\ thin \subseteq Docs
    BY DEF Types, TypeOK
  <2>2. /\ cut' = IF upc = "mod" /\ tmpid > 0 THEN cut \cup {Doc(Now)} ELSE cut
        /\ thin' = IF upc \in {"mod", "copy"} /\ tmpid > 0 THEN thin \cup {Doc(Now)} ELSE thin
    BY DEF Death
  <2> QED BY <1>3, <2>1, <2>2
<1>5. cp \in 0..last /\ last \in Nat /\ last <= Len(log) /\ Len(log) \in Nat /\ deaths \in Nat /\ MaxDeaths \in Nat
      /\ cur \in 0..MaxInner - 1 /\ MaxInner \in Nat
  BY LenProperties, ConstantsAssumption DEF Types, TypeOK
<1>6. cp \in 0..Len(log) /\ deaths + 1 \in 0..MaxDeaths /\ 0 \in 0..cur /\ cp \in 0..cp
  BY <1>1, <1>5
<1>7. DOMAIN disk \subseteq 1..cur
  BY DEF Types, TypeOK
<1>8. TypeOK'
  BY <1>1, <1>2, <1>4, <1>6, <1>7 DEF Types, TypeOK
<1>9. Lists'
  BY <1>1 DEF Types, Lists
<1> QED BY <1>8, <1>9 DEF Types

\* A query reads.
LEMMA TypesQuery ==
  ASSUME Types, Merge \/ \E i \in qlist : Filter(i)
  PROVE  Types'
<1> USE DEF docVars, history
<1>1. UNCHANGED <<log, upc, last, tmpid, rest, docVars, posts, disk, cp, history>>
  BY DEF Merge, Filter
<1>2. qpc' \in {"idle", "filter", "done"}
  BY DEF Merge, Filter, Types, TypeOK
<1>3. qlist' \cup qans' \subseteq DOMAIN posts
  BY DEF Merge, Filter, Types, Lists
<1>4. DOMAIN posts \subseteq Ids
  BY ConstantsAssumption DEF Types, TypeOK, Ids
<1>5. qlist' \subseteq Ids /\ qans' \subseteq Ids
  BY <1>3, <1>4
<1>6. TypeOK'
  BY <1>1, <1>2, <1>5 DEF Types, TypeOK, Ids
<1>7. Lists'
  BY <1>1, <1>3 DEF Types, Lists
<1> QED BY <1>6, <1>7 DEF Types

\* Every step keeps the types.
LEMMA TypesStep ==
  ASSUME Types, Working, [Next]_vars
  PROVE  Types'
<1>1. CASE Update
  BY <1>1, TypesReceive, TypesSetAttrs, TypesAlloc, TypesCopyCell, TypesPost, TypesSetDelBit DEF Update
<1>2. CASE Persist \/ Death \/ Query
  BY <1>2, TypesPersist, TypesDeath, TypesQuery DEF Query
<1>3. CASE UNCHANGED vars
  <2>1. UNCHANGED <<log, upc, last, tmpid, rest, docVars, posts, disk, cp, qVars, history>>
    BY <1>3 DEF vars
  <2>2. TypeOK'
    BY <2>1 DEF Types, TypeOK, docVars, qVars, history, Ids
  <2>3. Lists'
    BY <2>1 DEF Types, Lists, qVars
  <2> QED BY <2>2, <2>3 DEF Types
<1> QED BY <1>1, <1>2, <1>3 DEF Next
(***************************************************************************)
(* Part 2.  Versions.                                                      *)
(***************************************************************************)
\* The cell of an id that can be found keeps its document: SetAttrs writes into the cell of the
\* document's own id, and CopyCell into that of an id that cannot be found yet.
LEMMA SameDocs ==
  ASSUME Types, Working, Owned, [Next]_vars, NEW i \in DOMAIN posts
  PROVE  cell'[i].doc = cell[i].doc
<1>0. /\ cell \in [0..MaxInner - 1 -> [doc : Docs \cup {NoDoc}, val : [Fields -> 0..MaxMsgs]]]
      /\ i \in 0..MaxInner - 1 /\ i # 0
  <2>1. cell \in [0..MaxInner - 1 -> [doc : Docs \cup {NoDoc}, val : [Fields -> 0..MaxMsgs]]]
    BY DEF Types, TypeOK
  <2>2. i \in 1..cur /\ cur \in 0..MaxInner - 1
    BY DEF Types, TypeOK
  <2>3. MaxInner \in Nat
    BY ConstantsAssumption
  <2>4. i \in 0..MaxInner - 1 /\ i # 0
    BY <2>2, <2>3
  <2> QED BY <2>1, <2>4
<1>1. CASE SetAttrs
  <2>1. upc = "attrs" /\ Doc(Now) \in Docs
    BY <1>1, NowTypes DEF SetAttrs
  <2>2. tmpid = InnerID(Doc(Now))
    BY <2>1 DEF Working
  <2>3. tmpid = i => cell[i].doc = Doc(Now)
    BY <1>0, <2>1, <2>2, InnerTypes DEF Owned, InnerID
  <2>4. cell'[i].doc = IF i = tmpid THEN Doc(Now) ELSE cell[i].doc
    BY <1>0, <1>1 DEF SetAttrs
  <2> QED BY <2>3, <2>4
<1>2. CASE CopyCell
  <2>1. cur # i
    BY <1>2 DEF CopyCell, Working
  <2> QED BY <1>0, <1>2, <2>1 DEF CopyCell
<1>3. CASE Death
  BY <1>0, <1>3 DEF Death
<1>4. CASE ~(SetAttrs \/ CopyCell \/ Death)
  <2>1. cell' = cell
    BY <1>4 DEF Next, Update, Receive, SaveCur, AllocFails, MapDoc, SetMod, Post, SetDelBit, Persist,
      Query, Merge, Filter, docVars, vars
  <2> QED BY <2>1
<1> QED BY <1>1, <1>2, <1>3, <1>4

\* The update thread between two steps of its own.
LEMMA WorkingSame ==
  ASSUME Working, UNCHANGED <<log, last, upc, tmpid, o2i, cur, cell, posts>>
  PROVE  Working'
<1>1. Now' = Now /\ \A d : InnerID(d)' = InnerID(d)
  BY DEF Now, InnerID
<1> QED BY <1>1 DEF Working

\* A step of add leaves what Working says for the next one.
LEMMA WorkingStep ==
  ASSUME Types, Working, [Next]_vars
  PROVE  Working'
<1> USE DEF docVars, qVars, history
<1>1. ASSUME NEW m \in Messages, Receive(m) PROVE Working'
  <2>1. Now' = m /\ o2i' = o2i /\ upc' \in {"attrs", "bits"}
    BY <1>1, TypesReceive DEF Receive
  <2>2. upc' = "attrs" => tmpid' = InnerID(Doc(m))
    BY <1>1, <2>1 DEF Receive
  <2>3. InnerID(Doc(m))' = InnerID(Doc(m))
    BY <2>1 DEF InnerID
  <2>4. upc' = "attrs" => tmpid' = InnerID(Doc(Now))'
    BY <2>1, <2>2 DEF InnerID
  <2> QED BY <2>1, <2>4 DEF Working
<1>2. CASE SetAttrs
  <2>1. upc = "attrs" /\ UNCHANGED <<log, tmpid, o2i>>
    BY <1>2 DEF SetAttrs
  <2>2. CASE upc' = "idle"
    BY <2>2 DEF Working
  <2>3. CASE upc' # "idle"
    <3>1. upc' = "alloc" /\ last' = last
      BY <1>2, <2>3 DEF SetAttrs, Done
    <3>2. Now' = Now /\ InnerID(Doc(Now))' = InnerID(Doc(Now))
      BY <2>1, <3>1 DEF Now, InnerID
    <3>3. tmpid = InnerID(Doc(Now))
      BY <2>1 DEF Working
    <3>4. cell'[tmpid].doc = Doc(Now)
      <4>1. cell \in [0..MaxInner - 1 -> [doc : Docs \cup {NoDoc}, val : [Fields -> 0..MaxMsgs]]]
            /\ tmpid \in 0..MaxInner - 1
        BY ConstantsAssumption DEF Types, TypeOK
      <4> QED BY <1>2, <4>1 DEF SetAttrs
    <3> QED BY <2>1, <3>1, <3>2, <3>3, <3>4 DEF Working
  <2> QED BY <2>2, <2>3
<1>3. CASE SaveCur
  <2>1. upc = "alloc" /\ upc' = "map" /\ cur' = cur + 1 /\ Doc(Now) \in Outer
        /\ UNCHANGED <<log, last, tmpid, o2i, cell, posts>>
    BY <1>3 DEF SaveCur, CanAlloc
  <2>2. Now' = Now /\ InnerID(Doc(Now))' = InnerID(Doc(Now))
    BY <2>1 DEF Now, InnerID
  <2>3. tmpid = InnerID(Doc(Now)) /\ cell[tmpid].doc = Doc(Now)
    BY <2>1 DEF Working
  <2>4. cur \in Nat /\ DOMAIN posts \subseteq 1..cur /\ o2i \in [Docs -> 0..cur]
    BY ConstantsAssumption DEF Types, TypeOK
  <2>5. cur + 1 \notin DOMAIN posts /\ cur + 1 > 0 /\ \A d \in Docs : o2i[d] # cur + 1
    BY <2>4
  <2> QED BY <2>1, <2>2, <2>3, <2>5 DEF Working
<1>4. CASE MapDoc
  <2>1. upc = "map" /\ upc' = "mod" /\ o2i' = [o2i EXCEPT ![Doc(Now)] = cur]
        /\ UNCHANGED <<log, last, tmpid, cur, cell, posts>>
    BY <1>4 DEF MapDoc
  <2>2. Now' = Now /\ Doc(Now) \in Docs
    BY <2>1, NowTypes DEF Now
  <2>3. cell[tmpid].doc = Doc(Now) /\ Doc(Now) \in Outer /\ cur \notin DOMAIN posts /\ cur > 0
        /\ \A d \in Docs : o2i[d] # cur
    BY <2>1 DEF Working
  <2>4. \A d \in Docs : o2i'[d] = cur <=> d = Doc(Now)
    BY <2>1, <2>2, <2>3 DEF Types, TypeOK
  <2> QED BY <2>1, <2>2, <2>3, <2>4 DEF Working
<1>5. CASE SetMod
  <2>1. upc = "mod" /\ upc' = "copy" /\ UNCHANGED <<log, last, tmpid, o2i, cur, cell, posts>>
    BY <1>5 DEF SetMod
  <2>2. Now' = Now
    BY <2>1 DEF Now
  <2> QED BY <2>1, <2>2 DEF Working
<1>6. CASE CopyCell
  <2>1. upc = "copy" /\ upc' = "post" /\ UNCHANGED <<log, last, tmpid, o2i, cur, posts>>
    BY <1>6 DEF CopyCell
  <2>2. Now' = Now
    BY <2>1 DEF Now
  <2>3. cell'[cur].doc = Doc(Now)
    <3>1. cell \in [0..MaxInner - 1 -> [doc : Docs \cup {NoDoc}, val : [Fields -> 0..MaxMsgs]]]
          /\ cur \in 0..MaxInner - 1
      BY DEF Types, TypeOK
    <3> QED BY <1>6, <2>1, <3>1 DEF CopyCell, Working
  <2> QED BY <2>1, <2>2, <2>3 DEF Working
<1>7. CASE AllocFails \/ Post \/ Death \/ \E d \in rest : SetDelBit(d)
  <2>1. upc' \in {"idle", "bits"}
    BY <1>7 DEF AllocFails, Post, Death, SetDelBit, Done
  <2> QED BY <2>1 DEF Working
<1>8. CASE Persist \/ Query \/ UNCHANGED vars
  <2>1. UNCHANGED <<log, last, upc, tmpid, o2i, cur, cell, posts>>
    BY <1>8 DEF Persist, Query, Merge, Filter, vars
  <2> QED BY <2>1, WorkingSame
<1> QED BY <1>1, <1>2, <1>3, <1>4, <1>5, <1>6, <1>7, <1>8 DEF Next, Update

\* The id map and the cells go on agreeing.
LEMMA OwnedStep ==
  ASSUME Types, Working, Owned, [Next]_vars
  PROVE  Owned'
<1> USE DEF docVars, qVars, history
<1>0. \A i \in DOMAIN posts : cell'[i].doc = cell[i].doc
  BY SameDocs
<1>1. CASE MapDoc
  <2>1. upc = "map" /\ o2i' = [o2i EXCEPT ![Doc(Now)] = cur] /\ UNCHANGED <<posts, cell>>
    BY <1>1 DEF MapDoc
  <2>2. Doc(Now) \in Docs /\ cur \notin DOMAIN posts
    BY <2>1, NowTypes DEF Working
  <2> QED BY <2>1, <2>2 DEF Owned, Types, TypeOK
<1>2. CASE Post
  <2>1. upc = "post" /\ UNCHANGED <<o2i, cell>> /\ DOMAIN posts' = DOMAIN posts \cup {cur}
    BY <1>2, TypesPost DEF Post
  <2>2. cell[cur].doc = Doc(Now) /\ \A d \in Docs : o2i[d] = cur <=> d = Doc(Now)
    BY <2>1 DEF Working
  <2> QED BY <2>1, <2>2 DEF Owned
<1>3. CASE Death
  <2>1. o2i' = o2i /\ DOMAIN posts' \subseteq DOMAIN posts
    BY <1>3 DEF Death, Types, TypeOK
  <2> QED BY <1>0, <2>1 DEF Owned
<1>4. CASE ~(MapDoc \/ Post \/ Death)
  <2>1. UNCHANGED <<posts, o2i>>
    BY <1>4 DEF Next, Update, Receive, SetAttrs, SaveCur, AllocFails, SetMod, CopyCell, SetDelBit, Persist,
      Query, Merge, Filter, vars
  <2> QED BY <1>0, <2>1 DEF Owned
<1> QED BY <1>1, <1>2, <1>3, <1>4
\* A step that maps and replaces nothing.
LEMMA ReplacedSame ==
  ASSUME Replaced, UNCHANGED <<posts, o2i, mod, cut>>, upc # "mod",
         \A i \in DOMAIN posts : cell'[i].doc = cell[i].doc
  PROVE  Replaced'
BY DEF Replaced, Current, Leaving

\* The mark comes before the new version can be found, unless a death comes first.
LEMMA ReplacedStep ==
  ASSUME Types, Working, Owned, Replaced, [Next]_vars
  PROVE  Replaced'
<1> USE DEF docVars, qVars, history
<1>0. \A i \in DOMAIN posts : cell'[i].doc = cell[i].doc
  BY SameDocs
<1>1. CASE MapDoc
  <2>1. upc = "map" /\ upc' = "mod" /\ o2i' = [o2i EXCEPT ![Doc(Now)] = cur]
        /\ UNCHANGED <<posts, cell, mod, cut, tmpid, log, last>>
    BY <1>1 DEF MapDoc
  <2>2. Doc(Now) \in Docs /\ tmpid = o2i[Doc(Now)] /\ Now' = Now
    BY <2>1, NowTypes, InnerTypes DEF Working, Now
  <2>3. o2i \in [Docs -> 0..cur]
    BY DEF Types, TypeOK
  <2> SUFFICES ASSUME NEW i \in DOMAIN posts, cell[i].doc \notin cut, i \notin mod
               PROVE  Current(i)' \/ Leaving(i)'
    BY <2>1 DEF Replaced
  <2>4. Current(i)
    BY <2>1 DEF Replaced, Leaving
  <2>5. CASE cell[i].doc = Doc(Now)
    BY <2>1, <2>2, <2>4, <2>5 DEF Current, Leaving
  <2>6. CASE cell[i].doc # Doc(Now)
    BY <2>1, <2>3, <2>4, <2>6 DEF Current
  <2> QED BY <2>5, <2>6
<1>2. CASE SetMod
  <2>1. upc = "mod" /\ upc' = "copy" /\ UNCHANGED <<posts, cell, o2i, cut>>
        /\ mod' = IF tmpid > 0 THEN mod \cup {tmpid} ELSE mod
    BY <1>2 DEF SetMod
  <2>2. \A i \in DOMAIN posts : i > 0
    BY DEF Types, TypeOK
  <2>3. \A i \in DOMAIN posts : Leaving(i) => i \in mod'
    BY <2>1, <2>2 DEF Leaving
  <2>4. mod \subseteq mod'
    BY <2>1
  <2>5. \A i \in DOMAIN posts : Current(i) => Current(i)'
    BY <2>1 DEF Current
  <2> QED BY <2>1, <2>3, <2>4, <2>5 DEF Replaced
<1>3. CASE Post
  <2>1. upc = "post" /\ UNCHANGED <<o2i, cell, mod, cut>> /\ DOMAIN posts' = DOMAIN posts \cup {cur}
    BY <1>3, TypesPost DEF Post
  <2>2. cell[cur].doc = Doc(Now) /\ Doc(Now) \in Docs /\ o2i[Doc(Now)] = cur
    BY <2>1, NowTypes DEF Working
  <2>3. \A i \in DOMAIN posts : cell[i].doc \in cut \/ i \in mod \/ Current(i)
    BY <2>1 DEF Replaced, Leaving
  <2>4. Current(cur)
    BY <2>2 DEF Current
  <2>5. \A i : Current(i) => Current(i)'
    BY <2>1 DEF Current
  <2> QED BY <2>1, <2>3, <2>4, <2>5 DEF Replaced
<1>4. CASE Death
  <2>1. UNCHANGED <<o2i, mod>> /\ DOMAIN posts' \subseteq DOMAIN posts
        /\ cut' = IF upc = "mod" /\ tmpid > 0 THEN cut \cup {Doc(Now)} ELSE cut
    BY <1>4 DEF Death, Types, TypeOK
  <2>2. \A i \in DOMAIN posts : i > 0
    BY DEF Types, TypeOK
  <2>3. \A i \in DOMAIN posts : Leaving(i) => cell[i].doc \in cut'
    BY <2>1, <2>2 DEF Leaving
  <2>4. cut \subseteq cut'
    BY <2>1
  <2>5. \A i \in DOMAIN posts : Current(i) => Current(i)'
    BY <1>0, <2>1 DEF Current
  <2> QED BY <1>0, <2>1, <2>3, <2>4, <2>5 DEF Replaced
<1>5. CASE ~(MapDoc \/ SetMod \/ Post \/ Death)
  <2>1. UNCHANGED <<posts, o2i, mod, cut>>
    BY <1>5 DEF Next, Update, Receive, SetAttrs, SaveCur, AllocFails, CopyCell, SetDelBit, Persist,
      Query, Merge, Filter, vars
  <2>2. CASE upc # "mod"
    BY <1>0, <2>1, <2>2, ReplacedSame
  <2>3. CASE upc = "mod"
    <3>1. UNCHANGED <<upc, tmpid, log, last>>
      BY <1>5, <2>3 DEF Next, Update, Receive, SetAttrs, SaveCur, AllocFails, CopyCell, SetDelBit, Persist,
        Query, Merge, Filter, vars
    <3>2. Now' = Now
      BY <3>1 DEF Now
    <3>3. \A i \in DOMAIN posts : (Leaving(i) => Leaving(i)') /\ (Current(i) => Current(i)')
      BY <1>0, <2>1, <3>1, <3>2 DEF Leaving, Current
    <3> QED BY <1>0, <2>1, <3>3 DEF Replaced
  <2> QED BY <2>2, <2>3
<1> QED BY <1>1, <1>2, <1>3, <1>4, <1>5

\* Of two versions that can be found one is marked.
LEMMA OneUnmarked ==
  ASSUME Types, Working, Replaced, NEW i \in DOMAIN posts, NEW j \in DOMAIN posts, i # j,
         cell[i].doc = cell[j].doc, cell[i].doc \notin cut
  PROVE  i \in mod \/ j \in mod
<1> SUFFICES ASSUME i \notin mod, j \notin mod PROVE FALSE
  OBVIOUS
<1>1. (Current(i) \/ Leaving(i)) /\ (Current(j) \/ Leaving(j))
  BY DEF Replaced
<1>2. ~(Current(i) /\ Current(j)) /\ ~(Leaving(i) /\ Leaving(j))
  BY DEF Current, Leaving
<1>3. PICK k \in {i, j} : Current(k) /\ upc = "mod" /\ cell[k].doc = Doc(Now)
  BY <1>1, <1>2 DEF Leaving
<1>4. o2i[Doc(Now)] = k /\ Doc(Now) \in Docs
  BY <1>3 DEF Current
<1>5. o2i[Doc(Now)] = cur /\ cur \notin DOMAIN posts
  BY <1>3, <1>4 DEF Working
<1> QED BY <1>4, <1>5

\* The filter: what passes is not marked, so every other version of it is, for good.
LEMMA FilterStep ==
  ASSUME Types, Working, Replaced, Filtered, OneVersion, NEW k \in qlist, Filter(k)
  PROVE  Filtered' /\ OneVersion'
<1> USE DEF docVars, qVars, history
<1>1. UNCHANGED <<posts, cell, mod, cut>> /\ qlist' = qlist \ {k} /\ qpc = "filter" /\ qpc' # "idle"
  BY DEF Filter
<1>2. qans' = qans \/ (k \notin mod /\ qans' = qans \cup {k})
  BY DEF Filter, Live
<1>3. qlist \cup qans \subseteq DOMAIN posts
  BY DEF Types, Lists
<1>4. ASSUME k \notin mod, NEW j \in qlist, j # k, cell[k].doc = cell[j].doc
      PROVE  cell[k].doc \in cut \/ j \in mod
  BY <1>3, <1>4, OneUnmarked
<1>5. ASSUME k \notin mod, NEW i \in qans, i # k, cell[i].doc = cell[k].doc
      PROVE  cell[i].doc \in cut
  BY <1>5 DEF Filtered
<1>6. \A i \in qans', j \in qlist' :
        i # j /\ cell[i].doc = cell[j].doc => cell[i].doc \in cut \/ j \in mod
  BY <1>1, <1>2, <1>4 DEF Filtered
<1>7. \A i, j \in qans' : i # j => cell[i].doc # cell[j].doc \/ cell[i].doc \in cut
  BY <1>2, <1>5 DEF OneVersion
<1> QED BY <1>1, <1>6, <1>7 DEF Filtered, OneVersion

\* All other steps leave a query alone; marks, and documents cut by a death, stay.
LEMMA QueryStep ==
  ASSUME Types, Working, Owned, Replaced, Filtered, OneVersion, [Next]_vars
  PROVE  Filtered' /\ OneVersion'
<1> USE DEF docVars, qVars, history
<1>1. CASE \E k \in qlist : Filter(k)
  BY <1>1, FilterStep
<1>2. CASE Merge
  <2>1. qans' = {}
    BY <1>2 DEF Merge, Filtered
  <2> QED BY <2>1 DEF Filtered, OneVersion
<1>3. CASE Death
  <2>1. qans' = {}
    BY <1>3 DEF Death
  <2> QED BY <2>1 DEF Filtered, OneVersion
<1>4. CASE ~(Query \/ Death)
  <2>1. UNCHANGED <<qpc, qlist, qans, cut>> /\ mod \subseteq mod'
    BY <1>4 DEF Next, Update, Receive, SetAttrs, SaveCur, AllocFails, MapDoc, SetMod, CopyCell, Post,
      SetDelBit, Persist, vars
  <2>2. \A i \in qlist \cup qans : cell'[i].doc = cell[i].doc
    BY SameDocs DEF Types, Lists
  <2>3. Filtered'
    BY <2>1, <2>2 DEF Filtered
  <2>4. OneVersion'
    BY <2>1, <2>2 DEF OneVersion
  <2> QED BY <2>3, <2>4
<1> QED BY <1>1, <1>2, <1>3, <1>4 DEF Query

\* Every variable keeps its type, through deaths and replays: in particular every inner id has a cell
\* in the attribute file and a bit in the bitmaps, and the check point covers what is on disk.
THEOREM DocTypes == Spec => []TypeOK
<1>1. Init => Types /\ Working
  BY TypesInit DEF Init, Working
<1>2. Types /\ Working /\ [Next]_vars => (Types /\ Working)'
  BY TypesStep, WorkingStep
<1>3. Types => TypeOK
  BY DEF Types
<1> QED BY <1>1, <1>2, <1>3, PTL DEF Spec

\* A query never answers with two versions of a document, although it reads the posting lists and the
\* bitmaps one after the other without a lock while add replaces versions; excepted are documents
\* that a death left between the id map and the bitmap.
THEOREM OneVersionAnswered == Spec => []OneVersion
<1>1. Init => VersionInv
  <2> SUFFICES ASSUME Init PROVE VersionInv
    OBVIOUS
  <2>1. Types
    BY TypesInit
  <2>2. Working /\ Filtered /\ OneVersion
    BY DEF Init, Working, Filtered, OneVersion
  <2>3. DOMAIN posts = {}
    BY EmptySeq DEF Init
  <2>4. Owned /\ Replaced
    BY <2>3 DEF Owned, Replaced
  <2> QED BY <2>1, <2>2, <2>4 DEF VersionInv
<1>2. VersionInv /\ [Next]_vars => VersionInv'
  BY TypesStep, WorkingStep, OwnedStep, ReplacedStep, QueryStep DEF VersionInv
<1>3. VersionInv => OneVersion
  BY DEF VersionInv
<1> QED BY <1>1, <1>2, <1>3, PTL DEF Spec

(***************************************************************************)
(* Part 3.  The documents: what the mapped files hold for the messages up  *)
(* to last, whichever run of the process wrote it.  A message that comes   *)
(* again meets what later messages have left, so every clause speaks of    *)
(* the message that is the last of its kind in the whole log: what that    *)
(* one did, nothing undoes.                                                *)
(***************************************************************************)
Adds(i, d) == log[i].op = "add" /\ d \in log[i].docs
Marks(i, d) == log[i].op \in {"del", "undel"} /\ d \in log[i].docs
Sets(i, d, f) == log[i].op \in {"add", "attr"} /\ d \in log[i].docs /\ f \in log[i].sets
LastAdd(v, d) == Adds(v, d) /\ \A i \in v + 1..Len(log) : ~Adds(i, d)
LastMark(v, d) == Marks(v, d) /\ \A i \in v + 1..Len(log) : ~Marks(i, d)
LastSet(v, d, f) == Sets(v, d, f) /\ \A i \in v + 1..Len(log) : ~Sets(i, d, f)

\* The message in work is of the kind its step belongs to.
Kind ==
  /\ seen = Len(log)
  /\ upc = "attrs" => Now.op \in {"add", "attr"}
  /\ upc \in {"alloc", "map", "mod", "copy", "post"} => Now.op = "add"
  /\ upc = "bits" => Now.op \in {"del", "undel"} /\ rest \subseteq Now.docs

\* The id map is one to one and leads to no replaced id; the id being replaced has left it, and the
\* new one has no marks.
Mapped ==
  /\ \A d \in Docs : o2i[d] # 0 => d \in Outer /\ o2i[d] \notin mod
  /\ \A d, e \in Docs : o2i[d] = o2i[e] /\ o2i[d] # 0 => d = e
  /\ upc \in {"map", "mod", "copy", "post"} => cur \notin mod /\ cur \notin del
  /\ upc \in {"mod", "copy"} /\ tmpid # 0 => \A d \in Docs : o2i[d] # tmpid

\* A document is in the id map only through an add.
Known == \A d \in Docs : o2i[d] # 0 => \E i \in 1..Len(log) : Adds(i, d)

\* Up to message n, the lists p hold the last version of each document, under its id.
Posted(n, p) ==
  \A d \in Docs, v \in 1..n : LastAdd(v, d) => o2i[d] \in DOMAIN p /\ p[o2i[d]] = v

\* The bit of the last DELETE or RESTORE since the last version.
Marked ==
  \A d \in Docs, v \in 1..last : LastAdd(v, d) =>
    /\ (\A i \in v + 1..Len(log) : ~Marks(i, d)) => o2i[d] \notin del
    /\ \A i \in v + 1..last : LastMark(i, d) => (o2i[d] \in del <=> log[i].op = "del")
    /\ upc = "bits" /\ d \notin rest /\ LastMark(last + 1, d) => (o2i[d] \in del <=> Now.op = "del")

\* The cell that has the attributes of d.
Home(d) == IF upc \in {"alloc", "map", "mod", "copy"} /\ d = Doc(Now) THEN tmpid ELSE o2i[d]
\* A document that was added has one.
Existing == \A d \in Docs, i \in 1..last : Adds(i, d) => Home(d) # 0
\* The last byte of the file, after a death.
Zeroed(i, f) == i = MaxInner - 1 /\ f = LastField /\ deaths > 0
\* The last message that set an attribute of an existing document left its value there.
Kept ==
  \A d \in Docs \ thin, f \in Fields, i \in 1..last :
    LastSet(i, d, f) /\ (\E a \in 1..i : Adds(a, d)) =>
      cell[Home(d)].val[f] = i \/ Zeroed(Home(d), f)

\* The message in work has set its attributes.
Written ==
  upc \in {"alloc", "map", "mod", "copy", "post"} =>
    \A f \in Now.sets : cell[Home(Doc(Now))].val[f] = last + 1

DocInv ==
  /\ Kind /\ Mapped /\ Known /\ Posted(last, posts) /\ Posted(cp, disk) /\ Marked
  /\ Existing /\ Kept /\ Written

\* An ADD or UPDATE is about one document.
LEMMA OneDoc ==
  ASSUME NEW m \in Messages, m.op \in {"add", "attr"}
  PROVE  m.docs = {Doc(m)}
<1>1. CASE m \in [op : {"add", "attr"}, docs : {{d} : d \in Docs}, sets : SUBSET Fields]
  <2>1. m.docs \in {{d} : d \in Docs}
    BY <1>1
  <2>2. PICK d \in Docs : m.docs = {d}
    BY <2>1
  <2> QED BY <2>2 DEF Doc
<1>2. CASE m \in [op : {"del", "undel"}, docs : (SUBSET Docs) \ {{}}, sets : {{}}]
  <2>1. m.op \in {"del", "undel"}
    BY <1>2
  <2> QED BY <2>1
<1> QED BY <1>1, <1>2 DEF Messages

\* The log only grows: an old message stays where it is.
LEMMA LogGrows ==
  ASSUME Types, [Next]_vars
  PROVE  /\ last \in Nat /\ Len(log) \in Nat /\ Len(log') \in Nat /\ last <= Len(log)
         /\ Len(log) <= Len(log')
         /\ \A i \in 1..Len(log) : log'[i] = log[i]
         /\ log' = log \/ \E m \in Messages : Receive(m)
<1>0. log \in Seq(Messages) /\ last \in 0..Len(log) /\ Len(log) \in Nat
  BY LenProperties DEF Types, TypeOK
<1>1. CASE \E m \in Messages : Receive(m)
  <2>1. PICK m \in Messages : Receive(m)
    BY <1>1
  <2>2. log' = log \/ log' = Append(log, m)
    BY <2>1 DEF Receive
  <2> QED BY <1>0, <1>1, <2>2
<1>2. CASE ~ \E m \in Messages : Receive(m)
  <2>1. log' = log
    BY <1>2 DEF Next, Update, SetAttrs, SaveCur, AllocFails, MapDoc, SetMod, CopyCell, Post, SetDelBit, Persist,
      Death, Query, Merge, Filter, vars
  <2> QED BY <1>0, <2>1
<1> QED BY <1>1, <1>2

\* What was the last of its kind in the new log was it in the old one.
LEMMA LastKept ==
  ASSUME Types, [Next]_vars, NEW v \in 1..Len(log), NEW d
  PROVE  /\ Adds(v, d)' <=> Adds(v, d)
         /\ Marks(v, d)' <=> Marks(v, d)
         /\ LastAdd(v, d)' => LastAdd(v, d)
         /\ LastMark(v, d)' => LastMark(v, d)
         /\ \A f : (Sets(v, d, f)' <=> Sets(v, d, f)) /\ (LastSet(v, d, f)' => LastSet(v, d, f))
<1>0. Len(log) \in Nat /\ Len(log') \in Nat /\ Len(log) <= Len(log') /\ \A i \in 1..Len(log) : log'[i] = log[i]
  BY LogGrows
<1>1. \A i \in 1..Len(log) : /\ Adds(i, d)' <=> Adds(i, d)
                             /\ Marks(i, d)' <=> Marks(i, d)
                             /\ \A f : Sets(i, d, f)' <=> Sets(i, d, f)
  BY <1>0 DEF Adds, Marks, Sets
<1>2. v + 1..Len(log) \subseteq v + 1..Len(log') /\ v + 1..Len(log) \subseteq 1..Len(log)
  BY <1>0
<1>3. LastAdd(v, d)' => LastAdd(v, d)
  BY <1>1, <1>2 DEF LastAdd
<1>4. LastMark(v, d)' => LastMark(v, d)
  BY <1>1, <1>2 DEF LastMark
<1>5. \A f : LastSet(v, d, f)' => LastSet(v, d, f)
  BY <1>1, <1>2 DEF LastSet
<1> QED BY <1>1, <1>3, <1>4, <1>5

\* Where the update thread goes: a step of the message in work leaves the message.
LEMMA SameMessage ==
  ASSUME Types, [Next]_vars, upc # "idle", ~Death
  PROVE  /\ log' = log
         /\ upc' # "idle" => last' = last /\ Now' = Now
         /\ upc' = "idle" => last' \in {last, last + 1}
<1>1. log' = log /\ (upc' # "idle" => last' = last) /\ (upc' = "idle" => last' \in {last, last + 1})
  BY DEF Next, Update, Receive, SetAttrs, SaveCur, AllocFails, MapDoc, SetMod, CopyCell, Post, SetDelBit, Persist,
    Query, Merge, Filter, vars, Done
<1> QED BY <1>1 DEF Now

\* Messages and steps go together.
LEMMA KindStep ==
  ASSUME Types, Kind, [Next]_vars
  PROVE  Kind'
<1> USE DEF docVars, qVars, history
<1>1. ASSUME NEW m \in Messages, Receive(m) PROVE Kind'
  <2>1. Now' = m
    BY <1>1, TypesReceive
  <2>2. seen' = Len(log')
    <3>1. log \in Seq(Messages) /\ last \in 0..Len(log) /\ Len(log) \in Nat /\ seen = Len(log)
      BY LenProperties DEF Types, TypeOK, Kind
    <3>2. seen' = IF last + 1 > seen THEN last + 1 ELSE seen
      BY <1>1 DEF Receive
    <3>3. IF last < Len(log) THEN log' = log ELSE log' = Append(log, m)
      BY <1>1 DEF Receive
    <3> QED BY <3>1, <3>2, <3>3
  <2>3. m.op \in {"add", "attr", "del", "undel"}
    <3>1. CASE m \in [op : {"add", "attr"}, docs : {{d} : d \in Docs}, sets : SUBSET Fields]
      BY <3>1
    <3>2. CASE m \in [op : {"del", "undel"}, docs : (SUBSET Docs) \ {{}}, sets : {{}}]
      BY <3>2
    <3> QED BY <3>1, <3>2 DEF Messages
  <2>4. IF m.op \in {"add", "attr"} THEN upc' = "attrs" ELSE upc' = "bits" /\ rest' = m.docs
    BY <1>1 DEF Receive
  <2> QED BY <2>1, <2>2, <2>3, <2>4 DEF Kind
<1>2. CASE SetAttrs
  <2>1. upc = "attrs" /\ seen' = seen /\ upc' \in {"idle", "alloc"} /\ (upc' = "alloc" => Now.op # "attr")
    BY <1>2 DEF SetAttrs, Done
  <2> QED BY <1>2, <2>1, SameMessage DEF Kind, Death
<1>3. CASE SaveCur \/ MapDoc \/ SetMod \/ CopyCell
  <2>1. upc \in {"alloc", "map", "mod", "copy"} /\ seen' = seen /\ upc' \in {"map", "mod", "copy", "post"}
        /\ UNCHANGED <<log, last>>
    BY <1>3 DEF SaveCur, MapDoc, SetMod, CopyCell
  <2> QED BY <2>1 DEF Kind, Now
<1>4. CASE AllocFails \/ Post \/ Death
  <2>1. upc' = "idle" /\ UNCHANGED <<log, seen>>
    BY <1>4 DEF AllocFails, Post, Death, Done
  <2> QED BY <2>1 DEF Kind
<1>5. ASSUME NEW d \in rest, SetDelBit(d) PROVE Kind'
  <2>1. upc = "bits" /\ seen' = seen /\ log' = log /\ rest' \subseteq rest
        /\ (upc' = "idle" \/ (upc' = "bits" /\ last' = last))
    BY <1>5 DEF SetDelBit, Done
  <2> QED BY <2>1 DEF Kind, Now
<1>6. CASE Persist \/ Query \/ UNCHANGED vars
  <2>1. UNCHANGED <<log, last, upc, seen, rest>>
    BY <1>6 DEF Persist, Query, Merge, Filter, vars
  <2> QED BY <2>1 DEF Kind, Now
<1> QED BY <1>1, <1>2, <1>3, <1>4, <1>5, <1>6 DEF Next, Update

\* While add works, the id map and tmpid tell of the document it is about.
LEMMA WorkingIds ==
  ASSUME Types, Working, Kind, upc # "idle"
  PROVE  /\ last + 1 \in 1..Len(log) /\ Now \in Messages /\ Doc(Now) \in Now.docs /\ Doc(Now) \in Docs
         /\ upc \in {"attrs", "alloc", "map", "mod", "copy", "post"} => Now.docs = {Doc(Now)}
         /\ upc \in {"alloc", "map", "mod", "copy", "post"} => Adds(last + 1, Doc(Now))
         /\ o2i \in [Docs -> 0..cur] /\ tmpid \in 0..cur /\ cur \in 0..MaxInner - 1 /\ last \in Nat
         /\ Len(log) \in Nat
<1>1. Now \in Messages /\ Doc(Now) \in Docs /\ Doc(Now) \in Now.docs
  BY NowTypes, MessageTypes
<1>2. last \in Nat /\ last < Len(log) /\ Len(log) \in Nat
  BY LenProperties DEF Types, TypeOK, Lists
<1>3. last + 1 \in 1..Len(log)
  BY <1>2
<1>4. upc \in {"attrs", "alloc", "map", "mod", "copy", "post"} => Now.docs = {Doc(Now)}
  BY <1>1, OneDoc DEF Kind
<1>5. upc \in {"alloc", "map", "mod", "copy", "post"} => Adds(last + 1, Doc(Now))
  BY <1>1 DEF Kind, Adds, Now
<1>6. o2i \in [Docs -> 0..cur] /\ tmpid \in 0..cur /\ cur \in 0..MaxInner - 1
  BY DEF Types, TypeOK
<1> QED BY <1>1, <1>2, <1>3, <1>4, <1>5, <1>6

\* The id map stays one to one, and clear of replaced ids.
LEMMA MappedStep ==
  ASSUME Types, Working, Kind, Mapped, [Next]_vars
  PROVE  Mapped'
<1> USE DEF docVars, qVars, history
<1>1. ASSUME UNCHANGED <<o2i, mod>>, upc' \notin {"map", "mod", "copy", "post"}
      PROVE  Mapped'
  BY <1>1 DEF Mapped
<1>2. CASE \E m \in Messages : Receive(m)
  BY <1>1, <1>2 DEF Receive
<1>3. CASE SetAttrs \/ AllocFails \/ Post \/ Death \/ \E d \in rest : SetDelBit(d)
  BY <1>1, <1>3 DEF SetAttrs, AllocFails, Post, Death, SetDelBit, Done
<1>4. CASE SaveCur
  <2>1. upc' = "map" /\ cur' = cur + 1 /\ UNCHANGED <<o2i, mod, del>>
    BY <1>4 DEF SaveCur
  <2>2. mod \subseteq 1..cur /\ del \subseteq 1..cur /\ cur \in Nat
    BY ConstantsAssumption DEF Types, TypeOK
  <2>3. cur + 1 \notin mod /\ cur + 1 \notin del
    BY <2>2
  <2> QED BY <2>1, <2>3 DEF Mapped
<1>5. CASE MapDoc
  <2> DEFINE e == Doc(Now)
  <2>1. upc = "map" /\ upc' = "mod" /\ o2i' = [o2i EXCEPT ![e] = cur] /\ UNCHANGED <<mod, del, cur, tmpid>>
    BY <1>5 DEF MapDoc
  <2>2. e \in Docs /\ o2i \in [Docs -> 0..cur]
    BY <2>1, WorkingIds
  <2>3. e \in Outer /\ cur > 0 /\ tmpid = o2i[e] /\ \A d \in Docs : o2i[d] # cur
    BY <2>1, <2>2, InnerTypes DEF Working
  <2>4. cur \notin mod /\ cur \notin del
    BY <2>1 DEF Mapped
  <2> HIDE DEF e
  <2>5. o2i'[e] = cur /\ \A d \in Docs : d # e => o2i'[d] = o2i[d]
    BY <2>1, <2>2
  <2>6. \A d \in Docs : o2i'[d] # 0 => d \in Outer /\ o2i'[d] \notin mod'
    BY <2>1, <2>3, <2>4, <2>5 DEF Mapped
  <2>7. \A d, c \in Docs : o2i'[d] = o2i'[c] /\ o2i'[d] # 0 => d = c
    BY <2>2, <2>3, <2>5 DEF Mapped
  <2>8. tmpid # 0 => \A d \in Docs : o2i'[d] # tmpid
    BY <2>2, <2>3, <2>5 DEF Mapped
  <2> QED BY <2>1, <2>4, <2>6, <2>7, <2>8 DEF Mapped
<1>6. CASE SetMod
  <2>1. upc = "mod" /\ upc' = "copy" /\ UNCHANGED <<o2i, del, cur, tmpid, log, last>>
        /\ mod' = IF tmpid > 0 THEN mod \cup {tmpid} ELSE mod
    BY <1>6 DEF SetMod
  <2>2. tmpid \in Nat /\ Doc(Now) \in Docs /\ o2i[Doc(Now)] = cur /\ cur > 0
    BY <2>1, WorkingIds, ConstantsAssumption DEF Working
  <2>3. tmpid # 0 => \A d \in Docs : o2i[d] # tmpid
    BY <2>1 DEF Mapped
  <2>4. mod' = mod \/ (tmpid # 0 /\ mod' = mod \cup {tmpid})
    BY <2>1, <2>2
  <2>5. cur \notin mod'
    BY <2>1, <2>2, <2>3, <2>4 DEF Mapped
  <2>6. \A d \in Docs : o2i[d] # 0 => d \in Outer /\ o2i[d] \notin mod'
    BY <2>3, <2>4 DEF Mapped
  <2> QED BY <2>1, <2>3, <2>5, <2>6 DEF Mapped
<1>7. CASE CopyCell
  BY <1>7 DEF CopyCell, Mapped
<1>8. CASE Persist \/ Query \/ UNCHANGED vars
  <2>1. UNCHANGED <<o2i, mod, del, cur, tmpid, upc>>
    BY <1>8 DEF Persist, Query, Merge, Filter, vars
  <2> QED BY <2>1 DEF Mapped
<1> QED BY <1>2, <1>3, <1>4, <1>5, <1>6, <1>7, <1>8 DEF Next, Update

\* Only allocInnerID writes the id map.
LEMMA SameMap ==
  ASSUME [Next]_vars, ~MapDoc
  PROVE  o2i' = o2i
BY DEF Next, Update, Receive, SetAttrs, SaveCur, AllocFails, SetMod, CopyCell, Post, SetDelBit, Persist, Death,
  Query, Merge, Filter, vars, docVars

\* A document gets an id only by its own add: the ids of the others, and of those whose last version
\* is done, stay.
LEMMA MapStays ==
  ASSUME Types, Working, Kind, [Next]_vars, NEW d \in Docs
  PROVE  /\ o2i'[d] = o2i[d] \/ (o2i'[d] = cur /\ upc = "map" /\ d = Doc(Now) /\ Adds(last + 1, d))
         /\ \A v \in 1..last : LastAdd(v, d) => o2i'[d] = o2i[d]
<1>1. CASE MapDoc
  <2>1. upc = "map" /\ o2i' = [o2i EXCEPT ![Doc(Now)] = cur]
    BY <1>1 DEF MapDoc
  <2>2. Doc(Now) \in Docs /\ o2i \in [Docs -> 0..cur] /\ Adds(last + 1, Doc(Now)) /\ last + 1 \in 1..Len(log)
        /\ last \in Nat /\ Len(log) \in Nat
    BY <2>1, WorkingIds
  <2>3. \A v \in 1..last : last + 1 \in v + 1..Len(log)
    BY <2>2
  <2>4. \A v \in 1..last : LastAdd(v, d) => d # Doc(Now)
    BY <2>2, <2>3 DEF LastAdd
  <2> QED BY <2>1, <2>2, <2>4
<1>2. CASE ~MapDoc
  BY <1>2, SameMap
<1> QED BY <1>1, <1>2

\* No id without an add.
LEMMA KnownStep ==
  ASSUME Types, Working, Kind, Known, [Next]_vars
  PROVE  Known'
<1> SUFFICES ASSUME NEW d \in Docs, o2i'[d] # 0
             PROVE  \E i \in 1..Len(log') : Adds(i, d)'
  BY DEF Known
<1>1. Len(log) \in Nat /\ Len(log') \in Nat /\ Len(log) <= Len(log')
  BY LogGrows
<1>2. \E i \in 1..Len(log) : Adds(i, d)
  <2>1. CASE o2i'[d] = o2i[d]
    BY <2>1 DEF Known
  <2>2. CASE o2i'[d] # o2i[d]
    BY <2>2, MapStays, WorkingIds
  <2> QED BY <2>1, <2>2
<1>3. PICK i \in 1..Len(log) : Adds(i, d)
  BY <1>2
<1>4. Adds(i, d)'
  BY <1>3, LastKept
<1>5. i \in 1..Len(log')
  BY <1>1
<1> QED BY <1>4, <1>5

\* What lists hold for the messages that are done does not depend on later steps.
LEMMA PostedStays ==
  ASSUME Types, Working, Kind, [Next]_vars, NEW n \in 0..last, NEW p, Posted(n, p)
  PROVE  \A d \in Docs, v \in 1..n : LastAdd(v, d)' => o2i'[d] \in DOMAIN p /\ p[o2i'[d]] = v
<1> SUFFICES ASSUME NEW d \in Docs, NEW v \in 1..n, LastAdd(v, d)'
             PROVE  o2i'[d] \in DOMAIN p /\ p[o2i'[d]] = v
  OBVIOUS
<1>1. v \in 1..last /\ v \in 1..Len(log)
  BY LogGrows
<1>2. LastAdd(v, d)
  BY <1>1, LastKept
<1>3. o2i'[d] = o2i[d]
  BY <1>1, <1>2, MapStays
<1> QED BY <1>2, <1>3 DEF Posted

\* A message that is done and is no add changes nothing about the lists.
LEMMA PostedNoAdd ==
  ASSUME Types, Working, Kind, [Next]_vars, Posted(last, posts), posts' = posts,
         last' = last \/ (last' = last + 1 /\ upc # "idle" /\ Now.op # "add")
  PROVE  Posted(last, posts)'
<1>1. last \in Nat /\ Len(log) \in Nat /\ last <= Len(log)
  BY LogGrows
<1> SUFFICES ASSUME NEW d \in Docs, NEW v \in 1..last', LastAdd(v, d)'
             PROVE  o2i'[d] \in DOMAIN posts /\ posts[o2i'[d]] = v
  BY DEF Posted
<1>2. v \in 1..last
  <2> SUFFICES ASSUME v = last + 1, upc # "idle", Now.op # "add" PROVE FALSE
    BY <1>1
  <2>1. v \in 1..Len(log)
    BY WorkingIds
  <2>2. Adds(v, d)
    BY <2>1, LastKept DEF LastAdd
  <2> QED BY <2>2 DEF Adds, Now
<1>3. last \in 0..last
  BY <1>1
<1> QED BY <1>2, <1>3, PostedStays

\* The lists go on holding the last versions, in memory and on disk.
LEMMA PostedStep ==
  ASSUME Types, Working, Kind, Posted(last, posts), Posted(cp, disk), [Next]_vars
  PROVE  Posted(last, posts)' /\ Posted(cp, disk)'
<1> USE DEF docVars, qVars, history
<1>1. last \in Nat /\ Len(log) \in Nat /\ last <= Len(log) /\ cp \in 0..last /\ last \in 0..last
  <2>1. last \in Nat /\ Len(log) \in Nat /\ last <= Len(log)
    BY LogGrows
  <2> QED BY <2>1 DEF Types, TypeOK
<1>2. \A d \in Docs, v \in 1..last : LastAdd(v, d)' => o2i'[d] \in DOMAIN posts /\ posts[o2i'[d]] = v
  BY <1>1, PostedStays
<1>3. \A d \in Docs, v \in 1..cp : LastAdd(v, d)' => o2i'[d] \in DOMAIN disk /\ disk[o2i'[d]] = v
  BY <1>1, PostedStays
<1>4. CASE Persist
  <2>1. disk' = posts /\ posts' = posts /\ last' = last /\ cp' \in 0..last'
    <3>1. Types'
      BY <1>4, TypesPersist
    <3> QED BY <1>4, <3>1 DEF Persist, Types, TypeOK
  <2>2. \A v \in 1..cp' : v \in 1..last
    BY <1>1, <2>1
  <2> QED BY <1>2, <2>1, <2>2 DEF Posted
<1>5. CASE Death
  BY <1>3, <1>5 DEF Death, ResumesAt, Posted
<1>6. CASE ~Persist /\ ~Death
  <2>1. disk' = disk /\ cp' = cp
    BY <1>6 DEF Next, Update, Receive, SetAttrs, SaveCur, AllocFails, MapDoc, SetMod, CopyCell, Post, SetDelBit,
      Query, Merge, Filter, vars
  <2>2. Posted(cp, disk)'
    BY <1>3, <2>1 DEF Posted
  <2>3. CASE Post
    <3>1. upc = "post" /\ o2i' = o2i /\ last' = last + 1
          /\ posts' = [i \in DOMAIN posts \cup {cur} |-> IF i = cur THEN last + 1 ELSE posts[i]]
      BY <2>3 DEF Post, Done
    <3>2. Doc(Now) \in Docs /\ \A d \in Docs : o2i[d] = cur <=> d = Doc(Now)
      BY <3>1, WorkingIds DEF Working
    <3>3. cur \notin DOMAIN posts
      BY <3>1 DEF Working
    <3> SUFFICES ASSUME NEW d \in Docs, NEW v \in 1..last + 1, LastAdd(v, d)'
                 PROVE  o2i[d] \in DOMAIN posts' /\ posts'[o2i[d]] = v
      BY <2>2, <3>1 DEF Posted
    <3>4. CASE v = last + 1
      <4>1. Adds(v, d)
        BY <3>1, <3>4, WorkingIds, LastKept DEF LastAdd
      <4>2. d = Doc(Now)
        BY <3>1, <3>4, <4>1, WorkingIds DEF Adds, Now
      <4> QED BY <3>1, <3>2, <3>4, <4>2
    <3>5. CASE v # last + 1
      <4>1. v \in 1..last
        BY <1>1, <3>5
      <4>2. o2i[d] \in DOMAIN posts /\ posts[o2i[d]] = v
        BY <1>2, <3>1, <4>1
      <4> QED BY <3>1, <3>3, <4>2
    <3> QED BY <3>4, <3>5
  <2>4. CASE ~Post
    <3>1. posts' = posts
      BY <1>6, <2>4 DEF Next, Update, Receive, SetAttrs, SaveCur, AllocFails, MapDoc, SetMod, CopyCell, SetDelBit,
        Query, Merge, Filter, vars
    <3>2. last' = last \/ (last' = last + 1 /\ upc # "idle" /\ Now.op # "add")
      <4>1. CASE SetAttrs
        BY <4>1 DEF SetAttrs, Done
      <4>2. CASE \E d \in rest : SetDelBit(d)
        BY <4>2 DEF SetDelBit, Done, Kind
      <4>3. CASE ~SetAttrs /\ ~ \E d \in rest : SetDelBit(d)
        BY <1>6, <2>4, <4>3 DEF Next, Update, Receive, SaveCur, AllocFails, MapDoc, SetMod, CopyCell,
          Query, Merge, Filter, vars
      <4> QED BY <4>1, <4>2, <4>3
    <3>3. Posted(last, posts)'
      BY <3>1, <3>2, PostedNoAdd
    <3> QED BY <2>2, <3>3
  <2> QED BY <2>3, <2>4
<1> QED BY <1>4, <1>5, <1>6

\* A step that leaves the bit of a document alone leaves what earlier messages say of it.
LEMMA MarkedStays ==
  ASSUME Types, Working, Kind, Marked, [Next]_vars, NEW d \in Docs, NEW v \in 1..last, LastAdd(v, d)',
         o2i[d] \in del' <=> o2i[d] \in del
  PROVE  /\ (\A i \in v + 1..Len(log') : ~Marks(i, d)') => o2i'[d] \notin del'
         /\ \A i \in v + 1..last : LastMark(i, d)' => (o2i'[d] \in del' <=> log'[i].op = "del")
<1>1. /\ Len(log) \in Nat /\ Len(log') \in Nat /\ Len(log) <= Len(log') /\ last \in Nat /\ last <= Len(log)
      /\ \A i \in 1..Len(log) : log'[i] = log[i]
  BY LogGrows
<1>2. v \in 1..Len(log)
  BY <1>1
<1>3. LastAdd(v, d) /\ o2i'[d] = o2i[d]
  BY <1>2, LastKept, MapStays
<1>4. ASSUME \A i \in v + 1..Len(log') : ~Marks(i, d)'
      PROVE  o2i'[d] \notin del'
  <2>1. \A i \in v + 1..Len(log) : ~Marks(i, d)
    <3> TAKE i \in v + 1..Len(log)
    <3>1. i \in 1..Len(log) /\ i \in v + 1..Len(log')
      BY <1>1, <1>2
    <3> QED BY <1>4, <3>1, LastKept
  <2> QED BY <1>3, <2>1 DEF Marked
<1>5. ASSUME NEW i \in v + 1..last, LastMark(i, d)'
      PROVE  o2i'[d] \in del' <=> log'[i].op = "del"
  <2>1. i \in 1..Len(log)
    BY <1>1, <1>2
  <2>2. LastMark(i, d) /\ log'[i] = log[i]
    BY <1>1, <1>5, <2>1, LastKept
  <2> QED BY <1>3, <2>2 DEF Marked
<1> QED BY <1>4, <1>5

\* A document whose last version is done has an id, and an outer id below the limit.
LEMMA DoneHasId ==
  ASSUME Types, Mapped, Posted(last, posts), NEW d \in Docs, NEW v \in 1..last, LastAdd(v, d)
  PROVE  o2i[d] \in DOMAIN posts /\ o2i[d] # 0 /\ d \in Outer /\ InnerID(d) = o2i[d]
<1>1. o2i[d] \in DOMAIN posts /\ o2i[d] # 0
  BY DEF Posted, Types, TypeOK
<1> QED BY <1>1 DEF Mapped, InnerID

\* DELETE and RESTORE, one document.
LEMMA MarkedSetDelBit ==
  ASSUME Types, Working, Kind, Mapped, Posted(last, posts), Marked, [Next]_vars,
         NEW e \in rest, SetDelBit(e)
  PROVE  Marked'
<1> USE DEF docVars, qVars, history
<1>1. /\ Len(log) \in Nat /\ log' = log /\ last \in Nat /\ last <= Len(log)
  BY LogGrows DEF SetDelBit
<1>2. /\ upc = "bits" /\ o2i' = o2i /\ rest' = rest \ {e} /\ Now.op \in {"del", "undel"} /\ e \in Now.docs
      /\ rest \subseteq Now.docs /\ e \in Docs /\ Now = log[last + 1] /\ last + 1 \in 1..Len(log)
  <2>1. upc = "bits" /\ o2i' = o2i /\ rest' = rest \ {e}
    BY DEF SetDelBit
  <2>2. Now.op \in {"del", "undel"} /\ e \in Now.docs /\ rest \subseteq Now.docs
    BY <2>1 DEF Kind
  <2>3. last + 1 \in 1..Len(log)
    BY <2>1, WorkingIds
  <2> QED BY <2>1, <2>2, <2>3 DEF Now, Types, TypeOK
<1>3. \/ rest' = {} /\ last' = last + 1 /\ upc' = "idle"
      \/ rest' # {} /\ last' = last /\ upc' = "bits" /\ Now' = Now
  BY <1>1 DEF SetDelBit, Done, Now
<1>4. Marks(last + 1, e) /\ \A d : ~Adds(last + 1, d)
  BY <1>2 DEF Marks, Adds
<1>5. del' = IF InnerID(e) = 0 THEN del
             ELSE IF Now.op = "del" THEN del \cup {InnerID(e)} ELSE del \ {InnerID(e)}
  BY DEF SetDelBit
<1> SUFFICES ASSUME NEW d \in Docs, NEW v \in 1..last', LastAdd(v, d)'
             PROVE  /\ (\A i \in v + 1..Len(log) : ~Marks(i, d)') => o2i[d] \notin del'
                    /\ \A i \in v + 1..last' : LastMark(i, d)' => (o2i[d] \in del' <=> log[i].op = "del")
                    /\ upc' = "bits" /\ d \notin rest' /\ LastMark(last + 1, d)' => (o2i[d] \in del' <=> Now'.op = "del")
  BY <1>1, <1>2 DEF Marked
<1> PICK n \in 1..Len(log) : n = last + 1
  BY <1>2
<1>6. v \in 1..last + 1
  BY <1>1, <1>3
<1>7. LastAdd(v, d) /\ v \in 1..last
  <2>1. v \in 1..Len(log)
    BY <1>2, <1>6
  <2>2. LastAdd(v, d)
    BY <2>1, LastKept
  <2>3. v # last + 1
    BY <1>4, <2>2 DEF LastAdd
  <2> QED BY <1>1, <1>6, <2>2, <2>3
<1>8. o2i[d] # 0 /\ InnerID(d) = o2i[d]
  BY <1>7, DoneHasId
<1>9. last + 1 \in v + 1..Len(log) /\ \A i \in v + 1..last : last + 1 \in i + 1..Len(log) /\ i \in 1..Len(log)
  BY <1>1, <1>2, <1>7
<1>10. \A i \in 1..Len(log) : (LastMark(i, d)' => LastMark(i, d)) /\ (Marks(i, d)' <=> Marks(i, d))
  BY LastKept
<1>11. \A i \in v + 1..last' : i \in v + 1..last \/ (i = n /\ rest' = {})
  BY <1>1, <1>3
<1>14. last' = last /\ LastMark(last + 1, d)' => LastMark(n, d)'
  BY DEF LastMark, Marks
<1>12. CASE d = e
  <2>1. Marks(n, d)
    BY <1>4, <1>12
  <2>2. ~ \A i \in v + 1..Len(log) : ~Marks(i, d)'
    <3>1. Marks(n, d)'
      BY <1>2, <1>10, <2>1
    <3> QED BY <1>9, <3>1
  <2>3. \A i \in v + 1..last : ~LastMark(i, d)'
    BY <1>9, <1>10, <2>1 DEF LastMark
  <2>4. o2i[d] \in del' <=> Now.op = "del"
    BY <1>2, <1>5, <1>8, <1>12
  <2> QED BY <1>1, <1>2, <1>3, <1>11, <1>14, <2>2, <2>3, <2>4
<1>13. CASE d # e
  <2>1. o2i[d] \in del' <=> o2i[d] \in del
    <3>1. InnerID(e) = 0 \/ InnerID(e) # o2i[d]
      BY <1>2, <1>8, <1>13 DEF Mapped, InnerID
    <3> QED BY <1>5, <3>1
  <2>2. /\ (\A i \in v + 1..Len(log) : ~Marks(i, d)') => o2i[d] \notin del'
        /\ \A i \in v + 1..last : LastMark(i, d)' => (o2i[d] \in del' <=> log[i].op = "del")
    BY <1>1, <1>2, <1>7, <2>1, MarkedStays
  <2>3. LastMark(n, d)' => LastMark(n, d) /\ d \in Now.docs
    BY <1>2, <1>10 DEF LastMark, Marks
  <2>4. d \notin rest' => d \notin rest
    BY <1>2, <1>13
  <2>5. LastMark(n, d)' /\ d \notin rest' => (o2i[d] \in del' <=> Now.op = "del")
    BY <1>2, <1>7, <2>1, <2>3, <2>4 DEF Marked
  <2>6. \A i \in v + 1..last' : LastMark(i, d)' => (o2i[d] \in del' <=> log[i].op = "del")
    <3> TAKE i \in v + 1..last'
    <3>1. CASE i \in v + 1..last
      BY <2>2, <3>1
    <3>2. CASE i = n /\ rest' = {}
      BY <1>2, <2>5, <3>2
    <3> QED BY <1>11, <3>1, <3>2
  <2> QED BY <1>3, <1>14, <2>2, <2>5, <2>6
<1> QED BY <1>12, <1>13

\* The bits stay what the last DELETE or RESTORE since the last version made them.
LEMMA MarkedStep ==
  ASSUME Types, Working, Kind, Mapped, Posted(last, posts), Marked, [Next]_vars
  PROVE  Marked'
<1> USE DEF docVars, qVars, history
<1>1. CASE \E e \in rest : SetDelBit(e)
  BY <1>1, MarkedSetDelBit
<1>2. CASE ~ \E e \in rest : SetDelBit(e)
  <2>1. /\ del' = del /\ Len(log) \in Nat /\ Len(log') \in Nat /\ last \in Nat /\ last <= Len(log)
        /\ \A i \in 1..Len(log) : log'[i] = log[i]
    <3>1. del' = del
      BY <1>2 DEF Next, Update, Receive, SetAttrs, SaveCur, AllocFails, MapDoc, SetMod, CopyCell, Post, Persist,
        Death, Query, Merge, Filter, vars
    <3> QED BY <3>1, LogGrows
  <2>2. ASSUME NEW d \in Docs, NEW v \in 1..last, LastAdd(v, d)'
        PROVE  /\ (\A i \in v + 1..Len(log') : ~Marks(i, d)') => o2i'[d] \notin del'
               /\ \A i \in v + 1..last : LastMark(i, d)' => (o2i'[d] \in del' <=> log'[i].op = "del")
    BY <2>1, <2>2, MarkedStays
  <2>3. ASSUME last' \in 0..last, upc' # "bits"
        PROVE  Marked'
    <3>1. \A v \in 1..last' : v \in 1..last /\ v + 1..last' \subseteq v + 1..last
      BY <2>1, <2>3
    <3> QED BY <2>2, <2>3, <3>1 DEF Marked
  <2>4. ASSUME NEW m \in Messages, Receive(m)
        PROVE  Marked'
    <3>1. Now' = m /\ last' = last /\ (upc' = "bits" => rest' = m.docs)
      BY <2>4, TypesReceive DEF Receive
    <3>2. ASSUME NEW d \in Docs, upc' = "bits", d \notin rest'
          PROVE  ~LastMark(last + 1, d)'
      BY <3>1, <3>2 DEF LastMark, Marks, Now
    <3> QED BY <2>2, <3>1, <3>2 DEF Marked
  <2>5. CASE Persist \/ Query \/ UNCHANGED vars
    <3>1. UNCHANGED <<log, last, upc, rest, o2i, del>>
      BY <2>5 DEF Persist, Query, Merge, Filter, vars
    <3>2. Now' = Now
      BY <3>1 DEF Now
    <3>3. \A i, d : (LastMark(i, d)' <=> LastMark(i, d)) /\ (LastAdd(i, d)' <=> LastAdd(i, d))
                    /\ (Marks(i, d)' <=> Marks(i, d))
      BY <3>1 DEF LastMark, LastAdd, Marks, Adds
    <3> QED BY <3>1, <3>2, <3>3 DEF Marked
  <2>6. CASE Death
    <3>1. last' \in 0..last /\ upc' = "idle"
      BY <2>6 DEF Death, ResumesAt, Types, TypeOK
    <3> QED BY <2>3, <3>1
  <2>7. CASE SaveCur \/ AllocFails \/ MapDoc \/ SetMod \/ CopyCell
    <3>1. last' = last /\ upc' # "bits"
      BY <2>7 DEF SaveCur, AllocFails, MapDoc, SetMod, CopyCell
    <3> QED BY <2>1, <2>3, <3>1
  <2>8. ASSUME SetAttrs \/ Post
        PROVE  Marked'
    <3>1. upc \in {"attrs", "post"} /\ upc' # "bits" /\ (last' = last \/ last' = last + 1) /\ log' = log
          /\ o2i' = o2i
      BY <2>8 DEF SetAttrs, Post, Done
    <3>2. last + 1 \in 1..Len(log) /\ Now = log[last + 1] /\ Now.op \in {"add", "attr"} /\ Now.docs = {Doc(Now)}
      BY <3>1, WorkingIds DEF Now, Kind
    <3> PICK n \in 1..Len(log) : n = last + 1
      BY <3>2
    <3>3. \A d : ~LastMark(n, d)'
      BY <3>1, <3>2 DEF LastMark, Marks
    <3>4. ASSUME NEW d \in Docs, last' = last + 1, LastAdd(n, d)'
          PROVE  o2i[d] \notin del
      <4>1. Now.op = "add" /\ d = Doc(Now)
        BY <3>1, <3>2, <3>4 DEF LastAdd, Adds
      <4>2. upc = "post"
        BY <2>8, <3>4, <4>1 DEF SetAttrs, Done, Post
      <4>3. o2i[d] = cur
        BY <4>1, <4>2, WorkingIds DEF Working
      <4> QED BY <4>2, <4>3 DEF Mapped
    <3> SUFFICES ASSUME NEW d \in Docs, NEW v \in 1..last', LastAdd(v, d)'
                 PROVE  /\ (\A i \in v + 1..Len(log') : ~Marks(i, d)') => o2i'[d] \notin del'
                        /\ \A i \in v + 1..last' : LastMark(i, d)' => (o2i'[d] \in del' <=> log'[i].op = "del")
      BY <3>1 DEF Marked
    <3>5. CASE v \in 1..last
      <4>1. \A i \in v + 1..last' : i \in v + 1..last \/ i = n
        BY <2>1, <3>1
      <4> QED BY <2>2, <3>3, <3>5, <4>1
    <3>6. CASE v \notin 1..last
      <4>1. last' = last + 1 /\ v = n /\ v + 1..last' = {}
        BY <2>1, <3>1, <3>6
      <4> QED BY <2>1, <3>1, <3>4, <4>1
    <3> QED BY <3>5, <3>6
  <2> QED BY <1>2, <2>4, <2>5, <2>6, <2>7, <2>8 DEF Next, Update
<1> QED BY <1>1, <1>2

\* Until the document is mapped, tmpid is the id it has.
LEMMA TmpIsMapped ==
  ASSUME Types, Working, Kind, Mapped, upc \in {"attrs", "alloc", "map"}
  PROVE  tmpid = o2i[Doc(Now)]
<1>1. Doc(Now) \in Docs /\ tmpid = InnerID(Doc(Now))
  BY WorkingIds DEF Working
<1> QED BY <1>1 DEF InnerID, Mapped

\* A cell belongs to one document.
LEMMA HomeTypes ==
  ASSUME Types, Working, Kind, Mapped, NEW d \in Docs
  PROVE  /\ Home(d) \in 0..MaxInner - 1
         /\ \A e \in Docs : Home(d) = Home(e) /\ Home(d) # 0 => d = e
<1>1. o2i \in [Docs -> 0..cur] /\ tmpid \in 0..cur /\ cur \in 0..MaxInner - 1 /\ MaxInner \in Nat
  BY ConstantsAssumption DEF Types, TypeOK
<1>2. Home(d) \in 0..MaxInner - 1
  BY <1>1 DEF Home
<1>3. ASSUME NEW e \in Docs, Home(d) = Home(e), Home(d) # 0, d # e
      PROVE  FALSE
  <2>1. \A c \in Docs : upc \in {"alloc", "map"} => Home(c) = o2i[c]
    BY TmpIsMapped DEF Home
  <2>2. upc \in {"mod", "copy"} /\ tmpid # 0 => \A c \in Docs : o2i[c] # tmpid
    BY DEF Mapped
  <2>3. \A c \in Docs : Home(c) = o2i[c] \/ (upc \in {"mod", "copy"} /\ c = Doc(Now) /\ Home(c) = tmpid)
    BY <2>1 DEF Home
  <2>4. o2i[d] # o2i[e] \/ o2i[d] = 0
    BY <1>3 DEF Mapped
  <2> QED BY <1>3, <2>2, <2>3, <2>4
<1> QED BY <1>2, <1>3

\* The cell of a document is another one only after the copy, or after a death before it.
LEMMA HomeStays ==
  ASSUME Types, Working, Kind, Mapped, [Next]_vars, NEW d \in Docs
  PROVE  \/ Home(d)' = Home(d)
         \/ CopyCell /\ d = Doc(Now) /\ Home(d) = tmpid /\ Home(d)' = cur /\ cur > 0
         \/ Death /\ upc \in {"mod", "copy"} /\ d = Doc(Now) /\ Home(d) = tmpid /\ Home(d)' = cur /\ cur > 0
<1> USE DEF docVars, qVars, history
<1>1. upc \in {"attrs", "alloc", "map"} => tmpid = o2i[Doc(Now)]
  BY TmpIsMapped
<1>2. upc \in {"mod", "copy"} => o2i[Doc(Now)] = cur /\ cur > 0
  BY WorkingIds DEF Working
<1>3. CASE MapDoc
  <2>1. upc = "map" /\ upc' = "mod" /\ o2i' = [o2i EXCEPT ![Doc(Now)] = cur] /\ UNCHANGED <<tmpid, log, last>>
    BY <1>3 DEF MapDoc
  <2>2. Now' = Now /\ o2i \in [Docs -> 0..cur]
    BY <2>1, WorkingIds DEF Now
  <2> QED BY <2>1, <2>2 DEF Home
<1>4. CASE SetAttrs \/ SaveCur \/ SetMod
  <2>1. /\ UNCHANGED <<o2i, tmpid, log>>
        /\ \/ upc = "attrs" /\ upc' = "idle"
           \/ upc = "attrs" /\ upc' = "alloc" /\ last' = last
           \/ upc \in {"alloc", "mod"} /\ upc' \in {"map", "copy"} /\ last' = last
    BY <1>4 DEF SetAttrs, SaveCur, SetMod, Done
  <2>2. last' = last => Now' = Now
    BY <2>1 DEF Now
  <2> QED BY <1>1, <2>1, <2>2 DEF Home
<1>5. CASE AllocFails
  BY <1>1, <1>5 DEF AllocFails, Home
<1>6. CASE CopyCell
  BY <1>2, <1>6 DEF CopyCell, Home
<1>7. CASE Death
  <2>1. upc' = "idle" /\ o2i' = o2i
    BY <1>7 DEF Death
  <2> QED BY <1>1, <1>2, <1>7, <2>1 DEF Home
<1>8. CASE Post \/ (\E m \in Messages : Receive(m)) \/ \E e \in rest : SetDelBit(e)
  <2>1. upc \in {"post", "idle", "bits"} /\ upc' \in {"idle", "attrs", "bits"} /\ o2i' = o2i
    BY <1>8 DEF Post, Receive, SetDelBit, Done
  <2> QED BY <2>1 DEF Home
<1>9. CASE Persist \/ Query \/ UNCHANGED vars
  <2>1. UNCHANGED <<o2i, upc, tmpid, log, last>>
    BY <1>9 DEF Persist, Query, Merge, Filter, vars
  <2> QED BY <2>1 DEF Home, Now
<1> QED BY <1>3, <1>4, <1>5, <1>6, <1>7, <1>8, <1>9 DEF Next, Update

\* When messages are done.
LEMMA DoneStep ==
  ASSUME Types, [Next]_vars
  PROVE  \/ last' \in 0..last
         \/ last' = last + 1 /\ upc # "idle" /\ log' = log
            /\ (Post \/ (SetAttrs /\ Now.op = "attr") \/ \E e \in rest : SetDelBit(e))
<1> USE DEF docVars, qVars, history
<1>1. last \in Nat /\ last \in 0..last /\ cp \in 0..last
  BY LogGrows DEF Types, TypeOK
<1>2. CASE Death
  BY <1>1, <1>2 DEF Death, ResumesAt
<1>3. CASE Post
  BY <1>3 DEF Post, Done
<1>4. CASE SetAttrs
  BY <1>1, <1>4 DEF SetAttrs, Done
<1>5. CASE \E e \in rest : SetDelBit(e)
  BY <1>1, <1>5 DEF SetDelBit, Done
<1>6. CASE ~(Death \/ Post \/ SetAttrs \/ \E e \in rest : SetDelBit(e))
  <2>1. last' = last
    BY <1>6 DEF Next, Update, Receive, SaveCur, AllocFails, MapDoc, SetMod, CopyCell, Persist, Query, Merge, Filter, vars
  <2> QED BY <1>1, <2>1
<1> QED BY <1>2, <1>3, <1>4, <1>5, <1>6

\* A document that was added keeps a cell of its own.
LEMMA ExistingStep ==
  ASSUME Types, Working, Kind, Mapped, Existing, [Next]_vars
  PROVE  Existing'
<1> USE DEF docVars, qVars, history
<1> SUFFICES ASSUME NEW d \in Docs, NEW i \in 1..last', Adds(i, d)'
             PROVE  Home(d)' # 0
  BY DEF Existing
<1>1. last \in Nat /\ Len(log) \in Nat /\ last <= Len(log)
  BY LogGrows
<1>2. CASE i \in 1..last
  <2>1. Adds(i, d)
    BY <1>1, <1>2, LastKept
  <2>2. Home(d) # 0
    BY <1>2, <2>1 DEF Existing
  <2> QED BY <2>2, HomeStays
<1>3. CASE i \notin 1..last
  <2>1. i = last + 1 /\ upc # "idle" /\ (Post \/ (SetAttrs /\ Now.op = "attr") \/ \E e \in rest : SetDelBit(e))
    BY <1>1, <1>3, DoneStep
  <2>2. i \in 1..Len(log)
    BY <2>1, WorkingIds
  <2>3. Adds(i, d)
    BY <2>2, LastKept
  <2>4. Now.op = "add" /\ d \in Now.docs
    BY <2>1, <2>3 DEF Adds, Now
  <2>5. Post
    BY <2>1, <2>4 DEF SetDelBit, Kind
  <2>6. upc = "post" /\ o2i' = o2i /\ upc' = "idle"
    BY <2>5 DEF Post, Done
  <2>7. d = Doc(Now) /\ o2i[d] = cur /\ cur > 0
    BY <2>4, <2>6, WorkingIds DEF Working
  <2> QED BY <2>6, <2>7 DEF Home
<1> QED BY <1>2, <1>3

\* The cells are typed.
LEMMA CellTypes ==
  ASSUME Types
  PROVE  /\ cell \in [0..MaxInner - 1 -> [doc : Docs \cup {NoDoc}, val : [Fields -> 0..MaxMsgs]]]
         /\ tmpid \in 0..MaxInner - 1 /\ cur \in 0..MaxInner - 1 /\ MaxInner - 1 \in Nat
BY ConstantsAssumption DEF Types, TypeOK

\* What SetAttrs writes.
LEMMA SetAttrsWrites ==
  ASSUME Types, SetAttrs, NEW i \in 0..MaxInner - 1, NEW f \in Fields
  PROVE  cell'[i].val[f] = IF i = tmpid /\ f \in Now.sets THEN last + 1 ELSE cell[i].val[f]
<1>1. cell \in [0..MaxInner - 1 -> [doc : Docs \cup {NoDoc}, val : [Fields -> 0..MaxMsgs]]]
      /\ tmpid \in 0..MaxInner - 1
  BY CellTypes
<1> DEFINE w == [g \in Fields |-> IF g \in Now.sets THEN last + 1 ELSE cell[tmpid].val[g]]
<1>2. cell' = [cell EXCEPT ![tmpid] = [doc |-> Doc(Now), val |-> w]]
  BY DEF SetAttrs
<1>3. w[f] = IF f \in Now.sets THEN last + 1 ELSE cell[tmpid].val[f]
  OBVIOUS
<1> HIDE DEF w
<1>4. CASE i = tmpid
  BY <1>1, <1>2, <1>3, <1>4
<1>5. CASE i # tmpid
  BY <1>1, <1>2, <1>5
<1> QED BY <1>4, <1>5

\* What a death clears.
LEMMA DeathClears ==
  ASSUME Types, Death, NEW i \in 0..MaxInner - 1, NEW f \in Fields
  PROVE  cell'[i].val[f] = cell[i].val[f] \/ Zeroed(i, f)'
<1>1. cell \in [0..MaxInner - 1 -> [doc : Docs \cup {NoDoc}, val : [Fields -> 0..MaxMsgs]]]
      /\ MaxInner - 1 \in 0..MaxInner - 1 /\ deaths \in Nat
  <2>1. MaxInner - 1 \in 0..MaxInner - 1
    BY ConstantsAssumption
  <2>2. deaths \in Nat
    BY ConstantsAssumption DEF Types, TypeOK
  <2> QED BY <2>1, <2>2, CellTypes
<1>2. cell' = [cell EXCEPT ![MaxInner - 1].val[LastField] = 0] /\ deaths' = deaths + 1
  BY DEF Death
<1>3. deaths' > 0
  BY <1>1, <1>2
<1>4. CASE i = MaxInner - 1 /\ f = LastField
  BY <1>3, <1>4 DEF Zeroed
<1>5. CASE i # MaxInner - 1
  BY <1>1, <1>2, <1>5
<1>6. CASE i = MaxInner - 1 /\ f # LastField
  <2>1. cell'[i].val = [cell[i].val EXCEPT ![LastField] = 0]
    BY <1>1, <1>2, <1>6
  <2>2. cell[i].val \in [Fields -> 0..MaxMsgs]
    BY <1>1
  <2> QED BY <1>6, <2>1, <2>2
<1> QED BY <1>4, <1>5, <1>6

\* Only these write cells, or count deaths.
LEMMA SameCells ==
  ASSUME [Next]_vars, ~SetAttrs, ~CopyCell, ~Death
  PROVE  cell' = cell /\ deaths' = deaths /\ thin' = thin
BY DEF Next, Update, Receive, SaveCur, AllocFails, MapDoc, SetMod, Post, SetDelBit, Persist,
  Query, Merge, Filter, vars, docVars, history

\* An attribute that earlier messages set stays, with the last value, where the document has its cell.
LEMMA ValueStays ==
  ASSUME Types, Working, Kind, Mapped, Existing, Kept, [Next]_vars,
         NEW d \in Docs \ thin', NEW f \in Fields, NEW i \in 1..last, LastSet(i, d, f)',
         NEW a \in 1..i, Adds(a, d)'
  PROVE  cell'[Home(d)'].val[f] = i \/ Zeroed(Home(d), f)'
<1>1. last \in Nat /\ Len(log) \in Nat /\ last <= Len(log) /\ i \in 1..Len(log) /\ a \in 1..Len(log) /\ a \in 1..last
  BY LogGrows
<1>2. LastSet(i, d, f) /\ Adds(a, d)
  BY <1>1, LastKept
<1>3. Home(d) # 0 /\ Home(d) \in 0..MaxInner - 1
  BY <1>1, <1>2, HomeTypes DEF Existing
<1>4. thin \subseteq thin'
  BY SameCells DEF SetAttrs, CopyCell, Death, history
<1>5. cell[Home(d)].val[f] = i \/ Zeroed(Home(d), f)
  BY <1>1, <1>2, <1>4 DEF Kept
<1>6. CASE SetAttrs
  <2>1. upc = "attrs" /\ deaths' = deaths
    BY <1>6 DEF SetAttrs, history
  <2>2. Home(d)' = Home(d)
    BY <2>1, HomeStays DEF CopyCell, Death, SetAttrs
  <2>3. Home(d) = tmpid => f \notin Now.sets
    <3> SUFFICES ASSUME Home(d) = tmpid, f \in Now.sets PROVE FALSE
      OBVIOUS
    <3>1. Home(d) = Home(Doc(Now)) /\ Doc(Now) \in Docs
      BY <2>1, TmpIsMapped, WorkingIds DEF Home
    <3>2. d = Doc(Now)
      BY <1>3, <3>1, HomeTypes
    <3>3. Sets(last + 1, d, f)
      BY <2>1, <3>2, WorkingIds DEF Sets, Now, Kind
    <3>4. last + 1 \in i + 1..Len(log)
      BY <1>1, <2>1, WorkingIds
    <3> QED BY <1>2, <3>3, <3>4 DEF LastSet
  <2>4. cell'[Home(d)].val[f] = cell[Home(d)].val[f]
    BY <1>3, <1>6, <2>3, SetAttrsWrites
  <2> QED BY <1>5, <2>1, <2>2, <2>4 DEF Zeroed
<1>7. CASE CopyCell
  <2>1. upc = "copy" /\ deaths' = deaths /\ cell' = [cell EXCEPT ![cur] = cell[tmpid]]
    BY <1>7 DEF CopyCell, history
  <2>2. Doc(Now) \in Docs /\ \A e \in Docs : o2i[e] = cur <=> e = Doc(Now)
    BY <2>1, WorkingIds DEF Working
  <2>3. CASE d = Doc(Now)
    <3>1. Home(d) = tmpid /\ Home(d)' = cur
      BY <2>1, <2>2, <2>3, <1>7 DEF Home, CopyCell
    <3>2. tmpid # cur
      BY <1>3, <2>1, <2>2, <3>1 DEF Mapped
    <3>3. tmpid # MaxInner - 1
      BY <3>2, ConstantsAssumption DEF Types, TypeOK
    <3>4. cell'[cur] = cell[tmpid]
      BY <2>1, CellTypes
    <3> QED BY <1>5, <3>1, <3>3, <3>4 DEF Zeroed
  <2>4. CASE d # Doc(Now)
    <3>1. Home(d) = o2i[d] /\ Home(d)' = Home(d)
      BY <2>4, <1>7, HomeStays DEF Home, CopyCell, Death
    <3>2. Home(d) # cur
      BY <2>2, <2>4, <3>1
    <3>3. cell'[Home(d)] = cell[Home(d)]
      BY <1>3, <2>1, <3>2, CellTypes
    <3> QED BY <1>5, <2>1, <3>1, <3>3 DEF Zeroed
  <2> QED BY <2>3, <2>4
<1>8. CASE Death
  <2>1. Home(d)' = Home(d)
    <3> SUFFICES ASSUME Home(d)' # Home(d) PROVE FALSE
      OBVIOUS
    <3>1. upc \in {"mod", "copy"} /\ d = Doc(Now) /\ Home(d) = tmpid
      BY <1>8, HomeStays DEF CopyCell, Death
    <3>2. tmpid > 0
      BY <1>3, <3>1
    <3>3. d \in thin'
      BY <1>8, <3>1, <3>2 DEF Death
    <3> QED BY <3>3
  <2>2. Zeroed(Home(d), f) => Zeroed(Home(d), f)'
    BY <1>8, <2>1, ConstantsAssumption DEF Zeroed, Death, Types, TypeOK
  <2>3. cell'[Home(d)].val[f] = cell[Home(d)].val[f] \/ Zeroed(Home(d), f)'
    <3> PICK h \in 0..MaxInner - 1 : h = Home(d)
      BY <1>3
    <3>1. cell'[h].val[f] = cell[h].val[f] \/ Zeroed(h, f)'
      BY <1>8, DeathClears
    <3> QED BY <2>1, <3>1 DEF Zeroed
  <2> QED BY <1>5, <2>1, <2>2, <2>3
<1>9. CASE ~(SetAttrs \/ CopyCell \/ Death)
  <2>1. cell' = cell /\ deaths' = deaths /\ Home(d)' = Home(d)
    BY <1>9, SameCells, HomeStays
  <2> QED BY <1>5, <2>1 DEF Zeroed
<1> QED BY <1>6, <1>7, <1>8, <1>9

\* A message that is done has left its attributes.
LEMMA KeptStep ==
  ASSUME Types, Working, Kind, Mapped, Existing, Kept, Written, [Next]_vars
  PROVE  Kept'
<1> USE DEF docVars, qVars, history
<1> SUFFICES ASSUME NEW d \in Docs \ thin', NEW f \in Fields, NEW i \in 1..last', LastSet(i, d, f)',
                    NEW a \in 1..i, Adds(a, d)'
             PROVE  cell'[Home(d)'].val[f] = i \/ Zeroed(Home(d), f)'
  BY DEF Kept
<1>1. last \in Nat /\ Len(log) \in Nat /\ last <= Len(log)
  BY LogGrows
<1>2. CASE i \in 1..last
  BY <1>2, ValueStays
<1>3. CASE i \notin 1..last
  <2>1. i = last + 1 /\ upc # "idle" /\ last' = last + 1
        /\ (Post \/ (SetAttrs /\ Now.op = "attr") \/ \E e \in rest : SetDelBit(e))
    BY <1>1, <1>3, DoneStep
  <2>2. i \in 1..Len(log) /\ a \in 1..Len(log)
    BY <1>1, <2>1, WorkingIds
  <2>3. Sets(i, d, f) /\ Adds(a, d)
    BY <2>2, LastKept DEF LastSet
  <2>4. Now.op \in {"add", "attr"} /\ d \in Now.docs /\ f \in Now.sets
    BY <2>1, <2>3 DEF Sets, Now
  <2>5. CASE Post
    <3>1. upc = "post" /\ upc' = "idle" /\ UNCHANGED <<o2i, cell>>
      BY <2>5 DEF Post, Done
    <3>2. d = Doc(Now)
      BY <2>4, <3>1, WorkingIds
    <3>3. cell[Home(d)].val[f] = i
      BY <2>1, <2>4, <3>1, <3>2 DEF Written
    <3>4. Home(d)' = Home(d)
      BY <3>1 DEF Home
    <3> QED BY <3>1, <3>3, <3>4
  <2>6. CASE SetAttrs /\ Now.op = "attr"
    <3>1. upc = "attrs" /\ upc' = "idle" /\ o2i' = o2i
      BY <2>6 DEF SetAttrs, Done
    <3>2. d = Doc(Now)
      BY <2>4, <3>1, WorkingIds
    <3>3. a \in 1..last
      <4>1. a # i
        BY <2>1, <2>3, <2>6 DEF Adds, Now
      <4> QED BY <1>1, <2>1, <4>1
    <3>4. Home(d) # 0 /\ Home(d) \in 0..MaxInner - 1 /\ Home(d) = tmpid /\ Home(d)' = Home(d)
      BY <2>3, <3>1, <3>2, <3>3, HomeTypes, TmpIsMapped DEF Existing, Home
    <3>5. cell'[Home(d)].val[f] = last + 1
      BY <2>4, <2>6, <3>4, SetAttrsWrites
    <3> QED BY <2>1, <3>4, <3>5
  <2>7. CASE \E e \in rest : SetDelBit(e)
    BY <2>4, <2>7 DEF SetDelBit, Kind
  <2> QED BY <2>1, <2>5, <2>6, <2>7
<1> QED BY <1>2, <1>3

\* The attributes of the message in work go where the document does.
LEMMA WrittenStep ==
  ASSUME Types, Working, Kind, Mapped, Written, [Next]_vars
  PROVE  Written'
<1> USE DEF docVars, qVars, history
<1>1. CASE upc' \notin {"alloc", "map", "mod", "copy", "post"}
  BY <1>1 DEF Written
<1>2. CASE SetAttrs /\ upc' = "alloc"
  <2>1. upc = "attrs" /\ UNCHANGED <<log, last, tmpid>>
    BY <1>2 DEF SetAttrs, Done
  <2>2. Now' = Now /\ Now.sets \subseteq Fields
    BY <2>1, WorkingIds, MessageTypes DEF Now
  <2>3. Home(Doc(Now))' = tmpid
    BY <1>2, <2>1, <2>2 DEF Home
  <2>4. \A f \in Now.sets : cell'[tmpid].val[f] = last + 1
    BY <1>2, <2>2, SetAttrsWrites, CellTypes
  <2> QED BY <2>1, <2>2, <2>3, <2>4 DEF Written
<1>3. CASE SaveCur \/ MapDoc \/ SetMod
  <2>1. upc \in {"alloc", "map", "mod"} /\ upc' \in {"map", "mod", "copy"} /\ UNCHANGED <<log, last, tmpid, cell>>
    BY <1>3 DEF SaveCur, MapDoc, SetMod
  <2>2. Now' = Now /\ Home(Doc(Now)) = tmpid /\ Home(Doc(Now))' = tmpid
    BY <2>1 DEF Now, Home
  <2> QED BY <2>1, <2>2 DEF Written
<1>4. CASE CopyCell
  <2>1. upc = "copy" /\ upc' = "post" /\ UNCHANGED <<log, last, o2i>> /\ cell' = [cell EXCEPT ![cur] = cell[tmpid]]
    BY <1>4 DEF CopyCell
  <2>2. o2i[Doc(Now)] = cur
    BY <2>1, WorkingIds DEF Working
  <2>3. Now' = Now /\ Home(Doc(Now)) = tmpid /\ Home(Doc(Now))' = cur
    BY <2>1, <2>2 DEF Now, Home
  <2>4. cell'[cur] = cell[tmpid]
    BY <2>1, CellTypes
  <2> QED BY <2>1, <2>3, <2>4 DEF Written
<1>5. CASE Persist \/ Query \/ UNCHANGED vars
  <2>1. UNCHANGED <<log, last, upc, tmpid, o2i, cell>>
    BY <1>5 DEF Persist, Query, Merge, Filter, vars
  <2>2. Now' = Now
    BY <2>1 DEF Now
  <2>3. Home(Doc(Now))' = Home(Doc(Now))
    BY <2>1, <2>2 DEF Home
  <2> QED BY <2>1, <2>2, <2>3 DEF Written
<1>6. CASE Death \/ AllocFails \/ Post \/ (\E m \in Messages : Receive(m)) \/ \E e \in rest : SetDelBit(e)
  <2>1. upc' \in {"idle", "attrs", "bits"}
    BY <1>6 DEF Death, AllocFails, Post, Receive, SetDelBit, Done
  <2> QED BY <1>1, <2>1
<1>7. SetAttrs => upc' \in {"idle", "alloc"}
  BY DEF SetAttrs, Done
<1> QED BY <1>1, <1>2, <1>3, <1>4, <1>5, <1>6, <1>7 DEF Next, Update

\* All parts of the invariant hold together.
LEMMA DocInvHolds == Spec => [](VersionInv /\ DocInv)
<1>1. Init => VersionInv /\ DocInv
  <2> SUFFICES ASSUME Init PROVE VersionInv /\ DocInv
    OBVIOUS
  <2>1. Types
    BY TypesInit
  <2>2. Working /\ Filtered /\ OneVersion
    BY DEF Init, Working, Filtered, OneVersion
  <2>3. DOMAIN posts = {} /\ Len(log) = 0 /\ last = 0 /\ cp = 0 /\ upc = "idle" /\ seen = 0
        /\ \A d \in Docs : o2i[d] = 0
    BY EmptySeq DEF Init
  <2>4. Owned /\ Replaced
    BY <2>3 DEF Owned, Replaced
  <2>5. Kind /\ Mapped /\ Known /\ Written
    BY <2>3 DEF Kind, Mapped, Known, Written
  <2>6. 1..last = {} /\ 1..cp = {}
    BY <2>3
  <2>7. Posted(last, posts) /\ Posted(cp, disk)
    BY <2>6 DEF Posted
  <2>8. Marked /\ Existing /\ Kept
    BY <2>6 DEF Marked, Existing, Kept
  <2> QED BY <2>1, <2>2, <2>4, <2>5, <2>7, <2>8 DEF VersionInv, DocInv
<1>2. VersionInv /\ DocInv /\ [Next]_vars => (VersionInv /\ DocInv)'
  <2> SUFFICES ASSUME VersionInv, DocInv, [Next]_vars PROVE VersionInv' /\ DocInv'
    OBVIOUS
  <2>1. VersionInv'
    BY TypesStep, WorkingStep, OwnedStep, ReplacedStep, QueryStep DEF VersionInv
  <2>2. Types /\ Working
    BY DEF VersionInv
  <2>3. Kind' /\ Mapped' /\ Known'
    BY <2>2, KindStep, MappedStep, KnownStep DEF DocInv
  <2>4. Posted(last, posts)' /\ Posted(cp, disk)'
    BY <2>2, PostedStep DEF DocInv
  <2>5. Marked'
    BY <2>2, MarkedStep DEF DocInv
  <2>6. Existing' /\ Kept' /\ Written'
    BY <2>2, ExistingStep, KeptStep, WrittenStep DEF DocInv
  <2> QED BY <2>1, <2>3, <2>4, <2>5, <2>6 DEF DocInv
<1> QED BY <1>1, <1>2, PTL DEF Spec

\* The latest of a set of messages.
LEMMA LatestIs ==
  ASSUME NEW n \in Nat, NEW S \in SUBSET (0..n), S # {}
  PROVE  Latest(S) \in S /\ \A j \in S : j <= Latest(S)
<1> DEFINE g == [j \in S |-> j + 1]
<1>1. n + 1 \in Nat /\ DOMAIN g = S /\ g \in [DOMAIN g -> 1..n + 1]
  OBVIOUS
<1>2. \A j \in S : g[j] = j + 1 /\ j \in Nat
  OBVIOUS
<1> HIDE DEF g
<1>3. PICK i \in S : \A j \in S : g[j] <= g[i]
  BY <1>1, Newest
<1>4. \A j \in S : j <= i
  BY <1>2, <1>3
<1>5. Latest(S) = CHOOSE k \in S : \A j \in S : j <= k
  BY DEF Latest
<1> QED BY <1>3, <1>4, <1>5

\* Of a document that came, whose messages are all done, the last version can be found if it is not
\* deleted since.
LEMMA DeletedIs ==
  ASSUME Types, Mapped, Posted(last, posts), Marked, last = Len(log), NEW d \in Docs,
         About(d, "add") # {}
  PROVE  /\ Version(d) \in 1..last /\ LastAdd(Version(d), d)
         /\ Deleted(d) <=> o2i[d] \in del
<1>1. last \in Nat
  BY DEF Types, TypeOK
<1> DEFINE v == Version(d)
           A == About(d, "add")
           D == About(d, "del") \cup {0}
           U == About(d, "undel") \cup {v}
           M == {i \in 1..last : Marks(i, d)}
<1>2. v \in A /\ \A j \in A : j <= v
  <2>1. A \in SUBSET (0..last)
    BY <1>1 DEF About
  <2> QED BY <1>1, <2>1, LatestIs DEF Version
<1>3. v \in 1..last /\ Adds(v, d) /\ \A i \in 1..last : Adds(i, d) => i <= v
  BY <1>2 DEF About, Adds
<1> HIDE DEF v, A
<1>4. LastAdd(v, d)
  BY <1>1, <1>3 DEF LastAdd
<1>5. Latest(D) \in D /\ Latest(U) \in U /\ (\A j \in D : j <= Latest(D)) /\ \A j \in U : j <= Latest(U)
  <2>1. D \in SUBSET (0..last) /\ U \in SUBSET (0..last) /\ 0 \in D /\ v \in U
    BY <1>1, <1>3 DEF About
  <2> HIDE DEF D, U
  <2> QED BY <1>1, <2>1, LatestIs
<1>6. Deleted(d) <=> Latest(D) > Latest(U)
  BY DEF Deleted, v
<1>7. \A i : (i \in D => i = 0 \/ i \in M) /\ (i \in U => i = v \/ i \in M)
  BY DEF About, Marks
<1>8. M \in SUBSET (0..last)
  BY <1>1
<1>9. CASE \A i \in v + 1..last : ~Marks(i, d)
  <2>1. o2i[d] \notin del
    BY <1>3, <1>4, <1>9 DEF Marked
  <2>2. \A i \in M : i <= v
    BY <1>1, <1>3, <1>9
  <2>3. v \in U /\ Latest(U) \in Nat /\ Latest(D) \in Nat
    BY <1>1, <1>3, <1>5, <1>7, <1>8
  <2>4. Latest(D) <= v
    BY <1>3, <1>5, <1>7, <2>2
  <2>5. v <= Latest(U)
    BY <1>5, <2>3
  <2> QED BY <1>3, <1>4, <1>6, <2>1, <2>3, <2>4, <2>5 DEF v
<1>10. CASE \E i \in v + 1..last : Marks(i, d)
  <2>1. PICK i \in v + 1..last : Marks(i, d)
    BY <1>10
  <2>2. i \in M
    BY <1>1, <1>3, <2>1
  <2> DEFINE k == Latest(M)
  <2>3. k \in M /\ \A j \in M : j <= k
    <3> HIDE DEF M
    <3> QED BY <1>1, <1>8, <2>2, LatestIs
  <2> HIDE DEF k
  <2>4. k \in v + 1..last /\ Marks(k, d) /\ \A j \in 1..last : Marks(j, d) => j <= k
    BY <1>1, <1>3, <2>1, <2>2, <2>3
  <2>5. LastMark(k, d)
    BY <1>1, <1>3, <2>4 DEF LastMark
  <2>6. o2i[d] \in del <=> log[k].op = "del"
    BY <1>3, <1>4, <2>4, <2>5 DEF Marked
  <2>7. Latest(U) \in Nat /\ Latest(D) \in Nat /\ k \in Nat /\ v < k
    BY <1>1, <1>3, <1>5, <1>7, <1>8, <2>4
  <2>8. CASE log[k].op = "del"
    <3>1. k \in D
      BY <2>3, <2>4, <2>8 DEF About, Marks
    <3>2. Latest(U) # k
      <4>1. k \notin U
        BY <2>7, <2>8 DEF About
      <4> QED BY <1>5, <4>1
    <3>3. Latest(U) <= k
      BY <1>5, <1>7, <2>3, <2>7
    <3>5. k <= Latest(D)
      BY <1>5, <3>1
    <3>4. Latest(D) > Latest(U)
      <4> HIDE DEF D, U
      <4> QED BY <2>7, <3>2, <3>3, <3>5
    <3> QED BY <1>3, <1>4, <1>6, <2>6, <2>8, <3>4 DEF v
  <2>9. CASE log[k].op # "del"
    <3>1. k \in U
      BY <2>3, <2>4, <2>9 DEF About, Marks
    <3>2. Latest(D) <= k
      BY <1>5, <1>7, <2>3, <2>7
    <3>4. k <= Latest(U)
      BY <1>5, <3>1
    <3>3. ~(Latest(D) > Latest(U))
      <4> HIDE DEF D, U
      <4> QED BY <2>7, <3>2, <3>4
    <3> QED BY <1>3, <1>4, <1>6, <2>6, <2>9, <3>3 DEF v
  <2> QED BY <2>8, <2>9
<1> QED BY <1>9, <1>10

\* Of a document that has caught up, nothing but its current id can be found.
LEMMA FoundIs ==
  ASSUME VersionInv, DocInv, CaughtUp, NEW d \in Docs \ cut
  PROVE  /\ Found(d) \subseteq {o2i[d]}
         /\ o2i[d] \in DOMAIN posts => (o2i[d] \in Found(d) <=> o2i[d] \notin del)
<1>1. upc = "idle" /\ d \in Docs
  BY DEF CaughtUp
<1>2. ASSUME NEW i \in Found(d) PROVE i = o2i[d]
  <2>1. i \in DOMAIN posts /\ i \notin mod /\ cell[i].doc = d
    BY <1>2 DEF Found, Live
  <2>2. Current(i)
    BY <1>1, <2>1 DEF VersionInv, Replaced, Leaving
  <2> QED BY <2>1, <2>2 DEF Current
<1>3. ASSUME o2i[d] \in DOMAIN posts
      PROVE  o2i[d] \in Found(d) <=> o2i[d] \notin del
  <2>1. cell[o2i[d]].doc = d
    BY <1>1, <1>3 DEF VersionInv, Owned
  <2>2. o2i[d] # 0
    BY <1>3 DEF VersionInv, Types, TypeOK
  <2>3. o2i[d] \notin mod
    BY <1>1, <2>2 DEF DocInv, Mapped
  <2> QED BY <1>3, <2>1, <2>3 DEF Found, Live
<1> QED BY <1>2, <1>3

\* Whenever the update thread has caught up, also after deaths and replays, a query finds exactly the
\* documents that are not deleted since they were last added, each in its last version and under one
\* inner id; excepted are documents that a death left between the id map and the bitmap.
THEOREM ConvergedHolds == Spec => []Converged
<1>1. VersionInv /\ DocInv => Converged
  <2> SUFFICES ASSUME VersionInv, DocInv PROVE Converged
    OBVIOUS
  <2>1. TypeOK /\ Types
    BY DEF VersionInv, Types
  <2> SUFFICES ASSUME CaughtUp, NEW d \in Docs \ cut
               PROVE  /\ {posts[i] : i \in Found(d)} =
                           (IF Version(d) = 0 \/ Deleted(d) THEN {} ELSE {Version(d)})
                      /\ Cardinality(Found(d)) <= 1
    BY <2>1 DEF Converged
  <2>2. last = Len(log) /\ last \in Nat
    BY <2>1 DEF CaughtUp, DocInv, Kind, TypeOK
  <2>3. Cardinality({}) = 0 /\ Cardinality({o2i[d]}) = 1
    BY FS_EmptySet, FS_Singleton
  <2>4. CASE About(d, "add") = {}
    <3>1. Version(d) = 0
      BY <2>4 DEF Version, Latest
    <3>2. o2i[d] = 0
      BY <2>2, <2>4 DEF DocInv, Known, Adds, About
    <3>3. Found(d) \subseteq DOMAIN posts /\ 0 \notin DOMAIN posts
      BY <2>1 DEF Found, TypeOK
    <3>4. Found(d) = {}
      BY <3>2, <3>3, FoundIs
    <3> QED BY <2>3, <3>1, <3>4
  <2>5. CASE About(d, "add") # {}
    <3>1. Version(d) \in 1..last /\ LastAdd(Version(d), d) /\ (Deleted(d) <=> o2i[d] \in del)
      BY <2>1, <2>2, <2>5, DeletedIs DEF DocInv
    <3>2. o2i[d] \in DOMAIN posts /\ posts[o2i[d]] = Version(d) /\ Version(d) # 0
      BY <2>2, <3>1 DEF DocInv, Posted
    <3>3. CASE o2i[d] \in del
      <4>1. Found(d) = {}
        BY <3>2, <3>3, FoundIs
      <4> QED BY <2>3, <3>1, <3>3, <4>1
    <3>4. CASE o2i[d] \notin del
      <4>1. Found(d) = {o2i[d]}
        BY <3>2, <3>4, FoundIs
      <4> QED BY <2>3, <3>1, <3>2, <3>4, <4>1
    <3> QED BY <3>3, <3>4
  <2> QED BY <2>4, <2>5
<1> QED BY <1>1, DocInvHolds, PTL

\* And every attribute set since the document exists has the last value set, where the filter and the
\* ranking read it; excepted are documents whose add died before the copy, and the last byte of
\* the file after a death.
THEOREM AttrsExactHolds == Spec => []AttrsExact
<1>1. VersionInv /\ DocInv => AttrsExact
  <2> SUFFICES ASSUME VersionInv, DocInv, CaughtUp, NEW d \in Docs \ thin, NEW f \in Fields,
                      Setters(d, f) # {},
                      ~(InnerID(d) = MaxInner - 1 /\ f = LastField /\ deaths > 0)
               PROVE  cell[InnerID(d)].val[f] = Latest(Setters(d, f))
    BY DEF AttrsExact
  <2>1. last = Len(log) /\ last \in Nat /\ upc = "idle"
    BY DEF CaughtUp, DocInv, Kind, VersionInv, Types, TypeOK
  <2> DEFINE S == Setters(d, f)
  <2>2. \A i : i \in S <=> i \in 1..last /\ Sets(i, d, f) /\ \E a \in 1..i : Adds(a, d)
    <3>1. \A i \in 1..last : \A a : a \in 1..i => a \in 1..last /\ a <= i
      BY <2>1
    <3>2. \A i \in 1..last : \A a \in 1..last : a <= i => a \in 1..i
      BY <2>1
    <3> QED BY <3>1, <3>2 DEF Setters, About, Adds, Sets
  <2> HIDE DEF S
  <2> DEFINE s == Latest(S)
  <2>3. s \in S /\ \A j \in S : j <= s
    <3>1. S \in SUBSET (0..last)
      BY <2>1, <2>2
    <3> QED BY <2>1, <3>1, LatestIs DEF S
  <2> HIDE DEF s
  <2>4. s \in 1..last /\ Sets(s, d, f)
    BY <2>2, <2>3
  <2>5. PICK a \in 1..s : Adds(a, d)
    BY <2>2, <2>3
  <2>6. LastSet(s, d, f)
    <3> SUFFICES ASSUME NEW j \in s + 1..Len(log), Sets(j, d, f) PROVE FALSE
      BY <2>4 DEF LastSet
    <3>1. j \in 1..last /\ a \in 1..j /\ ~(j <= s)
      BY <2>1, <2>4
    <3>2. j \in S
      BY <2>2, <2>5, <3>1
    <3> QED BY <2>3, <3>1, <3>2
  <2>7. cell[Home(d)].val[f] = s \/ Zeroed(Home(d), f)
    BY <2>4, <2>5, <2>6 DEF DocInv, Kept
  <2>8. Home(d) # 0 /\ Home(d) = o2i[d]
    <3>1. a \in 1..last
      BY <2>1, <2>4
    <3> QED BY <2>1, <2>5, <3>1 DEF DocInv, Existing, Home
  <2>9. InnerID(d) = Home(d)
    BY <2>8 DEF DocInv, Mapped, InnerID
  <2> QED BY <2>7, <2>9 DEF Zeroed, s, S
<1> QED BY <1>1, DocInvHolds, PTL
=============================================================================
