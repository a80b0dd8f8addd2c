-------------------------- MODULE ConnectMapProofs --------------------------
(***************************************************************************)
(* Proofs about the connection pool, for any threads, servers, descriptors *)
(* and limits: OwnSocket and NeverGivenUp of ConnectMap.                   *)
(*                                                                         *)
(* OwnSocket.  PoolInv is inductive.  A server's record is Sound: freenum  *)
(* is right, the cells beyond socknum are empty, a server under deletion   *)
(* has no idle socket.  Unless __CheckDeadServer has closed sockets of a   *)
(* server that it kept, cells and open descriptors correspond one to one   *)
(* (Own) and what a thread holds is in a busy cell of the server it asked  *)
(* for (Held); so FreeSocket finds that cell and no other.  __FetchSocket  *)
(* is described once, by Effect, whatever it does with the cell it uses.   *)
(*                                                                         *)
(* NeverGivenUp.  Patient says of a server that was refused r times in a   *)
(* row that the r counts before its own, going round, are all refused      *)
(* ones.  They are different, so are their remainders, and only RetryLine  *)
(* remainders are refused: r cannot be larger.                             *)
(***************************************************************************)
EXTENDS ConnectMap, SequenceTheorems, FiniteSetTheorems, WellFoundedInduction, TLAPS

\* What a cell, a record and a descriptor can be.
CellSet == {Empty} \cup [sock : Fds, status : {"BUSY", "READY"}]
InfoSet ==
  [socknum : 0..SockMax, long : BOOLEAN, fail : 0..HealthLine + Boundary + 1, free : 0..SockMax,
   cells : [1..SockMax -> CellSet], time : 0..MaxTime, del : BOOLEAN]
Conns == {Closed} \cup [server : Servers, ok : BOOLEAN]

\* What holds of a server's record: the count of free cells, and a server under deletion keeps no idle socket.
Sound(i) ==
  /\ i \in InfoSet
  /\ i.free = i.socknum - Cardinality(Busy(i))
  /\ \A k \in 1..SockMax : k > i.socknum => i.cells[k] = Empty
  /\ i.del => ReadyCells(i) = {}

\* Types.
Types ==
  /\ DOMAIN map \subseteq Servers /\ \A s \in DOMAIN map : Sound(map[s])
  /\ os \in [Fds -> Conns]
  /\ clock \in 0..MaxTime /\ dels \in 0..MaxDels /\ last \in 0..clock /\ seed \in 0..SeedMod - 1
  /\ dead \in BOOLEAN /\ ghost \in BOOLEAN /\ refused \in [Servers -> Nat]

\* Where the threads are.
Calls ==
  /\ pc \in [Threads -> {"idle", "first", "lucky", "hold"}]
  /\ held \in [Threads -> Fds \cup {0}]
  /\ list \in [Threads -> Seq(Modules)] /\ nth \in [Threads -> Nat]
  /\ \A t \in Threads :
       /\ pc[t] = "hold" <=> held[t] # 0
       /\ pc[t] = "first" => nth[t] \in 1..Len(list[t])
       /\ pc[t] = "lucky" => nth[t] \in 0..Len(list[t]) - 1
       /\ pc[t] = "hold" => Len(list[t]) = 1

\* Cells and open descriptors correspond.
Own(m, o) ==
  /\ \A s \in DOMAIN m, k \in 1..SockMax :
       m[s].cells[k].sock \in Fds => o[m[s].cells[k].sock].server = s
  /\ \A s \in DOMAIN m : \A k, l \in 1..SockMax :
       m[s].cells[k].sock \in Fds /\ m[s].cells[k].sock = m[s].cells[l].sock => k = l
  /\ \A f \in Fds : o[f] # Closed => \E s \in DOMAIN m, k \in 1..SockMax : m[s].cells[k].sock = f

\* What a thread holds is in a busy cell of the server it asked for.
Held(m, h, l) ==
  /\ \A t \in Threads : h[t] # 0 =>
       /\ l[t][1].server \in DOMAIN m
       /\ \E k \in 1..SockMax : m[l[t][1].server].cells[k] = Cell(h[t], "BUSY")
  /\ \A t, u \in Threads : h[t] # 0 /\ h[t] = h[u] => t = u

PoolInv == Types /\ Calls /\ (~ghost => ~dead /\ Own(map, os) /\ Held(map, held, list))

\* What refusals say about the count.
Back(n, j) == IF n - j > HealthLine THEN n - j ELSE n - j + Boundary + 1
LowCount(n) == ((n * Magic) % (Boundary + 1)) < RetryLine
Patient ==
  \A s \in Servers :
    /\ refused[s] <= RetryLine
    /\ s \in DOMAIN map /\ map[s].fail > HealthLine =>
         \A j \in 1..refused[s] : LowCount(Back(map[s].fail, j))
-----------------------------------------------------------------------------
(***************************************************************************)
(* Part 1.  A server's record.                                             *)
(***************************************************************************)
\* The constants the records depend on.
LEMMA Constants ==
  /\ SockMax \in Nat /\ Boundary \in Nat /\ HealthLine \in Nat /\ MaxTime \in Nat /\ MaxDels \in Nat
  /\ SeedMod \in Nat \ {0} /\ RetryLine \in 0..Boundary /\ Punish \in BOOLEAN
  /\ Deadline \in Nat /\ Interval \in Nat
  /\ Servers \subseteq Nat \ {0} /\ Fds \subseteq Nat \ {0} /\ IsFiniteSet(Fds)
BY PoolAssumption DEF Configured

\* The least element of a set of numbers is one.
LEMMA LeastElement ==
  ASSUME NEW S \in SUBSET Nat, S # {}
  PROVE  Min(S) \in S /\ \A y \in S : Min(S) <= y
<1>1. PICK x \in S : \A y \in S : ~(<<y, x>> \in OpToRel(<, Nat))
  BY NatLessThanWellFounded, WFMin
<1>2. \A y \in S : x <= y
  <2> TAKE y \in S
  <2>1. x \in Nat /\ y \in Nat
    OBVIOUS
  <2>2. ~(y < x)
    BY <1>1, <2>1 DEF OpToRel
  <2> QED
    BY <2>1, <2>2
<1> QED
  BY <1>2 DEF Min

\* Busy cells are a finite set of at most socknum numbers.
LEMMA BusyCount ==
  ASSUME NEW i \in InfoSet
  PROVE  /\ IsFiniteSet(Busy(i)) /\ Cardinality(Busy(i)) \in 0..i.socknum
         /\ Busy(i) \subseteq 1..i.socknum /\ 1..i.socknum \subseteq 1..SockMax
         /\ Busy(i) # 1..i.socknum => Cardinality(Busy(i)) < i.socknum
<1>1. i.socknum \in 0..SockMax /\ SockMax \in Nat
  BY Constants DEF InfoSet
<1>2. IsFiniteSet(1..i.socknum) /\ Cardinality(1..i.socknum) = i.socknum
  <2>1. /\ IsFiniteSet(1..i.socknum)
        /\ Cardinality(1..i.socknum) = IF 1 > i.socknum THEN 0 ELSE i.socknum - 1 + 1
    <3>1. i.socknum \in Int /\ 1 \in Int
      BY <1>1
    <3> QED
      BY <3>1, FS_Interval
  <2> QED
    BY <1>1, <2>1
<1>3. Busy(i) \subseteq 1..i.socknum
  BY DEF Busy
<1>4. /\ IsFiniteSet(Busy(i)) /\ Cardinality(Busy(i)) <= Cardinality(1..i.socknum)
      /\ Cardinality(1..i.socknum) = Cardinality(Busy(i)) => 1..i.socknum = Busy(i)
  BY <1>2, <1>3, FS_Subset
<1>5. Cardinality(Busy(i)) \in Nat
  BY <1>4, FS_CardinalityType
<1> QED
  BY <1>1, <1>2, <1>3, <1>4, <1>5

\* A module and the record made of it.
LEMMA NewSound ==
  ASSUME NEW m \in Modules
  PROVE  /\ Sound(NewInfo(m)) /\ ~NewInfo(m).del
         /\ \A k \in 1..SockMax : NewInfo(m).cells[k] = Empty
<1> DEFINE i == NewInfo(m)
<1>1. m.socknum \in 0..SockMax /\ m.long \in BOOLEAN
  BY DEF Modules
<1>2. i = [socknum |-> m.socknum, long |-> m.long, fail |-> 0, free |-> m.socknum,
           cells |-> [k \in 1..SockMax |-> Empty], time |-> 0, del |-> FALSE]
  <2>1. ~(m.socknum > SockMax)
    BY <1>1, Constants
  <2> QED
    BY <2>1 DEF NewInfo
<1>3. [k \in 1..SockMax |-> Empty] \in [1..SockMax -> CellSet]
  BY DEF CellSet
<1>4. i \in InfoSet
  BY <1>1, <1>2, <1>3, Constants DEF InfoSet
<1>5. Busy(i) = {}
  BY <1>1, <1>2, Constants DEF Busy, Empty
<1>6. Cardinality(Busy(i)) = 0
  BY <1>5, FS_EmptySet
<1>7. i.free = i.socknum - Cardinality(Busy(i))
  BY <1>1, <1>2, <1>6
<1> HIDE DEF i
<1>8. i.socknum = m.socknum /\ ~i.del /\ i.cells = [k \in 1..SockMax |-> Empty]
  BY <1>2
<1>9. Sound(i) /\ ~i.del /\ \A k \in 1..SockMax : i.cells[k] = Empty
  BY <1>4, <1>7, <1>8 DEF Sound
<1> QED
  BY <1>9 DEF i

\* More cells: they are empty.
LEMMA UpdatedSound ==
  ASSUME NEW i, Sound(i), NEW m \in Modules
  PROVE  /\ Sound(Updated(i, m)) /\ Updated(i, m).cells = i.cells
         /\ Updated(i, m).del = i.del /\ Updated(i, m).fail = i.fail
<1> DEFINE n == IF i.socknum < m.socknum THEN Min({m.socknum, SockMax}) ELSE i.socknum
           j == Updated(i, m)
<1>1. m.socknum \in 0..SockMax /\ m.long \in BOOLEAN /\ SockMax \in Nat
  BY Constants DEF Modules
<1>2. i \in InfoSet /\ i.socknum \in 0..SockMax /\ i.free \in 0..SockMax
  BY DEF Sound, InfoSet
<1>3. Min({m.socknum, SockMax}) \in {m.socknum, SockMax} /\ Min({m.socknum, SockMax}) <= m.socknum
  BY <1>1, LeastElement
<1>4. n \in 0..SockMax /\ n >= i.socknum
  BY <1>1, <1>2, <1>3
<1> HIDE DEF n
<1>5. j = [i EXCEPT !.free = @ + n - i.socknum, !.socknum = n, !.long = m.long]
  BY DEF Updated, n
<1>6. j.socknum = n /\ j.free = i.free + n - i.socknum /\ j.cells = i.cells /\ j.del = i.del /\ j.fail = i.fail
  BY <1>2, <1>5 DEF InfoSet
<1>7. Busy(j) = Busy(i)
  BY <1>1, <1>2, <1>4, <1>6 DEF Busy, Sound, Empty
<1>8. Cardinality(Busy(i)) \in 0..i.socknum
  BY <1>2, BusyCount
<1>9. j.free = j.socknum - Cardinality(Busy(j)) /\ j.free \in 0..SockMax
  BY <1>1, <1>2, <1>4, <1>6, <1>7, <1>8 DEF Sound
<1>10. j \in InfoSet
  BY <1>1, <1>2, <1>4, <1>5, <1>6, <1>9 DEF InfoSet
<1>11. j.del => ReadyCells(j) = {}
  BY <1>1, <1>2, <1>4, <1>6 DEF ReadyCells, Sound, Empty
<1>12. \A k \in 1..SockMax : k > j.socknum => j.cells[k] = Empty
  BY <1>1, <1>2, <1>4, <1>6 DEF Sound
<1> QED
  BY <1>6, <1>9, <1>10, <1>11, <1>12 DEF Sound

\* One more failure stays in range.
LEMMA OneMoreRange ==
  ASSUME NEW n \in 0..HealthLine + Boundary + 1
  PROVE  OneMore(n) \in 0..HealthLine + Boundary + 1
BY Constants DEF OneMore

\* Record j is record i with cell c at place k; the number of free cells follows.
AnyFree == [socknum : 0..SockMax, long : BOOLEAN, fail : 0..HealthLine + Boundary + 1, free : Int,
            cells : [1..SockMax -> CellSet], time : 0..MaxTime, del : BOOLEAN]
IsBusy(c) == IF c.status = "BUSY" THEN 1 ELSE 0
Renewed(i, j, k, c) ==
  /\ j \in AnyFree /\ j.socknum = i.socknum /\ j.del = i.del
  /\ j.cells = [i.cells EXCEPT ![k] = c]
  /\ j.free = i.free + IsBusy(i.cells[k]) - IsBusy(c)

\* Such a record is sound if the one before was.
LEMMA RenewedSound ==
  ASSUME NEW i, Sound(i), NEW j, NEW k \in 1..i.socknum, NEW c \in CellSet, Renewed(i, j, k, c),
         c.status = "READY" => ~i.del
  PROVE  Sound(j)
<1>1. i \in InfoSet /\ SockMax \in Nat /\ i.socknum \in 0..SockMax /\ i.free \in 0..SockMax
      /\ i.cells \in [1..SockMax -> CellSet]
  BY Constants DEF Sound, InfoSet
<1>2. k \in 1..SockMax
  BY <1>1
<1>3. /\ j.socknum = i.socknum /\ j.del = i.del
      /\ j.cells[k] = c /\ \A l \in 1..SockMax : l # k => j.cells[l] = i.cells[l]
  BY <1>1, <1>2 DEF Renewed
<1>4. Busy(j) = IF c.status = "BUSY" THEN Busy(i) \cup {k} ELSE Busy(i) \ {k}
  BY <1>1, <1>2, <1>3 DEF Busy
<1>5. /\ IsFiniteSet(Busy(i)) /\ Cardinality(Busy(i)) \in 0..i.socknum
      /\ k \in Busy(i) <=> i.cells[k].status = "BUSY"
  BY <1>1, BusyCount DEF Busy
<1>6. i.free = i.socknum - Cardinality(Busy(i))
  BY DEF Sound
<1>7. Cardinality(Busy(j)) = Cardinality(Busy(i)) - IsBusy(i.cells[k])
                                + IsBusy(c)
      /\ IsFiniteSet(Busy(j))
  <2>1. IsFiniteSet(Busy(i) \cup {k}) /\ Cardinality(Busy(i) \cup {k}) =
          IF k \in Busy(i) THEN Cardinality(Busy(i)) ELSE Cardinality(Busy(i)) + 1
    BY <1>5, FS_AddElement
  <2>2. IsFiniteSet(Busy(i) \ {k}) /\ Cardinality(Busy(i) \ {k}) =
          IF k \in Busy(i) THEN Cardinality(Busy(i)) - 1 ELSE Cardinality(Busy(i))
    BY <1>5, FS_RemoveElement
  <2> QED
    BY <1>4, <1>5, <2>1, <2>2 DEF IsBusy
<1>8. Cardinality(Busy(j)) \in 0..i.socknum
  <2>1. Busy(j) \subseteq 1..i.socknum
    BY <1>3 DEF Busy
  <2>2. IsFiniteSet(1..i.socknum) /\ Cardinality(1..i.socknum) =
          IF 1 > i.socknum THEN 0 ELSE i.socknum - 1 + 1
    <3>1. i.socknum \in Int /\ 1 \in Int
      BY <1>1
    <3> QED
      BY <3>1, FS_Interval
  <2>3. Cardinality(Busy(j)) <= Cardinality(1..i.socknum)
    BY <2>1, <2>2, FS_Subset
  <2>4. Cardinality(Busy(j)) \in Nat
    BY <1>7, FS_CardinalityType
  <2> QED
    BY <1>1, <2>2, <2>3, <2>4
<1>9a. j.free = i.socknum - Cardinality(Busy(j))
  BY <1>1, <1>5, <1>6, <1>7 DEF Renewed, IsBusy
<1>9. j.free = j.socknum - Cardinality(Busy(j)) /\ j.free \in 0..SockMax
  BY <1>1, <1>3, <1>8, <1>9a
<1>11. j \in InfoSet
  BY <1>9 DEF InfoSet, Renewed, AnyFree
<1>12. \A l \in 1..SockMax : l > j.socknum => j.cells[l] = Empty
  BY <1>1, <1>2, <1>3 DEF Sound
<1>13. j.del => ReadyCells(j) = {}
  BY <1>1, <1>2, <1>3 DEF Sound, ReadyCells
<1> QED
  BY <1>9, <1>11, <1>12, <1>13 DEF Sound

\* What is left of a record that changes some fields.
LEMMA Fields ==
  ASSUME NEW i \in InfoSet, NEW cs \in [1..SockMax -> CellSet], NEW x \in Int,
         NEW f \in 0..HealthLine + Boundary + 1
  PROVE  /\ [i EXCEPT !.cells = cs, !.free = x, !.fail = f] \in AnyFree
         /\ [i EXCEPT !.cells = cs, !.free = x] \in AnyFree
         /\ [i EXCEPT !.cells = cs, !.fail = f] \in AnyFree
<1>1. [i EXCEPT !.cells = cs, !.free = x, !.fail = f] \in AnyFree
  BY DEF InfoSet, AnyFree
<1>2. [i EXCEPT !.cells = cs, !.free = x] \in AnyFree
  BY DEF InfoSet, AnyFree
<1>3. [i EXCEPT !.cells = cs, !.fail = f] \in AnyFree
  <2>1. i \in AnyFree
    BY Constants DEF InfoSet, AnyFree
  <2> QED
    BY <2>1 DEF AnyFree
<1> QED
  BY <1>1, <1>2, <1>3

\* The three ways __FetchSocket leaves a cell: a connect that succeeds,
LEMMA ConnectOkRenewed ==
  ASSUME NEW i \in InfoSet, NEW k \in 1..SockMax, NEW f \in Fds, i.cells[k].status # "BUSY"
  PROVE  Renewed(i, ConnectOk(i, k, f), k, Cell(f, "BUSY")) /\ ConnectOk(i, k, f).fail = 0
<1> DEFINE cs == [i.cells EXCEPT ![k] = Cell(f, "BUSY")]
           j == [i EXCEPT !.cells = cs, !.free = i.free - 1, !.fail = 0]
<1>1. Cell(f, "BUSY") \in CellSet /\ IsBusy(Cell(f, "BUSY")) = 1 /\ IsBusy(i.cells[k]) = 0
  BY DEF Cell, CellSet, IsBusy
<1>2. cs \in [1..SockMax -> CellSet] /\ i.free \in 0..SockMax
  BY <1>1 DEF InfoSet
<1>3. ConnectOk(i, k, f) = j
  BY DEF ConnectOk
<1> HIDE DEF cs
<1>4. j \in AnyFree
  <2>1. i.free - 1 \in Int /\ 0 \in 0..HealthLine + Boundary + 1
    BY <1>2, Constants
  <2> QED
    BY <1>2, <2>1, Fields
<1>5. j.cells = cs /\ j.free = i.free - 1 /\ j.socknum = i.socknum /\ j.del = i.del /\ j.fail = 0
  BY DEF InfoSet
<1> HIDE DEF j
<1> QED
  BY <1>1, <1>2, <1>3, <1>4, <1>5 DEF Renewed, cs

\* A connect that fails.
LEMMA ConnectFailsRenewed ==
  ASSUME NEW i \in InfoSet, NEW k \in 1..SockMax, i.cells[k].status # "BUSY"
  PROVE  Renewed(i, ConnectFails(i, k), k, Empty) /\ ConnectFails(i, k).fail = OneMore(i.fail)
<1> DEFINE cs == [i.cells EXCEPT ![k] = Empty]
           j == [i EXCEPT !.cells = cs, !.fail = OneMore(i.fail)]
<1>1. Empty \in CellSet /\ IsBusy(Empty) = 0 /\ IsBusy(i.cells[k]) = 0
  BY DEF Empty, CellSet, IsBusy
<1>2. cs \in [1..SockMax -> CellSet] /\ i.free \in 0..SockMax /\ i.fail \in 0..HealthLine + Boundary + 1
  BY <1>1 DEF InfoSet
<1>3. ConnectFails(i, k) = j
  BY DEF ConnectFails
<1> HIDE DEF cs
<1>4. j \in AnyFree
  <2>1. OneMore(i.fail) \in 0..HealthLine + Boundary + 1 /\ 0 \in Int
    BY <1>2, OneMoreRange
  <2> QED
    BY <1>2, <2>1, Fields
<1>5. j.cells = cs /\ j.free = i.free /\ j.socknum = i.socknum /\ j.del = i.del /\ j.fail = OneMore(i.fail)
  BY DEF InfoSet
<1> HIDE DEF j
<1> QED
  BY <1>1, <1>2, <1>3, <1>4, <1>5, Constants DEF Renewed, cs

\* A ready socket that passes the check.
LEMMA TakenRenewed ==
  ASSUME NEW i \in InfoSet, NEW k \in 1..SockMax, i.cells[k].status = "READY"
  PROVE  LET j == [i EXCEPT !.cells[k].status = "BUSY", !.free = @ - 1] IN
         i.cells[k].sock \in Fds /\ Renewed(i, j, k, Cell(i.cells[k].sock, "BUSY")) /\ j.fail = i.fail
<1> DEFINE cs == [i.cells EXCEPT ![k] = [i.cells[k] EXCEPT !.status = "BUSY"]]
           j == [i EXCEPT !.cells = cs, !.free = i.free - 1]
<1>1. i.cells[k] \in [sock : Fds, status : {"BUSY", "READY"}]
  <2>1. i.cells[k] \in CellSet
    BY DEF InfoSet
  <2> QED
    BY <2>1 DEF CellSet, Empty
<1>2. /\ Cell(i.cells[k].sock, "BUSY") \in CellSet /\ IsBusy(Cell(i.cells[k].sock, "BUSY")) = 1
      /\ IsBusy(i.cells[k]) = 0
      /\ [i.cells[k] EXCEPT !.status = "BUSY"] = Cell(i.cells[k].sock, "BUSY")
  BY <1>1 DEF Cell, CellSet, IsBusy
<1>3. cs \in [1..SockMax -> CellSet] /\ i.free \in 0..SockMax
  BY <1>2 DEF InfoSet
<1>4. [i EXCEPT !.cells[k].status = "BUSY", !.free = @ - 1] = j
  OBVIOUS
<1>5. cs = [i.cells EXCEPT ![k] = Cell(i.cells[k].sock, "BUSY")]
  BY <1>2
<1> HIDE DEF cs
<1>6. j \in AnyFree
  <2>1. i.free - 1 \in Int /\ 0 \in 0..HealthLine + Boundary + 1
    BY <1>3, Constants
  <2> QED
    BY <1>3, <2>1, Fields
<1>7. j.cells = cs /\ j.free = i.free - 1 /\ j.socknum = i.socknum /\ j.del = i.del /\ j.fail = i.fail
  BY DEF InfoSet
<1> HIDE DEF j
<1>8. Renewed(i, j, k, Cell(i.cells[k].sock, "BUSY"))
  BY <1>2, <1>3, <1>5, <1>6, <1>7 DEF Renewed
<1> QED
  BY <1>1, <1>4, <1>7, <1>8
-----------------------------------------------------------------------------
(***************************************************************************)
(* Part 2.  __FetchSocket.                                                 *)
(***************************************************************************)
\* With a free cell there is a usable one.
LEMMA UsableCell ==
  ASSUME NEW i, Sound(i), i.free > 0
  PROVE  /\ Usable(i) \in 1..i.socknum /\ Usable(i) \in 1..SockMax
         /\ i.cells[Usable(i)] = Empty \/ (i.cells[Usable(i)].status = "READY" /\ i.cells[Usable(i)].sock \in Fds)
<1> DEFINE S == (1..i.socknum) \ Busy(i)
<1>1. i \in InfoSet /\ i.socknum \in 0..SockMax /\ i.cells \in [1..SockMax -> CellSet]
      /\ i.free = i.socknum - Cardinality(Busy(i)) /\ SockMax \in Nat
  BY Constants DEF Sound, InfoSet
<1>2. S # {} /\ S \subseteq Nat
  <2>1. Busy(i) \subseteq 1..i.socknum /\ IsFiniteSet(Busy(i)) /\ Cardinality(Busy(i)) \in 0..i.socknum
    BY <1>1, BusyCount
  <2>2. CASE S = {}
    <3>1. Busy(i) = 1..i.socknum
      BY <2>1, <2>2
    <3>2. i.socknum \in Int /\ 1 \in Int
      BY <1>1
    <3>3. Cardinality(1..i.socknum) = IF 1 > i.socknum THEN 0 ELSE i.socknum - 1 + 1
      BY <3>2, FS_Interval
    <3>4. Cardinality(1..i.socknum) = i.socknum
      BY <1>1, <3>3
    <3> QED
      BY <1>1, <3>1, <3>4
  <2> QED
    BY <2>2
<1>3. Min(S) \in S
  BY <1>2, LeastElement
<1>4. Usable(i) \in S
  BY <1>3 DEF Usable
<1>5. Usable(i) \in 1..i.socknum /\ Usable(i) \in 1..SockMax /\ i.cells[Usable(i)].status # "BUSY"
  BY <1>1, <1>4 DEF Busy
<1>6. i.cells[Usable(i)] \in CellSet
  BY <1>1, <1>5
<1> QED
  BY <1>5, <1>6 DEF CellSet, Empty

\* What a try to use cell k of record i makes of the record and the descriptors o.
Effect(i, o, s, k, r) ==
  /\ Sound(r.info) /\ r.info.del = i.del /\ r.os \in [Fds -> Conns]
  /\ \A l \in 1..SockMax : l # k => r.info.cells[l] = i.cells[l]
  /\ \/ r.sock = 0 /\ r.info.cells[k] = Empty
     \/ /\ r.sock \in Fds /\ r.info.cells[k] = Cell(r.sock, "BUSY")
        /\ r.sock = i.cells[k].sock \/ o[r.sock] = Closed
        /\ r.os[r.sock].server = s \/ (r.sock = i.cells[k].sock /\ r.os[r.sock] = o[r.sock])
  /\ \A f \in Fds : f # r.sock => r.os[f] = IF f = i.cells[k].sock THEN Closed ELSE o[f]

\* The lowest free descriptor.
LEMMA LowestFree ==
  ASSUME NEW o, FreeFds(o) # {}
  PROVE  Min(FreeFds(o)) \in Fds /\ o[Min(FreeFds(o))] = Closed
<1>1. FreeFds(o) \in SUBSET Nat
  BY Constants DEF FreeFds
<1>2. Min(FreeFds(o)) \in FreeFds(o)
  BY <1>1, LeastElement
<1> QED
  BY <1>2 DEF FreeFds

\* One connect.
LEMMA AttemptEffect ==
  ASSUME NEW i, Sound(i), NEW k \in 1..i.socknum, i.cells[k].status # "BUSY",
         NEW o \in [Fds -> Conns], NEW s \in Servers, NEW r \in Attempt(i, o, s, k)
  PROVE  /\ Sound(r.info) /\ r.info.del = i.del /\ r.info.socknum = i.socknum /\ r.os \in [Fds -> Conns]
         /\ \A l \in 1..SockMax : l # k => r.info.cells[l] = i.cells[l]
         /\ \/ r.sock = 0 /\ r.info.cells[k] = Empty
            \/ r.sock \in Fds /\ r.info.cells[k] = Cell(r.sock, "BUSY")
               /\ o[r.sock] = Closed /\ r.os[r.sock].server = s
         /\ \A f \in Fds : f # r.sock => r.os[f] = o[f]
<1>1. i \in InfoSet /\ i.socknum \in 0..SockMax /\ SockMax \in Nat /\ i.cells \in [1..SockMax -> CellSet]
  BY Constants DEF Sound, InfoSet
<1>2. k \in 1..SockMax
  BY <1>1
<1>3. CASE r = Result(ConnectFails(i, k), o, 0)
  <2>1. r.info = ConnectFails(i, k) /\ r.os = o /\ r.sock = 0
    BY <1>3 DEF Result
  <2>2. Renewed(i, r.info, k, Empty) /\ Empty \in CellSet /\ Empty.status = "EMPTY"
    BY <1>1, <1>2, <2>1, ConnectFailsRenewed DEF CellSet, Empty
  <2>3. Sound(r.info)
    BY <2>2, RenewedSound
  <2>4. /\ r.info.del = i.del /\ r.info.socknum = i.socknum
        /\ \A l \in 1..SockMax : l # k => r.info.cells[l] = i.cells[l]
        /\ r.info.cells[k] = Empty
    BY <1>1, <1>2, <2>2 DEF Renewed
  <2> QED
    BY <2>1, <2>3, <2>4
<1>4. CASE \E g \in FreeFds(o) : g = Min(FreeFds(o)) /\ r = Result(ConnectOk(i, k, g), Connected(o, s), g)
  <2>1. PICK g \in FreeFds(o) : g = Min(FreeFds(o)) /\ r = Result(ConnectOk(i, k, g), Connected(o, s), g)
    BY <1>4
  <2>2. g \in Fds /\ o[g] = Closed
    BY <2>1 DEF FreeFds
  <2>3. r.info = ConnectOk(i, k, g) /\ r.os = [o EXCEPT ![g] = [server |-> s, ok |-> TRUE]] /\ r.sock = g
    BY <2>1 DEF Result, Connected
  <2>4. Renewed(i, r.info, k, Cell(g, "BUSY")) /\ Cell(g, "BUSY") \in CellSet /\ Cell(g, "BUSY").status = "BUSY"
    BY <1>1, <1>2, <2>2, <2>3, ConnectOkRenewed DEF CellSet, Cell
  <2>5. Sound(r.info)
    BY <2>4, RenewedSound
  <2>6. /\ r.info.del = i.del /\ r.info.socknum = i.socknum
        /\ \A l \in 1..SockMax : l # k => r.info.cells[l] = i.cells[l]
        /\ r.info.cells[k] = Cell(g, "BUSY")
    BY <1>1, <1>2, <2>4 DEF Renewed
  <2>7. r.os \in [Fds -> Conns] /\ r.os[g].server = s /\ \A f \in Fds : f # g => r.os[f] = o[f]
    BY <2>2, <2>3 DEF Conns
  <2> QED
    BY <2>2, <2>3, <2>5, <2>6, <2>7
<1> QED
  BY <1>3, <1>4 DEF Attempt

\* __FetchSocket as a whole.
LEMMA FetchedEffect ==
  ASSUME NEW i, Sound(i), i.free > 0, NEW o \in [Fds -> Conns], NEW s \in Servers,
         NEW r \in Fetched(i, o, s)
  PROVE  Effect(i, o, s, Usable(i), r)
<1> DEFINE k == Usable(i)
           c == i.cells[k]
           shut == [o EXCEPT ![c.sock] = Closed]
<1>1. k \in 1..i.socknum /\ k \in 1..SockMax /\ (c = Empty \/ (c.status = "READY" /\ c.sock \in Fds))
  BY UsableCell
<1>0. i \in InfoSet /\ Fds \subseteq Nat
  BY Constants DEF Sound
<1> HIDE DEF k
<1>2. CASE c = Empty
  <2>1. c.status = "EMPTY" /\ c.sock = -1 /\ -1 \notin Fds
    BY <1>0, <1>2 DEF Empty
  <2>2. r \in Attempt(i, o, s, k)
    BY <2>1 DEF Fetched, k
  <2>3. /\ Sound(r.info) /\ r.info.del = i.del /\ r.info.socknum = i.socknum /\ r.os \in [Fds -> Conns]
        /\ \A l \in 1..SockMax : l # k => r.info.cells[l] = i.cells[l]
        /\ \/ r.sock = 0 /\ r.info.cells[k] = Empty
           \/ r.sock \in Fds /\ r.info.cells[k] = Cell(r.sock, "BUSY")
              /\ o[r.sock] = Closed /\ r.os[r.sock].server = s
        /\ \A f \in Fds : f # r.sock => r.os[f] = o[f]
    BY <1>1, <2>1, <2>2, AttemptEffect
  <2>4. \A f \in Fds : f # c.sock
    BY <2>1
  <2> QED
    BY <2>3, <2>4 DEF Effect, k
<1>3. CASE c.status = "READY" /\ c.sock \in Fds /\ o[c.sock].ok
  <2>1. r = Result([i EXCEPT !.cells[k].status = "BUSY", !.free = @ - 1], o, c.sock)
    BY <1>3 DEF Fetched, k
  <2>2. r.os = o /\ r.sock = c.sock /\ Renewed(i, r.info, k, Cell(c.sock, "BUSY"))
    BY <1>0, <1>1, <1>3, <2>1, TakenRenewed DEF Result
  <2>3. Cell(c.sock, "BUSY") \in CellSet /\ Cell(c.sock, "BUSY").status = "BUSY"
    BY <1>3 DEF Cell, CellSet
  <2>4. Sound(r.info)
    BY <1>1, <2>2, <2>3, RenewedSound
  <2>5. r.info.del = i.del /\ r.info.cells[k] = Cell(c.sock, "BUSY")
        /\ \A l \in 1..SockMax : l # k => r.info.cells[l] = i.cells[l]
    BY <1>0, <1>1, <2>2 DEF Renewed, InfoSet
  <2> QED
    BY <1>3, <2>2, <2>4, <2>5 DEF Effect, k
<1>4. CASE c.status = "READY" /\ c.sock \in Fds /\ ~o[c.sock].ok
  <2>1. PICK a \in Attempt(i, shut, s, k) : r \in (IF a.sock # 0 THEN {a} ELSE Attempt(a.info, a.os, s, k))
    BY <1>4 DEF Fetched, k
  <2>2. shut \in [Fds -> Conns] /\ shut[c.sock] = Closed /\ \A f \in Fds : f # c.sock => shut[f] = o[f]
    BY <1>4 DEF Conns
  <2> HIDE DEF shut
  <2>3. /\ Sound(a.info) /\ a.info.del = i.del /\ a.info.socknum = i.socknum /\ a.os \in [Fds -> Conns]
        /\ \A l \in 1..SockMax : l # k => a.info.cells[l] = i.cells[l]
        /\ \/ a.sock = 0 /\ a.info.cells[k] = Empty
           \/ a.sock \in Fds /\ a.info.cells[k] = Cell(a.sock, "BUSY")
              /\ shut[a.sock] = Closed /\ a.os[a.sock].server = s
        /\ \A f \in Fds : f # a.sock => a.os[f] = shut[f]
    BY <1>1, <1>4, <2>1, <2>2, AttemptEffect
  <2>4. CASE a.sock # 0
    <3>1. r = a
      BY <2>1, <2>4
    <3>2. a.sock = c.sock \/ o[a.sock] = Closed
      BY <2>2, <2>3, <2>4
    <3>3. \A f \in Fds : f # a.sock => a.os[f] = IF f = c.sock THEN Closed ELSE o[f]
      BY <2>2, <2>3
    <3> QED
      BY <2>3, <2>4, <3>1, <3>2, <3>3 DEF Effect, k
  <2>5. CASE a.sock = 0
    <3>1. r \in Attempt(a.info, a.os, s, k)
      BY <2>1, <2>5
    <3>2. a.info.cells[k] = Empty /\ a.info.cells[k].status # "BUSY" /\ 0 \notin Fds
      BY <2>3, <2>5, Constants DEF Empty
    <3>3. /\ Sound(r.info) /\ r.info.del = a.info.del /\ r.os \in [Fds -> Conns]
          /\ \A l \in 1..SockMax : l # k => r.info.cells[l] = a.info.cells[l]
          /\ \/ r.sock = 0 /\ r.info.cells[k] = Empty
             \/ r.sock \in Fds /\ r.info.cells[k] = Cell(r.sock, "BUSY")
                /\ a.os[r.sock] = Closed /\ r.os[r.sock].server = s
          /\ \A f \in Fds : f # r.sock => r.os[f] = a.os[f]
      BY <1>1, <2>3, <3>1, <3>2, AttemptEffect
    <3>4. \A f \in Fds : a.os[f] = shut[f]
      BY <2>3, <2>5, <3>2
    <3>5. \A f \in Fds : a.os[f] = IF f = c.sock THEN Closed ELSE o[f]
      BY <2>2, <3>4
    <3>6. r.sock \in Fds /\ a.os[r.sock] = Closed => r.sock = c.sock \/ o[r.sock] = Closed
      BY <3>5
    <3>7. \A f \in Fds : f # r.sock => r.os[f] = IF f = c.sock THEN Closed ELSE o[f]
      BY <3>3, <3>5
    <3>8. \A l \in 1..SockMax : l # k => r.info.cells[l] = i.cells[l]
      BY <2>3, <3>3
    <3> QED
      BY <2>3, <3>3, <3>6, <3>7, <3>8 DEF Effect, k
  <2> QED
    BY <2>4, <2>5
<1> QED
  BY <1>1, <1>2, <1>3, <1>4
-----------------------------------------------------------------------------
(***************************************************************************)
(* Part 3.  Cells and descriptors.                                         *)
(***************************************************************************)
\* Map m2 is m with record j for server s, which had the cells of record i.
Put(m, m2, s, i, j) ==
  /\ DOMAIN m2 = DOMAIN m \cup {s} /\ m2[s] = j
  /\ \A x \in DOMAIN m : x # s => m2[x] = m[x]
  /\ s \in DOMAIN m => i.cells = m[s].cells
  /\ s \notin DOMAIN m => \A l \in 1..SockMax : i.cells[l] = Empty

\* A record that keeps its cells changes nothing about who owns what.
LEMMA SameCellsOwn ==
  ASSUME NEW m, NEW m2, NEW s, NEW i, NEW j, NEW o, NEW h, NEW l,
         Put(m, m2, s, i, j), j.cells = i.cells
  PROVE  /\ Own(m, o) => Own(m2, o)
         /\ Held(m, h, l) => Held(m2, h, l)
<1>1. \A k \in 1..SockMax : s \notin DOMAIN m => j.cells[k].sock = -1 /\ j.cells[k].sock \notin Fds
  BY Constants DEF Put, Empty
<1>2. \A x \in DOMAIN m : m2[x].cells = m[x].cells
  BY DEF Put
<1>3. DOMAIN m2 = DOMAIN m \cup {s} /\ m2[s].cells = j.cells
  BY DEF Put
<1>4. ASSUME Own(m, o) PROVE Own(m2, o)
  <2>1. \A x \in DOMAIN m2, k \in 1..SockMax :
          m2[x].cells[k].sock \in Fds => o[m2[x].cells[k].sock].server = x
    BY <1>1, <1>2, <1>3, <1>4 DEF Own
  <2>2. \A x \in DOMAIN m2 : \A k, n \in 1..SockMax :
          m2[x].cells[k].sock \in Fds /\ m2[x].cells[k].sock = m2[x].cells[n].sock => k = n
    BY <1>1, <1>2, <1>3, <1>4 DEF Own
  <2>3. \A f \in Fds : o[f] # Closed => \E x \in DOMAIN m2, k \in 1..SockMax : m2[x].cells[k].sock = f
    BY <1>2, <1>3, <1>4 DEF Own
  <2> QED
    BY <2>1, <2>2, <2>3 DEF Own
<1>5. ASSUME Held(m, h, l) PROVE Held(m2, h, l)
  BY <1>2, <1>3, <1>5 DEF Held
<1> QED
  BY <1>4, <1>5

\* The same with a cell used by __FetchSocket: every descriptor has its cell.
LEMMA EffectOwn ==
  ASSUME NEW m, NEW m2, NEW o, NEW s \in Servers, NEW i, NEW k \in 1..SockMax, NEW r,
         Effect(i, o, s, k, r), Put(m, m2, s, i, r.info), Own(m, o), DOMAIN m \subseteq Servers
  PROVE  Own(m2, r.os)
<1>0. /\ Fds \subseteq Nat \ {0} /\ -1 \notin Fds /\ 0 \notin Fds /\ Closed.server = 0 /\ Servers \subseteq Nat \ {0}
      /\ Empty.sock = -1 /\ Empty.sock \notin Fds
  BY Constants DEF Closed, Empty
<1>1. \A n \in 1..SockMax : i.cells[n].sock \in Fds =>
        s \in DOMAIN m /\ i.cells = m[s].cells /\ o[i.cells[n].sock].server = s /\ o[i.cells[n].sock] # Closed
  BY <1>0 DEF Put, Own
<1>2. /\ DOMAIN m2 = DOMAIN m \cup {s} /\ m2[s] = r.info /\ \A x \in DOMAIN m : x # s => m2[x] = m[x]
  BY DEF Put
<1>3. \A x \in DOMAIN m, n \in 1..SockMax : x # s /\ m[x].cells[n].sock \in Fds =>
        m[x].cells[n].sock # r.sock /\ m[x].cells[n].sock # i.cells[k].sock
        /\ o[m[x].cells[n].sock].server = x
  <2> SUFFICES ASSUME NEW x \in DOMAIN m, NEW n \in 1..SockMax, x # s, m[x].cells[n].sock \in Fds
               PROVE  m[x].cells[n].sock # r.sock /\ m[x].cells[n].sock # i.cells[k].sock
                      /\ o[m[x].cells[n].sock].server = x
    OBVIOUS
  <2>1. o[m[x].cells[n].sock].server = x /\ x # 0
    BY <1>0 DEF Own
  <2>2. m[x].cells[n].sock # i.cells[k].sock
    BY <1>1, <2>1
  <2>3. m[x].cells[n].sock # r.sock
    BY <1>0, <2>1, <2>2 DEF Effect
  <2> QED
    BY <2>1, <2>2, <2>3
<1>4. \A n \in 1..SockMax : n # k /\ i.cells[n].sock \in Fds =>
        i.cells[n].sock # r.sock /\ i.cells[n].sock # i.cells[k].sock
  <2> SUFFICES ASSUME NEW n \in 1..SockMax, n # k, i.cells[n].sock \in Fds
               PROVE  i.cells[n].sock # r.sock /\ i.cells[n].sock # i.cells[k].sock
    OBVIOUS
  <2>1. s \in DOMAIN m /\ i.cells = m[s].cells /\ o[i.cells[n].sock] # Closed
    BY <1>1
  <2>2. i.cells[n].sock # i.cells[k].sock
    BY <2>1 DEF Own
  <2> QED
    BY <1>0, <2>1, <2>2 DEF Effect
<1>5. r.info.cells[k].sock \in Fds => r.info.cells[k].sock = r.sock /\ r.sock \in Fds /\ r.os[r.sock].server = s
  BY <1>0, <1>1 DEF Effect, Cell
<1>6. \A n \in 1..SockMax : n # k => r.info.cells[n] = i.cells[n]
  BY DEF Effect
<1>7. \A f \in Fds : f # r.sock => r.os[f] = IF f = i.cells[k].sock THEN Closed ELSE o[f]
  BY DEF Effect
<1>8. \A x \in DOMAIN m2, n \in 1..SockMax : m2[x].cells[n].sock \in Fds => r.os[m2[x].cells[n].sock].server = x
  <2> SUFFICES ASSUME NEW x \in DOMAIN m2, NEW n \in 1..SockMax, m2[x].cells[n].sock \in Fds
               PROVE  r.os[m2[x].cells[n].sock].server = x
    OBVIOUS
  <2>1. CASE x # s
    BY <1>2, <1>3, <1>7, <2>1
  <2>2. CASE x = s /\ n # k
    BY <1>1, <1>2, <1>4, <1>6, <1>7, <2>2
  <2>3. CASE x = s /\ n = k
    BY <1>2, <1>5, <2>3
  <2> QED
    BY <2>1, <2>2, <2>3
<1>9. \A x \in DOMAIN m2 : \A n, q \in 1..SockMax :
        m2[x].cells[n].sock \in Fds /\ m2[x].cells[n].sock = m2[x].cells[q].sock => n = q
  <2> SUFFICES ASSUME NEW x \in DOMAIN m2, NEW n \in 1..SockMax, NEW q \in 1..SockMax,
                      m2[x].cells[n].sock \in Fds, m2[x].cells[n].sock = m2[x].cells[q].sock
               PROVE  n = q
    OBVIOUS
  <2>1. CASE x # s
    BY <1>2, <2>1 DEF Own
  <2>2. CASE x = s /\ n # k /\ q # k
    BY <1>1, <1>2, <1>6, <2>2 DEF Own
  <2>3. CASE x = s /\ (n = k \/ q = k)
    BY <1>2, <1>4, <1>5, <1>6, <2>3
  <2> QED
    BY <2>1, <2>2, <2>3
<1>10. \A f \in Fds : r.os[f] # Closed => \E x \in DOMAIN m2, n \in 1..SockMax : m2[x].cells[n].sock = f
  <2> SUFFICES ASSUME NEW f \in Fds, r.os[f] # Closed
               PROVE  \E x \in DOMAIN m2, n \in 1..SockMax : m2[x].cells[n].sock = f
    OBVIOUS
  <2>1. CASE f = r.sock
    <3>1. r.info.cells[k].sock = f
      BY <1>0, <2>1 DEF Effect, Cell
    <3> QED
      BY <1>2, <3>1
  <2>2. CASE f # r.sock
    <3>1. f # i.cells[k].sock /\ o[f] # Closed
      BY <1>7, <2>2
    <3>2. PICK x \in DOMAIN m, n \in 1..SockMax : m[x].cells[n].sock = f
      BY <3>1 DEF Own
    <3>3. CASE x # s
      BY <1>2, <3>2, <3>3
    <3>4. CASE x = s
      <4>1. i.cells[n].sock = f /\ n # k
        BY <3>1, <3>2, <3>4 DEF Put
      <4> QED
        BY <1>2, <1>6, <4>1
    <3> QED
      BY <3>3, <3>4
  <2> QED
    BY <2>1, <2>2
<1> QED
  BY <1>8, <1>9, <1>10 DEF Own

\* No thread holds f.
Nobody(h, f) == \A u \in Threads : h[u] # f

\* What the other threads hold stays theirs, and what __FetchSocket found is nobody else's.
LEMMA EffectHeld ==
  ASSUME NEW m, NEW m2, NEW o, NEW s \in Servers, NEW i, NEW k \in 1..SockMax, NEW r,
         NEW h \in [Threads -> Fds \cup {0}], NEW l, DOMAIN m \subseteq Servers,
         Effect(i, o, s, k, r), Put(m, m2, s, i, r.info), Own(m, o), Held(m, h, l),
         i.cells[k].status # "BUSY"
  PROVE  Held(m2, h, l) /\ (r.sock # 0 => Nobody(h, r.sock))
<1>0. Cell(0, "BUSY").status = "BUSY" /\ Closed.server = 0 /\ 0 \notin Servers /\ Empty.status = "EMPTY"
  BY Constants DEF Cell, Closed, Empty
<1>1. ASSUME NEW t \in Threads, h[t] # 0
      PROVE  /\ l[t][1].server \in DOMAIN m2
             /\ \E n \in 1..SockMax : m2[l[t][1].server].cells[n] = Cell(h[t], "BUSY")
             /\ h[t] # r.sock
  <2> DEFINE x == l[t][1].server
  <2>1. x \in DOMAIN m /\ x # 0 /\ h[t] \in Fds
    BY <1>0, <1>1 DEF Held
  <2>2. PICK n \in 1..SockMax : m[x].cells[n] = Cell(h[t], "BUSY")
    BY <1>1 DEF Held
  <2>3. m[x].cells[n].sock = h[t] /\ m[x].cells[n].status = "BUSY"
    BY <2>2 DEF Cell
  <2>4. o[h[t]].server = x /\ o[h[t]] # Closed
    BY <1>0, <2>1, <2>3 DEF Own
  <2> HIDE DEF x
  <2>5. CASE x # s
    <3>1. m2[x] = m[x] /\ x \in DOMAIN m2
      BY <2>1, <2>5 DEF Put
    <3>2. h[t] # r.sock
      <4>1. i.cells[k].sock = h[t] => s \in DOMAIN m /\ i.cells = m[s].cells
        BY <2>1, Constants DEF Put, Empty
      <4>2. i.cells[k].sock # h[t]
        BY <2>1, <2>4, <2>5, <4>1 DEF Own
      <4> QED
        BY <1>1, <2>4, <4>2 DEF Effect
    <3> QED
      BY <2>2, <3>1, <3>2 DEF x
  <2>6. CASE x = s
    <3>1. i.cells = m[s].cells /\ s \in DOMAIN m2 /\ m2[s] = r.info
      BY <2>1, <2>6 DEF Put
    <3>2. n # k
      BY <2>3, <2>6, <3>1
    <3>3. m2[s].cells[n] = Cell(h[t], "BUSY")
      BY <2>2, <2>6, <3>1, <3>2 DEF Effect
    <3>4. i.cells[k].sock # h[t]
      BY <2>1, <2>3, <2>6, <3>1, <3>2 DEF Own
    <3>5. h[t] # r.sock
      BY <1>1, <2>4, <3>4 DEF Effect
    <3> QED
      BY <2>6, <3>1, <3>3, <3>5 DEF x
  <2> QED
    BY <2>5, <2>6
<1>2. Held(m2, h, l)
  BY <1>1 DEF Held
<1>3. r.sock # 0 => Nobody(h, r.sock)
  BY <1>1 DEF Nobody
<1> QED
  BY <1>2, <1>3

\* The thread that got the socket holds it in its cell.
LEMMA GotHeld ==
  ASSUME NEW m, NEW h \in [Threads -> Fds \cup {0}], NEW l \in [Threads -> Seq(Modules)],
         NEW t \in Threads, NEW c \in Modules, NEW f \in Fds, NEW k \in 1..SockMax,
         Held(m, h, l), \A u \in Threads : h[u] # f,
         c.server \in DOMAIN m, m[c.server].cells[k] = Cell(f, "BUSY")
  PROVE  Held(m, [h EXCEPT ![t] = f], [l EXCEPT ![t] = <<c>>])
<1> DEFINE h2 == [h EXCEPT ![t] = f]
           l2 == [l EXCEPT ![t] = <<c>>]
<1>1. /\ h2[t] = f /\ l2[t][1] = c
      /\ \A u \in Threads : u # t => h2[u] = h[u] /\ l2[u] = l[u]
  OBVIOUS
<1> HIDE DEF h2, l2
<1>2. \A u \in Threads : h2[u] # 0 =>
        /\ l2[u][1].server \in DOMAIN m
        /\ \E n \in 1..SockMax : m[l2[u][1].server].cells[n] = Cell(h2[u], "BUSY")
  <2> TAKE u \in Threads
  <2>1. CASE u = t
    BY <1>1, <2>1
  <2>2. CASE u # t
    BY <1>1, <2>2 DEF Held
  <2> QED
    BY <2>1, <2>2
<1>3. \A u, v \in Threads : h2[u] # 0 /\ h2[u] = h2[v] => u = v
  BY <1>1 DEF Held
<1>4. Held(m, h2, l2)
  BY <1>2, <1>3 DEF Held
<1> QED
  BY <1>4 DEF h2, l2

\* A thread that holds nothing may forget its list.
LetGo(t, h, l, h2, l2) ==
  h2[t] = 0 /\ \A u \in Threads : u # t => h2[u] = h[u] /\ l2[u] = l[u]

\* The other threads keep what they hold.
LEMMA LetGoHeld ==
  ASSUME NEW m, NEW h, NEW l, NEW h2, NEW l2, NEW t \in Threads, Held(m, h, l), LetGo(t, h, l, h2, l2)
  PROVE  Held(m, h2, l2)
BY DEF Held, LetGo

\* __CheckDeadServer keeps the types;
LEMMA CheckDeadTypes ==
  ASSUME NEW m, NEW o, CheckDead(m, o), DOMAIN m \subseteq Servers, \A s \in DOMAIN m : Sound(m[s]),
         o \in [Fds -> Conns], clock \in 0..MaxTime, last \in 0..clock, ghost \in BOOLEAN
  PROVE  /\ DOMAIN map' \subseteq DOMAIN m /\ \A s \in DOMAIN map' : map'[s] = m[s]
         /\ os' \in [Fds -> Conns] /\ last' \in 0..clock /\ ghost' \in BOOLEAN
<1>1. Closed \in Conns /\ MaxTime \in Nat
  BY Constants DEF Conns
<1>2. CASE clock - last < Interval
  BY <1>2 DEF CheckDead
<1>3. CASE ~(clock - last < Interval)
  <2> DEFINE over == Overdue(m)
             keep == {s \in over : ~Forgettable(m, s)}
             shut == UNION {{m[s].cells[k].sock : k \in ReadyCells(m[s])} : s \in over}
  <2>1. /\ last' = clock
        /\ map' = [s \in DOMAIN m \ (over \ keep) |-> m[s]]
        /\ os' = [f \in Fds |-> IF f \in shut THEN Closed ELSE o[f]]
        /\ ghost' = (ghost \/ \E s \in keep : ReadyCells(m[s]) # {})
    BY <1>3 DEF CheckDead
  <2> HIDE DEF over, keep, shut
  <2>2. ghost' \in BOOLEAN
    BY <2>1
  <2>3. DOMAIN map' \subseteq DOMAIN m /\ \A s \in DOMAIN map' : map'[s] = m[s]
    BY <2>1
  <2>4. os' \in [Fds -> Conns]
    BY <1>1, <2>1
  <2>5. last' \in 0..clock
    BY <1>1, <2>1
  <2> QED
    BY <2>2, <2>3, <2>4, <2>5
<1> QED
  BY <1>2, <1>3

\* and, as long as it closes no socket of a server it keeps, the ownership.
LEMMA CheckDeadOwn ==
  ASSUME NEW m, NEW o, CheckDead(m, o), DOMAIN m \subseteq Servers, \A s \in DOMAIN m : Sound(m[s]),
         o \in [Fds -> Conns], ~ghost', Own(m, o), NEW h, NEW l, Held(m, h, l)
  PROVE  Own(map', os') /\ Held(map', h, l)
<1>1. CASE clock - last < Interval
  BY <1>1 DEF CheckDead
<1>2. CASE ~(clock - last < Interval)
  <2> DEFINE over == Overdue(m)
             keep == {s \in over : ~Forgettable(m, s)}
             shut == UNION {{m[s].cells[k].sock : k \in ReadyCells(m[s])} : s \in over}
             gone == over \ keep
  <2>1. /\ map' = [s \in DOMAIN m \ gone |-> m[s]]
        /\ os' = [f \in Fds |-> IF f \in shut THEN Closed ELSE o[f]]
        /\ ghost' = (ghost \/ \E s \in keep : ReadyCells(m[s]) # {})
    BY <1>2 DEF CheckDead
  <2>2. over \subseteq DOMAIN m
    BY DEF Overdue
  <2>3. \A s \in gone : Busy(m[s]) = {}
    BY DEF Forgettable
  <2>4. \A s \in keep : ReadyCells(m[s]) = {}
    BY <2>1
  <2>5. \A s \in DOMAIN m : m[s].socknum \in 0..SockMax /\ SockMax \in Nat /\ m[s].cells \in [1..SockMax -> CellSet]
    BY Constants DEF Sound, InfoSet
  <2>6. ASSUME NEW s \in gone, NEW k \in 1..SockMax, m[s].cells[k].sock \in Fds
        PROVE  m[s].cells[k].sock \in shut
    <3>1. s \in DOMAIN m /\ s \in over
      BY <2>2
    <3>2. m[s].cells[k] # Empty
      BY <2>6, Constants DEF Empty
    <3>3. k <= m[s].socknum
      BY <2>5, <3>1, <3>2 DEF Sound
    <3>4. k \in 1..m[s].socknum
      BY <2>5, <3>1, <3>3
    <3>5. m[s].cells[k].status # "BUSY"
      BY <2>3, <3>4 DEF Busy
    <3>6. m[s].cells[k] \in CellSet
      BY <2>5, <3>1
    <3>7. m[s].cells[k].status = "READY"
      BY <3>2, <3>5, <3>6 DEF CellSet
    <3> QED
      BY <3>1, <3>4, <3>7 DEF ReadyCells
  <2>7. ASSUME NEW f \in shut
        PROVE  \E s \in gone, k \in 1..SockMax : m[s].cells[k].sock = f /\ m[s].cells[k].status = "READY"
    <3>0. PICK s \in over : \E k \in ReadyCells(m[s]) : f = m[s].cells[k].sock
      BY <2>7
    <3>1. PICK k \in ReadyCells(m[s]) : f = m[s].cells[k].sock
      BY <3>0
    <3>2. s \in gone
      BY <2>4, <3>1
    <3>3. k \in 1..SockMax /\ m[s].cells[k].status = "READY"
      BY <2>2, <2>5, <3>1 DEF ReadyCells
    <3> QED
      BY <3>1, <3>2, <3>3
  <2>8. gone \subseteq DOMAIN m
    BY <2>2
  <2> HIDE DEF over, keep, shut, gone
  <2>9. DOMAIN map' = DOMAIN m \ gone /\ \A s \in DOMAIN m \ gone : map'[s] = m[s]
    BY <2>1
  <2>10. ASSUME NEW s \in DOMAIN m \ gone, NEW k \in 1..SockMax, m[s].cells[k].sock \in Fds
         PROVE  m[s].cells[k].sock \notin shut
    <3> SUFFICES ASSUME m[s].cells[k].sock \in shut PROVE FALSE
      OBVIOUS
    <3>1. PICK x \in gone, n \in 1..SockMax : m[x].cells[n].sock = m[s].cells[k].sock
      BY <2>7
    <3>2. o[m[s].cells[k].sock].server = s
      BY <2>10 DEF Own
    <3>3. o[m[x].cells[n].sock].server = x
      BY <2>8, <2>10, <3>1 DEF Own
    <3> QED
      BY <3>1, <3>2, <3>3
  <2>11. Own(map', os')
    <3>1. \A s \in DOMAIN map', k \in 1..SockMax :
            map'[s].cells[k].sock \in Fds => os'[map'[s].cells[k].sock].server = s
      BY <2>1, <2>9, <2>10 DEF Own
    <3>2. \A s \in DOMAIN map' : \A k, n \in 1..SockMax :
            map'[s].cells[k].sock \in Fds /\ map'[s].cells[k].sock = map'[s].cells[n].sock => k = n
      BY <2>9 DEF Own
    <3>3. ASSUME NEW f \in Fds, os'[f] # Closed
          PROVE  \E s \in DOMAIN map', k \in 1..SockMax : map'[s].cells[k].sock = f
      <4>1. f \notin shut /\ o[f] # Closed
        BY <2>1, <3>3
      <4>2. PICK s \in DOMAIN m, k \in 1..SockMax : m[s].cells[k].sock = f
        BY <4>1 DEF Own
      <4>3. s \notin gone
        BY <2>6, <3>3, <4>1, <4>2
      <4> QED
        BY <2>9, <4>2, <4>3
    <3> QED
      BY <3>1, <3>2, <3>3 DEF Own
  <2>12. ASSUME NEW t \in Threads, h[t] # 0
         PROVE  /\ l[t][1].server \in DOMAIN map'
                /\ \E k \in 1..SockMax : map'[l[t][1].server].cells[k] = Cell(h[t], "BUSY")
    <3>1. l[t][1].server \in DOMAIN m
      BY <2>12 DEF Held
    <3>2. PICK k \in 1..SockMax : m[l[t][1].server].cells[k] = Cell(h[t], "BUSY")
      BY <2>12 DEF Held
    <3>3. m[l[t][1].server].cells[k].status = "BUSY"
      BY <3>2 DEF Cell
    <3>4. m[l[t][1].server].cells[k] # Empty
      BY <3>3 DEF Empty
    <3>5. k \in 1..m[l[t][1].server].socknum
      BY <2>5, <3>1, <3>4 DEF Sound
    <3>6. l[t][1].server \notin gone
      BY <2>3, <3>3, <3>5 DEF Busy
    <3> QED
      BY <2>9, <3>1, <3>2, <3>6
  <2>13. Held(map', h, l)
    BY <2>12 DEF Held
  <2> QED
    BY <2>11, <2>13
<1> QED
  BY <1>1, <1>2

\* Descriptors F are closed and their cells emptied, in servers that are kept or dropped.
Closes(m, m2, o, o2, F) ==
  /\ DOMAIN m2 \subseteq DOMAIN m
  /\ \A s \in DOMAIN m2, k \in 1..SockMax :
       m2[s].cells[k] = IF m[s].cells[k].sock \in F THEN Empty ELSE m[s].cells[k]
  /\ \A s \in DOMAIN m \ DOMAIN m2, k \in 1..SockMax : m[s].cells[k].sock \in Fds => m[s].cells[k].sock \in F
  /\ \A f \in Fds : o2[f] = IF f \in F THEN Closed ELSE o[f]

\* No thread holds one of F.
NoneOf(h, F) == \A t \in Threads : h[t] \notin F

\* Cells and descriptors correspond still, and the threads keep theirs.
LEMMA Closing ==
  ASSUME NEW m, NEW m2, NEW o, NEW o2, NEW F, Own(m, o), Closes(m, m2, o, o2, F),
         NEW h \in [Threads -> Fds \cup {0}], NEW l, Held(m, h, l), NoneOf(h, F)
  PROVE  Own(m2, o2) /\ Held(m2, h, l)
<1> USE DEF Closes, NoneOf
<1>0. Empty.sock \notin Fds
  BY Constants DEF Empty
<1>1. \A s \in DOMAIN m2, k \in 1..SockMax : m2[s].cells[k].sock \in Fds =>
        m2[s].cells[k] = m[s].cells[k] /\ m[s].cells[k].sock \notin F
  BY <1>0
<1>2. \A s \in DOMAIN m2, k \in 1..SockMax : m2[s].cells[k].sock \in Fds => o2[m2[s].cells[k].sock].server = s
  BY <1>1 DEF Own
<1>3. \A s \in DOMAIN m2 : \A k, n \in 1..SockMax :
        m2[s].cells[k].sock \in Fds /\ m2[s].cells[k].sock = m2[s].cells[n].sock => k = n
  BY <1>1 DEF Own
<1>4. \A f \in Fds : o2[f] # Closed => \E s \in DOMAIN m2, k \in 1..SockMax : m2[s].cells[k].sock = f
  <2> SUFFICES ASSUME NEW f \in Fds, o2[f] # Closed
               PROVE  \E s \in DOMAIN m2, k \in 1..SockMax : m2[s].cells[k].sock = f
    OBVIOUS
  <2>1. f \notin F /\ o[f] # Closed
    OBVIOUS
  <2>2. PICK s \in DOMAIN m, k \in 1..SockMax : m[s].cells[k].sock = f
    BY <2>1 DEF Own
  <2>3. s \in DOMAIN m2
    BY <2>1, <2>2
  <2> QED
    BY <2>1, <2>2, <2>3
<1>5. ASSUME NEW t \in Threads, h[t] # 0
      PROVE  /\ l[t][1].server \in DOMAIN m2
             /\ \E k \in 1..SockMax : m2[l[t][1].server].cells[k] = Cell(h[t], "BUSY")
  <2>1. l[t][1].server \in DOMAIN m /\ h[t] \in Fds
    BY <1>5 DEF Held
  <2>2. PICK k \in 1..SockMax : m[l[t][1].server].cells[k] = Cell(h[t], "BUSY")
    BY <1>5 DEF Held
  <2>3. m[l[t][1].server].cells[k].sock = h[t]
    BY <2>2 DEF Cell
  <2> QED
    BY <2>1, <2>2, <2>3
<1>6. Held(m2, h, l)
  BY <1>5 DEF Held
<1> QED
  BY <1>2, <1>3, <1>4, <1>6 DEF Own

\* FreeSocket finds the cell of the thread that calls it, and no other.
LEMMA PlaceIs ==
  ASSUME Types, Own(map, os), Held(map, held, list), NEW t \in Threads, held[t] \in Fds
  PROVE  /\ list[t][1].server \in DOMAIN map
         /\ \E k \in 1..SockMax :
              /\ k <= map[list[t][1].server].socknum
              /\ map[list[t][1].server].cells[k] = Cell(held[t], "BUSY")
              /\ Place(held[t]) = {<<list[t][1].server, k>>}
<1> DEFINE s == list[t][1].server
           f == held[t]
           at == {x \in (DOMAIN map) \X (1..SockMax) :
                    x[2] <= map[x[1]].socknum /\ map[x[1]].cells[x[2]].sock = f}
<1>0. f # 0 /\ SockMax \in Nat /\ DOMAIN map \subseteq Nat
  BY Constants DEF Types
<1>1. s \in DOMAIN map
  BY <1>0 DEF Held
<1>2. PICK k \in 1..SockMax : map[s].cells[k] = Cell(f, "BUSY")
  BY <1>0 DEF Held
<1>3. map[s].cells[k].sock = f /\ map[s].cells[k].status = "BUSY" /\ map[s].cells[k] # Empty
  BY <1>2 DEF Cell, Empty
<1>4. k <= map[s].socknum
  <2>1. Sound(map[s]) /\ map[s].socknum \in Nat
    BY <1>0, <1>1 DEF Types, Sound, InfoSet
  <2>2. k > map[s].socknum => map[s].cells[k] = Empty
    BY <2>1 DEF Sound
  <2>3. ~(k > map[s].socknum)
    BY <1>3, <2>2
  <2>4. k \in Nat
    BY <1>0
  <2> QED
    BY <2>1, <2>3, <2>4
<1> HIDE DEF s, f
<1>5. at = {<<s, k>>}
  <2>1. <<s, k>> \in at
    BY <1>1, <1>3, <1>4
  <2>2. ASSUME NEW x \in at PROVE x = <<s, k>>
    <3>1. x[1] \in DOMAIN map /\ x[2] \in 1..SockMax /\ map[x[1]].cells[x[2]].sock = f /\ x = <<x[1], x[2]>>
      OBVIOUS
    <3>2. os[f].server = x[1] /\ os[f].server = s /\ f \in Fds
      BY <1>1, <1>3, <3>1 DEF Own, f
    <3>3. x[2] = k
      BY <1>1, <1>3, <3>1, <3>2 DEF Own
    <3> QED
      BY <3>1, <3>2, <3>3
  <2> QED
    BY <2>1, <2>2
<1>6. Place(f) = {x \in at : \A y \in at : x[1] < y[1] \/ (x[1] = y[1] /\ x[2] <= y[2])}
  BY DEF Place
<1>7. Place(f) = {<<s, k>>}
  <2>1. k <= k
    BY <1>0
  <2> HIDE DEF at
  <2> QED
    BY <1>5, <1>6, <2>1
<1> QED
  BY <1>1, <1>2, <1>4, <1>7 DEF s, f

-----------------------------------------------------------------------------
(***************************************************************************)
(* Part 4.  The threads' calls.                                            *)
(***************************************************************************)
\* The call of a thread that got no socket of this server.
LEMMA MissedCalls ==
  ASSUME Calls, NEW t \in Threads, pc[t] \in {"first", "lucky"}, Missed(t, Len(list[t]))
  PROVE  /\ Calls' /\ held[t] = 0 /\ held' = held
         /\ \A u \in Threads : u # t => list'[u] = list[u]
<1> DEFINE n == Len(list[t])
<1>1. /\ list[t] \in Seq(Modules) /\ n \in Nat /\ nth[t] \in Nat /\ n >= 1 /\ held[t] = 0 /\ held' = held
      /\ <<>> \in Seq(Modules)
  BY DEF Calls, Missed
<1>2. /\ pc \in [Threads -> {"idle", "first", "lucky", "hold"}]
      /\ list \in [Threads -> Seq(Modules)] /\ nth \in [Threads -> Nat]
  BY DEF Calls
<1>3. CASE pc[t] = "first" /\ nth[t] < n
  <2>1. pc' = pc /\ list' = list /\ nth' = [nth EXCEPT ![t] = nth[t] + 1]
    BY <1>3 DEF Missed
  <2>2. nth' \in [Threads -> Nat] /\ nth'[t] \in 1..n /\ \A u \in Threads : u # t => nth'[u] = nth[u]
    BY <1>1, <1>2, <1>3, <2>1
  <2> QED
    BY <1>1, <1>3, <2>1, <2>2 DEF Calls
<1>4. CASE pc[t] = "first" /\ nth[t] = n
  <2>1. pc' = [pc EXCEPT ![t] = "lucky"] /\ list' = list /\ nth' = [nth EXCEPT ![t] = 0]
    BY <1>1, <1>4 DEF Missed
  <2>2. /\ nth' \in [Threads -> Nat] /\ nth'[t] = 0 /\ \A u \in Threads : u # t => nth'[u] = nth[u]
        /\ pc' \in [Threads -> {"idle", "first", "lucky", "hold"}] /\ pc'[t] = "lucky"
        /\ \A u \in Threads : u # t => pc'[u] = pc[u]
    BY <1>1, <1>2, <1>4, <2>1
  <2>3. 0 \in 0..n - 1
    BY <1>1
  <2> QED
    BY <1>1, <2>1, <2>2, <2>3 DEF Calls
<1>5. CASE pc[t] = "lucky" /\ nth[t] < n - 1
  <2>1. pc' = pc /\ list' = list /\ nth' = [nth EXCEPT ![t] = nth[t] + 1]
    BY <1>5 DEF Missed
  <2>2. nth' \in [Threads -> Nat] /\ nth'[t] \in 0..n - 1 /\ \A u \in Threads : u # t => nth'[u] = nth[u]
    BY <1>1, <1>2, <1>5, <2>1
  <2> QED
    BY <1>1, <1>5, <2>1, <2>2 DEF Calls
<1>6. CASE pc[t] = "lucky" /\ ~(nth[t] < n - 1)
  <2>1. pc' = [pc EXCEPT ![t] = "idle"] /\ list' = [list EXCEPT ![t] = <<>>] /\ nth' = [nth EXCEPT ![t] = 0]
    BY <1>6 DEF Missed
  <2>2. /\ nth' \in [Threads -> Nat] /\ \A u \in Threads : u # t => nth'[u] = nth[u]
        /\ pc' \in [Threads -> {"idle", "first", "lucky", "hold"}] /\ pc'[t] = "idle"
        /\ \A u \in Threads : u # t => pc'[u] = pc[u]
        /\ list' \in [Threads -> Seq(Modules)] /\ \A u \in Threads : u # t => list'[u] = list[u]
    BY <1>1, <1>2, <2>1
  <2>3. held' \in [Threads -> Fds \cup {0}]
    BY <1>1 DEF Calls
  <2>4. ASSUME NEW u \in Threads
        PROVE  /\ pc'[u] = "hold" <=> held'[u] # 0
               /\ pc'[u] = "first" => nth'[u] \in 1..Len(list'[u])
               /\ pc'[u] = "lucky" => nth'[u] \in 0..Len(list'[u]) - 1
               /\ pc'[u] = "hold" => Len(list'[u]) = 1
    <3>1. CASE u = t
      BY <1>1, <2>2, <3>1
    <3>2. CASE u # t
      <4>1. pc'[u] = pc[u] /\ nth'[u] = nth[u] /\ list'[u] = list[u] /\ held'[u] = held[u]
        BY <1>1, <2>2, <3>2
      <4> QED
        BY <4>1 DEF Calls
    <3> QED
      BY <3>1, <3>2
  <2>5. nth' \in [Threads -> Nat] /\ pc' \in [Threads -> {"idle", "first", "lucky", "hold"}]
        /\ list' \in [Threads -> Seq(Modules)]
    BY <2>2
  <2>6. Calls'
    BY <2>3, <2>4, <2>5 DEF Calls
  <2> QED
    BY <1>1, <2>2, <2>6
<1>7. pc[t] = "first" => nth[t] \in 1..n
  BY DEF Calls
<1> QED
  BY <1>1, <1>3, <1>4, <1>5, <1>6, <1>7

\* The call of a thread that got a socket.
LEMMA GotCalls ==
  ASSUME Calls, NEW t \in Threads, NEW c \in Modules, NEW f \in Fds, Got(t, c, f)
  PROVE  Calls'
<1>1. /\ pc \in [Threads -> {"idle", "first", "lucky", "hold"}] /\ held \in [Threads -> Fds \cup {0}]
      /\ list \in [Threads -> Seq(Modules)] /\ nth \in [Threads -> Nat] /\ f # 0
  BY Constants DEF Calls
<1>2. <<c>> \in Seq(Modules) /\ Len(<<c>>) = 1
  OBVIOUS
<1>3. /\ pc' \in [Threads -> {"idle", "first", "lucky", "hold"}] /\ pc'[t] = "hold"
      /\ held' \in [Threads -> Fds \cup {0}] /\ held'[t] = f
      /\ list' \in [Threads -> Seq(Modules)] /\ list'[t] = <<c>> /\ nth' \in [Threads -> Nat]
      /\ \A u \in Threads : u # t => pc'[u] = pc[u] /\ held'[u] = held[u] /\ list'[u] = list[u] /\ nth'[u] = nth[u]
  BY <1>1, <1>2 DEF Got
<1> QED
  BY <1>1, <1>2, <1>3 DEF Calls

\* A record's soundness is about its cells and counts.
LEMMA SameCellsSound ==
  ASSUME NEW i, Sound(i), NEW j \in InfoSet, j.socknum = i.socknum, j.free = i.free, j.cells = i.cells, j.del = i.del
  PROVE  Sound(j)
BY DEF Sound, Busy, ReadyCells

\* The time of the last use,
LEMMA TimedSound ==
  ASSUME NEW i, Sound(i), NEW n \in 0..MaxTime
  PROVE  LET j == [i EXCEPT !.time = n] IN
         Sound(j) /\ j.cells = i.cells /\ j.free = i.free /\ j.fail = i.fail
<1> DEFINE j == [i EXCEPT !.time = n]
<1>1. i \in InfoSet
  BY DEF Sound
<1>2. j \in InfoSet /\ j.socknum = i.socknum /\ j.free = i.free /\ j.cells = i.cells /\ j.del = i.del /\ j.fail = i.fail
  BY <1>1 DEF InfoSet
<1> HIDE DEF j
<1>3. Sound(j)
  BY <1>2, SameCellsSound
<1> QED
  BY <1>2, <1>3 DEF j

\* and the count of failures after a refusal, are not among them.
LEMMA RefusedSound ==
  ASSUME NEW i, Sound(i)
  PROVE  Sound(Refused(i)) /\ Refused(i).cells = i.cells /\ Refused(i).fail = OneMore(i.fail)
<1> DEFINE j == Refused(i)
<1>1. i \in InfoSet /\ i.fail \in 0..HealthLine + Boundary + 1
  BY DEF Sound, InfoSet
<1>2. OneMore(i.fail) \in 0..HealthLine + Boundary + 1
  BY <1>1, OneMoreRange
<1>3. j \in InfoSet /\ j.socknum = i.socknum /\ j.free = i.free /\ j.cells = i.cells /\ j.del = i.del
      /\ j.fail = OneMore(i.fail)
  BY <1>1, <1>2 DEF InfoSet, Refused
<1> HIDE DEF j
<1>4. Sound(j)
  BY <1>3, SameCellsSound
<1> QED
  BY <1>3, <1>4 DEF j

\* The record FetchSocket works on.
Base(c) == IF c.server \in DOMAIN map THEN map[c.server] ELSE NewInfo(c)

\* It is sound, and a new record for the server may be put into the map.
LEMMA BaseSound ==
  ASSUME Types, NEW c \in Modules
  PROVE  /\ Sound(Updated(Base(c), c)) /\ c.server \in Servers
         /\ Updated(Base(c), c).fail = IF c.server \in DOMAIN map THEN map[c.server].fail ELSE 0
         /\ \A i, j : i.cells = Updated(Base(c), c).cells => Put(map, With(c.server, j), c.server, i, j)
<1>1. Sound(Base(c))
  BY NewSound DEF Types, Base
<1>2. /\ Sound(Updated(Base(c), c)) /\ Updated(Base(c), c).cells = Base(c).cells
      /\ Updated(Base(c), c).fail = Base(c).fail
  BY <1>1, UpdatedSound
<1>3. c.server \notin DOMAIN map => \A k \in 1..SockMax : Base(c).cells[k] = Empty
  BY NewSound DEF Base
<1>4. c.server \notin DOMAIN map => Base(c).fail = 0
  BY DEF Base, NewInfo
<1>5. c.server \in DOMAIN map => Base(c) = map[c.server]
  BY DEF Base
<1>6. c.server \in Servers
  BY DEF Modules
<1>7. ASSUME NEW i, NEW j, i.cells = Base(c).cells PROVE Put(map, With(c.server, j), c.server, i, j)
  BY <1>3, <1>5, <1>7 DEF Put, With
<1> QED
  BY <1>2, <1>4, <1>5, <1>6, <1>7

\* What is left of the pool's invariant after a call that keeps every cell.
LEMMA QuietCall ==
  ASSUME PoolInv, ~dead, NEW t \in Threads, NEW c \in Modules, NEW i, Sound(i), i.cells = Updated(Base(c), c).cells,
         map' = With(c.server, i), refused' \in [Servers -> Nat], Missed(t, Len(list[t])),
         pc[t] \in {"first", "lucky"}, UNCHANGED <<os, last, ghost, clock, dels, dead>>, seed' \in 0..SeedMod - 1
  PROVE  PoolInv'
<1>1. Types /\ Calls /\ (~ghost => Own(map, os) /\ Held(map, held, list))
  BY DEF PoolInv
<1>2. Put(map, map', c.server, i, i) /\ c.server \in Servers
  BY <1>1, BaseSound
<1>3. DOMAIN map' \subseteq Servers /\ \A s \in DOMAIN map' : Sound(map'[s])
  BY <1>1, <1>2 DEF Types, Put
<1>4. Types'
  BY <1>1, <1>3 DEF Types
<1>5. Calls' /\ held[t] = 0 /\ held' = held /\ \A u \in Threads : u # t => list'[u] = list[u]
  BY <1>1, MissedCalls
<1>6. ASSUME ~ghost PROVE Own(map', os') /\ Held(map', held', list')
  <2>1. Own(map', os) /\ Held(map', held, list)
    BY <1>1, <1>2, <1>6, SameCellsOwn
  <2>2. Held(map', held', list')
    BY <1>5, <2>1, LetGoHeld DEF LetGo
  <2> QED
    BY <2>1, <2>2
<1> QED
  BY <1>4, <1>5, <1>6 DEF PoolInv

\* A call that comes to __FetchSocket.
LEMMA BusyCall ==
  ASSUME PoolInv, ~dead, NEW t \in Threads, NEW c \in Modules, NEW i, Sound(i), i.free > 0,
         i.cells = Updated(Base(c), c).cells, NEW r \in Fetched(i, os, c.server),
         CheckDead(With(c.server, r.info), r.os), refused' \in [Servers -> Nat],
         IF r.sock = 0 THEN Missed(t, Len(list[t])) ELSE Got(t, c, r.sock),
         pc[t] \in {"first", "lucky"}, UNCHANGED <<clock, dels, dead>>, seed' \in 0..SeedMod - 1
  PROVE  PoolInv'
<1> DEFINE m2 == With(c.server, r.info)
           k == Usable(i)
<1>1. Types /\ Calls /\ (~ghost => Own(map, os) /\ Held(map, held, list)) /\ os \in [Fds -> Conns]
  BY DEF PoolInv, Types
<1>2. Put(map, m2, c.server, i, r.info) /\ c.server \in Servers
  BY <1>1, BaseSound
<1>3. Effect(i, os, c.server, k, r)
  BY <1>1, <1>2, FetchedEffect
<1>4. k \in 1..SockMax /\ i.cells[k].status # "BUSY"
  BY UsableCell DEF Empty
<1> HIDE DEF m2, k
<1>5. DOMAIN m2 \subseteq Servers /\ (\A s \in DOMAIN m2 : Sound(m2[s])) /\ r.os \in [Fds -> Conns]
  BY <1>1, <1>2, <1>3 DEF Types, Put, Effect
<1>6. CheckDead(m2, r.os)
  BY DEF m2
<1>7. /\ DOMAIN map' \subseteq DOMAIN m2 /\ \A s \in DOMAIN map' : map'[s] = m2[s]
      /\ os' \in [Fds -> Conns] /\ last' \in 0..clock /\ ghost' \in BOOLEAN
  <2>1. clock \in 0..MaxTime /\ last \in 0..clock /\ ghost \in BOOLEAN
    BY <1>1 DEF Types
  <2> QED
    BY <1>5, <1>6, <2>1, CheckDeadTypes
<1>8. Types'
  <2>1. DOMAIN map' \subseteq Servers /\ \A s \in DOMAIN map' : Sound(map'[s])
    BY <1>5, <1>7
  <2> QED
    BY <1>1, <1>7, <2>1 DEF Types
<1>9. r.sock = 0 \/ r.sock \in Fds
  BY <1>3 DEF Effect
<1>10. 0 \notin Fds
  BY Constants
<1>11. Calls'
  BY <1>1, <1>9, <1>10, MissedCalls, GotCalls
<1>12. ~ghost' => ~ghost
  BY <1>6 DEF CheckDead
<1>13. ASSUME ~ghost' PROVE Own(map', os') /\ Held(map', held', list')
  <2>1. Own(map, os) /\ Held(map, held, list) /\ DOMAIN map \subseteq Servers
        /\ held \in [Threads -> Fds \cup {0}] /\ list \in [Threads -> Seq(Modules)]
    BY <1>1, <1>12, <1>13 DEF Types, Calls
  <2>2. Own(m2, r.os)
    BY <1>2, <1>3, <1>4, <2>1, EffectOwn
  <2>3. Held(m2, held, list) /\ (r.sock # 0 => Nobody(held, r.sock))
    BY <1>2, <1>3, <1>4, <2>1, EffectHeld
  <2>4. CASE r.sock = 0
    <3>1. held[t] = 0 /\ held' = held /\ \A u \in Threads : u # t => list'[u] = list[u]
      BY <1>1, <2>4, MissedCalls
    <3>2. Held(m2, held', list')
      BY <2>1, <2>3, <3>1, LetGoHeld DEF LetGo
    <3> QED
      BY <1>5, <1>6, <1>13, <2>2, <3>2, CheckDeadOwn
  <2>5. CASE r.sock # 0
    <3>1. held' = [held EXCEPT ![t] = r.sock] /\ list' = [list EXCEPT ![t] = <<c>>]
      BY <2>5 DEF Got
    <3>2. c.server \in DOMAIN m2 /\ m2[c.server].cells[k] = Cell(r.sock, "BUSY") /\ r.sock \in Fds
      BY <1>2, <1>3, <2>5 DEF Put, Effect
    <3>3. Held(m2, held', list')
      BY <1>4, <2>1, <2>3, <2>5, <3>1, <3>2, GotHeld DEF Nobody
    <3> QED
      BY <1>5, <1>6, <1>13, <2>2, <3>3, CheckDeadOwn
  <2> QED
    BY <2>4, <2>5
<1> QED
  BY <1>8, <1>11, <1>13 DEF PoolInv

\* ConnectMap::FetchSocket, whatever its answer.
LEMMA FetchSocketStep ==
  ASSUME PoolInv, ~dead, NEW t \in Threads, NEW c \in Modules, NEW b \in BOOLEAN, FetchSocket(t, c, b),
         pc[t] \in {"first", "lucky"}, UNCHANGED <<clock, dels, dead>>, seed' \in 0..SeedMod - 1
  PROVE  PoolInv'
<1> DEFINE i == Updated(Base(c), c)
           timed == [i EXCEPT !.time = clock]
<1>1. Types /\ refused \in [Servers -> Nat] /\ clock \in 0..MaxTime
  BY DEF PoolInv, Types
<1>2. Sound(i) /\ c.server \in Servers
  BY <1>1, BaseSound
<1>3. Sound(timed) /\ timed.cells = i.cells /\ timed.free = i.free
  BY <1>1, <1>2, TimedSound
<1>4. Sound(Refused(i)) /\ Refused(i).cells = i.cells
  BY <1>2, RefusedSound
<1>5. [refused EXCEPT ![c.server] = @ + 1] \in [Servers -> Nat] /\ [refused EXCEPT ![c.server] = 0] \in [Servers -> Nat]
  BY <1>1, <1>2
<1>6. \/ map' = With(c.server, i) /\ refused' = refused
         /\ Missed(t, Len(list[t])) /\ UNCHANGED <<os, last, ghost>>
      \/ map' = With(c.server, Refused(i)) /\ refused' = [refused EXCEPT ![c.server] = @ + 1]
         /\ Missed(t, Len(list[t])) /\ UNCHANGED <<os, last, ghost>>
      \/ map' = With(c.server, timed) /\ refused' = [refused EXCEPT ![c.server] = 0]
         /\ Missed(t, Len(list[t])) /\ UNCHANGED <<os, last, ghost>>
      \/ /\ i.free > 0 /\ refused' = [refused EXCEPT ![c.server] = 0]
         /\ \E r \in Fetched(timed, os, c.server) :
              /\ CheckDead(With(c.server, r.info), r.os)
              /\ IF r.sock = 0 THEN Missed(t, Len(list[t])) ELSE Got(t, c, r.sock)
  BY DEF FetchSocket, Base
<1> HIDE DEF i, timed
<1>7. i.cells = Updated(Base(c), c).cells
  BY DEF i
<1>8. CASE map' = With(c.server, i) /\ refused' = refused
           /\ Missed(t, Len(list[t])) /\ UNCHANGED <<os, last, ghost>>
  BY <1>1, <1>2, <1>7, <1>8, QuietCall
<1>9. CASE map' = With(c.server, Refused(i)) /\ refused' = [refused EXCEPT ![c.server] = @ + 1]
           /\ Missed(t, Len(list[t])) /\ UNCHANGED <<os, last, ghost>>
  <2>1. refused' \in [Servers -> Nat] /\ Refused(i).cells = Updated(Base(c), c).cells
    BY <1>4, <1>5, <1>7, <1>9
  <2> QED
    BY <1>4, <1>9, <2>1, QuietCall
<1>10. CASE map' = With(c.server, timed) /\ refused' = [refused EXCEPT ![c.server] = 0]
            /\ Missed(t, Len(list[t])) /\ UNCHANGED <<os, last, ghost>>
  <2>1. refused' \in [Servers -> Nat] /\ timed.cells = Updated(Base(c), c).cells
    BY <1>3, <1>5, <1>7, <1>10
  <2> QED
    BY <1>3, <1>10, <2>1, QuietCall
<1>11. CASE /\ i.free > 0 /\ refused' = [refused EXCEPT ![c.server] = 0]
            /\ \E r \in Fetched(timed, os, c.server) :
                 /\ CheckDead(With(c.server, r.info), r.os)
                 /\ IF r.sock = 0 THEN Missed(t, Len(list[t])) ELSE Got(t, c, r.sock)
  <2>1. refused' \in [Servers -> Nat] /\ timed.cells = Updated(Base(c), c).cells /\ timed.free > 0
    BY <1>3, <1>5, <1>7, <1>11
  <2>2. PICK r \in Fetched(timed, os, c.server) :
              /\ CheckDead(With(c.server, r.info), r.os)
              /\ IF r.sock = 0 THEN Missed(t, Len(list[t])) ELSE Got(t, c, r.sock)
    BY <1>11
  <2> QED
    BY <1>3, <2>1, <2>2, BusyCall
<1> QED
  BY <1>6, <1>8, <1>9, <1>10, <1>11

\* FreeSocket of a socket in cell k of server s: what comes of the record.
LEMMA FreedRenewed ==
  ASSUME NEW i, Sound(i), NEW k \in 1..i.socknum, i.cells[k].status = "BUSY"
  PROVE  /\ LET j == [i EXCEPT !.free = @ + 1, !.cells[k] = Empty] IN
              Sound(j) /\ j.cells = [i.cells EXCEPT ![k] = Empty] /\ j.fail = i.fail
         /\ \A e \in BOOLEAN :
              LET j == [i EXCEPT !.free = @ + 1, !.cells[k] = Empty,
                                 !.fail = IF e THEN OneMore(@) ELSE @] IN
              Sound(j) /\ j.cells = [i.cells EXCEPT ![k] = Empty] /\ (~e => j.fail = i.fail)
         /\ ~i.del =>
              LET j == [i EXCEPT !.free = @ + 1, !.cells[k].status = "READY"] IN
              Sound(j) /\ j.cells = [i.cells EXCEPT ![k] = Cell(i.cells[k].sock, "READY")] /\ j.fail = i.fail
<1>1. /\ i \in InfoSet /\ SockMax \in Nat /\ i.socknum \in 0..SockMax /\ i.free \in 0..SockMax
      /\ i.cells \in [1..SockMax -> CellSet] /\ i.fail \in 0..HealthLine + Boundary + 1
  BY Constants DEF Sound, InfoSet
<1>2. /\ k \in 1..SockMax /\ i.free + 1 \in Int /\ IsBusy(i.cells[k]) = 1
      /\ Empty \in CellSet /\ IsBusy(Empty) = 0 /\ Empty.status # "READY"
  BY <1>1 DEF IsBusy, CellSet, Empty
<1>3. i.cells[k].sock \in Fds /\ i.cells[k] \in [sock : Fds, status : {"BUSY", "READY"}]
  <2>1. i.cells[k] \in CellSet
    BY <1>1, <1>2
  <2> QED
    BY <2>1 DEF CellSet, Empty
<1>4. ASSUME NEW c \in CellSet, IsBusy(c) = 0, c.status = "READY" => ~i.del, NEW f \in 0..HealthLine + Boundary + 1
      PROVE  /\ LET j == [i EXCEPT !.cells = [i.cells EXCEPT ![k] = c], !.free = i.free + 1, !.fail = f] IN
                  Sound(j) /\ j.cells = [i.cells EXCEPT ![k] = c] /\ j.fail = f
             /\ LET j == [i EXCEPT !.cells = [i.cells EXCEPT ![k] = c], !.free = i.free + 1] IN
                  Sound(j) /\ j.cells = [i.cells EXCEPT ![k] = c] /\ j.fail = i.fail
  <2> DEFINE cs == [i.cells EXCEPT ![k] = c]
             j1 == [i EXCEPT !.cells = cs, !.free = i.free + 1, !.fail = f]
             j2 == [i EXCEPT !.cells = cs, !.free = i.free + 1]
  <2>1. cs \in [1..SockMax -> CellSet]
    BY <1>1, <1>4
  <2> HIDE DEF cs
  <2>2. j1 \in AnyFree /\ j2 \in AnyFree
    BY <1>1, <1>2, <1>4, <2>1, Fields
  <2>3. /\ j1.cells = cs /\ j1.free = i.free + 1 /\ j1.socknum = i.socknum /\ j1.del = i.del /\ j1.fail = f
        /\ j2.cells = cs /\ j2.free = i.free + 1 /\ j2.socknum = i.socknum /\ j2.del = i.del /\ j2.fail = i.fail
    BY <1>1 DEF InfoSet
  <2> HIDE DEF j1, j2
  <2>4. Renewed(i, j1, k, c) /\ Renewed(i, j2, k, c)
    BY <1>1, <1>2, <1>4, <2>2, <2>3 DEF Renewed, cs
  <2>5. Sound(j1) /\ Sound(j2)
    BY <1>4, <2>4, RenewedSound
  <2> QED
    BY <2>3, <2>5 DEF j1, j2, cs
<1>5. OneMore(i.fail) \in 0..HealthLine + Boundary + 1
  BY <1>1, OneMoreRange
<1>6. LET j == [i EXCEPT !.free = @ + 1, !.cells[k] = Empty] IN
        Sound(j) /\ j.cells = [i.cells EXCEPT ![k] = Empty] /\ j.fail = i.fail
  <2>1. [i EXCEPT !.free = @ + 1, !.cells[k] = Empty] =
          [i EXCEPT !.cells = [i.cells EXCEPT ![k] = Empty], !.free = i.free + 1]
    BY <1>1 DEF InfoSet
  <2> QED
    BY <1>1, <1>2, <1>4, <2>1
<1>7. ASSUME NEW e \in BOOLEAN
      PROVE  LET j == [i EXCEPT !.free = @ + 1, !.cells[k] = Empty,
                                !.fail = IF e THEN OneMore(@) ELSE @] IN
             Sound(j) /\ j.cells = [i.cells EXCEPT ![k] = Empty] /\ (~e => j.fail = i.fail)
  <2> DEFINE f == IF e THEN OneMore(i.fail) ELSE i.fail
  <2>1. f \in 0..HealthLine + Boundary + 1
    BY <1>1, <1>5
  <2>2. [i EXCEPT !.free = @ + 1, !.cells[k] = Empty, !.fail = IF e THEN OneMore(@) ELSE @] =
          [i EXCEPT !.cells = [i.cells EXCEPT ![k] = Empty], !.free = i.free + 1, !.fail = f]
    <3>1. [i EXCEPT !.free = @ + 1, !.cells[k] = Empty, !.fail = IF e THEN OneMore(@) ELSE @] =
          [i EXCEPT !.free = i.free + 1, !.cells = [i.cells EXCEPT ![k] = Empty], !.fail = f]
      OBVIOUS
    <3> HIDE DEF f
    <3> QED
      BY <1>1, <3>1 DEF InfoSet
  <2>3. ~e => f = i.fail
    OBVIOUS
  <2> HIDE DEF f
  <2> DEFINE j == [i EXCEPT !.cells = [i.cells EXCEPT ![k] = Empty], !.free = i.free + 1, !.fail = f]
  <2>4. Sound(j) /\ j.cells = [i.cells EXCEPT ![k] = Empty] /\ j.fail = f
    BY <1>2, <1>4, <2>1
  <2> HIDE DEF j
  <2>5. [i EXCEPT !.free = @ + 1, !.cells[k] = Empty, !.fail = IF e THEN OneMore(@) ELSE @] = j
    BY <2>2 DEF j
  <2> QED
    BY <2>3, <2>4, <2>5
<1>8. ASSUME ~i.del
      PROVE  LET j == [i EXCEPT !.free = @ + 1, !.cells[k].status = "READY"] IN
             Sound(j) /\ j.cells = [i.cells EXCEPT ![k] = Cell(i.cells[k].sock, "READY")] /\ j.fail = i.fail
  <2> DEFINE c == Cell(i.cells[k].sock, "READY")
  <2>1. c \in CellSet /\ IsBusy(c) = 0
    BY <1>3 DEF CellSet, Cell, IsBusy
  <2>2. [i.cells[k] EXCEPT !.status = "READY"] = c
    BY <1>3 DEF Cell
  <2>3. [i EXCEPT !.free = @ + 1, !.cells[k].status = "READY"] =
          [i EXCEPT !.cells = [i.cells EXCEPT ![k] = c], !.free = i.free + 1]
    <3>1. [i EXCEPT !.free = @ + 1, !.cells[k].status = "READY"] =
          [i EXCEPT !.free = i.free + 1, !.cells = [i.cells EXCEPT ![k] = [i.cells[k] EXCEPT !.status = "READY"]]]
      OBVIOUS
    <3> HIDE DEF c
    <3>2. [i EXCEPT !.free = @ + 1, !.cells[k].status = "READY"] =
            [i EXCEPT !.free = i.free + 1, !.cells = [i.cells EXCEPT ![k] = c]]
      BY <2>2, <3>1
    <3> QED
      BY <1>1, <3>2 DEF InfoSet
  <2> HIDE DEF c
  <2>4. Sound([i EXCEPT !.free = @ + 1, !.cells[k].status = "READY"])
        /\ [i EXCEPT !.free = @ + 1, !.cells[k].status = "READY"].cells = [i.cells EXCEPT ![k] = c]
        /\ [i EXCEPT !.free = @ + 1, !.cells[k].status = "READY"].fail = i.fail
    BY <1>1, <1>4, <1>8, <2>1, <2>3
  <2> QED
    BY <2>4 DEF c
<1> QED
  BY <1>6, <1>7, <1>8

\* A server's record after FreeSocket, and the descriptors.
FreedTo(s, k, f) ==
  \/ /\ os' = [os EXCEPT ![f] = Closed]
     /\ \/ map' = Dropped(s) /\ map[s].del /\ Busy(map[s]) = {k}
        \/ \E j : map' = With(s, j) /\ Sound(j) /\ j.cells = [map[s].cells EXCEPT ![k] = Empty]
  \/ /\ os' = os
     /\ \E j : map' = With(s, j) /\ Sound(j) /\ j.cells = [map[s].cells EXCEPT ![k] = Cell(map[s].cells[k].sock, "READY")]

\* FreeSocket leaves the pool in one of these three ways.
LEMMA FreeSocketFreedTo ==
  ASSUME Types, NEW t \in Threads, NEW e \in BOOLEAN, FreeSocket(t, e)
  PROVE  \E x \in Place(held[t]) :
           /\ x[1] \in DOMAIN map /\ x[2] \in 1..map[x[1]].socknum /\ map[x[1]].cells[x[2]].status = "BUSY"
           /\ FreedTo(x[1], x[2], held[t]) /\ refused' \in [Servers -> Nat]
<1>1. PICK x \in Place(held[t]) :
       LET i == map[x[1]] IN
       /\ i.cells[x[2]].status = "BUSY"
       /\ IF i.del
          THEN Shut(held[t]) /\ refused' = refused
               /\ map' = IF Busy(i) = {x[2]} THEN Dropped(x[1])
                         ELSE With(x[1], [i EXCEPT !.free = @ + 1, !.cells[x[2]] = Empty])
          ELSE IF e \/ ~i.long
          THEN /\ Shut(held[t])
               /\ map' = With(x[1], [i EXCEPT !.free = @ + 1, !.cells[x[2]] = Empty,
                                              !.fail = IF e /\ Punish THEN OneMore(@) ELSE @])
               /\ refused' = IF e /\ Punish THEN [refused EXCEPT ![x[1]] = 0] ELSE refused
          ELSE /\ UNCHANGED <<os, refused>>
               /\ map' = With(x[1], [i EXCEPT !.free = @ + 1, !.cells[x[2]].status = "READY"])
  BY DEF FreeSocket
<1> DEFINE s == x[1]
           k == x[2]
           i == map[s]
           j1 == [i EXCEPT !.free = @ + 1, !.cells[k] = Empty]
           j2 == [i EXCEPT !.free = @ + 1, !.cells[k] = Empty, !.fail = IF e /\ Punish THEN OneMore(@) ELSE @]
           j3 == [i EXCEPT !.free = @ + 1, !.cells[k].status = "READY"]
<1>2. s \in DOMAIN map /\ k \in 1..SockMax /\ k <= i.socknum
  BY DEF Place
<1>3. Sound(i) /\ s \in Servers /\ k \in 1..i.socknum
  <2>1. Sound(i) /\ i.socknum \in 0..SockMax /\ SockMax \in Nat
    BY <1>2, Constants DEF Types, Sound, InfoSet
  <2> QED
    BY <1>2, <2>1 DEF Types
<1>4. i.cells[k].status = "BUSY"
  BY <1>1
<1>a. /\ Sound(j1) /\ j1.cells = [i.cells EXCEPT ![k] = Empty]
      /\ \A g \in BOOLEAN :
           LET j == [i EXCEPT !.free = @ + 1, !.cells[k] = Empty,
                              !.fail = IF g THEN OneMore(@) ELSE @] IN
           Sound(j) /\ j.cells = [i.cells EXCEPT ![k] = Empty]
      /\ ~i.del => Sound(j3) /\ j3.cells = [i.cells EXCEPT ![k] = Cell(i.cells[k].sock, "READY")]
  <2> HIDE DEF s, k, i
  <2>1. Sound(j1) /\ j1.cells = [i.cells EXCEPT ![k] = Empty]
    BY <1>3, <1>4, FreedRenewed
  <2>2. \A g \in BOOLEAN :
          LET j == [i EXCEPT !.free = @ + 1, !.cells[k] = Empty,
                             !.fail = IF g THEN OneMore(@) ELSE @] IN
          Sound(j) /\ j.cells = [i.cells EXCEPT ![k] = Empty]
    BY <1>3, <1>4, FreedRenewed
  <2>3. ~i.del => Sound(j3) /\ j3.cells = [i.cells EXCEPT ![k] = Cell(i.cells[k].sock, "READY")]
    BY <1>3, <1>4, FreedRenewed
  <2> QED
    BY <2>1, <2>2, <2>3
<1>5. Sound(j1) /\ j1.cells = [i.cells EXCEPT ![k] = Empty]
  BY <1>a
<1>6. (e /\ Punish) \in BOOLEAN
  BY Constants
<1>7. Sound(j2) /\ j2.cells = [i.cells EXCEPT ![k] = Empty]
  BY <1>a, <1>6, Zenon
<1>8. ~i.del => Sound(j3) /\ j3.cells = [i.cells EXCEPT ![k] = Cell(i.cells[k].sock, "READY")]
  BY <1>a, Zenon
<1>9. \/ Shut(held[t]) /\ refused' = refused /\ i.del /\ Busy(i) = {k} /\ map' = Dropped(s)
      \/ Shut(held[t]) /\ refused' = refused /\ map' = With(s, j1)
      \/ Shut(held[t]) /\ refused' = (IF e /\ Punish THEN [refused EXCEPT ![s] = 0] ELSE refused) /\ map' = With(s, j2)
      \/ UNCHANGED <<os, refused>> /\ map' = With(s, j3) /\ ~i.del
  BY <1>1
<1> HIDE DEF j1, j2, j3
<1>10. FreedTo(s, k, held[t])
  BY <1>5, <1>7, <1>8, <1>9 DEF FreedTo, Shut
<1>11. refused' \in [Servers -> Nat]
  BY <1>3, <1>9 DEF Types
<1> QED
  BY <1>2, <1>3, <1>4, <1>10, <1>11

\* The invariant after FreeSocket.
LEMMA FreeSocketStep ==
  ASSUME PoolInv, NEW t \in Threads, NEW e \in BOOLEAN, FreeSocket(t, e)
  PROVE  PoolInv'
<1>1. Types /\ Calls /\ (~ghost => Own(map, os) /\ Held(map, held, list)) /\ ~dead
  BY DEF PoolInv, FreeSocket
<1>2. PICK x \in Place(held[t]) :
           /\ x[1] \in DOMAIN map /\ x[2] \in 1..map[x[1]].socknum /\ map[x[1]].cells[x[2]].status = "BUSY"
           /\ FreedTo(x[1], x[2], held[t]) /\ refused' \in [Servers -> Nat]
  BY <1>1, FreeSocketFreedTo
<1> DEFINE s == x[1]
           k == x[2]
           f == held[t]
<1>3. /\ pc[t] = "hold" /\ f # 0 /\ f \in Fds /\ held \in [Threads -> Fds \cup {0}] /\ list \in [Threads -> Seq(Modules)]
      /\ pc \in [Threads -> {"idle", "first", "lucky", "hold"}]
  BY <1>1 DEF FreeSocket, Calls
<1>4. /\ pc' = [pc EXCEPT ![t] = "idle"] /\ held' = [held EXCEPT ![t] = 0] /\ list' = [list EXCEPT ![t] = <<>>]
      /\ UNCHANGED <<clock, dels, last, seed, nth, dead, ghost>>
  BY DEF FreeSocket
<1>5. /\ held' \in [Threads -> Fds \cup {0}] /\ held'[t] = 0 /\ \A u \in Threads : u # t => held'[u] = held[u] /\ list'[u] = list[u]
      /\ list' \in [Threads -> Seq(Modules)] /\ pc'[t] = "idle" /\ \A u \in Threads : u # t => pc'[u] = pc[u]
      /\ pc' \in [Threads -> {"idle", "first", "lucky", "hold"}]
  <2>1. <<>> \in Seq(Modules)
    OBVIOUS
  <2> QED
    BY <1>3, <1>4, <2>1
<1>6. Calls'
  BY <1>1, <1>4, <1>5 DEF Calls
<1>7. DOMAIN map' \subseteq DOMAIN map /\ \A y \in DOMAIN map' : Sound(map'[y])
  BY <1>1, <1>2 DEF FreedTo, Types, With, Dropped
<1>8. os' \in [Fds -> Conns]
  BY <1>1, <1>2, <1>3 DEF FreedTo, Types, Conns
<1>9. Types'
  BY <1>1, <1>2, <1>4, <1>7, <1>8 DEF Types
<1>10. ASSUME ~ghost PROVE Own(map', os') /\ Held(map', held', list')
  <2>1. Own(map, os) /\ Held(map, held, list) /\ Held(map, held', list')
    <3>1. LetGo(t, held, list, held', list')
      BY <1>5 DEF LetGo
    <3> QED
      BY <1>1, <1>10, <3>1, LetGoHeld
  <2>2. \A u \in Threads : held'[u] # f
    BY <1>3, <1>5, <2>1 DEF Held
  <2>3. map[s].cells[k].sock = f /\ k \in 1..SockMax
    BY <1>2 DEF Place
  <2>4. \A y \in DOMAIN map, n \in 1..SockMax : map[y].cells[n].sock = f => y = s /\ n = k
    <3> SUFFICES ASSUME NEW y \in DOMAIN map, NEW n \in 1..SockMax, map[y].cells[n].sock = f
                 PROVE  y = s /\ n = k
      OBVIOUS
    <3>1. os[f].server = y /\ os[f].server = s
      BY <1>2, <1>3, <2>1, <2>3 DEF Own
    <3> QED
      BY <1>2, <1>3, <2>1, <2>3, <3>1 DEF Own
  <2> HIDE DEF s, k, f
  <2>5. s \in DOMAIN map /\ FreedTo(s, k, f) /\ f \in Fds
    BY <1>2, <1>3 DEF s, k, f
  <2>6. map[s].cells \in [1..SockMax -> CellSet] /\ Sound(map[s])
    BY <1>1, <2>5 DEF Types, Sound, InfoSet
  <2>7. \A g \in Fds : [os EXCEPT ![f] = Closed][g] = IF g \in {f} THEN Closed ELSE os[g]
    BY <1>1 DEF Types
  <2>8. CASE os' = [os EXCEPT ![f] = Closed] /\ map' = Dropped(s) /\ map[s].del /\ Busy(map[s]) = {k}
    <3>1. \A n \in 1..SockMax : map[s].cells[n].sock \in Fds => map[s].cells[n].sock = f
      <4> SUFFICES ASSUME NEW n \in 1..SockMax, map[s].cells[n].sock \in Fds PROVE n = k
        BY <2>3
      <4>1. map[s].cells[n] # Empty /\ map[s].cells[n] \in CellSet
        BY <2>6, Constants DEF Empty
      <4>2. n \in 1..map[s].socknum
        <5>1. map[s].socknum \in 0..SockMax /\ SockMax \in Nat
          BY <2>6, Constants DEF Sound, InfoSet
        <5> QED
          BY <2>6, <4>1, <5>1 DEF Sound
      <4>3. map[s].cells[n].status # "READY"
        BY <2>6, <2>8, <4>2 DEF Sound, ReadyCells
      <4>4. map[s].cells[n].status = "BUSY"
        BY <4>1, <4>3 DEF CellSet
      <4> QED
        BY <2>8, <4>2, <4>4 DEF Busy
    <3>2. DOMAIN map' = DOMAIN map \ {s} /\ \A y \in DOMAIN map' : map'[y] = map[y]
      BY <2>8 DEF With, Dropped
    <3>3. \A y \in DOMAIN map', n \in 1..SockMax :
            map'[y].cells[n] = IF map[y].cells[n].sock \in {f} THEN Empty ELSE map[y].cells[n]
      BY <2>4, <3>2
    <3>4. \A y \in DOMAIN map \ DOMAIN map', n \in 1..SockMax : map[y].cells[n].sock \in Fds => map[y].cells[n].sock \in {f}
      BY <3>1, <3>2
    <3>5. \A u \in Threads : held'[u] \notin {f}
      BY <2>2
    <3>6. DOMAIN map' \subseteq DOMAIN map /\ \A g \in Fds : os'[g] = IF g \in {f} THEN Closed ELSE os[g]
      BY <2>7, <2>8, <3>2
    <3>7. Closes(map, map', os, os', {f}) /\ NoneOf(held', {f})
      BY <3>3, <3>4, <3>5, <3>6 DEF Closes, NoneOf
    <3> QED
      BY <1>5, <2>1, <3>7, Closing
  <2>9. ASSUME NEW j, os' = [os EXCEPT ![f] = Closed], map' = With(s, j), j.cells = [map[s].cells EXCEPT ![k] = Empty]
        PROVE  Own(map', os') /\ Held(map', held', list')
    <3>1. j.cells[k] = Empty /\ \A n \in 1..SockMax : n # k => j.cells[n] = map[s].cells[n]
      BY <2>3, <2>6, <2>9
    <3>2. DOMAIN map' = DOMAIN map /\ map'[s] = j /\ \A y \in DOMAIN map : y # s => map'[y] = map[y]
      BY <2>5, <2>9 DEF With, Dropped
    <3>3. \A y \in DOMAIN map', n \in 1..SockMax :
            map'[y].cells[n] = IF map[y].cells[n].sock \in {f} THEN Empty ELSE map[y].cells[n]
      BY <2>3, <2>4, <3>1, <3>2
    <3>4. \A y \in DOMAIN map \ DOMAIN map', n \in 1..SockMax : map[y].cells[n].sock \in Fds => map[y].cells[n].sock \in {f}
      BY <3>2
    <3>5. \A u \in Threads : held'[u] \notin {f}
      BY <2>2
    <3>6. DOMAIN map' \subseteq DOMAIN map /\ \A g \in Fds : os'[g] = IF g \in {f} THEN Closed ELSE os[g]
      BY <2>7, <2>9, <3>2
    <3>7. Closes(map, map', os, os', {f}) /\ NoneOf(held', {f})
      BY <3>3, <3>4, <3>5, <3>6 DEF Closes, NoneOf
    <3> QED
      BY <1>5, <2>1, <3>7, Closing
  <2>10. ASSUME NEW j, os' = os, map' = With(s, j), j.cells = [map[s].cells EXCEPT ![k] = Cell(map[s].cells[k].sock, "READY")]
         PROVE  Own(map', os') /\ Held(map', held', list')
    <3>1. j.cells[k].sock = f /\ \A n \in 1..SockMax : n # k => j.cells[n] = map[s].cells[n]
      BY <2>3, <2>6, <2>10 DEF Cell
    <3>2. DOMAIN map' = DOMAIN map /\ map'[s] = j /\ \A y \in DOMAIN map : y # s => map'[y] = map[y]
      BY <2>5, <2>10 DEF With, Dropped
    <3>3. \A y \in DOMAIN map, n \in 1..SockMax : map'[y].cells[n].sock = map[y].cells[n].sock
      BY <2>3, <3>1, <3>2
    <3>4. Own(map', os')
      BY <2>1, <2>10, <3>2, <3>3 DEF Own
    <3>5. ASSUME NEW u \in Threads, held'[u] # 0
          PROVE  /\ list'[u][1].server \in DOMAIN map'
                 /\ \E n \in 1..SockMax : map'[list'[u][1].server].cells[n] = Cell(held'[u], "BUSY")
      <4>1. list'[u][1].server \in DOMAIN map
        BY <2>1, <3>5 DEF Held
      <4>2. PICK n \in 1..SockMax : map[list'[u][1].server].cells[n] = Cell(held'[u], "BUSY")
        BY <2>1, <3>5 DEF Held
      <4>3. map[list'[u][1].server].cells[n].sock # f
        BY <2>2, <4>2 DEF Cell
      <4>4. map'[list'[u][1].server].cells[n] = map[list'[u][1].server].cells[n]
        BY <2>3, <3>1, <3>2, <4>1, <4>3
      <4> QED
        BY <3>2, <4>1, <4>2, <4>4
    <3>6. Held(map', held', list')
      BY <2>1, <3>5 DEF Held
    <3> QED
      BY <3>4, <3>6
  <2> QED
    BY <2>5, <2>8, <2>9, <2>10 DEF FreedTo
<1> QED
  BY <1>1, <1>4, <1>6, <1>9, <1>10 DEF PoolInv

\* DelServer: the record of a server that is kept for its busy cells.
LEMMA DeletedSound ==
  ASSUME NEW i, Sound(i)
  PROVE  LET j == [i EXCEPT !.del = TRUE,
                            !.cells = [k \in 1..SockMax |-> IF k \in ReadyCells(i) THEN Empty ELSE @[k]]] IN
         Sound(j) /\ j.cells = [k \in 1..SockMax |-> IF k \in ReadyCells(i) THEN Empty ELSE i.cells[k]]
<1> DEFINE cs == [k \in 1..SockMax |-> IF k \in ReadyCells(i) THEN Empty ELSE i.cells[k]]
           j == [i EXCEPT !.del = TRUE, !.cells = cs]
<1>1. i \in InfoSet /\ i.cells \in [1..SockMax -> CellSet] /\ i.socknum \in 0..SockMax /\ SockMax \in Nat
  BY Constants DEF Sound, InfoSet
<1>2. cs \in [1..SockMax -> CellSet]
  BY <1>1 DEF CellSet
<1>3. \A k \in 1..SockMax : cs[k] = IF k \in ReadyCells(i) THEN Empty ELSE i.cells[k]
  OBVIOUS
<1> HIDE DEF cs
<1>4. j \in InfoSet
  BY <1>1, <1>2 DEF InfoSet
<1>5. j.socknum = i.socknum /\ j.free = i.free /\ j.cells = cs /\ j.del = TRUE
  BY <1>1 DEF InfoSet
<1> HIDE DEF j
<1>6. Busy(j) = Busy(i)
  BY <1>1, <1>3, <1>5 DEF Busy, ReadyCells, Empty
<1>7. ReadyCells(j) = {}
  BY <1>1, <1>3, <1>5 DEF ReadyCells, Empty
<1>8. Sound(j)
  BY <1>1, <1>3, <1>4, <1>5, <1>6, <1>7 DEF Sound
<1> QED
  BY <1>5, <1>8 DEF j, cs

\* The invariant after DelServer.
LEMMA DelServerStep ==
  ASSUME PoolInv, NEW s \in Servers, DelServer(s)
  PROVE  PoolInv'
<1> DEFINE i == map[s]
           shut == {i.cells[k].sock : k \in ReadyCells(i)}
           j == [i EXCEPT !.del = TRUE,
                          !.cells = [k \in 1..SockMax |-> IF k \in ReadyCells(i) THEN Empty ELSE @[k]]]
<1>1. /\ Types /\ Calls /\ (~ghost => Own(map, os) /\ Held(map, held, list)) /\ ~dead
      /\ s \in DOMAIN map /\ dels > 0 /\ dels' = dels - 1
      /\ UNCHANGED <<clock, last, seed, tVars, dead, refused, ghost>>
  BY DEF PoolInv, DelServer
<1>2. /\ os' = [f \in Fds |-> IF f \in shut THEN Closed ELSE os[f]]
      /\ map' = IF Busy(i) = {} THEN Dropped(s) ELSE With(s, j)
  BY DEF DelServer
<1>3. Sound(i) /\ i.socknum \in 0..SockMax /\ SockMax \in Nat /\ i.cells \in [1..SockMax -> CellSet]
  BY <1>1, Constants DEF Types, Sound, InfoSet
<1>4. Sound(j) /\ j.cells = [k \in 1..SockMax |-> IF k \in ReadyCells(i) THEN Empty ELSE i.cells[k]]
  BY <1>3, DeletedSound
<1> HIDE DEF shut, j
<1>5. \/ Busy(i) = {} /\ DOMAIN map' = DOMAIN map \ {s} /\ \A x \in DOMAIN map : x # s => map'[x] = map[x]
      \/ DOMAIN map' = DOMAIN map /\ map'[s] = j /\ \A x \in DOMAIN map : x # s => map'[x] = map[x]
  BY <1>1, <1>2 DEF With, Dropped
<1>6. DOMAIN map' \subseteq Servers /\ \A x \in DOMAIN map' : Sound(map'[x])
  BY <1>1, <1>4, <1>5 DEF Types
<1>7. os' \in [Fds -> Conns] /\ dels' \in 0..MaxDels
  BY <1>1, <1>2, Constants DEF Types, Conns
<1>8. Types'
  BY <1>1, <1>6, <1>7 DEF Types
<1>9. Calls'
  BY <1>1 DEF Calls, tVars
<1>10. ASSUME ~ghost PROVE Own(map', os') /\ Held(map', held', list')
  <2>1. Own(map, os) /\ Held(map, held, list) /\ held \in [Threads -> Fds \cup {0}] /\ held' = held /\ list' = list
    BY <1>1, <1>10 DEF Calls, tVars
  <2>2. ASSUME NEW x \in DOMAIN map, NEW n \in 1..SockMax, map[x].cells[n].sock \in shut
        PROVE  x = s /\ n \in ReadyCells(i) /\ map[x].cells[n].sock \in Fds
    <3>1. PICK k \in ReadyCells(i) : map[x].cells[n].sock = i.cells[k].sock
      BY <2>2 DEF shut
    <3>2. k \in 1..SockMax /\ i.cells[k].status = "READY" /\ i.cells[k] \in CellSet
      BY <1>3 DEF ReadyCells
    <3>3. i.cells[k].sock \in Fds
      BY <3>2 DEF CellSet, Empty
    <3>4. os[i.cells[k].sock].server = s /\ os[i.cells[k].sock].server = x
      BY <1>1, <2>1, <3>1, <3>2, <3>3 DEF Own
    <3>5. n = k
      BY <1>1, <2>1, <3>1, <3>2, <3>3, <3>4 DEF Own
    <3> QED
      BY <3>1, <3>3, <3>4, <3>5
  <2>3. \A n \in 1..SockMax : n \in ReadyCells(i) => i.cells[n].sock \in shut
    BY DEF shut
  <2>4. DOMAIN map' \subseteq DOMAIN map
    BY <1>5
  <2>5. \A x \in DOMAIN map', n \in 1..SockMax :
          map'[x].cells[n] = IF map[x].cells[n].sock \in shut THEN Empty ELSE map[x].cells[n]
    <3> TAKE x \in DOMAIN map', n \in 1..SockMax
    <3>1. x \in DOMAIN map
      BY <2>4
    <3>2. CASE x # s
      BY <1>5, <2>2, <3>1, <3>2
    <3>3. CASE x = s
      <4>1. map'[s] = j
        BY <1>5, <3>3
      <4>2. j.cells[n] = IF n \in ReadyCells(i) THEN Empty ELSE i.cells[n]
        BY <1>4
      <4>3. n \in ReadyCells(i) <=> i.cells[n].sock \in shut
        BY <1>1, <2>2, <2>3
      <4> QED
        BY <3>3, <4>1, <4>2, <4>3
    <3> QED
      BY <3>2, <3>3
  <2>6. \A x \in DOMAIN map \ DOMAIN map', n \in 1..SockMax : map[x].cells[n].sock \in Fds => map[x].cells[n].sock \in shut
    <3> SUFFICES ASSUME NEW x \in DOMAIN map \ DOMAIN map', NEW n \in 1..SockMax, map[x].cells[n].sock \in Fds
                 PROVE  map[x].cells[n].sock \in shut
      OBVIOUS
    <3>1. x = s /\ Busy(i) = {}
      BY <1>5
    <3>2. i.cells[n] # Empty /\ i.cells[n] \in CellSet
      BY <1>3, <3>1, Constants DEF Empty
    <3>3. n \in 1..i.socknum
      BY <1>3, <3>2 DEF Sound
    <3>4. i.cells[n].status # "BUSY"
      BY <3>1, <3>3 DEF Busy
    <3>5. i.cells[n].status = "READY"
      BY <3>2, <3>4 DEF CellSet
    <3> QED
      BY <2>3, <3>1, <3>3, <3>5 DEF ReadyCells
  <2>7. \A f \in Fds : os'[f] = IF f \in shut THEN Closed ELSE os[f]
    BY <1>2
  <2>8. Closes(map, map', os, os', shut)
    BY <2>4, <2>5, <2>6, <2>7 DEF Closes
  <2>9. ASSUME NEW t \in Threads, held[t] \in shut PROVE FALSE
    <3>1. PICK k \in ReadyCells(i) : held[t] = i.cells[k].sock
      BY <2>9 DEF shut
    <3>2. k \in 1..SockMax
      BY <1>3 DEF ReadyCells
    <3>3. held[t] \in Fds /\ held[t] # 0
      BY <1>1, <2>2, <2>9, <3>1, <3>2, Constants
    <3>4. list[t][1].server \in DOMAIN map
      BY <2>1, <3>3 DEF Held
    <3>5. PICK n \in 1..SockMax : map[list[t][1].server].cells[n] = Cell(held[t], "BUSY")
      BY <2>1, <3>3 DEF Held
    <3>6. map[list[t][1].server].cells[n].sock = held[t] /\ map[list[t][1].server].cells[n].status = "BUSY"
      BY <3>5 DEF Cell
    <3>7. list[t][1].server = s /\ n \in ReadyCells(i)
      BY <2>2, <2>9, <3>4, <3>6
    <3> QED
      BY <3>6, <3>7 DEF ReadyCells
  <2>10. NoneOf(held, shut)
    BY <2>9 DEF NoneOf
  <2>11. Own(map', os') /\ Held(map', held, list)
    BY <2>1, <2>8, <2>10, Closing
  <2> QED
    BY <2>1, <2>11
<1> QED
  BY <1>1, <1>8, <1>9, <1>10 DEF PoolInv

\* The invariant after AddServer.
LEMMA AddServerStep ==
  ASSUME PoolInv, NEW c \in Modules, AddServer(c)
  PROVE  PoolInv'
<1> DEFINE s == c.server
           i == [map[s] EXCEPT !.del = FALSE]
           j == Updated(i, c)
<1>1. /\ Types /\ Calls /\ (~ghost => Own(map, os) /\ Held(map, held, list)) /\ ~dead
      /\ s \in DOMAIN map /\ map' = With(s, j)
      /\ UNCHANGED <<os, clock, dels, last, seed, tVars, dead, refused, ghost>>
  BY DEF PoolInv, AddServer
<1>2. Sound(map[s]) /\ map[s] \in InfoSet
  BY <1>1 DEF Types, Sound
<1>3. i \in InfoSet /\ i.cells = map[s].cells /\ i.socknum = map[s].socknum /\ i.free = map[s].free /\ i.del = FALSE
  BY <1>2 DEF InfoSet
<1> HIDE DEF i
<1>4. Sound(i)
  BY <1>2, <1>3 DEF Sound, Busy
<1>5. Sound(j) /\ j.cells = i.cells
  BY <1>4, UpdatedSound
<1> HIDE DEF j
<1>6. Put(map, map', s, j, j)
  BY <1>1, <1>3, <1>5 DEF Put, With
<1>7. DOMAIN map' \subseteq Servers /\ \A x \in DOMAIN map' : Sound(map'[x])
  BY <1>1, <1>5, <1>6 DEF Types, Put
<1>8. Types' /\ Calls'
  BY <1>1, <1>7 DEF Types, Calls, tVars
<1>9. ASSUME ~ghost PROVE Own(map', os') /\ Held(map', held', list')
  <2>1. held' = held /\ list' = list /\ os' = os
    BY <1>1 DEF tVars
  <2>2. Own(map', os) /\ Held(map', held, list)
    BY <1>1, <1>6, <1>9, SameCellsOwn
  <2> QED
    BY <2>1, <2>2
<1> QED
  BY <1>1, <1>8, <1>9 DEF PoolInv

\* The peer.
LEMMA PeerSpoilsStep ==
  ASSUME PoolInv, NEW f \in Fds, PeerSpoils(f)
  PROVE  PoolInv'
<1>1. /\ Types /\ Calls /\ (~ghost => Own(map, os) /\ Held(map, held, list)) /\ ~dead
      /\ UNCHANGED <<map, clock, dels, last, seed, tVars, dead, refused, ghost>>
      /\ os[f].ok /\ os' = [os EXCEPT ![f].ok = FALSE] /\ os \in [Fds -> Conns]
  BY DEF PoolInv, PeerSpoils, Types
<1>2. os[f] # Closed
  BY <1>1 DEF Closed
<1>3. os[f] \in [server : Servers, ok : BOOLEAN]
  BY <1>1, <1>2 DEF Conns
<1>4. os' \in [Fds -> Conns] /\ os'[f].server = os[f].server /\ \A g \in Fds : g # f => os'[g] = os[g]
  BY <1>1, <1>3 DEF Conns
<1>5. Types' /\ Calls'
  BY <1>1, <1>4 DEF Types, Calls, tVars
<1>6. ASSUME ~ghost PROVE Own(map', os') /\ Held(map', held', list')
  <2>1. \A g \in Fds : os'[g].server = os[g].server /\ (os'[g] # Closed => os[g] # Closed)
    BY <1>2, <1>4
  <2>2. Own(map', os')
    BY <1>1, <1>6, <2>1 DEF Own
  <2>3. Held(map', held', list')
    BY <1>1, <1>6 DEF Held, tVars
  <2> QED
    BY <2>2, <2>3
<1> QED
  BY <1>1, <1>5, <1>6 DEF PoolInv

\* The clock.
LEMMA TickStep ==
  ASSUME PoolInv, Tick
  PROVE  PoolInv'
<1>1. /\ Types /\ Calls /\ (~ghost => Own(map, os) /\ Held(map, held, list)) /\ ~dead
      /\ UNCHANGED <<map, os, dels, last, seed, tVars, dead, refused, ghost>>
      /\ clock < MaxTime /\ clock' = clock + 1
  BY DEF PoolInv, Tick
<1>2. Types'
  BY <1>1, Constants DEF Types
<1>3. Calls' /\ (Own(map, os) => Own(map', os')) /\ (Held(map, held, list) => Held(map', held', list'))
  BY <1>1 DEF Calls, Own, Held, tVars
<1> QED
  BY <1>1, <1>2, <1>3 DEF PoolInv

\* The asserts: PlaceIs says that they do not fire.
LEMMA FreeDiesStep ==
  ASSUME PoolInv, NEW t \in Threads, FreeDies(t)
  PROVE  PoolInv'
<1>1. /\ Types /\ Calls /\ (~ghost => Own(map, os) /\ Held(map, held, list)) /\ ~dead
      /\ UNCHANGED <<map, os, clock, dels, last, seed, tVars, refused, ghost>> /\ dead' = TRUE /\ pc[t] = "hold"
      /\ \/ Place(held[t]) = {}
         \/ \E x \in Place(held[t]) : map[x[1]].cells[x[2]].status # "BUSY"
  BY DEF PoolInv, FreeDies
<1>2. ASSUME ~ghost PROVE FALSE
  <2>1. held[t] \in Fds
    BY <1>1 DEF Calls
  <2>2. PICK k \in 1..SockMax : map[list[t][1].server].cells[k] = Cell(held[t], "BUSY")
                                /\ Place(held[t]) = {<<list[t][1].server, k>>}
    BY <1>1, <1>2, <2>1, PlaceIs
  <2>3. PICK x \in Place(held[t]) : map[x[1]].cells[x[2]].status # "BUSY"
    BY <1>1, <2>2
  <2>4. x = <<list[t][1].server, k>>
    BY <2>2
  <2>5. x[1] = list[t][1].server /\ x[2] = k
    BY <2>4
  <2>6. map[x[1]].cells[x[2]].status = "BUSY"
    BY <2>2, <2>5 DEF Cell
  <2> QED
    BY <2>3, <2>6
<1>3. Types' /\ Calls'
  BY <1>1 DEF Types, Calls, tVars
<1> QED
  BY <1>1, <1>2, <1>3 DEF PoolInv

\* The server list of a call: not empty, of modules.
LEMMA ServerLists ==
  ASSUME NEW r \in Resources, NEW o \in SetToSeqs(ToSet(r))
  PROVE  o \in Seq(Modules) /\ Len(o) \in Nat /\ Len(o) >= 1
<1>1. r \in Seq(Modules) /\ r # <<>>
  BY PoolAssumption DEF Resources
<1>2. Len(r) \in Nat /\ DOMAIN r = 1..Len(r) /\ 1 \in DOMAIN r
  BY <1>1
<1>3. IsFiniteSet(ToSet(r)) /\ ToSet(r) \subseteq Modules /\ ToSet(r) # {}
  <2>1. r \in Surjection(1..Len(r), ToSet(r))
    BY <1>1, <1>2 DEF Surjection, ToSet
  <2>2. IsFiniteSet(1..Len(r))
    <3>1. Len(r) \in Int /\ 1 \in Int
      BY <1>2
    <3> QED
      BY <3>1, FS_Interval
  <2>3. IsFiniteSet(ToSet(r))
    BY <2>1, <2>2, FS_Surjection
  <2> QED
    BY <1>1, <1>2, <2>3 DEF ToSet
<1>4. Cardinality(ToSet(r)) \in Nat /\ Cardinality(ToSet(r)) # 0
  BY <1>3, FS_CardinalityType, FS_EmptySet
<1>5. o \in [1..Cardinality(ToSet(r)) -> ToSet(r)]
  BY DEF SetToSeqs
<1>6. o \in Seq(ToSet(r)) /\ Len(o) = Cardinality(ToSet(r))
  BY <1>4, <1>5
<1>7. o \in Seq(Modules)
  BY <1>3, <1>6
<1> QED
  BY <1>4, <1>6, <1>7

\* The invariant when a call begins,
LEMMA FetchStep ==
  ASSUME PoolInv, NEW t \in Threads, NEW r \in Resources, Fetch(t, r)
  PROVE  PoolInv'
<1>1. /\ Types /\ Calls /\ (~ghost => Own(map, os) /\ Held(map, held, list)) /\ ~dead /\ pc[t] = "idle"
      /\ pc' = [pc EXCEPT ![t] = "first"] /\ nth' = [nth EXCEPT ![t] = 1]
      /\ UNCHANGED <<map, os, clock, dels, last, seed, held, dead, refused, ghost>>
  BY DEF PoolInv, Fetch
<1>2. PICK o \in SetToSeqs(ToSet(r)) : list' = [list EXCEPT ![t] = o]
  BY DEF Fetch
<1>3. o \in Seq(Modules) /\ Len(o) \in Nat /\ Len(o) >= 1
  BY ServerLists
<1>4. /\ pc' \in [Threads -> {"idle", "first", "lucky", "hold"}] /\ pc'[t] = "first" /\ nth' \in [Threads -> Nat]
      /\ nth'[t] = 1 /\ list' \in [Threads -> Seq(Modules)] /\ list'[t] = o /\ held[t] = 0
      /\ \A u \in Threads : u # t => pc'[u] = pc[u] /\ nth'[u] = nth[u] /\ list'[u] = list[u]
  BY <1>1, <1>2, <1>3 DEF Calls
<1>5. Calls'
  <2>1. nth'[t] \in 1..Len(list'[t])
    BY <1>3, <1>4
  <2> QED
    BY <1>1, <1>4, <2>1 DEF Calls
<1>6. Types'
  BY <1>1 DEF Types
<1>7. ASSUME ~ghost PROVE Own(map', os') /\ Held(map', held', list')
  <2>1. LetGo(t, held, list, held, list')
    BY <1>4 DEF LetGo
  <2>2. Held(map, held, list')
    BY <1>1, <1>7, <2>1, LetGoHeld
  <2> QED
    BY <1>1, <1>7, <2>2
<1> QED
  BY <1>1, <1>5, <1>6, <1>7 DEF PoolInv

\* with a server of the first round,
LEMMA FirstStep ==
  ASSUME PoolInv, NEW t \in Threads, First(t)
  PROVE  PoolInv'
<1>1. Types /\ Calls /\ ~dead /\ pc[t] = "first" /\ FetchSocket(t, list[t][nth[t]], TRUE)
      /\ UNCHANGED <<clock, dels, seed, dead>>
  BY DEF PoolInv, First
<1>2. nth[t] \in 1..Len(list[t]) /\ list[t] \in Seq(Modules)
  BY <1>1 DEF Calls
<1>3. list[t][nth[t]] \in Modules
  BY <1>2
<1>4. seed' \in 0..SeedMod - 1 /\ UNCHANGED <<clock, dels, dead>>
  BY <1>1 DEF Types
<1> QED
  BY <1>1, <1>3, <1>4, FetchSocketStep

\* and with one of the second.
LEMMA LuckyStep ==
  ASSUME PoolInv, NEW t \in Threads, Lucky(t)
  PROVE  PoolInv'
<1> DEFINE n == Len(list[t])
           k == ((nth[t] + seed) % n) + 1
<1>1. Types /\ Calls /\ ~dead /\ pc[t] = "lucky" /\ FetchSocket(t, list[t][k], FALSE)
      /\ seed' = (seed + 1) % SeedMod /\ UNCHANGED <<clock, dels, dead>>
  BY DEF PoolInv, Lucky
<1>2. nth[t] \in 0..n - 1 /\ list[t] \in Seq(Modules) /\ n \in Nat /\ seed \in Nat
  <2>1. nth[t] \in 0..n - 1 /\ list[t] \in Seq(Modules) /\ seed \in 0..SeedMod - 1
    BY <1>1 DEF Calls, Types
  <2> QED
    BY <2>1, Constants
<1>3. k \in 1..n
  <2>1. nth[t] + seed \in Nat /\ n > 0
    BY <1>2
  <2>2. (nth[t] + seed) % n \in 0..n - 1
    BY <1>2, <2>1
  <2> HIDE DEF n
  <2> QED
    BY <1>2, <2>2
<1> HIDE DEF k
<1>4. list[t][k] \in Modules
  BY <1>2, <1>3
<1>5. seed' \in 0..SeedMod - 1
  BY <1>1, <1>2, Constants
<1> QED
  BY <1>1, <1>4, <1>5, FetchSocketStep

\* The invariant of the pool holds from the start and after every step.
LEMMA PoolInductive ==
  /\ Init => PoolInv
  /\ PoolInv /\ [Next]_vars => PoolInv'
<1>1. ASSUME Init PROVE PoolInv
  <2>1. /\ map = <<>> /\ DOMAIN map = {} /\ os = [f \in Fds |-> Closed] /\ held = [t \in Threads |-> 0]
        /\ pc = [t \in Threads |-> "idle"] /\ list = [t \in Threads |-> <<>>] /\ nth = [t \in Threads |-> 0]
    BY <1>1 DEF Init
  <2>2. Types
    <3>1. DOMAIN map \subseteq Servers /\ \A s \in DOMAIN map : Sound(map[s])
      BY <2>1
    <3>2. os \in [Fds -> Conns]
      BY <2>1 DEF Conns
    <3>3. clock \in 0..MaxTime /\ dels \in 0..MaxDels /\ last \in 0..clock /\ seed \in 0..SeedMod - 1
      BY <1>1, Constants DEF Init
    <3> QED
      BY <1>1, <3>1, <3>2, <3>3 DEF Types, Init
  <2>3. Calls
    <3>1. <<>> \in Seq(Modules)
      OBVIOUS
    <3> QED
      BY <2>1, <3>1 DEF Calls
  <2>4. Own(map, os) /\ Held(map, held, list)
    BY <2>1 DEF Own, Held
  <2> QED
    BY <1>1, <2>2, <2>3, <2>4 DEF PoolInv, Init
<1>2. ASSUME PoolInv, [Next]_vars PROVE PoolInv'
  <2>1. CASE \E t \in Threads : \E r \in Resources : Fetch(t, r)
    BY <1>2, <2>1, FetchStep
  <2>2. CASE \E t \in Threads : First(t) \/ Lucky(t) \/ FreeDies(t)
    BY <1>2, <2>2, FirstStep, LuckyStep, FreeDiesStep
  <2>3. CASE \E t \in Threads : \E e \in BOOLEAN : FreeSocket(t, e)
    BY <1>2, <2>3, FreeSocketStep
  <2>4. CASE \E s \in Servers : DelServer(s)
    BY <1>2, <2>4, DelServerStep
  <2>5. CASE \E r \in Resources : \E i \in DOMAIN r : AddServer(r[i])
    <3>0. PICK r \in Resources : \E i \in DOMAIN r : AddServer(r[i])
      BY <2>5
    <3>1. PICK i \in DOMAIN r : AddServer(r[i])
      BY <3>0
    <3>2. r[i] \in Modules
      BY PoolAssumption
    <3> QED
      BY <1>2, <3>1, <3>2, AddServerStep
  <2>6. CASE \E f \in Fds : PeerSpoils(f)
    BY <1>2, <2>6, PeerSpoilsStep
  <2>7. CASE Tick
    BY <1>2, <2>7, TickStep
  <2>8. CASE UNCHANGED vars
    BY <1>2, <2>8 DEF PoolInv, Types, Calls, Own, Held, vars
  <2> QED
    BY <1>2, <2>1, <2>2, <2>3, <2>4, <2>5, <2>6, <2>7, <2>8 DEF Next
<1> QED
  BY <1>1, <1>2

\* Every open descriptor is in one cell and every closed one in none.
LEMMA OneCell ==
  ASSUME Types, Own(map, os), NEW f \in Fds
  PROVE  Cardinality({x \in (DOMAIN map) \X (1..SockMax) : map[x[1]].cells[x[2]].sock = f})
           = (IF os[f] = Closed THEN 0 ELSE 1)
<1> DEFINE S == {x \in (DOMAIN map) \X (1..SockMax) : map[x[1]].cells[x[2]].sock = f}
<1>1. CASE os[f] = Closed
  <2>1. \A s \in DOMAIN map, k \in 1..SockMax : map[s].cells[k].sock # f
    <3>1. Closed.server = 0 /\ 0 \notin DOMAIN map
      BY Constants DEF Closed, Types
    <3> QED
      BY <1>1, <3>1 DEF Own
  <2>2. S = {}
    BY <2>1
  <2> QED
    BY <1>1, <2>2, FS_EmptySet
<1>2. CASE os[f] # Closed
  <2>1. PICK s \in DOMAIN map, k \in 1..SockMax : map[s].cells[k].sock = f
    BY <1>2 DEF Own
  <2>2. S = {<<s, k>>}
    <3>1. <<s, k>> \in S
      BY <2>1
    <3>2. ASSUME NEW x \in S PROVE x = <<s, k>>
      <4>1. x[1] \in DOMAIN map /\ x[2] \in 1..SockMax /\ map[x[1]].cells[x[2]].sock = f /\ x = <<x[1], x[2]>>
        OBVIOUS
      <4>2. os[f].server = x[1] /\ os[f].server = s
        BY <2>1, <4>1 DEF Own
      <4>3. x[2] = k
        BY <2>1, <4>1, <4>2 DEF Own
      <4> QED
        BY <4>1, <4>2, <4>3
    <3> QED
      BY <3>1, <3>2
  <2> HIDE DEF S
  <2>3. Cardinality(S) = 1
    BY <2>2, FS_Singleton
  <2> QED
    BY <1>2, <2>3 DEF S
<1> QED
  BY <1>1, <1>2

\* The pool's invariant says all that OwnSocket does.
LEMMA PoolInvOwnSocket ==
  ASSUME PoolInv
  PROVE  OwnSocket
<1>1. Types /\ Calls /\ (~ghost => ~dead /\ Own(map, os) /\ Held(map, held, list))
  BY DEF PoolInv
<1>2. ASSUME NEW s \in DOMAIN map PROVE InfoOK(map[s]) /\ map[s].free = map[s].socknum - Cardinality(Busy(map[s]))
                                        /\ \A k \in map[s].socknum + 1..SockMax : map[s].cells[k] = Empty
  <2> DEFINE i == map[s]
  <2>1. Sound(i)
    BY <1>1 DEF Types
  <2> HIDE DEF i
  <2>2. i \in InfoSet /\ i.socknum \in 0..SockMax /\ SockMax \in Nat
    BY <2>1, Constants DEF Sound, InfoSet
  <2>3. \A k \in 1..SockMax : i.cells[k] \in [sock : Fds \cup {-1}, status : {"EMPTY", "BUSY", "READY"}]
    <3> TAKE k \in 1..SockMax
    <3>1. i.cells[k] \in CellSet
      BY <2>2 DEF InfoSet
    <3> QED
      BY <3>1 DEF CellSet, Empty
  <2>4. InfoOK(i)
    BY <2>2, <2>3 DEF InfoOK, InfoSet
  <2>5. i.free = i.socknum - Cardinality(Busy(i)) /\ \A k \in i.socknum + 1..SockMax : i.cells[k] = Empty
    BY <2>1, <2>2 DEF Sound
  <2> QED
    BY <2>4, <2>5 DEF i
<1>3. TypeOK
  BY <1>1, <1>2 DEF TypeOK, Types, Calls, Conns
<1>4. FreeNumRight
  BY <1>2 DEF FreeNumRight
<1>5. ASSUME ~ghost, NEW t \in Threads, held[t] # 0
      PROVE  os[held[t]].server = list[t][1].server /\ \A u \in Threads \ {t} : held[u] # held[t]
  <2>1. held[t] \in Fds /\ list[t][1].server \in DOMAIN map
    BY <1>1, <1>5 DEF Calls, Held
  <2>2. PICK k \in 1..SockMax : map[list[t][1].server].cells[k] = Cell(held[t], "BUSY")
    BY <1>1, <1>5 DEF Held
  <2>3. map[list[t][1].server].cells[k].sock = held[t]
    BY <2>2 DEF Cell
  <2>4. os[held[t]].server = list[t][1].server
    BY <1>1, <1>5, <2>1, <2>3 DEF Own
  <2> QED
    BY <1>1, <1>5, <2>4 DEF Held
<1>6. ~ghost => \A f \in Fds :
        Cardinality({x \in (DOMAIN map) \X (1..SockMax) : map[x[1]].cells[x[2]].sock = f})
          = (IF os[f] = Closed THEN 0 ELSE 1)
  BY <1>1, OneCell
<1> QED
  BY <1>1, <1>3, <1>4, <1>5, <1>6 DEF OwnSocket

\* The counts of free cells are right, and as long as __CheckDeadServer has closed no socket of a
\* server that it had to keep, a thread's socket is its own and leads to the server it asked for,
\* every open descriptor is in exactly one cell, and no assert of FreeSocket fires.
THEOREM OwnSocketHolds == Spec => []OwnSocket
<1>1. PoolInv => OwnSocket
  BY PoolInvOwnSocket
<1> QED
  BY <1>1, PoolInductive, PTL DEF Spec
-----------------------------------------------------------------------------
(***************************************************************************)
(* Part 5.  No server is given up.                                         *)
(***************************************************************************)
\* What makes Patient hold from one state to the next without a refusal: a server's row of refusals ends, or
\* its count stays.
Steady ==
  \A s \in Servers :
    \/ refused'[s] = 0
    \/ /\ refused'[s] = refused[s]
       /\ s \in DOMAIN map' => map'[s].fail = 0 \/ (s \in DOMAIN map /\ map'[s].fail = map[s].fail)

\* Then the row of every server is as it should be.
LEMMA SteadyPatient ==
  ASSUME Patient, Types, Steady
  PROVE  Patient'
<1>1. HealthLine \in Nat /\ RetryLine \in Nat /\ refused \in [Servers -> Nat]
  BY Constants DEF Types
<1> SUFFICES ASSUME NEW s \in Servers
             PROVE  /\ refused'[s] <= RetryLine
                    /\ s \in DOMAIN map' /\ map'[s].fail > HealthLine =>
                         \A j \in 1..refused'[s] : LowCount(Back(map'[s].fail, j))
  BY DEF Patient, LowCount, Back
<1>2. CASE refused'[s] = 0
  BY <1>1, <1>2
<1>3. CASE /\ refused'[s] = refused[s]
           /\ s \in DOMAIN map' => map'[s].fail = 0 \/ (s \in DOMAIN map /\ map'[s].fail = map[s].fail)
  BY <1>1, <1>3 DEF Patient
<1> QED
  BY <1>2, <1>3 DEF Steady

\* The counts that came before n, going round: each is in range, and no two of a round are the same.
LEMMA BackRange ==
  ASSUME NEW n \in HealthLine + 1..HealthLine + Boundary + 1, NEW j \in 1..Boundary + 1
  PROVE  /\ Back(n, j) \in HealthLine + 1..HealthLine + Boundary + 1
         /\ \A k \in 1..Boundary + 1 : Back(n, j) = Back(n, k) => j = k
BY Constants DEF Back

\* One more refusal puts the count before it in the row.
LEMMA BackOneMore ==
  ASSUME NEW n \in HealthLine + 1..HealthLine + Boundary + 1
  PROVE  /\ OneMore(n) \in HealthLine + 1..HealthLine + Boundary + 1
         /\ Back(OneMore(n), 1) = n
         /\ \A j \in 1..Boundary : Back(OneMore(n), j + 1) = Back(n, j)
BY Constants DEF Back, OneMore

\* There are only RetryLine counts at which a server is refused.
LEMMA FewLowCounts ==
  ASSUME NEW n \in HealthLine + 1..HealthLine + Boundary + 1, NEW r \in 0..Boundary + 1,
         \A j \in 1..r : LowCount(Back(n, j))
  PROVE  r <= RetryLine
<1>1. Boundary \in Nat /\ RetryLine \in 0..Boundary /\ Magic \in Nat /\ HealthLine \in Nat
  BY Constants, MagicAssumption
<1> DEFINE g == [j \in 1..r |-> (Back(n, j) * Magic) % (Boundary + 1)]
<1>2. \A j \in 1..r : g[j] \in 0..RetryLine - 1
  <2> TAKE j \in 1..r
  <2>1. j \in 1..Boundary + 1
    BY <1>1
  <2>2. Back(n, j) \in HealthLine + 1..HealthLine + Boundary + 1
    BY <2>1, BackRange
  <2>3. Back(n, j) \in Nat
    BY <1>1, <2>2
  <2>4. Back(n, j) * Magic \in Nat
    BY <1>1, <2>3
  <2>5. (Back(n, j) * Magic) % (Boundary + 1) \in 0..Boundary
    BY <1>1, <2>4
  <2>6. (Back(n, j) * Magic) % (Boundary + 1) < RetryLine
    BY DEF LowCount
  <2>7. g[j] = (Back(n, j) * Magic) % (Boundary + 1)
    OBVIOUS
  <2> HIDE DEF g
  <2> QED
    BY <1>1, <2>5, <2>6, <2>7
<1>3. \A j, k \in 1..r : g[j] = g[k] => j = k
  <2> SUFFICES ASSUME NEW j \in 1..r, NEW k \in 1..r, g[j] = g[k] PROVE j = k
    OBVIOUS
  <2>1. j \in 1..Boundary + 1 /\ k \in 1..Boundary + 1
    BY <1>1
  <2>2. /\ Back(n, j) \in HealthLine + 1..HealthLine + Boundary + 1
        /\ Back(n, k) \in HealthLine + 1..HealthLine + Boundary + 1
        /\ Back(n, j) = Back(n, k) => j = k
    BY <2>1, BackRange
  <2>3. (Back(n, j) * Magic) % (Boundary + 1) = (Back(n, k) * Magic) % (Boundary + 1)
    OBVIOUS
  <2>4. Back(n, j) = Back(n, k)
    BY <2>2, <2>3, MagicAssumption
  <2> QED
    BY <2>2, <2>4
<1>4. g \in [1..r -> 0..RetryLine - 1]
  <2>1. g = [j \in 1..r |-> g[j]]
    OBVIOUS
  <2> HIDE DEF g
  <2> QED
    BY <1>2, <2>1
<1> HIDE DEF g
<1>5. r \in Int /\ 1 \in Int /\ 0 \in Int /\ RetryLine - 1 \in Int
  BY <1>1
<1>6. /\ IsFiniteSet(1..r) /\ Cardinality(1..r) = IF 1 > r THEN 0 ELSE r - 1 + 1
      /\ IsFiniteSet(0..RetryLine - 1)
      /\ Cardinality(0..RetryLine - 1) = IF 0 > RetryLine - 1 THEN 0 ELSE RetryLine - 1 - 0 + 1
  BY <1>5, FS_Interval
<1>7. Cardinality(1..r) = r /\ Cardinality(0..RetryLine - 1) = RetryLine
  BY <1>1, <1>6
<1>8. g \in Injection(1..r, 0..RetryLine - 1)
  BY <1>3, <1>4 DEF Injection, IsInjective
<1>9. Cardinality(1..r) <= Cardinality(0..RetryLine - 1)
  BY <1>6, <1>8, FS_Injection
<1> QED
  BY <1>7, <1>9

\* A refusal: the row grows by the count at which it happened.
LEMMA RefusalPatient ==
  ASSUME Patient, Types, NEW s \in Servers, NEW n \in HealthLine + 1..HealthLine + Boundary + 1, LowCount(n),
         s \in DOMAIN map, map[s].fail = n,
         refused' = [refused EXCEPT ![s] = @ + 1], s \in DOMAIN map', map'[s].fail = OneMore(n),
         \A x \in Servers : x # s => (x \in DOMAIN map' => x \in DOMAIN map /\ map'[x] = map[x])
  PROVE  Patient'
<1>1. /\ Boundary \in Nat /\ HealthLine \in Nat /\ RetryLine \in 0..Boundary /\ refused \in [Servers -> Nat]
  BY Constants DEF Types
<1> DEFINE r == refused[s]
           m == OneMore(n)
<1>2. r \in Nat /\ r <= RetryLine /\ \A j \in 1..r : LowCount(Back(n, j))
  BY <1>1 DEF Patient
<1>3. m \in HealthLine + 1..HealthLine + Boundary + 1 /\ Back(m, 1) = n /\ \A j \in 1..Boundary : Back(m, j + 1) = Back(n, j)
  BY BackOneMore
<1> HIDE DEF m
<1>4. \A j \in 1..r + 1 : LowCount(Back(m, j))
  <2> TAKE j \in 1..r + 1
  <2>1. CASE j = 1
    BY <1>3, <2>1
  <2>2. CASE j # 1
    <3>1. j - 1 \in 1..r /\ j - 1 \in 1..Boundary /\ (j - 1) + 1 = j
      BY <1>1, <1>2, <2>2
    <3>2. Back(m, (j - 1) + 1) = Back(n, j - 1) /\ LowCount(Back(n, j - 1))
      BY <1>2, <1>3, <3>1
    <3> QED
      BY <3>1, <3>2
  <2> QED
    BY <2>1, <2>2
<1>5. r + 1 <= RetryLine
  <2>1. r + 1 \in 0..Boundary + 1
    BY <1>1, <1>2
  <2> HIDE DEF r
  <2> QED
    BY <1>3, <1>4, <2>1, FewLowCounts
<1>6. refused'[s] = r + 1 /\ \A x \in Servers : x # s => refused'[x] = refused[x]
  BY <1>1
<1>7. ASSUME NEW x \in Servers
      PROVE  /\ refused'[x] <= RetryLine
             /\ x \in DOMAIN map' /\ map'[x].fail > HealthLine =>
                  \A j \in 1..refused'[x] : LowCount(Back(map'[x].fail, j))
  <2>1. CASE x = s
    BY <1>4, <1>5, <1>6, <2>1 DEF m
  <2>2. CASE x # s
    BY <1>6, <2>2 DEF Patient
  <2> QED
    BY <2>1, <2>2
<1> QED
  BY <1>7 DEF Patient, LowCount, Back

\* The record of FetchSocket's server when the call ends, and its row.
LEMMA FetchSocketPatient ==
  ASSUME PoolInv, Patient, NEW t \in Threads, NEW c \in Modules, NEW b \in BOOLEAN, FetchSocket(t, c, b)
  PROVE  Patient'
<1> DEFINE s == c.server
           i == Updated(Base(c), c)
           timed == [i EXCEPT !.time = clock]
<1>1. Types /\ refused \in [Servers -> Nat] /\ clock \in 0..MaxTime
  BY DEF PoolInv, Types
<1>2. Sound(i) /\ s \in Servers /\ i.fail = IF s \in DOMAIN map THEN map[s].fail ELSE 0
  BY <1>1, BaseSound
<1>3. \/ map' = With(s, i) /\ refused' = refused
      \/ map' = With(s, Refused(i)) /\ Blocked(i) /\ refused' = [refused EXCEPT ![s] = @ + 1]
      \/ map' = With(s, timed) /\ refused' = [refused EXCEPT ![s] = 0]
      \/ refused' = [refused EXCEPT ![s] = 0]
         /\ \E r \in Fetched(timed, os, s) : CheckDead(With(s, r.info), r.os)
  BY DEF FetchSocket, Base
<1> HIDE DEF i, timed
<1>4. CASE map' = With(s, i) /\ refused' = refused
  <2>1. Steady
    BY <1>2, <1>4 DEF Steady, With
  <2> QED
    BY <1>1, <2>1, SteadyPatient
<1>5. CASE map' = With(s, Refused(i)) /\ Blocked(i) /\ refused' = [refused EXCEPT ![s] = @ + 1]
  <2>1. i.fail > HealthLine /\ LowCount(i.fail) /\ HealthLine \in Nat
    BY <1>5, Constants DEF Blocked, LowCount
  <2>2. s \in DOMAIN map /\ i.fail = map[s].fail
    BY <1>2, <2>1
  <2>3. i.fail \in HealthLine + 1..HealthLine + Boundary + 1
    <3>1. i.fail \in 0..HealthLine + Boundary + 1
      BY <1>2 DEF Sound, InfoSet
    <3> QED
      BY <2>1, <3>1, Constants
  <2>4. Refused(i).fail = OneMore(i.fail)
    BY <1>2, RefusedSound
  <2>5. /\ s \in DOMAIN map' /\ map'[s].fail = OneMore(i.fail)
        /\ \A x \in Servers : x # s => (x \in DOMAIN map' => x \in DOMAIN map /\ map'[x] = map[x])
    BY <1>5, <2>2, <2>4 DEF With
  <2> QED
    BY <1>1, <1>2, <1>5, <2>1, <2>2, <2>3, <2>5, RefusalPatient
<1>6. CASE map' = With(s, timed) /\ refused' = [refused EXCEPT ![s] = 0]
  <2>1. Steady
    BY <1>1, <1>2, <1>6 DEF Steady, With
  <2> QED
    BY <1>1, <2>1, SteadyPatient
<1>7. CASE refused' = [refused EXCEPT ![s] = 0]
           /\ \E r \in Fetched(timed, os, s) : CheckDead(With(s, r.info), r.os)
  <2>1. PICK r \in Fetched(timed, os, s) : CheckDead(With(s, r.info), r.os)
    BY <1>7
  <2>2. \A x \in DOMAIN map' : x # s => x \in DOMAIN map /\ map'[x] = map[x]
    <3> DEFINE m == With(s, r.info)
               gone == Overdue(m) \ {y \in Overdue(m) : ~Forgettable(m, y)}
    <3>1. map' = m \/ map' = [y \in DOMAIN m \ gone |-> m[y]]
      BY <2>1 DEF CheckDead
    <3> HIDE DEF gone
    <3>2. \A x \in DOMAIN m : x # s => x \in DOMAIN map /\ m[x] = map[x]
      BY DEF With
    <3> HIDE DEF m
    <3> QED
      BY <3>1, <3>2
  <2>3. refused'[s] = 0 /\ \A x \in Servers : x # s => refused'[x] = refused[x]
    BY <1>1, <1>2, <1>7
  <2>4. Steady
    BY <2>2, <2>3 DEF Steady
  <2> QED
    BY <1>1, <2>4, SteadyPatient
<1> QED
  BY <1>3, <1>4, <1>5, <1>6, <1>7

\* FreeSocket: an error it counts ends the row.
LEMMA FreeSocketPatient ==
  ASSUME PoolInv, Patient, NEW t \in Threads, NEW e \in BOOLEAN, FreeSocket(t, e)
  PROVE  Patient'
<1>1. Types /\ refused \in [Servers -> Nat]
  BY DEF PoolInv, Types
<1>2. PICK x \in Place(held[t]) :
       LET i == map[x[1]] IN
       /\ i.cells[x[2]].status = "BUSY"
       /\ IF i.del
          THEN Shut(held[t]) /\ refused' = refused
               /\ map' = IF Busy(i) = {x[2]} THEN Dropped(x[1])
                         ELSE With(x[1], [i EXCEPT !.free = @ + 1, !.cells[x[2]] = Empty])
          ELSE IF e \/ ~i.long
          THEN /\ Shut(held[t])
               /\ map' = With(x[1], [i EXCEPT !.free = @ + 1, !.cells[x[2]] = Empty,
                                              !.fail = IF e /\ Punish THEN OneMore(@) ELSE @])
               /\ refused' = IF e /\ Punish THEN [refused EXCEPT ![x[1]] = 0] ELSE refused
          ELSE /\ UNCHANGED <<os, refused>>
               /\ map' = With(x[1], [i EXCEPT !.free = @ + 1, !.cells[x[2]].status = "READY"])
  BY DEF FreeSocket
<1> DEFINE s == x[1]
           k == x[2]
           i == map[s]
           j1 == [i EXCEPT !.free = @ + 1, !.cells[k] = Empty]
           j2 == [i EXCEPT !.free = @ + 1, !.cells[k] = Empty, !.fail = IF e /\ Punish THEN OneMore(@) ELSE @]
           j3 == [i EXCEPT !.free = @ + 1, !.cells[k].status = "READY"]
<1>3. s \in DOMAIN map /\ k \in 1..SockMax /\ k <= i.socknum
  BY DEF Place
<1>4. Sound(i) /\ s \in Servers /\ k \in 1..i.socknum
  <2>1. Sound(i) /\ i.socknum \in 0..SockMax /\ SockMax \in Nat
    BY <1>1, <1>3, Constants DEF Types, Sound, InfoSet
  <2> QED
    BY <1>1, <1>3, <2>1 DEF Types
<1>5. i.cells[k].status = "BUSY" /\ (e /\ Punish) \in BOOLEAN
  BY <1>2, Constants
<1>6. j1.fail = i.fail
  BY <1>4, <1>5, FreedRenewed
<1>7. ~(e /\ Punish) => j2.fail = i.fail
  <2> DEFINE p == e /\ Punish
             j == [i EXCEPT !.free = @ + 1, !.cells[k] = Empty, !.fail = IF p THEN OneMore(@) ELSE @]
  <2>1. p \in BOOLEAN
    BY <1>5
  <2> HIDE DEF p
  <2>2. ~p => j.fail = i.fail
    <3>1. i \in InfoSet
      BY <1>4 DEF Sound
    <3> QED
      BY <3>1 DEF InfoSet
  <2> QED
    BY <2>2 DEF p
<1>8. ~i.del => j3.fail = i.fail
  BY <1>4, <1>5, FreedRenewed
<1>9. \/ refused' = refused /\ map' = Dropped(s)
      \/ refused' = refused /\ map' = With(s, j1)
      \/ refused' = refused /\ map' = With(s, j2) /\ ~(e /\ Punish)
      \/ refused' = [refused EXCEPT ![s] = 0] /\ map' = With(s, j2)
      \/ refused' = refused /\ map' = With(s, j3) /\ ~i.del
  BY <1>2
<1> HIDE DEF j1, j2, j3, s
<1>10. Steady
  BY <1>1, <1>3, <1>4, <1>6, <1>7, <1>8, <1>9 DEF Steady, With, Dropped
<1> QED
  BY <1>1, <1>10, SteadyPatient

\* Patient from one state to the next.
LEMMA PatientInductive ==
  ASSUME PoolInv, Patient, [Next]_vars
  PROVE  Patient'
<1>1. Types /\ Calls /\ refused \in [Servers -> Nat]
  BY DEF PoolInv, Types
<1>2. CASE \E t \in Threads : \E r \in Resources : Fetch(t, r)
  <2>1. map' = map /\ refused' = refused
    BY <1>2 DEF Fetch
  <2> QED
    BY <1>1, <2>1, SteadyPatient DEF Steady
<1>3. CASE \E t \in Threads : First(t)
  <2>1. PICK t \in Threads : First(t)
    BY <1>3
  <2>2. nth[t] \in 1..Len(list[t]) /\ list[t] \in Seq(Modules) /\ FetchSocket(t, list[t][nth[t]], TRUE)
    BY <1>1, <2>1 DEF Calls, First
  <2>3. list[t][nth[t]] \in Modules
    BY <2>2
  <2> QED
    BY <2>2, <2>3, FetchSocketPatient
<1>4. CASE \E t \in Threads : Lucky(t)
  <2>1. PICK t \in Threads : Lucky(t)
    BY <1>4
  <2> DEFINE n == Len(list[t])
             k == ((nth[t] + seed) % n) + 1
  <2>2. /\ FetchSocket(t, list[t][k], FALSE)
        /\ nth[t] \in 0..n - 1 /\ list[t] \in Seq(Modules) /\ n \in Nat /\ seed \in 0..SeedMod - 1
    <3>1. FetchSocket(t, list[t][k], FALSE) /\ pc[t] = "lucky"
      BY <2>1 DEF Lucky
    <3>2. list[t] \in Seq(Modules) /\ seed \in 0..SeedMod - 1 /\ nth[t] \in 0..n - 1
      BY <1>1, <3>1 DEF Calls, Types
    <3>3. n \in Nat
      BY <3>2
    <3> HIDE DEF k, n
    <3> QED
      BY <3>1, <3>2, <3>3
  <2>3. nth[t] + seed \in Nat /\ n > 0
    BY <2>2, Constants
  <2>4. (nth[t] + seed) % n \in 0..n - 1
    BY <2>2, <2>3
  <2>5. k \in 1..n
    <3> HIDE DEF n
    <3> QED
      BY <2>2, <2>4
  <2> HIDE DEF k
  <2>6. list[t][k] \in Modules
    BY <2>2, <2>5
  <2> QED
    BY <2>2, <2>6, FetchSocketPatient
<1>5. CASE \E t \in Threads : FreeDies(t)
  <2>1. map' = map /\ refused' = refused
    BY <1>5 DEF FreeDies
  <2> QED
    BY <1>1, <2>1, SteadyPatient DEF Steady
<1>6. CASE \E t \in Threads : \E e \in BOOLEAN : FreeSocket(t, e)
  BY <1>6, FreeSocketPatient
<1>7. CASE \E s \in Servers : DelServer(s)
  <2>1. PICK s \in Servers : DelServer(s)
    BY <1>7
  <2> DEFINE i == map[s]
             j == [i EXCEPT !.del = TRUE,
                            !.cells = [k \in 1..SockMax |-> IF k \in ReadyCells(i) THEN Empty ELSE @[k]]]
  <2>2. s \in DOMAIN map /\ refused' = refused /\ map' = IF Busy(i) = {} THEN Dropped(s) ELSE With(s, j)
    BY <2>1 DEF DelServer
  <2>3. j.fail = i.fail
    BY <1>1, <2>2 DEF Types, Sound, InfoSet
  <2> HIDE DEF j
  <2>4. Steady
    BY <2>2, <2>3 DEF Steady, With, Dropped
  <2> QED
    BY <1>1, <2>4, SteadyPatient
<1>8. CASE \E r \in Resources : \E n \in DOMAIN r : AddServer(r[n])
  <2>1. PICK r \in Resources : \E n \in DOMAIN r : AddServer(r[n])
    BY <1>8
  <2>2. PICK n \in DOMAIN r : AddServer(r[n])
    BY <2>1
  <2>3. r[n] \in Modules
    BY PoolAssumption
  <2> DEFINE c == r[n]
             s == c.server
             i == [map[s] EXCEPT !.del = FALSE]
             j == Updated(i, c)
  <2>4. s \in DOMAIN map /\ map' = With(s, j) /\ refused' = refused
    BY <2>2 DEF AddServer
  <2>5. Sound(map[s]) /\ map[s] \in InfoSet
    BY <1>1, <2>4 DEF Types, Sound
  <2>6. i \in InfoSet /\ i.cells = map[s].cells /\ i.socknum = map[s].socknum /\ i.free = map[s].free
        /\ i.del = FALSE /\ i.fail = map[s].fail
    BY <2>5 DEF InfoSet
  <2> HIDE DEF i
  <2>7. Sound(i)
    BY <2>5, <2>6 DEF Sound, Busy
  <2>8. j.fail = i.fail
    BY <2>3, <2>7, UpdatedSound
  <2> HIDE DEF j
  <2>9. Steady
    BY <2>4, <2>6, <2>8 DEF Steady, With
  <2> QED
    BY <1>1, <2>9, SteadyPatient
<1>9. CASE \E f \in Fds : PeerSpoils(f)
  <2>1. map' = map /\ refused' = refused
    BY <1>9 DEF PeerSpoils
  <2> QED
    BY <1>1, <2>1, SteadyPatient DEF Steady
<1>10. CASE Tick
  <2>1. map' = map /\ refused' = refused
    BY <1>10 DEF Tick
  <2> QED
    BY <1>1, <2>1, SteadyPatient DEF Steady
<1>11. CASE UNCHANGED vars
  <2>1. map' = map /\ refused' = refused
    BY <1>11 DEF vars
  <2> QED
    BY <1>1, <2>1, SteadyPatient DEF Steady
<1> QED
  BY <1>2, <1>3, <1>4, <1>5, <1>6, <1>7, <1>8, <1>9, <1>10, <1>11 DEF Next

\* The health check refuses a server that failed at most RetryLine times in a row before it is tried again,
\* for every health line, boundary and multiplier that takes the counts to different remainders.
THEOREM NeverGivenUpHolds == Spec => []NeverGivenUp
<1>1. Init => Patient
  BY Constants DEF Init, Patient
<1>2. PoolInv /\ Patient /\ [Next]_vars => Patient'
  BY PatientInductive
<1>3. Patient => NeverGivenUp
  BY DEF Patient, NeverGivenUp
<1> QED
  BY <1>1, <1>2, <1>3, PoolInductive, PTL DEF Spec
=============================================================================
