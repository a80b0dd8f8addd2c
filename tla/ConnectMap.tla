----------------------------- MODULE ConnectMap -----------------------------
(***************************************************************************)
(* The connection pool (utils/connectmanager): ConnectManager picks the    *)
(* servers of a resource and asks ConnectMap for a socket of one after the *)
(* other; ConnectMap keeps, for every server, cells with the sockets it    *)
(* has, counts failures, refuses a server that fails too often, and from   *)
(* time to time forgets one that nobody asked for.  Threads fetch sockets, *)
(* keep them and free them.  Every call of ConnectMap holds its mutex.     *)
(*                                                                         *)
(* Descriptors are numbers that the kernel hands out again after close.    *)
(* Servers are numbered in the order of their keys in m_connectmap.        *)
(***************************************************************************)
EXTENDS Integers, Sequences, SequencesExt, FiniteSets, FiniteSetsExt

CONSTANTS
  Threads,
  Servers,     \* numbers, in the order of m_connectmap's keys
  Fds,         \* descriptors
  Config,      \* server_config_list: entries [name, server, socknum, long], server 0
               \* for one without an address or a port
  ResourceMax, \* RESOURCE_MAXNUM
  ModuleMax,   \* MODULE_MAXNUM_PER_RESOURCE
  SockMax,     \* SOCK_MAXNUM_PER_SERVER
  HealthLine,  \* m_health_line
  RetryLine,   \* m_retry_line
  Boundary,    \* RECONNECT_BOUNDRY, a mask
  Magic,       \* MAGIC_NUM
  Punish,      \* m_punish_mode: an error reported with a freed socket counts
  Deadline,    \* m_server_deadline
  Interval,    \* m_check_interval
  SeedMod,     \* m_randseed is kept modulo this: a common multiple of the lengths of server lists
  MaxTime,     \* (bound)
  MaxDels      \* calls of DelServer (bound)

-----------------------------------------------------------------------------
(***************************************************************************)
(* The constructor of ConnectManager reads the resources.                  *)
(***************************************************************************)
Module(c) == [server |-> c.server, socknum |-> Min({c.socknum, SockMax}), long |-> c.long]

\* find_idx: the resource of that name, else the next cell.
FindIdx(rs, name) ==
  LET same == {i \in DOMAIN rs : rs[i].name = name}
  IN IF same # {} THEN Min(same) ELSE Len(rs) + 1

\* An entry that repeats a server or has none leaves the servers of its resource alone,
\* and so do those that find the resources or the servers of theirs full.
ProcessResource(rs, c) ==
  LET i == FindIdx(rs, c.name)
      r == IF i \in DOMAIN rs THEN rs[i] ELSE [name |-> c.name, modules |-> <<>>]
      taken == \/ c.server = 0 \/ Len(r.modules) = ModuleMax
               \/ \E k \in DOMAIN r.modules : r.modules[k].server = c.server
      new == IF taken THEN r ELSE [r EXCEPT !.modules = Append(@, Module(c))]
  IN IF i > ResourceMax THEN rs
     ELSE IF i \in DOMAIN rs THEN [rs EXCEPT ![i] = new] ELSE Append(rs, new)

\* The resources before the first one are none: nothing sets m_local_resource_info, it relies on the zero
\* pages of a large fresh heap object.  A resource without servers gives no socket.
Resources == {r.modules : r \in ToSet(FoldLeft(ProcessResource, <<>>, Config))} \ {<<>>}

\* The settings: a retry line over the boundary is refused, others that make no sense are
\* replaced by defaults.
Configured ==
  /\ RetryLine \in 0..Boundary /\ HealthLine \in Nat \ {0}
  /\ Deadline \in Nat /\ Interval \in Nat /\ Punish \in BOOLEAN

Modules == [server : Servers, socknum : 0..SockMax, long : BOOLEAN]

ASSUME PoolAssumption ==
  /\ Servers \subseteq Nat \ {0} /\ Fds \subseteq Nat \ {0} /\ IsFiniteSet(Fds)
  /\ {SockMax, Boundary, MaxTime, MaxDels} \subseteq Nat /\ SeedMod \in Nat \ {0} /\ Configured
  /\ Resources \subseteq Seq(Modules) /\ \A r \in Resources : SeedMod % Len(r) = 0

\* Boundary + 1 is a power of two and Magic is odd: the product takes the counts above the health
\* line to different remainders.
ASSUME MagicAssumption ==
  /\ Magic \in Nat
  /\ \A a, b \in HealthLine + 1..HealthLine + Boundary + 1 :
       (a * Magic) % (Boundary + 1) = (b * Magic) % (Boundary + 1) => a = b

VARIABLES
  map,      \* m_connectmap: server -> its connect_info, for the servers in it
  os,       \* fd -> the connection: [server, ok], or closed
  clock,    \* seconds
  dels,     \* calls of DelServer that may still come
  last,     \* m_last_check
  seed,     \* m_randseed, modulo the number of servers it is used with
  pc,       \* thread -> "idle", "first", "lucky", "hold"
  list,     \* thread -> the server list, in the order of the CARP values
  nth,      \* thread -> sid or lucksid
  held,     \* thread -> its socket, 0 if none
  dead,     \* MySuicideAssert killed the process
  refused,  \* history: server -> refusals by the health check since it was tried or
            \* another failure was counted
  ghost     \* history: __CheckDeadServer closed sockets of a server it then kept

vars == <<map, os, clock, dels, last, seed, pc, list, nth, held, dead, refused, ghost>>
tVars == <<pc, list, nth, held>>

Closed == [server |-> 0, ok |-> FALSE]
Empty == [sock |-> -1, status |-> "EMPTY"]
Cell(f, s) == [sock |-> f, status |-> s]

Busy(i) == {k \in 1..i.socknum : i.cells[k].status = "BUSY"}
ReadyCells(i) == {k \in 1..i.socknum : i.cells[k].status = "READY"}
FreeFds(o) == {f \in Fds : o[f] = Closed}

Init ==
  /\ map = <<>> /\ os = [f \in Fds |-> Closed] /\ clock = 0 /\ dels = MaxDels /\ last = 0 /\ seed = 0
  /\ pc = [t \in Threads |-> "idle"] /\ list = [t \in Threads |-> <<>>]
  /\ nth = [t \in Threads |-> 0] /\ held = [t \in Threads |-> 0]
  /\ dead = FALSE /\ refused = [s \in Servers |-> 0] /\ ghost = FALSE

-----------------------------------------------------------------------------
(***************************************************************************)
(* ConnectMap, on the map and the descriptors given.                       *)
(***************************************************************************)
\* fail_count above the health line matters modulo Boundary + 1 only.
OneMore(n) == IF n <= HealthLine + Boundary THEN n + 1 ELSE n - Boundary

\* __AddServer.
NewInfo(m) ==
  [socknum |-> IF m.socknum > SockMax THEN SockMax ELSE m.socknum, long |-> m.long,
   fail |-> 0, free |-> IF m.socknum > SockMax THEN SockMax ELSE m.socknum,
   cells |-> [k \in 1..SockMax |-> Empty], time |-> 0, del |-> FALSE]

\* __UpdateServerInfo: the number of cells may grow.
Updated(i, m) ==
  LET n == IF i.socknum < m.socknum THEN Min({m.socknum, SockMax}) ELSE i.socknum
  IN [i EXCEPT !.free = @ + n - i.socknum, !.socknum = n, !.long = m.long]

\* The health check.
Blocked(i) == i.fail > HealthLine /\ ((i.fail * Magic) % (Boundary + 1)) < RetryLine

\* Mutant: a refusal is not counted.
RefusedNot(i) == i

Refused(i) == [i EXCEPT !.fail = OneMore(@)]

\* connect_ms: a new connection on the lowest free descriptor.
Connected(o, s) == [o EXCEPT ![Min(FreeFds(o))] = [server |-> s, ok |-> TRUE]]
ConnectOk(i, k, f) ==
  [i EXCEPT !.cells[k] = Cell(f, "BUSY"), !.free = @ - 1, !.fail = 0]

ConnectFails(i, k) == [i EXCEPT !.cells[k] = Empty, !.fail = OneMore(@)]

\* The cell that __FetchSocket uses: the first that is not busy.
Usable(i) == Min((1..i.socknum) \ Busy(i))

Result(i, o, f) == [info |-> i, os |-> o, sock |-> f]

\* The outcomes of an attempt to connect cell k.
Attempt(i, o, s, k) ==
  {Result(ConnectFails(i, k), o, 0)}
    \cup {Result(ConnectOk(i, k, f), Connected(o, s), f) : f \in {g \in FreeFds(o) : g = Min(FreeFds(o))}}

\* __FetchSocket with a cell that is not busy: a ready socket that passes
\* __CheckConnection is taken; one that does not is closed and connected anew, twice
\* if need be.
Fetched(i, o, s) ==
  LET k == Usable(i)
      c == i.cells[k]
      closed == [o EXCEPT ![c.sock] = Closed]
  IN IF c.status = "EMPTY" THEN Attempt(i, o, s, k)
     ELSE IF o[c.sock].ok
     THEN {Result([i EXCEPT !.cells[k].status = "BUSY", !.free = @ - 1], o, c.sock)}
     ELSE UNION {IF r.sock # 0 THEN {r} ELSE Attempt(r.info, r.os, s, k) :
                   r \in Attempt(i, closed, s, k)}

\* A server nobody has asked for since the deadline, with no socket in use.
Forgettable(m, s) == clock - m[s].time > Deadline /\ Busy(m[s]) = {}

\* __CheckDeadServer: the servers past the deadline, up to the first that can be
\* forgotten, have their ready sockets closed.  It works on a copy, so that a server
\* that is kept still lists them.
Overdue(m) ==
  LET old == {s \in DOMAIN m : clock - m[s].time > Deadline}
      gone == {s \in old : Forgettable(m, s)}
  IN IF gone = {} THEN old ELSE {s \in old : s <= Min(gone)}
CheckDead(m, o) ==
  IF clock - last < Interval
  THEN map' = m /\ os' = o /\ UNCHANGED <<last, ghost>>
  ELSE LET over == Overdue(m)
           keep == {s \in over : ~Forgettable(m, s)}
           shut == UNION {{m[s].cells[k].sock : k \in ReadyCells(m[s])} : s \in over}
       IN /\ last' = clock
          /\ map' = [s \in DOMAIN m \ (over \ keep) |-> m[s]]
          /\ os' = [f \in Fds |-> IF f \in shut THEN Closed ELSE o[f]]
          /\ ghost' = (ghost \/ \E s \in keep : ReadyCells(m[s]) # {})

\* A thread's call of ConnectMap::FetchSocket for module m ends without a socket.
Missed(t, n) ==
  /\ held' = held
  /\ CASE pc[t] = "first" /\ nth[t] < n -> pc' = pc /\ list' = list /\ nth' = [nth EXCEPT ![t] = @ + 1]
       [] pc[t] = "first" /\ nth[t] = n ->
            pc' = [pc EXCEPT ![t] = "lucky"] /\ list' = list /\ nth' = [nth EXCEPT ![t] = 0]
       [] pc[t] = "lucky" /\ nth[t] < n - 1 -> pc' = pc /\ list' = list /\ nth' = [nth EXCEPT ![t] = @ + 1]
       [] OTHER -> pc' = [pc EXCEPT ![t] = "idle"] /\ list' = [list EXCEPT ![t] = <<>>]
                   /\ nth' = [nth EXCEPT ![t] = 0]
Got(t, m, f) ==
  /\ pc' = [pc EXCEPT ![t] = "hold"] /\ list' = [list EXCEPT ![t] = <<m>>]
  /\ nth' = [nth EXCEPT ![t] = 0] /\ held' = [held EXCEPT ![t] = f]

With(s, i) == [x \in DOMAIN map \cup {s} |-> IF x = s THEN i ELSE map[x]]
FetchSocket(t, m, healthcheck) ==
  LET s == m.server
      i == Updated(IF s \in DOMAIN map THEN map[s] ELSE NewInfo(m), m)
      timed == [i EXCEPT !.time = clock]
  IN \/ /\ i.del                                           \* ECONNECT_SRVSTATUS
        /\ map' = With(s, i) /\ refused' = refused
        /\ Missed(t, Len(list[t])) /\ UNCHANGED <<os, last, ghost>>
     \/ /\ ~i.del /\ healthcheck /\ Blocked(i)              \* ECONNECT_SRVDOWN
        /\ map' = With(s, Refused(i)) /\ refused' = [refused EXCEPT ![s] = @ + 1]
        /\ Missed(t, Len(list[t])) /\ UNCHANGED <<os, last, ghost>>
     \/ /\ ~i.del /\ ~(healthcheck /\ Blocked(i)) /\ i.free = 0 \* ECONNECT_SRVSOCKFULL
        /\ map' = With(s, timed) /\ refused' = [refused EXCEPT ![s] = 0]
        /\ Missed(t, Len(list[t])) /\ UNCHANGED <<os, last, ghost>>
     \/ /\ ~i.del /\ ~(healthcheck /\ Blocked(i)) /\ i.free > 0
        /\ refused' = [refused EXCEPT ![s] = 0]
        /\ \E r \in Fetched(timed, os, s) :
             /\ CheckDead(With(s, r.info), r.os)
             /\ IF r.sock = 0 THEN Missed(t, Len(list[t])) ELSE Got(t, m, r.sock)

-----------------------------------------------------------------------------
(***************************************************************************)
(* ConnectManager, in its threads.                                         *)
(***************************************************************************)
\* GetServerList and CarpCalculate: a resource's servers in any order.
Fetch(t, r) ==
  /\ ~dead /\ pc[t] = "idle"
  /\ \E o \in SetToSeqs(ToSet(r)) : list' = [list EXCEPT ![t] = o]
  /\ pc' = [pc EXCEPT ![t] = "first"] /\ nth' = [nth EXCEPT ![t] = 1]
  /\ UNCHANGED <<map, os, clock, dels, last, seed, held, dead, refused, ghost>>

\* One server after the other, with the health check;
First(t) ==
  /\ ~dead /\ pc[t] = "first" /\ FetchSocket(t, list[t][nth[t]], TRUE)
  /\ UNCHANGED <<clock, dels, seed, dead>>

\* then without it, from (lucksid + m_randseed++) % servernum on.
Lucky(t) ==
  /\ ~dead /\ pc[t] = "lucky"
  /\ FetchSocket(t, list[t][((nth[t] + seed) % Len(list[t])) + 1], FALSE)
  /\ seed' = (seed + 1) % SeedMod
  /\ UNCHANGED <<clock, dels, dead>>

\* The cell that FreeSocket finds: in the first server with that socket, the first.
Place(f) ==
  LET at == {x \in (DOMAIN map) \X (1..SockMax) :
               x[2] <= map[x[1]].socknum /\ map[x[1]].cells[x[2]].sock = f}
  IN {x \in at : \A y \in at : x[1] < y[1] \/ (x[1] = y[1] /\ x[2] <= y[2])}

\* Mutant: a socket that is not kept is not closed.
ShutNot(f) == os' = os

Shut(f) == os' = [os EXCEPT ![f] = Closed]

\* A server under deletion goes with its last socket.
Dropped(s) == [x \in DOMAIN map \ {s} |-> map[x]]

\* The asserts of FreeSocket: the socket is in the map and busy.
FreeDies(t) ==
  /\ ~dead /\ pc[t] = "hold"
  /\ \/ Place(held[t]) = {}
     \/ \E x \in Place(held[t]) : map[x[1]].cells[x[2]].status # "BUSY"
  /\ dead' = TRUE
  /\ UNCHANGED <<map, os, clock, dels, last, seed, tVars, refused, ghost>>

FreeSocket(t, errclose) ==
  /\ ~dead /\ pc[t] = "hold"
  /\ \E x \in Place(held[t]) :
       LET i == map[x[1]] IN
       /\ i.cells[x[2]].status = "BUSY"
       /\ IF i.del
          THEN Shut(held[t]) /\ refused' = refused
               /\ map' = IF Busy(i) = {x[2]} THEN Dropped(x[1])
                         ELSE With(x[1], [i EXCEPT !.free = @ + 1, !.cells[x[2]] = Empty])
          ELSE IF errclose \/ ~i.long
          THEN /\ Shut(held[t])
               /\ map' = With(x[1], [i EXCEPT !.free = @ + 1, !.cells[x[2]] = Empty,
                                              !.fail = IF errclose /\ Punish THEN OneMore(@) ELSE @])
               /\ refused' = IF errclose /\ Punish THEN [refused EXCEPT ![x[1]] = 0] ELSE refused
          ELSE /\ UNCHANGED <<os, refused>>
               /\ map' = With(x[1], [i EXCEPT !.free = @ + 1, !.cells[x[2]].status = "READY"])
  /\ pc' = [pc EXCEPT ![t] = "idle"] /\ held' = [held EXCEPT ![t] = 0]
  /\ list' = [list EXCEPT ![t] = <<>>]
  /\ UNCHANGED <<clock, dels, last, seed, nth, dead, ghost>>

\* DelServer: the ready sockets are closed; with one in use the server stays, to be
\* deleted when the last is freed.
DelServer(s) ==
  /\ ~dead /\ dels > 0 /\ dels' = dels - 1 /\ s \in DOMAIN map
  /\ LET i == map[s]
         shut == {i.cells[k].sock : k \in ReadyCells(i)}
     IN /\ os' = [f \in Fds |-> IF f \in shut THEN Closed ELSE os[f]]
        /\ map' = IF Busy(i) = {} THEN Dropped(s)
                  ELSE With(s, [i EXCEPT !.del = TRUE,
                                  !.cells = [k \in 1..SockMax |-> IF k \in ReadyCells(i) THEN Empty ELSE @[k]]])
  /\ UNCHANGED <<clock, last, seed, tVars, dead, refused, ghost>>

\* AddServer: a server under deletion is back in use.
AddServer(m) ==
  /\ ~dead /\ m.server \in DOMAIN map /\ map[m.server].del
  /\ map' = With(m.server, Updated([map[m.server] EXCEPT !.del = FALSE], m))
  /\ UNCHANGED <<os, clock, dels, last, seed, tVars, dead, refused, ghost>>

\* A server closes a connection or leaves data in it.
PeerSpoils(f) ==
  /\ ~dead /\ os[f].ok /\ os' = [os EXCEPT ![f].ok = FALSE]
  /\ UNCHANGED <<map, clock, dels, last, seed, tVars, dead, refused, ghost>>

Tick ==
  /\ ~dead /\ clock < MaxTime /\ clock' = clock + 1
  /\ UNCHANGED <<map, os, dels, last, seed, tVars, dead, refused, ghost>>

Next ==
  \/ \E t \in Threads : \/ \E r \in Resources : Fetch(t, r)
                        \/ First(t) \/ Lucky(t) \/ FreeDies(t)
                        \/ \E e \in BOOLEAN : FreeSocket(t, e)
  \/ \E s \in Servers : DelServer(s)
  \/ \E r \in Resources : \E i \in DOMAIN r : AddServer(r[i])
  \/ \E f \in Fds : PeerSpoils(f)
  \/ Tick
Spec == Init /\ [][Next]_vars

-----------------------------------------------------------------------------
\* Every variable keeps its type.
InfoOK(i) ==
  /\ i.socknum \in 0..SockMax /\ {i.long, i.del} \subseteq BOOLEAN /\ i.free \in 0..SockMax
  /\ i.fail \in 0..HealthLine + Boundary + 1 /\ i.time \in 0..MaxTime
  /\ \A k \in 1..SockMax : i.cells[k] \in [sock : Fds \cup {-1}, status : {"EMPTY", "BUSY", "READY"}]
TypeOK ==
  /\ DOMAIN map \subseteq Servers /\ \A s \in DOMAIN map : InfoOK(map[s])
  /\ os \in [Fds -> {Closed} \cup [server : Servers, ok : BOOLEAN]]
  /\ clock \in 0..MaxTime /\ dels \in 0..MaxDels /\ last \in 0..clock /\ seed \in 0..SeedMod - 1
  /\ pc \in [Threads -> {"idle", "first", "lucky", "hold"}]
  /\ held \in [Threads -> Fds \cup {0}] /\ {dead, ghost} \subseteq BOOLEAN
  /\ refused \in [Servers -> Nat]

\* freenum counts the cells that are not busy, whatever order sockets are fetched, freed,
\* lost and cells added in; else a server ends up full for ever or the search for a
\* usable cell runs over the end (the asserts at lines 341 and 555).
FreeNumRight ==
  \A s \in DOMAIN map :
    /\ map[s].free = map[s].socknum - Cardinality(Busy(map[s]))
    /\ \A k \in map[s].socknum + 1..SockMax : map[s].cells[k] = Empty

\* The counts are right; a thread's socket is its own and leads to the server it asked for, every open
\* descriptor is in one cell, and no assert fires -- as long as __CheckDeadServer has
\* not closed sockets of a server that it had to keep.
OwnSocket ==
  /\ TypeOK
  /\ FreeNumRight
  /\ ~ghost =>
       /\ ~dead
       /\ \A t \in Threads : held[t] # 0 =>
            /\ os[held[t]].server = list[t][1].server
            /\ \A u \in Threads \ {t} : held[u] # held[t]
       /\ \A f \in Fds : Cardinality({x \in (DOMAIN map) \X (1..SockMax) : map[x[1]].cells[x[2]].sock = f})
                           = (IF os[f] = Closed THEN 0 ELSE 1)

\* A server that failed is not given up: the health check refuses it at most RetryLine
\* times in a row before the next attempt to connect (an error counted by FreeSocket may
\* step over the count at which it is tried and begins the row anew).
NeverGivenUp == \A s \in Servers : refused[s] <= RetryLine
=============================================================================
