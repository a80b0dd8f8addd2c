------------------------------ MODULE Service -------------------------------
(***************************************************************************)
(* The network front of both servers: the event queue (utils/equeue), the  *)
(* service threads (flexse/flexse.cpp, ciqueue/ciqueue/ciqueue.cpp, the    *)
(* same loop twice), the framing (utils/xhead) and the queue server's      *)
(* ServiceApp.  The main thread polls; a descriptor with an event is       *)
(* pushed to a queue under a mutex; a service thread takes it, reads the   *)
(* request, runs the application, answers, and arms the descriptor again.  *)
(*                                                                         *)
(* A request is a head, which may arrive in two pieces, and a body.  The   *)
(* receive buffer of a thread keeps what it held: the memset before xrecv  *)
(* clears sizeof(pointer) bytes.  errno keeps EAGAIN until another call    *)
(* fails.                                                                  *)
(***************************************************************************)
EXTENDS Integers, Sequences, SequencesExt, FiniteSets, FiniteSetsExt

CONSTANTS
  Kinds,     \* kinds of requests
  Fds,       \* descriptors of the process
  Workers,   \* service threads
  MaxConns,  \* connections made by clients (bound)
  MaxReqs    \* requests sent by clients (bound)

\* Kinds of requests: "message" has a body, which ServiceApp may queue or refuse or die of; "empty" has
\* detail_len 0; "big" announces more than the receive buffer holds.
ASSUME ServiceAssumption ==
  /\ Kinds \subseteq {"message", "empty", "big"}
  /\ Fds \subseteq Nat \ {0} /\ Fds # {} /\ IsFiniteSet(Fds)
  /\ IsFiniteSet(Workers) /\ MaxConns \in Nat /\ MaxReqs \in Nat

Conns == 1..MaxConns
Reqs == 1..MaxReqs
Listen == 0       \* m_listenfd
None == 0
Junk == -1        \* a head that is none

VARIABLES
  \* clients and the network
  conns,    \* connections made so far
  backlog,  \* connections not yet accepted
  reqs,     \* the requests sent so far: [kind, conn]
  cpc,      \* conn -> "idle", "half" (half a head sent), "head", "wait", "gone"
  stream,   \* conn -> pieces sent and not yet received
  out,      \* conn -> answers sent and not yet read
  ans,      \* req -> what its client took for the answer
  \* the event queue
  peer,     \* fd -> its connection, None if the descriptor is closed
  armed,    \* descriptors armed in epoll
  batch,    \* events of this epoll_wait not yet handled: [fd, rdhup]
  qsock,    \* m_qsock
  \* the service threads
  wpc,      \* "fetch", "asleep" (in cond_wait), "head", "body", "app", "send", "free"
  wfd,      \* sock
  hd, bd,   \* the head and the body in RecvBuff: the request they are of
  again,    \* errno is EAGAIN
  failed,   \* history: this xrecv failed
  rep,      \* the answer in SendBuff
  mqueue,   \* the requests given to write_message, in order
  down,     \* the process died
  slow,     \* history: some socket call timed out
  misled    \* history: connections served after a failed xrecv

cVars == <<conns, backlog, reqs, cpc, stream, out, ans>>
eVars == <<peer, armed, batch, qsock>>
wVars == <<wpc, wfd, hd, bd, again, failed, rep, mqueue, down, slow, misled>>
vars == <<cVars, eVars, wVars>>

Piece(p, r) == [piece |-> p, req |-> r]
Pending(c) == {r \in DOMAIN reqs : reqs[r].conn = c /\ ans[r] = "none"}
Open == {f \in Fds : peer[f] # None}
Free == Fds \ Open

Init ==
  /\ conns = 0 /\ backlog = <<>> /\ reqs = <<>>
  /\ cpc = [c \in Conns |-> "idle"] /\ stream = [c \in Conns |-> <<>>]
  /\ out = [c \in Conns |-> <<>>] /\ ans = [r \in Reqs |-> "none"]
  /\ peer = [f \in Fds |-> None] /\ armed = {} /\ batch = {} /\ qsock = <<>>
  /\ wpc = [w \in Workers |-> "fetch"] /\ wfd = [w \in Workers |-> None]
  /\ hd = [w \in Workers |-> None] /\ bd = [w \in Workers |-> None]
  /\ again = [w \in Workers |-> FALSE] /\ failed = [w \in Workers |-> FALSE]
  /\ rep = [w \in Workers |-> "none"]
  /\ mqueue = <<>> /\ down = FALSE /\ slow = FALSE /\ misled = {}

-----------------------------------------------------------------------------
(***************************************************************************)
(* Clients.  They ask and wait for the answer, as sender and client do,    *)
(* may pause between any two pieces and may hang up at any time.           *)
(***************************************************************************)
Connect ==
  /\ conns < MaxConns /\ conns' = conns + 1
  /\ backlog' = Append(backlog, conns + 1)
  /\ UNCHANGED <<reqs, cpc, stream, out, ans, eVars, wVars>>

Sends(c, p, r, next) ==
  /\ stream' = [stream EXCEPT ![c] = Append(@, Piece(p, r))]
  /\ cpc' = [cpc EXCEPT ![c] = next]
  /\ UNCHANGED <<conns, backlog, out, ans, eVars, wVars>>

SendHalf(c, k) ==
  /\ c <= conns /\ cpc[c] = "idle" /\ Len(reqs) < MaxReqs
  /\ reqs' = Append(reqs, [kind |-> k, conn |-> c])
  /\ Sends(c, "half", Len(reqs) + 1, "half")
SendRest(c) ==
  /\ cpc[c] = "half"
  /\ \E r \in Pending(c) : Sends(c, "rest", r, IF reqs[r].kind = "empty" THEN "wait" ELSE "head")
  /\ UNCHANGED reqs
SendBody(c) ==
  /\ cpc[c] = "head" /\ \E r \in Pending(c) : Sends(c, "body", r, "wait")
  /\ UNCHANGED reqs
ReadReply(c) ==
  /\ cpc[c] = "wait" /\ out[c] # <<>>
  /\ \E r \in Pending(c) : ans' = [ans EXCEPT ![r] = Head(out[c])]
  /\ out' = [out EXCEPT ![c] = Tail(@)] /\ cpc' = [cpc EXCEPT ![c] = "idle"]
  /\ UNCHANGED <<conns, backlog, reqs, stream, eVars, wVars>>
HangUp(c) ==
  /\ c <= conns /\ cpc[c] # "gone" /\ cpc' = [cpc EXCEPT ![c] = "gone"]
  /\ UNCHANGED <<conns, backlog, reqs, stream, out, ans, eVars, wVars>>

-----------------------------------------------------------------------------
(***************************************************************************)
(* The main thread: equeue::running.                                       *)
(***************************************************************************)
Gone(f) == cpc[peer[f]] = "gone"
Ready == {f \in armed : stream[peer[f]] # <<>> \/ Gone(f)}

\* Mutant: the events are not one-shot.
DisarmNot(fds) == armed' = armed

\* EPOLLONESHOT: a descriptor whose event was delivered is no longer armed.
Disarm(fds) == armed' = armed \ fds

EpollWait ==
  /\ ~down /\ batch = {} /\ (Ready # {} \/ backlog # <<>>)
  /\ batch' = {[fd |-> f, rdhup |-> Gone(f)] : f \in Ready}
              \cup {[fd |-> Listen, rdhup |-> FALSE] : c \in ToSet(backlog)}
  /\ Disarm(Ready)
  /\ UNCHANGED <<cVars, peer, qsock, wVars>>

\* accept: the lowest free descriptor, armed at once.  It fails if there is none.
Accept(e) ==
  /\ e.fd = Listen /\ batch' = batch \ {e}
  /\ IF Free = {}
     THEN UNCHANGED <<backlog, peer, armed>>
     ELSE /\ peer' = [peer EXCEPT ![Min(Free)] = Head(backlog)]
          /\ armed' = armed \cup {Min(Free)}
          /\ backlog' = Tail(backlog)
  /\ UNCHANGED <<conns, reqs, cpc, stream, out, ans, qsock, wVars>>

\* The client has closed: so does the server, whatever it still sent.
CloseHup(e) ==
  /\ e.fd # Listen /\ e.rdhup
  /\ batch' = batch \ {e} /\ peer' = [peer EXCEPT ![e.fd] = None]
  /\ UNCHANGED <<cVars, armed, qsock, wVars>>

\* Mutant: the push does not signal.
SignalNot == UNCHANGED wpc

\* pthread_cond_signal: one thread that sleeps is woken, if there is one.
Signal ==
  IF \E w \in Workers : wpc[w] = "asleep"
  THEN \E w \in Workers : wpc[w] = "asleep" /\ wpc' = [wpc EXCEPT ![w] = "fetch"]
  ELSE UNCHANGED wpc

Push(e) ==
  /\ e.fd # Listen /\ ~e.rdhup
  /\ batch' = batch \ {e} /\ qsock' = Append(qsock, e.fd) /\ Signal
  /\ UNCHANGED <<cVars, peer, armed, wfd, hd, bd, again, failed, rep, mqueue, down, slow, misled>>

HandleEvent == ~down /\ \E e \in batch : Accept(e) \/ CloseHup(e) \/ Push(e)

-----------------------------------------------------------------------------
(***************************************************************************)
(* The service threads: fetch_socket, xrecv, ServiceApp, xsend and         *)
(* free_socket.                                                            *)
(***************************************************************************)
At(w, pc) == ~down /\ wpc[w] = pc
Goto(w, pc) == wpc' = [wpc EXCEPT ![w] = pc]
Conn(w) == peer[wfd[w]]
First(w) == Head(stream[Conn(w)])
Receives(w, n) == stream' = [stream EXCEPT ![Conn(w)] = SubSeq(@, n + 1, Len(@))]
netVars == <<conns, backlog, reqs, cpc, ans>>

\* fetch_socket: sleeps while there is nothing.
Fetch(w) ==
  /\ At(w, "fetch")
  /\ IF qsock = <<>>
     THEN Goto(w, "asleep") /\ UNCHANGED <<wfd, qsock, failed>>
     ELSE /\ Goto(w, "head") /\ wfd' = [wfd EXCEPT ![w] = Head(qsock)]
          /\ qsock' = Tail(qsock) /\ failed' = [failed EXCEPT ![w] = FALSE]
  /\ UNCHANGED <<cVars, peer, armed, batch, hd, bd, again, rep, mqueue, down, slow, misled>>

Close(w) ==
  /\ peer' = [peer EXCEPT ![wfd[w]] = None] /\ wfd' = [wfd EXCEPT ![w] = None]
  /\ Goto(w, "fetch")

\* xrecv failed with errno EAGAIN or not: if it is EAGAIN, the application runs
\* nevertheless; else the socket is closed.
Fails(w, e) ==
  /\ failed' = [failed EXCEPT ![w] = TRUE] /\ again' = [again EXCEPT ![w] = e]
  /\ IF e THEN Goto(w, "app") /\ UNCHANGED <<peer, wfd>> ELSE Close(w)

\* The head is there: a body follows, or none, or one too long.
RecvHead(w) ==
  /\ At(w, "head") /\ stream[Conn(w)] # <<>> /\ First(w).piece = "half"
  /\ Len(stream[Conn(w)]) >= 2
  /\ Receives(w, 2) /\ hd' = [hd EXCEPT ![w] = First(w).req]
  /\ CASE reqs[First(w).req].kind = "empty" ->
            Goto(w, "app") /\ UNCHANGED <<peer, wfd, failed, again>>
       [] reqs[First(w).req].kind = "big" -> Fails(w, again[w])
       [] OTHER -> Goto(w, "body") /\ UNCHANGED <<peer, wfd, failed, again>>
  /\ UNCHANGED <<netVars, out, armed, batch, qsock, bd, rep, mqueue, down, slow, misled>>

\* Half a head and then nothing until the timeout or the client's end: recv returns
\* what there is and errno stays as it was.
RecvHalf(w) ==
  /\ At(w, "head") /\ stream[Conn(w)] # <<>> /\ First(w).piece = "half"
  /\ Len(stream[Conn(w)]) = 1
  /\ Receives(w, 1) /\ Fails(w, again[w]) /\ slow' = (slow \/ cpc[Conn(w)] # "gone")
  /\ UNCHANGED <<netVars, out, armed, batch, qsock, hd, bd, rep, mqueue, down, misled>>

\* After a request was left half read, the rest of it is taken for a head.
RecvJunk(w) ==
  /\ At(w, "head") /\ stream[Conn(w)] # <<>> /\ First(w).piece # "half"
  /\ Receives(w, Len(stream[Conn(w)])) /\ hd' = [hd EXCEPT ![w] = Junk]
  /\ Fails(w, again[w])
  /\ UNCHANGED <<netVars, out, armed, batch, qsock, bd, rep, mqueue, down, slow, misled>>

\* Mutant: what recv returned for the body is not compared with detail_len.
RecvBodyShort(w) ==
  /\ At(w, "body") /\ (stream[Conn(w)] # <<>> \/ cpc[Conn(w)] = "gone")
  /\ IF stream[Conn(w)] # <<>> THEN Receives(w, 1) /\ bd' = [bd EXCEPT ![w] = First(w).req]
                               ELSE UNCHANGED <<stream, bd>>
  /\ Goto(w, "app") /\ UNCHANGED <<peer, wfd, failed, again, slow>>
  /\ UNCHANGED <<netVars, out, armed, batch, qsock, hd, rep, mqueue, down, misled>>

\* The body, whole; or recv fails or returns less.
RecvBody(w) ==
  /\ At(w, "body")
  /\ \/ /\ stream[Conn(w)] # <<>>
        /\ Receives(w, 1) /\ bd' = [bd EXCEPT ![w] = First(w).req] /\ Goto(w, "app")
        /\ UNCHANGED <<peer, wfd, failed, again, slow>>
     \/ /\ stream[Conn(w)] = <<>> /\ cpc[Conn(w)] = "gone"      \* recv returned 0
        /\ Fails(w, again[w]) /\ UNCHANGED <<stream, bd, slow>>
     \/ /\ stream[Conn(w)] = <<>> /\ cpc[Conn(w)] # "gone"      \* SO_RCVTIMEO
        /\ Fails(w, TRUE) /\ slow' = TRUE /\ UNCHANGED <<stream, bd>>
  /\ UNCHANGED <<netVars, out, armed, batch, qsock, hd, rep, mqueue, down, misled>>

Answers(w, r) == rep' = [rep EXCEPT ![w] = r] /\ Goto(w, "send")

\* Mutant: a write_message that fails is answered with OK.
HandleUnchecked(w, r) ==
  \/ r # None /\ Answers(w, "OK") /\ mqueue' = Append(mqueue, r) /\ UNCHANGED down
  \/ Answers(w, "OK") /\ UNCHANGED <<mqueue, down>>
  \/ down' = TRUE /\ UNCHANGED <<wpc, rep, mqueue>>

\* The text in the buffer, that of request r, is queued; or it is refused: a forbidden address,
\* no JSON (also because it is cut off), a protocol error, too long for the queue; or the process
\* dies: the text is JSON but neither an object nor null, so that an assertion of jsoncpp fails when
\* is_valid takes a member of it; the zero at srcstr[detail_len] lies behind the buffer; or
\* something was thrown and catch (...) raises SIGKILL.
Handle(w, r) ==
  \/ r # None /\ Answers(w, "OK") /\ mqueue' = Append(mqueue, r) /\ UNCHANGED down
  \/ Answers(w, "ERROR") /\ UNCHANGED <<mqueue, down>>
  \/ down' = TRUE /\ UNCHANGED <<wpc, rep, mqueue>>

\* What the detail_len in the buffer says; a fresh buffer is zero.
HeadKind(w) ==
  CASE hd[w] = None -> "empty" [] hd[w] = Junk -> "big" [] OTHER -> reqs[hd[w]].kind

\* ServiceApp on what is in the buffer.
ServiceApp(w) ==
  /\ At(w, "app")
  /\ misled' = IF failed[w] THEN misled \cup {Conn(w)} ELSE misled
  /\ \/ HeadKind(w) = "empty" /\ Answers(w, "OK") /\ UNCHANGED <<mqueue, down>>   \* RET_EMPTY_MESSAGE
     \/ HeadKind(w) # "empty" /\ Handle(w, bd[w])
  /\ UNCHANGED <<cVars, eVars, wfd, hd, bd, again, failed, slow>>

\* xsend went well, though the client may have left.
Send(w) ==
  /\ At(w, "send") /\ Goto(w, "free")
  /\ out' = [out EXCEPT ![Conn(w)] = Append(@, rep[w])]
  /\ UNCHANGED <<netVars, stream, eVars, wfd, hd, bd, again, failed, rep, mqueue, down, slow, misled>>

\* The client has left: errno is EPIPE or ECONNRESET, the socket is closed.
SendFails(w) ==
  /\ At(w, "send") /\ cpc[Conn(w)] = "gone"
  /\ again' = [again EXCEPT ![w] = FALSE] /\ Close(w)
  /\ rep' = [rep EXCEPT ![w] = "none"]
  /\ UNCHANGED <<cVars, armed, batch, qsock, hd, bd, failed, mqueue, down, slow, misled>>

\* SO_SNDTIMEO: send returns -1 and SendNByte subtracts it from what is left, so
\* that the next byte sent is the one before the next.
SendStalls(w) ==
  /\ At(w, "send") /\ cpc[Conn(w)] # "gone"
  /\ again' = [again EXCEPT ![w] = TRUE] /\ slow' = TRUE
  /\ rep' = [rep EXCEPT ![w] = "garbled"]
  /\ UNCHANGED <<cVars, eVars, wpc, wfd, hd, bd, failed, mqueue, down, misled>>

\* epoll_ctl(EPOLL_CTL_MOD).
Rearm(w) == armed' = armed \cup {wfd[w]}

FreeSocket(w) ==
  /\ At(w, "free") /\ Rearm(w) /\ Goto(w, "fetch") /\ wfd' = [wfd EXCEPT ![w] = None]
  /\ rep' = [rep EXCEPT ![w] = "none"]
  /\ UNCHANGED <<cVars, peer, batch, qsock, hd, bd, again, failed, mqueue, down, slow, misled>>

-----------------------------------------------------------------------------
Client(c) ==
  \/ (\E k \in Kinds : SendHalf(c, k)) \/ SendRest(c) \/ SendBody(c) \/ ReadReply(c) \/ HangUp(c)
Main == EpollWait \/ HandleEvent
Recv(w) == RecvHead(w) \/ RecvHalf(w) \/ RecvJunk(w) \/ RecvBody(w)
Worker(w) == Fetch(w) \/ Recv(w) \/ ServiceApp(w) \/ Send(w) \/ SendFails(w) \/ FreeSocket(w)
Next ==
  \/ ~down /\ (Connect \/ \E c \in Conns : Client(c))
  \/ Main
  \/ \E w \in Workers : Worker(w) \/ SendStalls(w)

Spec == Init /\ [][Next]_vars

-----------------------------------------------------------------------------
\* Every variable keeps its type.
TypeOK ==
  /\ conns \in 0..MaxConns /\ backlog \in Seq(Conns)
  /\ reqs \in Seq([kind : Kinds, conn : Conns]) /\ Len(reqs) <= MaxReqs
  /\ cpc \in [Conns -> {"idle", "half", "head", "wait", "gone"}]
  /\ \A c \in Conns : /\ \A i \in DOMAIN stream[c] :
                           stream[c][i] \in [piece : {"half", "rest", "body"}, req : Reqs]
                      /\ \A i \in DOMAIN out[c] : out[c][i] \in {"OK", "ERROR", "garbled"}
  /\ ans \in [Reqs -> {"none", "OK", "ERROR", "garbled"}]
  /\ peer \in [Fds -> Conns \cup {None}] /\ armed \subseteq Fds
  /\ batch \subseteq [fd : Fds \cup {Listen}, rdhup : BOOLEAN] /\ qsock \in Seq(Fds)
  /\ wpc \in [Workers -> {"fetch", "asleep", "head", "body", "app", "send", "free"}]
  /\ wfd \in [Workers -> Fds \cup {None}]
  /\ hd \in [Workers -> Reqs \cup {None, Junk}] /\ bd \in [Workers -> Reqs \cup {None}]
  /\ again \in [Workers -> BOOLEAN] /\ failed \in [Workers -> BOOLEAN]
  /\ rep \in [Workers -> {"none", "OK", "ERROR", "garbled"}]
  /\ \A i \in DOMAIN mqueue : mqueue[i] \in Reqs
  /\ misled \subseteq Conns /\ {down, slow} \subseteq BOOLEAN

\* The variables have their types, and equeue's promise (comments 4 and 7 of equeue.cpp): an open connection is in the hands
\* of one party only -- epoll, the main thread, the queue or one service thread --
\* and always in someone's, so that it is neither served twice at once nor lost;
\* and nobody holds a descriptor that was closed and may be another client's.
OneOwner ==
  TypeOK /\ \A f \in Fds :
    Cardinality({x \in {"epoll"} : f \in armed})
      + Cardinality({e \in batch : e.fd = f})
      + Cardinality({i \in DOMAIN qsock : qsock[i] = f})
      + Cardinality({w \in Workers : wfd[w] = f}) = (IF f \in Open THEN 1 ELSE 0)

\* A client that reads OK for a message that is not empty has its message in the queue, unless its request
\* was served after xrecv had failed (the thread's errno was EAGAIN).
AckedIsQueued ==
  \A r \in DOMAIN reqs :
    ans[r] = "OK" /\ reqs[r].kind # "empty" /\ reqs[r].conn \notin misled =>
      \E i \in DOMAIN mqueue : mqueue[i] = r

\* As long as no socket call has timed out, the queue holds what clients sent, each message once, no
\* answer is garbled, and the process dies only of a message that a thread received whole into a buffer
\* of left-overs, head and body (is_valid at service_app.cpp:24, the zero at :52): what earlier requests
\* left in the buffers and in errno does no harm.
OwnDeath(w) ==
  /\ wpc[w] = "app" /\ ~failed[w] /\ hd[w] \in DOMAIN reqs
  /\ reqs[hd[w]].kind = "message" /\ bd[w] = hd[w]
QueueIsWhatWasSent ==
  ~slow => /\ \A i, j \in DOMAIN mqueue : mqueue[i] = mqueue[j] => i = j
           /\ misled = {} /\ \A r \in Reqs : ans[r] # "garbled"
           /\ down => \E w \in Workers : OwnDeath(w)

\* No lost wake-up: while a service thread sleeps, every socket that waits in the queue
\* has another thread on its way to it.
NoneOversleeps ==
  (\E w \in Workers : wpc[w] = "asleep") =>
    Len(qsock) <= Cardinality({w \in Workers : wpc[w] = "fetch"})
=============================================================================
