---------------------------- MODULE ServiceProofs ----------------------------
(***************************************************************************)
(* Proofs about the event queue and the service threads: who owns a        *)
(* descriptor, and that no wake-up is lost.  Both hold whatever clients    *)
(* send and however often socket calls fail or time out.                   *)
(*                                                                         *)
(* OneOwner counts; the invariant states the same without counting         *)
(* (Owners): a descriptor is open just when someone holds it, no two       *)
(* parties hold the same one, and no party holds it twice.  It needs to    *)
(* know that a thread has a socket just while it is neither in             *)
(* fetch_socket nor asleep, and that an event of the listening socket      *)
(* finds a connection to accept.                                           *)
(***************************************************************************)
EXTENDS Service, SequenceTheorems, FiniteSetTheorems, TLAPS

Pieces == [piece : {"half", "rest", "body"}, req : Reqs]
Texts == {"OK", "ERROR", "garbled"}

\* The types, of what clients and the network hold, of the event queue and of the threads.
CType ==
  /\ conns \in 0..MaxConns /\ backlog \in Seq(Conns)
  /\ reqs \in Seq([kind : Kinds, conn : Conns]) /\ Len(reqs) <= MaxReqs
  /\ cpc \in [Conns -> {"idle", "half", "head", "wait", "gone"}]
  /\ stream \in [Conns -> Seq(Pieces)] /\ out \in [Conns -> Seq(Texts)]
  /\ ans \in [Reqs -> Texts \cup {"none"}]
EType ==
  /\ peer \in [Fds -> Conns \cup {None}] /\ armed \subseteq Fds
  /\ batch \subseteq [fd : Fds \cup {Listen}, rdhup : BOOLEAN] /\ qsock \in Seq(Fds)
WType ==
  /\ wpc \in [Workers -> {"fetch", "asleep", "head", "body", "app", "send", "free"}]
  /\ wfd \in [Workers -> Fds \cup {None}]
  /\ hd \in [Workers -> Reqs \cup {None, Junk}] /\ bd \in [Workers -> Reqs \cup {None}]
  /\ again \in [Workers -> BOOLEAN] /\ failed \in [Workers -> BOOLEAN]
  /\ rep \in [Workers -> Texts \cup {"none"}]
  /\ mqueue \in Seq(Reqs) /\ misled \subseteq Conns /\ down \in BOOLEAN /\ slow \in BOOLEAN
Types == CType /\ EType /\ WType

\* A thread that is to answer has an answer.
Reps == \A w \in Workers : wpc[w] = "send" => rep[w] \in Texts

\* Who holds a descriptor.
InBatch(f) == \E e \in batch : e.fd = f
InQueue(f) == \E i \in 1..Len(qsock) : qsock[i] = f
WithWorker(f) == \E w \in Workers : wfd[w] = f

\* A descriptor is open just when someone holds it; no two parties hold the same one.
Owners ==
  /\ \A f \in Fds : f \in Open <=> f \in armed \/ InBatch(f) \/ InQueue(f) \/ WithWorker(f)
  /\ \A f \in Fds : f \in armed => ~InBatch(f) /\ ~InQueue(f) /\ ~WithWorker(f)
  /\ \A f \in Fds : InBatch(f) => ~InQueue(f) /\ ~WithWorker(f)
  /\ \A f \in Fds : InQueue(f) => ~WithWorker(f)
  /\ \A d, e \in batch : d.fd = e.fd => d = e
  /\ \A i, j \in 1..Len(qsock) : qsock[i] = qsock[j] => i = j
  /\ \A v, w \in Workers : wfd[v] = wfd[w] /\ wfd[v] # None => v = w
  /\ \A w \in Workers : wfd[w] = None <=> wpc[w] \in {"fetch", "asleep"}
  /\ InBatch(Listen) => backlog # <<>>

-----------------------------------------------------------------------------
\* Appending to one of a family of sequences.
LEMMA AppendOne ==
  ASSUME NEW C, NEW S, NEW g \in [C -> Seq(S)], NEW c \in C, NEW x \in S
  PROVE  [g EXCEPT ![c] = Append(@, x)] \in [C -> Seq(S)]
<1>1. Append(g[c], x) \in Seq(S)
  BY AppendProperties
<1> QED
  BY <1>1

\* Dropping the first pieces of one of a family of sequences.
LEMMA CutOne ==
  ASSUME NEW C, NEW S, NEW g \in [C -> Seq(S)], NEW c \in C, NEW n \in Nat
  PROVE  [g EXCEPT ![c] = SubSeq(@, n + 1, Len(@))] \in [C -> Seq(S)]
<1>1. SubSeq(g[c], n + 1, Len(g[c])) \in Seq(S)
  <2>1. g[c] \in Seq(S) /\ Len(g[c]) \in Nat
    BY LenProperties
  <2> QED
    BY <2>1, SubSeqProperties
<1> QED
  BY <1>1

\* The elements of a queue to which one was appended.
LEMMA InAppend ==
  ASSUME NEW S, NEW q \in Seq(S), NEW x \in S
  PROVE  \A f : (\E i \in 1..Len(Append(q, x)) : Append(q, x)[i] = f)
                  <=> (\E i \in 1..Len(q) : q[i] = f) \/ f = x
<1>1. /\ Len(Append(q, x)) = Len(q) + 1 /\ Len(q) \in Nat
      /\ \A i \in 1..Len(q) : Append(q, x)[i] = q[i]
      /\ Append(q, x)[Len(q) + 1] = x
  BY AppendProperties, LenProperties
<1>2. 1..Len(Append(q, x)) = 1..Len(q) \cup {Len(q) + 1}
  BY <1>1
<1> QED
  BY <1>1, <1>2

\* The elements of a queue whose head was taken: with the head, those it had.
LEMMA InTail ==
  ASSUME NEW S, NEW q \in Seq(S), q # <<>>
  PROVE  /\ \E i \in 1..Len(q) : q[i] = Head(q)
         /\ (\A i, j \in 1..Len(q) : q[i] = q[j] => i = j) =>
              \A f : (\E i \in 1..Len(Tail(q)) : Tail(q)[i] = f)
                       <=> (\E i \in 1..Len(q) : q[i] = f) /\ f # Head(q)
<1>1. /\ Len(q) \in Nat \ {0} /\ Len(Tail(q)) = Len(q) - 1
      /\ \A i \in 1..Len(Tail(q)) : Tail(q)[i] = q[i + 1]
      /\ Head(q) = q[1]
  BY HeadTailProperties, EmptySeq
<1>2. \A i \in 1..Len(Tail(q)) : i + 1 \in 1..Len(q) /\ i + 1 # 1
  BY <1>1
<1>3. \A i \in 1..Len(q) : i # 1 => i - 1 \in 1..Len(Tail(q)) /\ Tail(q)[i - 1] = q[i]
  BY <1>1
<1>4. 1 \in 1..Len(q)
  BY <1>1
<1>5. ASSUME \A i, j \in 1..Len(q) : q[i] = q[j] => i = j, NEW f
      PROVE  (\E i \in 1..Len(Tail(q)) : Tail(q)[i] = f)
                <=> (\E i \in 1..Len(q) : q[i] = f) /\ f # Head(q)
  <2>1. ASSUME NEW i \in 1..Len(Tail(q)), Tail(q)[i] = f
        PROVE  (\E j \in 1..Len(q) : q[j] = f) /\ f # Head(q)
    BY <1>1, <1>2, <1>4, <1>5, <2>1
  <2>2. ASSUME NEW i \in 1..Len(q), q[i] = f, f # Head(q)
        PROVE  \E j \in 1..Len(Tail(q)) : Tail(q)[j] = f
    BY <1>1, <1>3, <2>2
  <2> QED
    BY <2>1, <2>2
<1> QED
  BY <1>1, <1>4, <1>5

\* A queue without duplicates stays one.
LEMMA DistinctAppend ==
  ASSUME NEW S, NEW q \in Seq(S), NEW x \in S, \A i \in 1..Len(q) : q[i] # x,
         \A i, j \in 1..Len(q) : q[i] = q[j] => i = j
  PROVE  \A i, j \in 1..Len(Append(q, x)) : Append(q, x)[i] = Append(q, x)[j] => i = j
<1>1. /\ Len(Append(q, x)) = Len(q) + 1 /\ Len(q) \in Nat
      /\ \A i \in 1..Len(q) : Append(q, x)[i] = q[i]
      /\ Append(q, x)[Len(q) + 1] = x
  BY AppendProperties, LenProperties
<1>2. \A i \in 1..Len(Append(q, x)) : i \in 1..Len(q) \/ i = Len(q) + 1
  BY <1>1
<1> QED
  BY <1>1, <1>2

\* A queue without duplicates has lost its head for good when the head is taken.
LEMMA DistinctTail ==
  ASSUME NEW S, NEW q \in Seq(S), q # <<>>, \A i, j \in 1..Len(q) : q[i] = q[j] => i = j
  PROVE  \A i, j \in 1..Len(Tail(q)) : Tail(q)[i] = Tail(q)[j] => i = j
<1>1. /\ Len(q) \in Nat \ {0} /\ Len(Tail(q)) = Len(q) - 1
      /\ \A i \in 1..Len(Tail(q)) : Tail(q)[i] = q[i + 1]
  BY HeadTailProperties, EmptySeq
<1>2. \A i \in 1..Len(Tail(q)) : i + 1 \in 1..Len(q)
  BY <1>1
<1>3. \A i, j \in 1..Len(Tail(q)) : i + 1 = j + 1 => i = j
  BY <1>1
<1> QED
  BY <1>1, <1>2, <1>3

\* The connection a service thread works on.
LEMMA ConnOf ==
  ASSUME Types, Owners, NEW w \in Workers, wpc[w] \notin {"fetch", "asleep"}
  PROVE  wfd[w] \in Fds /\ wfd[w] # None /\ wfd[w] \in Open /\ Conn(w) \in Conns /\ WithWorker(wfd[w])
<1>1. wfd[w] # None /\ wfd[w] \in Fds
  BY DEF Owners, Types, WType
<1>2. wfd[w] \in Open
  BY <1>1 DEF Owners, WithWorker
<1> QED
  BY <1>1, <1>2 DEF Types, EType, Open, Conn, WithWorker

\* What it receives first.
LEMMA FirstOf ==
  ASSUME Types, Owners, NEW w \in Workers, wpc[w] \notin {"fetch", "asleep"}, stream[Conn(w)] # <<>>
  PROVE  First(w) \in Pieces /\ First(w) = stream[Conn(w)][1] /\ First(w).req \in Reqs
<1>1. stream[Conn(w)] \in Seq(Pieces)
  BY ConnOf DEF Types, CType
<1>2. First(w) \in Pieces /\ First(w) = stream[Conn(w)][1]
  BY <1>1, HeadTailProperties DEF First
<1> QED
  BY <1>2 DEF Pieces

\* Receiving keeps the type of the streams.
LEMMA ReceivesType ==
  ASSUME Types, Owners, NEW w \in Workers, wpc[w] \notin {"fetch", "asleep"}, NEW n \in Nat, Receives(w, n)
  PROVE  stream' \in [Conns -> Seq(Pieces)]
BY ConnOf, CutOne DEF Types, CType, Receives

\* accept takes a descriptor that is free: the lowest.
LEMMA LowestFree ==
  ASSUME Free # {}
  PROVE  Min(Free) \in Free
<1>1. Free \subseteq Nat
  BY ServiceAssumption DEF Free
<1>2. \E x \in Free : \A y \in Free : ~ (<<y, x>> \in OpToRel(<, Nat))
  BY <1>1, NatLessThanWellFounded, WFMin
<1>3. \E x \in Free : \A y \in Free : x <= y
  <2>1. PICK x \in Free : \A y \in Free : ~ (<<y, x>> \in OpToRel(<, Nat))
    BY <1>2
  <2>2. ASSUME NEW y \in Free PROVE x <= y
    <3>1. ~(y < x)
      BY <1>1, <2>1 DEF OpToRel
    <3> QED
      BY <1>1, <3>1
  <2> QED
    BY <2>2
<1> QED
  BY <1>3 DEF Min

\* Every step keeps the types of what clients and the network hold.
LEMMA CTypeStep ==
  ASSUME Types, Owners, Reps, [Next]_vars
  PROVE  CType'
<1> USE ServiceAssumption DEF Types, CType, cVars, eVars, wVars, netVars
<1>1. CASE Connect
  <2>1. conns + 1 \in Conns
    BY <1>1 DEF Connect, Conns
  <2>2. backlog' \in Seq(Conns)
    BY <1>1, <2>1, AppendProperties DEF Connect
  <2> QED
    BY <1>1, <2>2 DEF Connect
<1>2. ASSUME NEW c \in Conns, NEW k \in Kinds, SendHalf(c, k) PROVE CType'
  <2>1. Len(reqs) + 1 \in Reqs /\ Len(reqs) \in Nat
    BY <1>2, LenProperties DEF SendHalf, Reqs
  <2>2. reqs' \in Seq([kind : Kinds, conn : Conns]) /\ Len(reqs') = Len(reqs) + 1
    BY <1>2, AppendProperties DEF SendHalf
  <2>3. stream' \in [Conns -> Seq(Pieces)]
    <3>1. Piece("half", Len(reqs) + 1) \in Pieces
      BY <2>1 DEF Piece, Pieces
    <3> QED
      BY <1>2, <3>1, AppendOne DEF SendHalf, Sends
  <2> QED
    BY <1>2, <2>1, <2>2, <2>3 DEF SendHalf, Sends
<1>3. ASSUME NEW c \in Conns, SendRest(c) PROVE CType'
  <2>1. PICK r \in Pending(c), q \in {"wait", "head"} : Sends(c, "rest", r, q)
    BY <1>3 DEF SendRest
  <2>2. r \in Reqs
    BY <1>3 DEF Pending, Types, CType, Reqs
  <2>3. stream' \in [Conns -> Seq(Pieces)]
    <3>1. Piece("rest", r) \in Pieces
      BY <2>2 DEF Piece, Pieces
    <3> QED
      BY <2>1, <3>1, AppendOne DEF Sends
  <2> QED
    BY <1>3, <2>1, <2>3 DEF SendRest, Sends
<1>4. ASSUME NEW c \in Conns, SendBody(c) PROVE CType'
  <2>1. PICK r \in Pending(c), q \in {"wait", "head"} : Sends(c, "body", r, q)
    BY <1>4 DEF SendBody
  <2>2. r \in Reqs
    BY <1>4 DEF Pending, Types, CType, Reqs
  <2>3. stream' \in [Conns -> Seq(Pieces)]
    <3>1. Piece("body", r) \in Pieces
      BY <2>2 DEF Piece, Pieces
    <3> QED
      BY <2>1, <3>1, AppendOne DEF Sends
  <2> QED
    BY <1>4, <2>1, <2>3 DEF SendBody, Sends
<1>5. ASSUME NEW c \in Conns, ReadReply(c) PROVE CType'
  <2>1. out[c] \in Seq(Texts) /\ out[c] # <<>>
    BY <1>5 DEF ReadReply
  <2>2. Head(out[c]) \in Texts /\ Tail(out[c]) \in Seq(Texts)
    BY <2>1, HeadTailProperties
  <2>3. ans' \in [Reqs -> Texts \cup {"none"}]
    BY <1>5, <2>2 DEF ReadReply
  <2>4. out' \in [Conns -> Seq(Texts)]
    BY <1>5, <2>2 DEF ReadReply
  <2> QED
    BY <1>5, <2>3, <2>4 DEF ReadReply
<1>6. ASSUME NEW c \in Conns, HangUp(c) PROVE CType'
  BY <1>6 DEF HangUp
<1>7. CASE EpollWait
  BY <1>7 DEF EpollWait, Disarm
<1>8. ASSUME NEW e \in batch, Accept(e) PROVE CType'
  <2>1. backlog' \in Seq(Conns)
    <3>1. CASE Free = {}
      BY <1>8, <3>1 DEF Accept
    <3>2. CASE Free # {}
      <4>1. backlog # <<>> /\ backlog' = Tail(backlog)
        BY <1>8, <3>2 DEF Accept, Owners, InBatch
      <4> QED
        BY <4>1, HeadTailProperties
    <3> QED
      BY <3>1, <3>2
  <2> QED
    BY <1>8, <2>1 DEF Accept
<1>9. ASSUME NEW e \in batch, CloseHup(e) PROVE CType'
  BY <1>9 DEF CloseHup
<1>10. ASSUME NEW e \in batch, Push(e) PROVE CType'
  BY <1>10 DEF Push, Signal
<1>11. ASSUME NEW w \in Workers, Fetch(w) PROVE CType'
  BY <1>11 DEF Fetch, Goto
<1>12. ASSUME NEW w \in Workers, RecvHead(w) PROVE CType'
  <2>1. stream' \in [Conns -> Seq(Pieces)]
    BY <1>12, ReceivesType DEF RecvHead, At
  <2> QED
    BY <1>12, <2>1 DEF RecvHead
<1>13. ASSUME NEW w \in Workers, RecvHalf(w) PROVE CType'
  <2>1. stream' \in [Conns -> Seq(Pieces)]
    BY <1>13, ReceivesType DEF RecvHalf, At
  <2> QED
    BY <1>13, <2>1 DEF RecvHalf
<1>14. ASSUME NEW w \in Workers, RecvJunk(w) PROVE CType'
  <2>1. Len(stream[Conn(w)]) \in Nat
    BY <1>14, ConnOf, LenProperties DEF RecvJunk, At
  <2>2. stream' \in [Conns -> Seq(Pieces)]
    BY <1>14, <2>1, ReceivesType DEF RecvJunk, At
  <2> QED
    BY <1>14, <2>2 DEF RecvJunk
<1>15. ASSUME NEW w \in Workers, RecvBody(w) PROVE CType'
  <2>1. stream' \in [Conns -> Seq(Pieces)]
    BY <1>15, ReceivesType DEF RecvBody, At
  <2> QED
    BY <1>15, <2>1 DEF RecvBody
<1>16. ASSUME NEW w \in Workers, ServiceApp(w) PROVE CType'
  BY <1>16 DEF ServiceApp, Answers, Handle, Goto
<1>17. ASSUME NEW w \in Workers, Send(w) PROVE CType'
  <2>1. Conn(w) \in Conns
    BY <1>17, ConnOf DEF Send, At
  <2>2. out' = [out EXCEPT ![Conn(w)] = Append(@, rep[w])] /\ rep[w] \in Texts
    BY <1>17 DEF Send, At, WType, Reps
  <2>3. out' \in [Conns -> Seq(Texts)]
    BY <2>1, <2>2, AppendOne
  <2> QED
    BY <1>17, <2>3 DEF Send
<1>18. ASSUME NEW w \in Workers, SendFails(w) PROVE CType'
  BY <1>18 DEF SendFails, Close, Goto
<1>19. ASSUME NEW w \in Workers, FreeSocket(w) PROVE CType'
  BY <1>19 DEF FreeSocket, Rearm, Goto
<1>20. ASSUME NEW w \in Workers, SendStalls(w) PROVE CType'
  BY <1>20 DEF SendStalls
<1>21. CASE UNCHANGED vars
  BY <1>21 DEF vars
<1> QED
  BY <1>1, <1>2, <1>3, <1>4, <1>5, <1>6, <1>7, <1>8, <1>9, <1>10, <1>11, <1>12, <1>13, <1>14, <1>15, <1>16, <1>17, <1>18, <1>19, <1>20, <1>21 DEF Next, Client, Main, HandleEvent, Worker, Recv

\* Every step keeps the types of the event queue.
LEMMA ETypeStep ==
  ASSUME Types, Owners, [Next]_vars
  PROVE  EType'
<1> USE ServiceAssumption DEF Types, EType, cVars, eVars, wVars, netVars
<1>1. CASE Connect
  BY <1>1 DEF Connect
<1>2. ASSUME NEW c \in Conns, NEW k \in Kinds, SendHalf(c, k) PROVE EType'
  BY <1>2 DEF SendHalf, Sends
<1>3. ASSUME NEW c \in Conns, SendRest(c) PROVE EType'
  BY <1>3 DEF SendRest, Sends
<1>4. ASSUME NEW c \in Conns, SendBody(c) PROVE EType'
  BY <1>4 DEF SendBody, Sends
<1>5. ASSUME NEW c \in Conns, ReadReply(c) PROVE EType'
  BY <1>5 DEF ReadReply
<1>6. ASSUME NEW c \in Conns, HangUp(c) PROVE EType'
  BY <1>6 DEF HangUp
<1>7. CASE EpollWait
  <2>1. Ready \subseteq Fds
    BY DEF Ready
  <2>2. batch' \subseteq [fd : Fds \cup {Listen}, rdhup : BOOLEAN]
    <3>1. ASSUME NEW e \in batch'
          PROVE  e \in [fd : Fds \cup {Listen}, rdhup : BOOLEAN]
      <4>1. CASE \E f \in Ready : e = [fd |-> f, rdhup |-> Gone(f)]
        BY <2>1, <4>1 DEF Gone
      <4>2. CASE e = [fd |-> Listen, rdhup |-> FALSE]
        BY <4>2
      <4> QED
        BY <1>7, <3>1, <4>1, <4>2 DEF EpollWait
    <3> QED
      BY <3>1
  <2> QED
    BY <1>7, <2>2 DEF EpollWait, Disarm
<1>8. ASSUME NEW e \in batch, Accept(e) PROVE EType'
  <2>1. batch' \subseteq [fd : Fds \cup {Listen}, rdhup : BOOLEAN]
    BY <1>8 DEF Accept
  <2>2. CASE Free = {}
    BY <1>8, <2>1, <2>2 DEF Accept
  <2>3. CASE Free # {}
    <3>1. Min(Free) \in Fds
      BY <2>3, LowestFree DEF Free
    <3>2. Head(backlog) \in Conns
      BY <1>8, HeadTailProperties DEF Accept, Owners, InBatch, CType
    <3> QED
      BY <1>8, <2>1, <2>3, <3>1, <3>2 DEF Accept
  <2> QED
    BY <2>2, <2>3
<1>9. ASSUME NEW e \in batch, CloseHup(e) PROVE EType'
  BY <1>9 DEF CloseHup
<1>10. ASSUME NEW e \in batch, Push(e) PROVE EType'
  BY <1>10 DEF Push, Signal
<1>11. ASSUME NEW w \in Workers, Fetch(w) PROVE EType'
  <2>1. qsock' \in Seq(Fds)
    <3>1. qsock # <<>> => Tail(qsock) \in Seq(Fds)
      BY HeadTailProperties
    <3> QED
      BY <1>11, <3>1 DEF Fetch
  <2> QED
    BY <1>11, <2>1 DEF Fetch
<1>12. ASSUME NEW w \in Workers, RecvHead(w) PROVE EType'
  BY <1>12 DEF RecvHead, Goto, Fails, Close
<1>13. ASSUME NEW w \in Workers, RecvHalf(w) PROVE EType'
  BY <1>13 DEF RecvHalf, Goto, Fails, Close
<1>14. ASSUME NEW w \in Workers, RecvJunk(w) PROVE EType'
  BY <1>14 DEF RecvJunk, Goto, Fails, Close
<1>15. ASSUME NEW w \in Workers, RecvBody(w) PROVE EType'
  BY <1>15 DEF RecvBody, Goto, Fails, Close
<1>16. ASSUME NEW w \in Workers, ServiceApp(w) PROVE EType'
  BY <1>16 DEF ServiceApp, Answers, Handle, Goto
<1>17. ASSUME NEW w \in Workers, Send(w) PROVE EType'
  BY <1>17 DEF Send, Goto
<1>18. ASSUME NEW w \in Workers, SendFails(w) PROVE EType'
  BY <1>18 DEF SendFails, Close, Goto
<1>19. ASSUME NEW w \in Workers, FreeSocket(w) PROVE EType'
  <2>1. wfd[w] \in Fds
    BY <1>19, ConnOf DEF FreeSocket, At
  <2> QED
    BY <1>19, <2>1 DEF FreeSocket, Rearm
<1>20. ASSUME NEW w \in Workers, SendStalls(w) PROVE EType'
  BY <1>20 DEF SendStalls
<1>21. CASE UNCHANGED vars
  BY <1>21 DEF vars
<1> QED
  BY <1>1, <1>2, <1>3, <1>4, <1>5, <1>6, <1>7, <1>8, <1>9, <1>10, <1>11, <1>12, <1>13, <1>14, <1>15, <1>16, <1>17, <1>18, <1>19, <1>20, <1>21 DEF Next, Client, Main, HandleEvent, Worker, Recv

\* Every step keeps the types of the service threads.
LEMMA WTypeStep ==
  ASSUME Types, Owners, [Next]_vars
  PROVE  WType'
<1> USE ServiceAssumption DEF Types, WType, cVars, eVars, wVars, netVars
<1>1. CASE Connect
  BY <1>1 DEF Connect
<1>2. ASSUME NEW c \in Conns, NEW k \in Kinds, SendHalf(c, k) PROVE WType'
  BY <1>2 DEF SendHalf, Sends
<1>3. ASSUME NEW c \in Conns, SendRest(c) PROVE WType'
  BY <1>3 DEF SendRest, Sends
<1>4. ASSUME NEW c \in Conns, SendBody(c) PROVE WType'
  BY <1>4 DEF SendBody, Sends
<1>5. ASSUME NEW c \in Conns, ReadReply(c) PROVE WType'
  BY <1>5 DEF ReadReply
<1>6. ASSUME NEW c \in Conns, HangUp(c) PROVE WType'
  BY <1>6 DEF HangUp
<1>7. CASE EpollWait
  BY <1>7 DEF EpollWait, Disarm
<1>8. ASSUME NEW e \in batch, Accept(e) PROVE WType'
  BY <1>8 DEF Accept
<1>9. ASSUME NEW e \in batch, CloseHup(e) PROVE WType'
  BY <1>9 DEF CloseHup
<1>10. ASSUME NEW e \in batch, Push(e) PROVE WType'
  BY <1>10 DEF Push, Signal
<1>11. ASSUME NEW w \in Workers, Fetch(w) PROVE WType'
  <2>1. CASE qsock = <<>>
    BY <1>11, <2>1 DEF Fetch, Goto
  <2>2. CASE qsock # <<>>
    <3>1. Head(qsock) \in Fds
      BY <2>2, HeadTailProperties DEF EType
    <3>2. wfd' \in [Workers -> Fds \cup {None}] /\ failed' \in [Workers -> BOOLEAN]
      BY <1>11, <2>2, <3>1 DEF Fetch
    <3> QED
      BY <1>11, <2>2, <3>2 DEF Fetch, Goto
  <2> QED
    BY <2>1, <2>2
<1>12. ASSUME NEW w \in Workers, RecvHead(w) PROVE WType'
  <2>1. hd' \in [Workers -> Reqs \cup {None, Junk}]
    BY <1>12, FirstOf DEF RecvHead, At
  <2>2. \/ Goto(w, "app") /\ UNCHANGED <<wfd, failed, again>>
        \/ Fails(w, again[w])
        \/ Goto(w, "body") /\ UNCHANGED <<wfd, failed, again>>
    BY <1>12 DEF RecvHead
  <2>3. /\ wpc' \in [Workers -> {"fetch", "asleep", "head", "body", "app", "send", "free"}]
        /\ wfd' \in [Workers -> Fds \cup {None}]
        /\ again' \in [Workers -> BOOLEAN] /\ failed' \in [Workers -> BOOLEAN]
    BY <2>2 DEF Fails, Goto, Close
  <2> QED
    BY <1>12, <2>1, <2>3 DEF RecvHead
<1>13. ASSUME NEW w \in Workers, RecvHalf(w) PROVE WType'
  BY <1>13 DEF RecvHalf, Goto, Fails, Close
<1>14. ASSUME NEW w \in Workers, RecvJunk(w) PROVE WType'
  BY <1>14 DEF RecvJunk, Goto, Fails, Close
<1>15. ASSUME NEW w \in Workers, RecvBody(w) PROVE WType'
  <2>1. stream[Conn(w)] # <<>> => First(w).req \in Reqs
    BY <1>15, FirstOf DEF RecvBody, At
  <2>2. bd' \in [Workers -> Reqs \cup {None}] /\ slow' \in BOOLEAN
    BY <1>15, <2>1 DEF RecvBody
  <2>3. \/ Goto(w, "app") /\ UNCHANGED <<wfd, failed, again>>
        \/ Fails(w, again[w])
        \/ Fails(w, TRUE)
    BY <1>15 DEF RecvBody
  <2>4. again' \in [Workers -> BOOLEAN] /\ failed' \in [Workers -> BOOLEAN]
    BY <2>3 DEF Fails
  <2>5. /\ wpc' \in [Workers -> {"fetch", "asleep", "head", "body", "app", "send", "free"}]
        /\ wfd' \in [Workers -> Fds \cup {None}]
    BY <2>3 DEF Fails, Goto, Close
  <2> QED
    BY <1>15, <2>2, <2>4, <2>5 DEF RecvBody
<1>16. ASSUME NEW w \in Workers, ServiceApp(w) PROVE WType'
  <2>1. misled' \subseteq Conns
    BY <1>16, ConnOf DEF ServiceApp, At
  <2>2. Append(mqueue, bd[w]) \in Seq(Reqs) \/ bd[w] = None
    BY AppendProperties
  <2>3. mqueue' \in Seq(Reqs) /\ down' \in BOOLEAN
    BY <1>16, <2>2 DEF ServiceApp, Handle
  <2>4. /\ wpc' \in [Workers -> {"fetch", "asleep", "head", "body", "app", "send", "free"}]
        /\ rep' \in [Workers -> Texts \cup {"none"}]
    BY <1>16 DEF ServiceApp, Handle, Answers, Goto, Texts
  <2> QED
    BY <1>16, <2>1, <2>3, <2>4 DEF ServiceApp
<1>17. ASSUME NEW w \in Workers, Send(w) PROVE WType'
  BY <1>17 DEF Send, Goto
<1>18. ASSUME NEW w \in Workers, SendFails(w) PROVE WType'
  BY <1>18 DEF SendFails, Close, Goto
<1>19. ASSUME NEW w \in Workers, FreeSocket(w) PROVE WType'
  BY <1>19 DEF FreeSocket, Rearm, Goto
<1>20. ASSUME NEW w \in Workers, SendStalls(w) PROVE WType'
  <2>1. again' \in [Workers -> BOOLEAN] /\ rep' \in [Workers -> Texts \cup {"none"}] /\ slow' \in BOOLEAN
    BY <1>20 DEF SendStalls, Texts
  <2> QED
    BY <1>20, <2>1 DEF SendStalls
<1>21. CASE UNCHANGED vars
  BY <1>21 DEF vars
<1> QED
  BY <1>1, <1>2, <1>3, <1>4, <1>5, <1>6, <1>7, <1>8, <1>9, <1>10, <1>11, <1>12, <1>13, <1>14, <1>15, <1>16, <1>17, <1>18, <1>19, <1>20, <1>21 DEF Next, Client, Main, HandleEvent, Worker, Recv

\* ServiceApp leaves an answer in SendBuff before xsend: OK, an error, or, after a stall, a garbled one.
LEMMA RepsStep ==
  ASSUME Types, Reps, [Next]_vars
  PROVE  Reps'
<1> USE ServiceAssumption DEF Types, WType, Reps, Texts, cVars, eVars, wVars, netVars
<1>1. CASE Connect
  BY <1>1 DEF Connect
<1>2. ASSUME NEW c \in Conns, NEW k \in Kinds, SendHalf(c, k) PROVE Reps'
  BY <1>2 DEF SendHalf, Sends
<1>3. ASSUME NEW c \in Conns, SendRest(c) PROVE Reps'
  BY <1>3 DEF SendRest, Sends
<1>4. ASSUME NEW c \in Conns, SendBody(c) PROVE Reps'
  BY <1>4 DEF SendBody, Sends
<1>5. ASSUME NEW c \in Conns, ReadReply(c) PROVE Reps'
  BY <1>5 DEF ReadReply
<1>6. ASSUME NEW c \in Conns, HangUp(c) PROVE Reps'
  BY <1>6 DEF HangUp
<1>7. CASE EpollWait
  BY <1>7 DEF EpollWait, Disarm
<1>8. ASSUME NEW e \in batch, Accept(e) PROVE Reps'
  BY <1>8 DEF Accept
<1>9. ASSUME NEW e \in batch, CloseHup(e) PROVE Reps'
  BY <1>9 DEF CloseHup
<1>10. ASSUME NEW e \in batch, Push(e) PROVE Reps'
  BY <1>10 DEF Push, Signal
<1>11. ASSUME NEW w \in Workers, Fetch(w) PROVE Reps'
  BY <1>11 DEF Fetch, Goto
<1>12. ASSUME NEW w \in Workers, RecvHead(w) PROVE Reps'
  BY <1>12 DEF RecvHead, Goto, Fails, Close
<1>13. ASSUME NEW w \in Workers, RecvHalf(w) PROVE Reps'
  BY <1>13 DEF RecvHalf, Goto, Fails, Close
<1>14. ASSUME NEW w \in Workers, RecvJunk(w) PROVE Reps'
  BY <1>14 DEF RecvJunk, Goto, Fails, Close
<1>15. ASSUME NEW w \in Workers, RecvBody(w) PROVE Reps'
  BY <1>15 DEF RecvBody, Goto, Fails, Close
<1>16. ASSUME NEW w \in Workers, ServiceApp(w) PROVE Reps'
  BY <1>16 DEF ServiceApp, Answers, Handle, Goto
<1>17. ASSUME NEW w \in Workers, Send(w) PROVE Reps'
  BY <1>17 DEF Send, Goto
<1>18. ASSUME NEW w \in Workers, SendFails(w) PROVE Reps'
  BY <1>18 DEF SendFails, Close, Goto
<1>19. ASSUME NEW w \in Workers, FreeSocket(w) PROVE Reps'
  BY <1>19 DEF FreeSocket, Rearm, Goto
<1>20. ASSUME NEW w \in Workers, SendStalls(w) PROVE Reps'
  BY <1>20 DEF SendStalls
<1>21. CASE UNCHANGED vars
  BY <1>21 DEF vars
<1> QED
  BY <1>1, <1>2, <1>3, <1>4, <1>5, <1>6, <1>7, <1>8, <1>9, <1>10, <1>11, <1>12, <1>13, <1>14, <1>15, <1>16, <1>17, <1>18, <1>19, <1>20, <1>21 DEF Next, Client, Main, HandleEvent, Worker, Recv

\* Steps that move no descriptor keep the owners.
LEMMA OwnersStay ==
  ASSUME Owners, UNCHANGED <<peer, armed, batch, qsock, wfd>>, backlog # <<>> => backlog' # <<>>,
         \A w \in Workers : wpc'[w] \in {"fetch", "asleep"} <=> wpc[w] \in {"fetch", "asleep"}
  PROVE  Owners'
<1>1. Open' = Open
  BY DEF Open
<1>2. \A f : /\ InBatch(f)' <=> InBatch(f)
             /\ InQueue(f)' <=> InQueue(f)
             /\ WithWorker(f)' <=> WithWorker(f)
  BY DEF InBatch, InQueue, WithWorker
<1>3. /\ \A i, j \in 1..Len(qsock') : qsock'[i] = qsock'[j] => i = j
      /\ \A v, w \in Workers : wfd'[v] = wfd'[w] /\ wfd'[v] # None => v = w
      /\ \A w \in Workers : wfd'[w] = None <=> wpc'[w] \in {"fetch", "asleep"}
  BY DEF Owners
<1> QED
  BY <1>1, <1>2, <1>3 DEF Owners

\* A service thread that closes its socket gives it up.
LEMMA OwnersClose ==
  ASSUME Types, Owners, NEW w \in Workers, wpc[w] \notin {"fetch", "asleep"},
         Close(w), UNCHANGED <<armed, batch, qsock, backlog>>
  PROVE  Owners'
<1> DEFINE g == wfd[w]
<1>1. g \in Fds /\ g # None /\ g \in Open /\ WithWorker(g)
  BY ConnOf
<1>2. peer' = [peer EXCEPT ![g] = None] /\ wfd' = [wfd EXCEPT ![w] = None] /\ wpc' = [wpc EXCEPT ![w] = "fetch"]
  BY DEF Close, Goto
<1>3. \A f \in Fds : f \in Open' <=> f \in Open /\ f # g
  BY <1>1, <1>2 DEF Open, Types, EType
<1>4. \A f \in Fds : WithWorker(f)' <=> WithWorker(f) /\ f # g
  <2>1. \A v \in Workers : wfd'[v] = IF v = w THEN None ELSE wfd[v]
    BY <1>2 DEF Types, WType
  <2>2. \A v \in Workers : v # w => wfd[v] # g
    BY <1>1 DEF Owners
  <2>3. \A f \in Fds : f # None
    BY ServiceAssumption DEF None
  <2> QED
    BY <2>1, <2>2, <2>3 DEF WithWorker
<1>5. \A f : (InBatch(f)' <=> InBatch(f)) /\ (InQueue(f)' <=> InQueue(f))
  BY DEF InBatch, InQueue
<1>6. g \notin armed /\ ~InBatch(g) /\ ~InQueue(g)
  BY <1>1 DEF Owners
<1>7. \A u, v \in Workers : wfd'[u] = wfd'[v] /\ wfd'[u] # None => u = v
  BY <1>2 DEF Owners, Types, WType
<1>8. \A v \in Workers : wfd'[v] = None <=> wpc'[v] \in {"fetch", "asleep"}
  BY <1>2 DEF Owners, Types, WType
<1> QED
  BY <1>3, <1>4, <1>5, <1>6, <1>7, <1>8 DEF Owners

\* Every step of clients, main thread and service threads hands a descriptor from one owner
\* to one other: epoll_wait to the batch, the push to the queue, fetch_socket to a thread,
\* free_socket back to epoll; accept makes an owner and close unmakes it.
LEMMA OwnersStep ==
  ASSUME Types, Owners, [Next]_vars
  PROVE  Owners'
<1> USE DEF cVars, eVars, wVars, netVars
<1>1. CASE Connect
  <2>1. backlog' # <<>>
    <3>1. conns + 1 \in Conns /\ backlog \in Seq(Conns) /\ backlog' = Append(backlog, conns + 1)
      BY <1>1, ServiceAssumption DEF Connect, Types, CType, Conns
    <3>2. Len(backlog') = Len(backlog) + 1 /\ Len(backlog) \in Nat
      BY <3>1, AppendProperties, LenProperties
    <3> QED
      BY <3>2, EmptySeq
  <2> QED
    BY <1>1, <2>1, OwnersStay DEF Connect
<1>2. ASSUME NEW c \in Conns, NEW k \in Kinds, SendHalf(c, k) PROVE Owners'
  BY <1>2, OwnersStay DEF SendHalf, Sends
<1>3. ASSUME NEW c \in Conns, SendRest(c) PROVE Owners'
  BY <1>3, OwnersStay DEF SendRest, Sends
<1>4. ASSUME NEW c \in Conns, SendBody(c) PROVE Owners'
  BY <1>4, OwnersStay DEF SendBody, Sends
<1>5. ASSUME NEW c \in Conns, ReadReply(c) PROVE Owners'
  BY <1>5, OwnersStay DEF ReadReply
<1>6. ASSUME NEW c \in Conns, HangUp(c) PROVE Owners'
  BY <1>6, OwnersStay DEF HangUp
<1>7. CASE EpollWait
  <2>1. /\ batch = {} /\ armed' = armed \ Ready /\ UNCHANGED <<peer, qsock, wfd, wpc, backlog>>
        /\ batch' = {[fd |-> f, rdhup |-> Gone(f)] : f \in Ready}
              \cup {[fd |-> Listen, rdhup |-> FALSE] : c \in ToSet(backlog)}
    BY <1>7 DEF EpollWait, Disarm
  <2>2. Ready \subseteq armed /\ \A f \in Fds : f # Listen
    BY ServiceAssumption DEF Ready, Listen
  <2>3. \A f \in Fds : ~InBatch(f) /\ (InBatch(f)' <=> f \in Ready)
    <3>1. \A f \in Ready : [fd |-> f, rdhup |-> Gone(f)] \in batch'
      BY <2>1
    <3>2. \A d \in batch' : d.fd \in Ready \/ d.fd = Listen
      BY <2>1
    <3>3. \A f \in Ready : [fd |-> f, rdhup |-> Gone(f)].fd = f
      OBVIOUS
    <3> QED
      BY <2>1, <2>2, <3>1, <3>2, <3>3 DEF InBatch
  <2>4. \A d, e \in batch' : d.fd = e.fd => d = e
    <3>1. \A d \in batch' : \/ \E f \in Ready : d = [fd |-> f, rdhup |-> Gone(f)]
                            \/ d = [fd |-> Listen, rdhup |-> FALSE]
      BY <2>1
    <3>2. \A f \in Ready : f # Listen
      BY <2>2 DEF Types, EType
    <3>3. ASSUME NEW d \in batch', NEW x \in batch', d.fd = x.fd
          PROVE  d = x
      <4>1. CASE d = [fd |-> Listen, rdhup |-> FALSE]
        BY <3>1, <3>2, <3>3, <4>1
      <4>2. CASE \E f \in Ready : d = [fd |-> f, rdhup |-> Gone(f)]
        <5>1. PICK f \in Ready : d = [fd |-> f, rdhup |-> Gone(f)]
          BY <4>2
        <5>2. d.fd = f /\ x.fd # Listen
          BY <3>2, <3>3, <5>1
        <5>3. PICK h \in Ready : x = [fd |-> h, rdhup |-> Gone(h)]
          BY <3>1, <5>2
        <5> QED
          BY <3>3, <5>1, <5>3
      <4> QED
        BY <3>1, <4>1, <4>2
    <3> QED
      BY <3>3
  <2>5. InBatch(Listen)' => backlog # <<>>
    <3>1. backlog = <<>> => ToSet(backlog) = {}
      BY DEF ToSet
    <3> QED
      BY <2>1, <2>2, <3>1 DEF InBatch, Types, EType
  <2>6. \A f : (InQueue(f)' <=> InQueue(f)) /\ (WithWorker(f)' <=> WithWorker(f))
    BY <2>1 DEF InQueue, WithWorker
  <2>7. Open' = Open
    BY <2>1 DEF Open
  <2>8. \A i, j \in 1..Len(qsock') : qsock'[i] = qsock'[j] => i = j
    BY <2>1 DEF Owners
  <2> QED
    BY <2>1, <2>2, <2>3, <2>4, <2>5, <2>6, <2>7, <2>8 DEF Owners
<1>8. ASSUME NEW e \in batch, Accept(e) PROVE Owners'
  <2>1. e.fd = Listen /\ batch' = batch \ {e} /\ UNCHANGED <<qsock, wfd, wpc>>
    BY <1>8 DEF Accept
  <2>2. \A f \in Fds : f # Listen
    BY ServiceAssumption DEF Listen
  <2>3. \A f \in Fds : InBatch(f)' <=> InBatch(f)
    BY <2>1, <2>2 DEF InBatch
  <2>4. ~InBatch(Listen)'
    BY <2>1 DEF InBatch, Owners
  <2>5. \A f : (InQueue(f)' <=> InQueue(f)) /\ (WithWorker(f)' <=> WithWorker(f))
    BY <2>1 DEF InQueue, WithWorker
  <2>6. \A i, j \in 1..Len(qsock') : qsock'[i] = qsock'[j] => i = j
    BY <2>1 DEF Owners
  <2>7. \A a, b \in batch' : a.fd = b.fd => a = b
    BY <2>1 DEF Owners
  <2>8. CASE Free = {}
    <3>1. Open' = Open /\ armed' = armed
      BY <1>8, <2>8 DEF Accept, Open
    <3> QED
      BY <2>1, <2>3, <2>4, <2>5, <2>6, <2>7, <3>1 DEF Owners
  <2>9. CASE Free # {}
    <3> DEFINE g == Min(Free)
    <3>1. g \in Fds /\ g \notin Open
      BY <2>9, LowestFree DEF Free
    <3>2. peer' = [peer EXCEPT ![g] = Head(backlog)] /\ armed' = armed \cup {g}
      BY <1>8, <2>9 DEF Accept
    <3>3. Head(backlog) # None
      <4>1. backlog # <<>> /\ backlog \in Seq(Conns)
        BY <1>8 DEF Owners, InBatch, Accept, Types, CType
      <4>2. Head(backlog) \in Conns
        BY <4>1, HeadTailProperties
      <4> QED
        BY <4>2 DEF Conns, None
    <3>4. \A f \in Fds : f \in Open' <=> f \in Open \/ f = g
      BY <3>1, <3>2, <3>3 DEF Open, Types, EType
    <3>5. ~InBatch(g) /\ ~InQueue(g) /\ ~WithWorker(g)
      BY <3>1 DEF Owners
    <3> HIDE DEF g
    <3> QED
      BY <2>1, <2>3, <2>4, <2>5, <2>6, <2>7, <3>1, <3>2, <3>4, <3>5 DEF Owners
  <2> QED
    BY <2>8, <2>9
<1>9. ASSUME NEW e \in batch, CloseHup(e) PROVE Owners'
  <2> DEFINE g == e.fd
  <2>1. g # Listen /\ batch' = batch \ {e} /\ UNCHANGED <<armed, qsock, wfd, wpc, backlog>>
        /\ peer' = [peer EXCEPT ![g] = None]
    BY <1>9 DEF CloseHup
  <2>2. g \in Fds /\ InBatch(g)
    BY <2>1 DEF Types, EType, InBatch
  <2>3. \A f : InBatch(f)' <=> InBatch(f) /\ f # g
    BY <2>1 DEF InBatch, Owners
  <2>4. \A f : (InQueue(f)' <=> InQueue(f)) /\ (WithWorker(f)' <=> WithWorker(f))
    BY <2>1 DEF InQueue, WithWorker
  <2>5. \A i, j \in 1..Len(qsock') : qsock'[i] = qsock'[j] => i = j
    BY <2>1 DEF Owners
  <2>6. \A a, b \in batch' : a.fd = b.fd => a = b
    BY <2>1 DEF Owners
  <2>7. \A f \in Fds : f \in Open' <=> f \in Open /\ f # g
    BY <2>1, <2>2 DEF Open, Types, EType
  <2>8. g \notin armed /\ ~InQueue(g) /\ ~WithWorker(g)
    BY <2>2 DEF Owners
  <2> HIDE DEF g
  <2> QED
    BY <2>1, <2>2, <2>3, <2>4, <2>5, <2>6, <2>7, <2>8 DEF Owners
<1>10. ASSUME NEW e \in batch, Push(e) PROVE Owners'
  <2> DEFINE g == e.fd
  <2>1. g # Listen /\ batch' = batch \ {e} /\ UNCHANGED <<armed, peer, wfd, backlog>>
        /\ qsock' = Append(qsock, g)
    BY <1>10 DEF Push
  <2>2. g \in Fds /\ InBatch(g)
    BY <2>1 DEF Types, EType, InBatch
  <2>3. \A f : InBatch(f)' <=> InBatch(f) /\ f # g
    BY <2>1 DEF InBatch, Owners
  <2>4. \A f : (InQueue(f)' <=> InQueue(f) \/ f = g)
    <3> HIDE DEF g
    <3>1. qsock \in Seq(Fds)
      BY DEF Types, EType
    <3>2. \A f : (\E i \in 1..Len(Append(qsock, g)) : Append(qsock, g)[i] = f)
                  <=> (\E i \in 1..Len(qsock) : qsock[i] = f) \/ f = g
      BY <2>2, <3>1, InAppend
    <3> QED
      BY <2>1, <3>2 DEF InQueue
  <2>5. \A i, j \in 1..Len(qsock') : qsock'[i] = qsock'[j] => i = j
    BY <2>1, <2>2, DistinctAppend DEF Owners, InQueue, Types, EType
  <2>6. \A a, b \in batch' : a.fd = b.fd => a = b
    BY <2>1 DEF Owners
  <2>7. Open' = Open /\ \A f : WithWorker(f)' <=> WithWorker(f)
    BY <2>1 DEF Open, WithWorker
  <2>8. g \notin armed /\ ~InQueue(g) /\ ~WithWorker(g)
    BY <2>2 DEF Owners
  <2>9. \A w \in Workers : wpc'[w] \in {"fetch", "asleep"} <=> wpc[w] \in {"fetch", "asleep"}
    BY <1>10 DEF Push, Signal, Types, WType
  <2> HIDE DEF g
  <2> QED
    BY <2>1, <2>2, <2>3, <2>4, <2>5, <2>6, <2>7, <2>8, <2>9 DEF Owners
<1>11. ASSUME NEW w \in Workers, Fetch(w) PROVE Owners'
  <2>1. wpc[w] = "fetch" /\ wfd[w] = None /\ UNCHANGED <<armed, batch, peer, backlog>>
    BY <1>11 DEF Fetch, At, Owners
  <2>2. CASE qsock = <<>>
    BY <1>11, <2>1, <2>2, OwnersStay DEF Fetch, Goto, Types, WType
  <2>3. CASE qsock # <<>>
    <3> DEFINE g == Head(qsock)
    <3>1. wfd' = [wfd EXCEPT ![w] = g] /\ qsock' = Tail(qsock) /\ wpc' = [wpc EXCEPT ![w] = "head"]
      BY <1>11, <2>3 DEF Fetch, Goto
    <3>2. g \in Fds /\ InQueue(g)
      BY <2>3, HeadTailProperties, InTail DEF InQueue, Types, EType
    <3>3. \A f : InQueue(f)' <=> InQueue(f) /\ f # g
      <4>1. qsock \in Seq(Fds) /\ \A i, j \in 1..Len(qsock) : qsock[i] = qsock[j] => i = j
        BY DEF Types, EType, Owners
      <4>2. \A f : (\E i \in 1..Len(Tail(qsock)) : Tail(qsock)[i] = f)
                       <=> (\E i \in 1..Len(qsock) : qsock[i] = f) /\ f # g
        BY <2>3, <4>1, InTail
      <4> QED
        BY <3>1, <4>2 DEF InQueue
    <3>4. \A i, j \in 1..Len(qsock') : qsock'[i] = qsock'[j] => i = j
      BY <2>3, <3>1, DistinctTail DEF Owners, Types, EType
    <3>5. \A f \in Fds : WithWorker(f)' <=> WithWorker(f) \/ f = g
      BY <2>1, <3>1, <3>2, ServiceAssumption DEF WithWorker, Types, WType, None
    <3>6. Open' = Open /\ \A f : InBatch(f)' <=> InBatch(f)
      BY <2>1 DEF Open, InBatch
    <3>7. g \notin armed /\ ~InBatch(g) /\ ~WithWorker(g) /\ g # None
      BY <3>2, ServiceAssumption DEF Owners, None
    <3>8. \A u, v \in Workers : wfd'[u] = wfd'[v] /\ wfd'[u] # None => u = v
      BY <3>1, <3>7 DEF Owners, WithWorker, Types, WType
    <3>9. \A v \in Workers : wfd'[v] = None <=> wpc'[v] \in {"fetch", "asleep"}
      BY <3>1, <3>7 DEF Owners, Types, WType
    <3> HIDE DEF g
    <3> QED
      BY <2>1, <3>2, <3>3, <3>4, <3>5, <3>6, <3>7, <3>8, <3>9 DEF Owners
  <2> QED
    BY <2>2, <2>3
<1>12. ASSUME NEW w \in Workers, RecvHead(w) PROVE Owners'
  <2>1. wpc[w] \notin {"fetch", "asleep"} /\ UNCHANGED <<armed, batch, qsock, backlog>>
    BY <1>12 DEF RecvHead, At
  <2>2. CASE UNCHANGED <<peer, wfd>> /\ \E pc \in {"app", "body"} : Goto(w, pc)
    BY <2>1, <2>2, OwnersStay DEF Goto, Types, WType
  <2>3. CASE Close(w)
    BY <2>1, <2>3, OwnersClose
  <2> QED
    BY <1>12, <2>2, <2>3 DEF RecvHead, Fails
<1>13. ASSUME NEW w \in Workers, RecvHalf(w) PROVE Owners'
  <2>1. wpc[w] \notin {"fetch", "asleep"} /\ UNCHANGED <<armed, batch, qsock, backlog>>
    BY <1>13 DEF RecvHalf, At
  <2>2. CASE UNCHANGED <<peer, wfd>> /\ \E pc \in {"app", "body"} : Goto(w, pc)
    BY <2>1, <2>2, OwnersStay DEF Goto, Types, WType
  <2>3. CASE Close(w)
    BY <2>1, <2>3, OwnersClose
  <2> QED
    BY <1>13, <2>2, <2>3 DEF RecvHalf, Fails
<1>14. ASSUME NEW w \in Workers, RecvJunk(w) PROVE Owners'
  <2>1. wpc[w] \notin {"fetch", "asleep"} /\ UNCHANGED <<armed, batch, qsock, backlog>>
    BY <1>14 DEF RecvJunk, At
  <2>2. CASE UNCHANGED <<peer, wfd>> /\ \E pc \in {"app", "body"} : Goto(w, pc)
    BY <2>1, <2>2, OwnersStay DEF Goto, Types, WType
  <2>3. CASE Close(w)
    BY <2>1, <2>3, OwnersClose
  <2> QED
    BY <1>14, <2>2, <2>3 DEF RecvJunk, Fails
<1>15. ASSUME NEW w \in Workers, RecvBody(w) PROVE Owners'
  <2>1. wpc[w] \notin {"fetch", "asleep"} /\ UNCHANGED <<armed, batch, qsock, backlog>>
    BY <1>15 DEF RecvBody, At
  <2>2. CASE UNCHANGED <<peer, wfd>> /\ \E pc \in {"app", "body"} : Goto(w, pc)
    BY <2>1, <2>2, OwnersStay DEF Goto, Types, WType
  <2>3. CASE Close(w)
    BY <2>1, <2>3, OwnersClose
  <2> QED
    BY <1>15, <2>2, <2>3 DEF RecvBody, Fails
<1>16. ASSUME NEW w \in Workers, ServiceApp(w) PROVE Owners'
  <2>1. wpc[w] \notin {"fetch", "asleep"}
    BY <1>16 DEF ServiceApp, At
  <2> QED
    BY <1>16, <2>1, OwnersStay DEF ServiceApp, Answers, Handle, Goto, Types, WType
<1>17. ASSUME NEW w \in Workers, Send(w) PROVE Owners'
  <2>1. wpc[w] \notin {"fetch", "asleep"}
    BY <1>17 DEF Send, At
  <2> QED
    BY <1>17, <2>1, OwnersStay DEF Send, Goto, Types, WType
<1>18. ASSUME NEW w \in Workers, SendFails(w) PROVE Owners'
  BY <1>18, OwnersClose DEF SendFails, At
<1>19. ASSUME NEW w \in Workers, FreeSocket(w) PROVE Owners'
  <2> DEFINE g == wfd[w]
  <2>1. g \in Fds /\ g # None /\ g \in Open /\ WithWorker(g)
    BY <1>19, ConnOf DEF FreeSocket, At
  <2>2. armed' = armed \cup {g} /\ wfd' = [wfd EXCEPT ![w] = None] /\ wpc' = [wpc EXCEPT ![w] = "fetch"]
        /\ UNCHANGED <<peer, batch, qsock, backlog>>
    BY <1>19 DEF FreeSocket, Rearm, Goto
  <2>3. \A f \in Fds : WithWorker(f)' <=> WithWorker(f) /\ f # g
    <3>1. \A v \in Workers : wfd'[v] = IF v = w THEN None ELSE wfd[v]
      BY <2>2 DEF Types, WType
    <3>2. \A v \in Workers : v # w => wfd[v] # g
      BY <2>1 DEF Owners
    <3>3. \A f \in Fds : f # None
      BY ServiceAssumption DEF None
    <3> QED
      BY <3>1, <3>2, <3>3 DEF WithWorker
  <2>4. Open' = Open /\ \A f : (InBatch(f)' <=> InBatch(f)) /\ (InQueue(f)' <=> InQueue(f))
    BY <2>2 DEF Open, InBatch, InQueue
  <2>5. ~InBatch(g) /\ ~InQueue(g)
    BY <2>1 DEF Owners
  <2>6. \A u, v \in Workers : wfd'[u] = wfd'[v] /\ wfd'[u] # None => u = v
    BY <2>2 DEF Owners, Types, WType
  <2>7. \A v \in Workers : wfd'[v] = None <=> wpc'[v] \in {"fetch", "asleep"}
    BY <2>2 DEF Owners, Types, WType
  <2>8. \A i, j \in 1..Len(qsock') : qsock'[i] = qsock'[j] => i = j
    BY <2>2 DEF Owners
  <2> HIDE DEF g
  <2> QED
    BY <2>1, <2>2, <2>3, <2>4, <2>5, <2>6, <2>7, <2>8 DEF Owners
<1>20. ASSUME NEW w \in Workers, SendStalls(w) PROVE Owners'
  BY <1>20, OwnersStay DEF SendStalls
<1>21. CASE UNCHANGED vars
  BY <1>21, OwnersStay DEF vars
<1> QED
  BY <1>1, <1>2, <1>3, <1>4, <1>5, <1>6, <1>7, <1>8, <1>9, <1>10, <1>11, <1>12, <1>13, <1>14, <1>15, <1>16, <1>17, <1>18, <1>19, <1>20, <1>21 DEF Next, Client, Main, HandleEvent, Worker, Recv

\* A set with at most one element.
LEMMA AtMostOne ==
  ASSUME NEW S, \A x, y \in S : x = y
  PROVE  Cardinality(S) = IF S = {} THEN 0 ELSE 1
<1>1. CASE S = {}
  BY <1>1, FS_EmptySet
<1>2. CASE S # {}
  <2>1. PICK x \in S : TRUE
    BY <1>2
  <2>2. S = {x}
    BY <2>1
  <2> QED
    BY <2>2, FS_Singleton
<1> QED
  BY <1>1, <1>2

\* The owners, counted.
LEMMA OwnersCounted ==
  ASSUME Types, Owners, NEW f \in Fds
  PROVE  Cardinality({x \in {"epoll"} : f \in armed})
           + Cardinality({e \in batch : e.fd = f})
           + Cardinality({i \in DOMAIN qsock : qsock[i] = f})
           + Cardinality({w \in Workers : wfd[w] = f}) = (IF f \in Open THEN 1 ELSE 0)
<1> DEFINE A == {x \in {"epoll"} : f \in armed}
           B == {e \in batch : e.fd = f}
           Q == {i \in DOMAIN qsock : qsock[i] = f}
           W == {w \in Workers : wfd[w] = f}
<1>1. DOMAIN qsock = 1..Len(qsock)
  BY LenProperties DEF Types, EType
<1>2. f # None
  BY ServiceAssumption DEF None
<1>3. (A = {} <=> f \notin armed) /\ Cardinality(A) = IF A = {} THEN 0 ELSE 1
  <2>1. A = {} <=> f \notin armed
    OBVIOUS
  <2> QED
    BY <2>1, AtMostOne
<1>4. (B = {} <=> ~InBatch(f)) /\ Cardinality(B) = IF B = {} THEN 0 ELSE 1
  <2>1. \A x, y \in B : x = y
    BY DEF Owners
  <2>2. B = {} <=> ~InBatch(f)
    BY DEF InBatch
  <2> QED
    BY <2>1, <2>2, AtMostOne
<1>5. (Q = {} <=> ~InQueue(f)) /\ Cardinality(Q) = IF Q = {} THEN 0 ELSE 1
  <2>1. \A x, y \in Q : x = y
    BY <1>1 DEF Owners
  <2>2. Q = {} <=> ~InQueue(f)
    BY <1>1 DEF InQueue
  <2> QED
    BY <2>1, <2>2, AtMostOne
<1>6. (W = {} <=> ~WithWorker(f)) /\ Cardinality(W) = IF W = {} THEN 0 ELSE 1
  <2>1. \A x, y \in W : x = y
    BY <1>2 DEF Owners
  <2>2. W = {} <=> ~WithWorker(f)
    BY DEF WithWorker
  <2> QED
    BY <2>1, <2>2, AtMostOne
<1> HIDE DEF A, B, Q, W
<1>7. Cardinality(A) + Cardinality(B) + Cardinality(Q) + Cardinality(W) = (IF f \in Open THEN 1 ELSE 0)
  BY <1>3, <1>4, <1>5, <1>6 DEF Owners
<1> QED
  BY <1>7 DEF A, B, Q, W

\* The types used here give those of the specification.
LEMMA TypesGive == Types => TypeOK
<1> SUFFICES ASSUME Types
             PROVE  TypeOK
  OBVIOUS
<1>1. \A c \in Conns : \A i \in DOMAIN stream[c] : stream[c][i] \in Pieces
  BY LenProperties, ElementOfSeq DEF Types, CType
<1>2. \A c \in Conns : \A i \in DOMAIN out[c] : out[c][i] \in Texts
  BY LenProperties, ElementOfSeq DEF Types, CType
<1>3. \A i \in DOMAIN mqueue : mqueue[i] \in Reqs
  BY LenProperties, ElementOfSeq DEF Types, WType
<1>4. ans \in [Reqs -> {"none", "OK", "ERROR", "garbled"}] /\ rep \in [Workers -> {"none", "OK", "ERROR", "garbled"}]
  BY DEF Types, CType, WType, Texts
<1>5. {down, slow} \subseteq BOOLEAN
  BY DEF Types, WType
<1> QED
  BY <1>1, <1>2, <1>3, <1>4, <1>5 DEF Types, CType, EType, WType, TypeOK, Pieces, Texts

\* Steps that leave the queue alone and wake nobody but into fetch_socket.
LEMMA WakersStay ==
  ASSUME Types, NoneOversleeps, UNCHANGED qsock,
         \A w \in Workers : wpc[w] = "fetch" => wpc'[w] = "fetch",
         \A w \in Workers : wpc'[w] = "asleep" => wpc[w] = "asleep"
  PROVE  NoneOversleeps'
<1> DEFINE F == {w \in Workers : wpc[w] = "fetch"}
           G == {w \in Workers : wpc'[w] = "fetch"}
<1>1. F \subseteq G /\ G \subseteq Workers /\ IsFiniteSet(Workers)
  BY ServiceAssumption
<1>2. IsFiniteSet(G) /\ IsFiniteSet(F) /\ Cardinality(F) <= Cardinality(G) /\ Cardinality(F) \in Nat /\ Cardinality(G) \in Nat
  BY <1>1, FS_Subset, FS_CardinalityType
<1>3. Len(qsock') = Len(qsock) /\ Len(qsock) \in Nat
  BY LenProperties DEF Types, EType
<1> HIDE DEF F, G
<1>4. (\E w \in Workers : wpc[w] = "asleep") => Len(qsock) <= Cardinality(F)
  BY DEF NoneOversleeps, F
<1>5. (\E w \in Workers : wpc'[w] = "asleep") => Len(qsock') <= Cardinality(G)
  BY <1>2, <1>3, <1>4
<1> QED
  BY <1>5 DEF NoneOversleeps, G

\* Every step keeps that no sleeping thread is needed: a push that lengthens the queue wakes
\* one, a thread falls asleep only on an empty queue.
LEMMA WakersStep ==
  ASSUME Types, NoneOversleeps, [Next]_vars
  PROVE  NoneOversleeps'
<1> USE DEF cVars, eVars, wVars, netVars
<1>1. CASE Connect
  BY <1>1, WakersStay DEF Connect
<1>2. ASSUME NEW c \in Conns, NEW k \in Kinds, SendHalf(c, k) PROVE NoneOversleeps'
  BY <1>2, WakersStay DEF SendHalf, Sends
<1>3. ASSUME NEW c \in Conns, SendRest(c) PROVE NoneOversleeps'
  BY <1>3, WakersStay DEF SendRest, Sends
<1>4. ASSUME NEW c \in Conns, SendBody(c) PROVE NoneOversleeps'
  BY <1>4, WakersStay DEF SendBody, Sends
<1>5. ASSUME NEW c \in Conns, ReadReply(c) PROVE NoneOversleeps'
  BY <1>5, WakersStay DEF ReadReply
<1>6. ASSUME NEW c \in Conns, HangUp(c) PROVE NoneOversleeps'
  BY <1>6, WakersStay DEF HangUp
<1>7. CASE EpollWait
  BY <1>7, WakersStay DEF EpollWait, Disarm
<1>8. ASSUME NEW e \in batch, Accept(e) PROVE NoneOversleeps'
  BY <1>8, WakersStay DEF Accept
<1>9. ASSUME NEW e \in batch, CloseHup(e) PROVE NoneOversleeps'
  BY <1>9, WakersStay DEF CloseHup
<1>10. ASSUME NEW e \in batch, Push(e) PROVE NoneOversleeps'
  <2>1. CASE \E w \in Workers : wpc[w] = "asleep"
    <3>1. PICK w \in Workers : wpc[w] = "asleep" /\ wpc' = [wpc EXCEPT ![w] = "fetch"]
      BY <1>10, <2>1 DEF Push, Signal
    <3> DEFINE F == {v \in Workers : wpc[v] = "fetch"}
               G == {v \in Workers : wpc'[v] = "fetch"}
    <3>2. G = F \cup {w} /\ w \notin F
      BY <3>1 DEF Types, WType
    <3>3. IsFiniteSet(F) /\ Cardinality(F) \in Nat
      BY ServiceAssumption, FS_Subset, FS_CardinalityType
    <3>4. Cardinality(F \cup {w}) = Cardinality(F) + 1
      BY <3>2, <3>3, FS_AddElement
    <3>5. e.fd \in Fds /\ qsock \in Seq(Fds) /\ qsock' = Append(qsock, e.fd)
      BY <1>10 DEF Push, Types, EType
    <3>6. Len(qsock') = Len(qsock) + 1 /\ Len(qsock) \in Nat
      BY <3>5, AppendProperties, LenProperties
    <3>7. Len(qsock) <= Cardinality(F)
      BY <2>1 DEF NoneOversleeps
    <3> HIDE DEF F, G
    <3>8. Len(qsock') <= Cardinality(G)
      BY <3>2, <3>3, <3>4, <3>6, <3>7
    <3> QED
      BY <3>8 DEF NoneOversleeps, G
  <2>2. CASE ~\E w \in Workers : wpc[w] = "asleep"
    BY <1>10, <2>2 DEF Push, Signal, NoneOversleeps
  <2> QED
    BY <2>1, <2>2
<1>11. ASSUME NEW w \in Workers, Fetch(w) PROVE NoneOversleeps'
  <2>1. IsFiniteSet({v \in Workers : wpc'[v] = "fetch"}) /\ Cardinality({v \in Workers : wpc'[v] = "fetch"}) \in Nat
    BY ServiceAssumption, FS_Subset, FS_CardinalityType
  <2>2. CASE qsock = <<>>
    <3>1. Len(qsock') = 0
      BY <1>11, <2>2, EmptySeq DEF Fetch
    <3> QED
      BY <2>1, <3>1 DEF NoneOversleeps
  <2>3. CASE qsock # <<>>
    <3> DEFINE F == {v \in Workers : wpc[v] = "fetch"}
               G == {v \in Workers : wpc'[v] = "fetch"}
    <3>1. wpc' = [wpc EXCEPT ![w] = "head"] /\ qsock' = Tail(qsock) /\ wpc[w] = "fetch"
      BY <1>11, <2>3 DEF Fetch, Goto, At
    <3>2. G = F \ {w} /\ w \in F
      BY <3>1 DEF Types, WType
    <3>3. IsFiniteSet(F) /\ Cardinality(F) \in Nat
      BY ServiceAssumption, FS_Subset, FS_CardinalityType
    <3>4. Cardinality(F \ {w}) = Cardinality(F) - 1
      BY <3>2, <3>3, FS_RemoveElement
    <3>5. Len(qsock') = Len(qsock) - 1 /\ Len(qsock) \in Nat
      BY <2>3, <3>1, HeadTailProperties, LenProperties DEF Types, EType
    <3>6. (\E v \in Workers : wpc'[v] = "asleep") => Len(qsock) <= Cardinality(F)
      BY <3>1 DEF NoneOversleeps, Types, WType
    <3> HIDE DEF F, G
    <3>7. (\E v \in Workers : wpc'[v] = "asleep") => Len(qsock') <= Cardinality(G)
      BY <3>2, <3>3, <3>4, <3>5, <3>6
    <3> QED
      BY <3>7 DEF NoneOversleeps, G
  <2> QED
    BY <2>2, <2>3
<1>12. ASSUME NEW w \in Workers, RecvHead(w) PROVE NoneOversleeps'
  BY <1>12, WakersStay DEF At, Types, WType, RecvHead, Goto, Fails, Close
<1>13. ASSUME NEW w \in Workers, RecvHalf(w) PROVE NoneOversleeps'
  BY <1>13, WakersStay DEF At, Types, WType, RecvHalf, Goto, Fails, Close
<1>14. ASSUME NEW w \in Workers, RecvJunk(w) PROVE NoneOversleeps'
  BY <1>14, WakersStay DEF At, Types, WType, RecvJunk, Goto, Fails, Close
<1>15. ASSUME NEW w \in Workers, RecvBody(w) PROVE NoneOversleeps'
  BY <1>15, WakersStay DEF At, Types, WType, RecvBody, Goto, Fails, Close
<1>16. ASSUME NEW w \in Workers, ServiceApp(w) PROVE NoneOversleeps'
  BY <1>16, WakersStay DEF At, Types, WType, ServiceApp, Answers, Handle, Goto
<1>17. ASSUME NEW w \in Workers, Send(w) PROVE NoneOversleeps'
  BY <1>17, WakersStay DEF At, Types, WType, Send, Goto
<1>18. ASSUME NEW w \in Workers, SendFails(w) PROVE NoneOversleeps'
  BY <1>18, WakersStay DEF At, Types, WType, SendFails, Close, Goto
<1>19. ASSUME NEW w \in Workers, FreeSocket(w) PROVE NoneOversleeps'
  BY <1>19, WakersStay DEF At, Types, WType, FreeSocket, Rearm, Goto
<1>20. ASSUME NEW w \in Workers, SendStalls(w) PROVE NoneOversleeps'
  BY <1>20, WakersStay DEF SendStalls
<1>21. CASE UNCHANGED vars
  BY <1>21, WakersStay DEF vars
<1> QED
  BY <1>1, <1>2, <1>3, <1>4, <1>5, <1>6, <1>7, <1>8, <1>9, <1>10, <1>11, <1>12, <1>13, <1>14, <1>15, <1>16, <1>17, <1>18, <1>19, <1>20, <1>21 DEF Next, Client, Main, HandleEvent, Worker, Recv

-----------------------------------------------------------------------------
\* The inductive invariant of the event queue and of the service threads.
EquInv == Types /\ Reps /\ Owners /\ NoneOversleeps

\* A server that starts holds no descriptor, and none of its threads sleeps.
LEMMA EquInit == Init => EquInv
<1> SUFFICES ASSUME Init PROVE EquInv
  OBVIOUS
<1> USE DEF Init
<1>1. CType
  <2>1. <<>> \in Seq(Conns) /\ <<>> \in Seq([kind : Kinds, conn : Conns])
        /\ <<>> \in Seq(Pieces) /\ <<>> \in Seq(Texts)
    BY EmptySeq
  <2>2. Len(reqs) = 0 /\ conns \in 0..MaxConns
    BY EmptySeq, ServiceAssumption
  <2> QED
    BY <2>1, <2>2, ServiceAssumption DEF CType
<1>2. EType
  <2>1. <<>> \in Seq(Fds)
    BY EmptySeq
  <2> QED
    BY <2>1 DEF EType
<1>3. WType
  <2>1. <<>> \in Seq(Reqs)
    BY EmptySeq
  <2> QED
    BY <2>1 DEF WType
<1>4. Reps
  BY DEF Reps
<1>5. Owners
  <2>1. 1..Len(qsock) = {} /\ Len(qsock) = 0
    BY EmptySeq
  <2>2. \A f \in Fds : f # None
    BY ServiceAssumption DEF None
  <2> QED
    BY <2>1, <2>2 DEF Owners, Open, InBatch, InQueue, WithWorker
<1>6. NoneOversleeps
  BY DEF NoneOversleeps
<1> QED
  BY <1>1, <1>2, <1>3, <1>4, <1>5, <1>6 DEF EquInv, Types

\* The invariant holds in every state.
LEMMA EquAlways == Spec => []EquInv
<1>1. EquInv /\ [Next]_vars => EquInv'
  BY CTypeStep, ETypeStep, WTypeStep, RepsStep, OwnersStep, WakersStep DEF EquInv, Types
<1> QED
  BY <1>1, EquInit, PTL DEF Spec

\* equeue's one-shot events: at every moment an open connection is in the hands of exactly
\* one party -- epoll, the main thread's batch, the queue or one service thread -- and a
\* closed descriptor is in nobody's, for any number of descriptors, threads and clients.
THEOREM OneOwnerAlways == Spec => []OneOwner
<1>1. EquInv => OneOwner
  <2> SUFFICES ASSUME EquInv PROVE OneOwner
    OBVIOUS
  <2>1. Types /\ Owners
    BY DEF EquInv
  <2>2. TypeOK
    BY <2>1, TypesGive
  <2> QED
    BY <2>1, <2>2, OwnersCounted DEF OneOwner
<1> QED
  BY <1>1, EquAlways, PTL

\* fetch_socket and the push under one mutex lose no wake-up: while a service thread sleeps
\* in pthread_cond_wait, every waiting socket has another thread on its way to it.
THEOREM NoLostWakeup == Spec => []NoneOversleeps
<1>1. EquInv => NoneOversleeps
  BY DEF EquInv
<1> QED
  BY <1>1, EquAlways, PTL

-----------------------------------------------------------------------------
(***************************************************************************)
(* Proofs about what the service threads do with the requests: an OK that  *)
(* a client reads means that its message is in the queue, and, as long as  *)
(* no socket call has timed out, the queue holds every message once.       *)
(*                                                                         *)
(* Neither is inductive: the answer a client reads was written by a        *)
(* thread that took a request out of its buffer, which it may have         *)
(* received in three pieces.  The invariant follows the request on its     *)
(* way (Link): while the server has not closed a connection and no xrecv   *)
(* failed on it, its stream, the head and body in the buffer of the thread *)
(* that serves it, and its unread answer are all of the one request its    *)
(* client waits for.  A step touches one connection; Same and the lemmas   *)
(* about it carry the links of the others over.                            *)
(***************************************************************************)

(***************************************************************************)
(* The protocol.  For a connection that is not misled, what lies in its    *)
(* stream, what its client waits for and what its service thread does      *)
(* belong to the same request.                                             *)
(***************************************************************************)
\* Connections are accepted once.
Fresh ==
  /\ \A i \in 1..Len(backlog) : backlog[i] <= conns
  /\ \A i, j \in 1..Len(backlog) : backlog[i] = backlog[j] => i = j
  /\ \A f \in Open : peer[f] <= conns /\ \A i \in 1..Len(backlog) : backlog[i] # peer[f]
  /\ \A f, g \in Open : peer[f] = peer[g] => f = g

\* A request in the queue; a thread that has a connection's socket, and that is at a request.
InMq(r) == \E i \in 1..Len(mqueue) : mqueue[i] = r
Serves(w, c) == wfd[w] # None /\ peer[wfd[w]] = c
Works(w, c) == Serves(w, c) /\ wpc[w] \in {"body", "app", "send"}
Busy(c) == \E w \in Workers : Works(w, c)

\* A client asks one request at a time.
Asks ==
  /\ \A c \in Conns : cpc[c] = "idle" => Pending(c) = {}
  /\ \A c \in Conns : \A r, s \in Pending(c) : r = s
  /\ \A c \in Conns : cpc[c] = "head" => \A r \in Pending(c) : reqs[r].kind # "empty"

\* Requests are numbered as they are sent.
Sent(r) == r <= Len(reqs)
Numbers ==
  /\ \A r \in Reqs : ~Sent(r) => ans[r] = "none"
  /\ \A i \in 1..Len(mqueue) : Sent(mqueue[i])
  /\ \A w \in Workers : Sent(bd[w])
  /\ \A c \in Conns : \A i \in 1..Len(stream[c]) : Sent(stream[c][i].req)

\* The threads that receive have not failed.
Unfailed == \A w \in Workers : wpc[w] \in {"head", "body"} => ~failed[w]

\* xrecv failed on the connection and the application ran or will run nevertheless.
Dirty(c) == c \in misled \/ \E w \in Workers : Works(w, c) /\ wpc[w] = "app" /\ failed[w]

\* The server has not closed it.
Attached(c) == c > conns \/ (\E f \in Open : peer[f] = c) \/ \E i \in 1..Len(backlog) : backlog[i] = c

\* Nothing but the pending request is under way.
Unread(c) ==
  /\ Len(stream[c]) <= 3
  /\ cpc[c] = "half" => Len(stream[c]) = 1
  /\ cpc[c] = "head" => Len(stream[c]) = 2
  /\ \A r \in Pending(c) :
       /\ cpc[c] = "wait" /\ out[c] = <<>> => Len(stream[c]) = IF reqs[r].kind = "empty" THEN 2 ELSE 3
       /\ Len(stream[c]) = 3 => reqs[r].kind # "empty"

\* What an OK promises.
Acked(r) == reqs[r].kind = "empty" \/ InMq(r)

\* A thread at work: its buffer holds the pending request.
Serving(w, c) ==
  /\ wpc[w] = "body" =>
       /\ hd[w] \in Pending(c) /\ reqs[hd[w]].kind = "message"
       /\ Len(stream[c]) <= 1 /\ cpc[c] \in {"head", "wait", "gone"}
       /\ cpc[c] = "head" => stream[c] = <<>>
  /\ wpc[w] \in {"app", "send"} => stream[c] = <<>> /\ cpc[c] \in {"wait", "gone"}
  /\ wpc[w] = "app" =>
       /\ hd[w] \in Pending(c)
       /\ reqs[hd[w]].kind = "empty" \/ (reqs[hd[w]].kind = "message" /\ bd[w] = hd[w])
  /\ wpc[w] = "send" /\ rep[w] = "OK" => \A r \in Pending(c) : Acked(r)

\* A connection in good form.
Form(c) ==
  /\ \A i \in 1..Len(stream[c]) : stream[c][i].req \in Pending(c)
  /\ ~Busy(c) => Unread(c)
  /\ cpc[c] = "idle" \/ out[c] # <<>> => stream[c] = <<>> /\ ~Busy(c)
  /\ \A w \in Workers : Works(w, c) => Serving(w, c)

\* An answer that is not read yet is that of the pending request.
OutOk(c) ==
  c \notin misled /\ out[c] # <<>> =>
    /\ Len(out[c]) = 1 /\ cpc[c] \in {"wait", "gone"} /\ ~Busy(c)
    /\ out[c][1] = "OK" => \A r \in Pending(c) : Acked(r)

\* What holds of every connection: as long as it is open and no xrecv failed on it, it is in form.
Link(c) == (Attached(c) /\ ~Dirty(c) => Form(c)) /\ OutOk(c)
Links == \A c \in Conns : Link(c)

\* The process lives, or it died of a message that was received whole.
Lives == down => \E w \in Workers : OwnDeath(w)

\* As long as no socket call timed out.
Calm ==
  /\ \A w \in Workers : ~again[w] /\ (wpc[w] = "app" => ~failed[w]) /\ rep[w] # "garbled"
  /\ misled = {} /\ Lives
  /\ \A c \in Conns : \A i \in 1..Len(out[c]) : out[c][i] # "garbled"
  /\ \A r \in Reqs : ans[r] # "garbled"

\* The pending request of the connection is not handed on yet.
Unserved(c) ==
  \/ cpc[c] \in {"half", "head"} \/ stream[c] # <<>>
  \/ \E w \in Workers : Works(w, c) /\ wpc[w] \in {"body", "app"}
NotYet(c) == Unserved(c) => \A r \in Pending(c) : ~InMq(r)
Once ==
  /\ \A i, j \in 1..Len(mqueue) : mqueue[i] = mqueue[j] => i = j
  /\ \A c \in Conns : NotYet(c)

\* Both hold until the first time-out.
CalmOnce == ~slow => Calm /\ Once

-----------------------------------------------------------------------------
\* The requests a client waits for change only when it asks or reads the answer.
LEMMA PendingSame ==
  ASSUME UNCHANGED <<reqs, ans>>
  PROVE  \A c : Pending(c)' = Pending(c)
BY DEF Pending

\* A client that asks has one request more to wait for; no other client has.
LEMMA PendingHalf ==
  ASSUME Types, Numbers, NEW c \in Conns, NEW k \in Kinds, SendHalf(c, k)
  PROVE  /\ Len(reqs) + 1 \in Reqs /\ Len(reqs') = Len(reqs) + 1 /\ Len(reqs) \in Nat
         /\ Pending(c)' = Pending(c) \cup {Len(reqs) + 1}
         /\ \A d \in Conns : d # c => Pending(d)' = Pending(d)
         /\ \A r \in 1..Len(reqs) : reqs'[r] = reqs[r]
         /\ \A d \in Conns : Pending(d) \subseteq 1..Len(reqs)
<1>1. /\ reqs' = Append(reqs, [kind |-> k, conn |-> c]) /\ ans' = ans /\ Len(reqs) < MaxReqs
      /\ reqs \in Seq([kind : Kinds, conn : Conns])
  BY DEF SendHalf, Sends, Types, CType
<1>2. /\ Len(reqs) \in Nat /\ DOMAIN reqs = 1..Len(reqs)
      /\ Len(reqs') = Len(reqs) + 1 /\ DOMAIN reqs' = 1..(Len(reqs) + 1)
      /\ reqs'[Len(reqs) + 1] = [kind |-> k, conn |-> c]
      /\ \A r \in 1..Len(reqs) : reqs'[r] = reqs[r]
  BY <1>1, AppendProperties, LenProperties
<1>3. Len(reqs) + 1 \in Reqs
  BY <1>1, <1>2, ServiceAssumption DEF Reqs
<1>4. ans[Len(reqs) + 1] = "none"
  BY <1>2, <1>3 DEF Numbers, Sent
<1>5. \A r \in DOMAIN reqs' : r \in 1..Len(reqs) \/ r = Len(reqs) + 1
  BY <1>2
<1>6. 1..Len(reqs) \subseteq DOMAIN reqs' /\ Len(reqs) + 1 \in DOMAIN reqs' /\ Len(reqs) + 1 \notin 1..Len(reqs)
  BY <1>2
<1>7. \A d \in Conns : \A r : r \in Pending(d)' <=> r \in DOMAIN reqs' /\ reqs'[r].conn = d /\ ans[r] = "none"
  BY <1>1 DEF Pending
<1>8. \A d \in Conns : \A r : r \in Pending(d) <=> r \in 1..Len(reqs) /\ reqs[r].conn = d /\ ans[r] = "none"
  BY <1>2 DEF Pending
<1>9. Pending(c)' = Pending(c) \cup {Len(reqs) + 1}
  BY <1>2, <1>4, <1>5, <1>6, <1>7, <1>8
<1>10. \A d \in Conns : d # c => Pending(d)' = Pending(d)
  <2> SUFFICES ASSUME NEW d \in Conns, d # c PROVE Pending(d)' = Pending(d)
    OBVIOUS
  <2>1. ASSUME NEW r PROVE r \in Pending(d)' <=> r \in Pending(d)
    BY <1>2, <1>5, <1>6, <1>7, <1>8
  <2> QED
    BY <2>1
<1> QED
  BY <1>2, <1>3, <1>8, <1>9, <1>10

\* A client that reads its answer waits for nothing more; the others wait as before.
LEMMA PendingRead ==
  ASSUME Types, Asks, NEW c \in Conns, ReadReply(c)
  PROVE  /\ Pending(c)' = {}
         /\ \A d \in Conns : d # c => Pending(d)' = Pending(d)
         /\ \E r \in Pending(c) : ans' = [ans EXCEPT ![r] = Head(out[c])]
<1>1. PICK r \in Pending(c) : ans' = [ans EXCEPT ![r] = Head(out[c])]
  BY DEF ReadReply
<1>2. reqs' = reqs
  BY DEF ReadReply
<1>3. DOMAIN reqs \subseteq Reqs /\ Head(out[c]) # "none"
  <2>1. DOMAIN reqs = 1..Len(reqs) /\ Len(reqs) \in Nat /\ Len(reqs) <= MaxReqs
    BY LenProperties DEF Types, CType
  <2>2. out[c] \in Seq(Texts) /\ out[c] # <<>>
    BY DEF ReadReply, Types, CType
  <2>3. Head(out[c]) \in Texts
    BY <2>2, HeadTailProperties
  <2> QED
    BY <2>1, <2>3, ServiceAssumption DEF Reqs, Texts
<1>4. \A s \in DOMAIN reqs : ans'[s] = "none" <=> ans[s] = "none" /\ s # r
  BY <1>1, <1>3 DEF Types, CType
<1>5. \A d : \A s : s \in Pending(d)' <=> s \in Pending(d) /\ s # r
  BY <1>2, <1>4 DEF Pending
<1>6. \A d \in Conns : d # c => r \notin Pending(d)
  BY <1>1 DEF Pending
<1>7. \A s \in Pending(c) : s = r
  BY DEF Asks
<1>8. Pending(c)' = {}
  BY <1>5, <1>7
<1>9. ASSUME NEW d \in Conns, d # c PROVE Pending(d)' = Pending(d)
  BY <1>5, <1>6, <1>9
<1> QED
  BY <1>1, <1>8, <1>9

\* What a client's send does to its stream.
LEMMA SendsFacts ==
  ASSUME Types, NEW c \in Conns, NEW p \in {"half", "rest", "body"}, NEW r \in Reqs, NEW q, Sends(c, p, r, q)
  PROVE  /\ Len(stream'[c]) = Len(stream[c]) + 1 /\ Len(stream[c]) \in Nat /\ stream'[c] # <<>>
         /\ \A i \in 1..Len(stream'[c]) :
              stream'[c][i].req = r \/ (i \in 1..Len(stream[c]) /\ stream'[c][i] = stream[c][i])
         /\ \A d \in Conns : d # c => stream'[d] = stream[d] /\ cpc'[d] = cpc[d]
         /\ cpc'[c] = q
<1>1. Piece(p, r) \in Pieces /\ stream[c] \in Seq(Pieces) /\ stream'[c] = Append(stream[c], Piece(p, r))
  BY DEF Piece, Pieces, Types, CType, Sends
<1>2. /\ Len(stream'[c]) = Len(stream[c]) + 1 /\ Len(stream[c]) \in Nat
      /\ stream'[c][Len(stream[c]) + 1] = Piece(p, r)
      /\ \A i \in 1..Len(stream[c]) : stream'[c][i] = stream[c][i]
  BY <1>1, AppendProperties, LenProperties
<1>3. \A i \in 1..Len(stream'[c]) : i \in 1..Len(stream[c]) \/ i = Len(stream[c]) + 1
  BY <1>2
<1>4. stream'[c] # <<>>
  BY <1>2, EmptySeq
<1>5. Piece(p, r).req = r
  BY DEF Piece
<1>6. (\A d \in Conns : d # c => stream'[d] = stream[d] /\ cpc'[d] = cpc[d]) /\ cpc'[c] = q
  BY DEF Sends, Types, CType
<1> QED
  BY <1>2, <1>3, <1>4, <1>5, <1>6

\* What receiving n pieces leaves.
LEMMA CutFacts ==
  ASSUME Types, Owners, NEW w \in Workers, wpc[w] \notin {"fetch", "asleep"}, NEW n \in Nat,
         n <= Len(stream[Conn(w)]), Receives(w, n)
  PROVE  /\ Len(stream'[Conn(w)]) = Len(stream[Conn(w)]) - n
         /\ \A i \in 1..Len(stream'[Conn(w)]) :
              i + n \in 1..Len(stream[Conn(w)]) /\ stream'[Conn(w)][i] = stream[Conn(w)][i + n]
         /\ \A d \in Conns : d # Conn(w) => stream'[d] = stream[d]
<1> DEFINE s == stream[Conn(w)]
<1>1. Conn(w) \in Conns
  BY ConnOf
<1>2. s \in Seq(Pieces) /\ stream' = [stream EXCEPT ![Conn(w)] = SubSeq(s, n + 1, Len(s))] /\ Len(s) \in Nat
  BY <1>1, LenProperties DEF Types, CType, Receives
<1>3. stream'[Conn(w)] = SubSeq(s, n + 1, Len(s)) /\ \A d \in Conns : d # Conn(w) => stream'[d] = stream[d]
  BY <1>1, <1>2 DEF Types, CType
<1> HIDE DEF s
<1>4. Len(SubSeq(s, n + 1, Len(s))) = Len(s) - n
  BY <1>2 DEF s
<1>5. \A i \in 1..(Len(s) - n) : i + n \in 1..Len(s) /\ SubSeq(s, n + 1, Len(s))[i] = s[i + n]
  BY <1>2 DEF s
<1> QED
  BY <1>3, <1>4, <1>5 DEF s

\* A step that neither connects nor accepts leaves the connections distinct: it only closes.
LEMMA FreshStay ==
  ASSUME Types, Fresh, UNCHANGED <<conns, backlog>>, \A f \in Fds : peer'[f] = peer[f] \/ peer'[f] = None
  PROVE  Fresh'
<1>1. \A f \in Open' : f \in Open /\ peer'[f] = peer[f]
  BY DEF Open
<1> QED
  BY <1>1 DEF Fresh

\* Every step keeps the connections of the backlog and of the descriptors distinct: accept takes each once.
LEMMA FreshStep ==
  ASSUME Types, Owners, Fresh, [Next]_vars
  PROVE  Fresh'
<1> USE ServiceAssumption DEF Types, EType, cVars, eVars, wVars, netVars
<1>1. CASE Connect
  <2>1. /\ conns + 1 \in Conns /\ backlog \in Seq(Conns) /\ backlog' = Append(backlog, conns + 1)
        /\ conns' = conns + 1 /\ conns \in Nat /\ peer' = peer
    BY <1>1, ServiceAssumption DEF Connect, CType, Conns
  <2>2. \A i \in 1..Len(backlog) : backlog[i] # conns + 1 /\ backlog[i] \in Nat
    BY <2>1, ElementOfSeq DEF Fresh, Conns
  <2>3. \A i, j \in 1..Len(backlog') : backlog'[i] = backlog'[j] => i = j
    BY <2>1, <2>2, DistinctAppend DEF Fresh
  <2>4. \A c : (\E i \in 1..Len(backlog') : backlog'[i] = c) <=> (\E i \in 1..Len(backlog) : backlog[i] = c) \/ c = conns + 1
    <3> DEFINE n == conns + 1
    <3>1. n \in Conns /\ backlog \in Seq(Conns) /\ backlog' = Append(backlog, n)
      BY <2>1
    <3> HIDE DEF n
    <3>2. \A c : (\E i \in 1..Len(backlog') : backlog'[i] = c) <=> (\E i \in 1..Len(backlog) : backlog[i] = c) \/ c = n
      BY <3>1, InAppend
    <3> QED
      BY <3>2 DEF n
  <2>5. \A i \in 1..Len(backlog') : backlog'[i] <= conns'
    <3> SUFFICES ASSUME NEW i \in 1..Len(backlog') PROVE backlog'[i] <= conns + 1
      BY <2>1
    <3>1. backlog'[i] = conns + 1 \/ \E j \in 1..Len(backlog) : backlog[j] = backlog'[i]
      BY <2>4
    <3> QED
      BY <2>1, <2>2, <3>1 DEF Fresh
  <2>6. Open' = Open
    BY <2>1 DEF Open
  <2>7. \A f \in Open : peer[f] \in Nat /\ peer[f] <= conns
    BY DEF Fresh, EType, Open, Conns, None
  <2>8. \A f \in Open' : peer'[f] <= conns' /\ \A i \in 1..Len(backlog') : backlog'[i] # peer'[f]
    <3> SUFFICES ASSUME NEW f \in Open PROVE peer[f] <= conns + 1 /\ \A i \in 1..Len(backlog') : backlog'[i] # peer[f]
      BY <2>1, <2>6
    <3>1. peer[f] <= conns + 1 /\ peer[f] # conns + 1
      BY <2>1, <2>7
    <3>2. ~\E i \in 1..Len(backlog) : backlog[i] = peer[f]
      BY DEF Fresh
    <3> QED
      BY <2>4, <3>1, <3>2
  <2> QED
    BY <2>1, <2>3, <2>5, <2>6, <2>8 DEF Fresh
<1>2. ASSUME NEW c \in Conns, NEW k \in Kinds, SendHalf(c, k) PROVE Fresh'
  BY <1>2, FreshStay DEF SendHalf, Sends
<1>3. ASSUME NEW c \in Conns, SendRest(c) PROVE Fresh'
  BY <1>3, FreshStay DEF SendRest, Sends
<1>4. ASSUME NEW c \in Conns, SendBody(c) PROVE Fresh'
  BY <1>4, FreshStay DEF SendBody, Sends
<1>5. ASSUME NEW c \in Conns, ReadReply(c) PROVE Fresh'
  BY <1>5, FreshStay DEF ReadReply
<1>6. ASSUME NEW c \in Conns, HangUp(c) PROVE Fresh'
  BY <1>6, FreshStay DEF HangUp
<1>7. CASE EpollWait
  BY <1>7, FreshStay DEF EpollWait, Disarm
<1>8. ASSUME NEW e \in batch, Accept(e) PROVE Fresh'
  <2>1. CASE Free = {}
    BY <1>8, <2>1, FreshStay DEF Accept
  <2>2. CASE Free # {}
    <3> DEFINE g == Min(Free)
               h == Head(backlog)
    <3>1. /\ g \in Free /\ peer' = [peer EXCEPT ![g] = h]
          /\ backlog' = Tail(backlog) /\ conns' = conns /\ backlog \in Seq(Conns) /\ backlog # <<>>
      BY <1>8, <2>2, LowestFree DEF Accept, CType, Owners, InBatch
    <3>2. g \in Fds /\ g \notin Open
      BY <3>1 DEF Free
    <3>3. \A f \in Fds : peer'[f] = IF f = g THEN h ELSE peer[f]
      BY <3>1 DEF EType
    <3> HIDE DEF g, h
    <3>4. (\E i \in 1..Len(backlog) : backlog[i] = h)
          /\ \A c : (\E i \in 1..Len(backlog') : backlog'[i] = c) <=> (\E i \in 1..Len(backlog) : backlog[i] = c) /\ c # h
      BY <3>1, InTail DEF Fresh, h
    <3>5. \A i, j \in 1..Len(backlog') : backlog'[i] = backlog'[j] => i = j
      BY <3>1, DistinctTail DEF Fresh
    <3>6. h <= conns /\ \A f \in Open : peer[f] # h
      BY <3>4 DEF Fresh
    <3>7. \A i \in 1..Len(backlog') : backlog'[i] <= conns /\ backlog'[i] # h
      BY <3>4 DEF Fresh
    <3>8. \A f \in Open' : (f \in Open /\ f # g /\ peer'[f] = peer[f]) \/ (f = g /\ peer'[f] = h)
      BY <3>2, <3>3 DEF Open
    <3>9. \A f \in Open : \A i \in 1..Len(backlog') : backlog'[i] # peer[f]
      BY <3>4 DEF Fresh
    <3>10. \A f \in Open' : peer'[f] <= conns' /\ \A i \in 1..Len(backlog') : backlog'[i] # peer'[f]
      BY <3>1, <3>6, <3>7, <3>8, <3>9 DEF Fresh
    <3>11. \A f, e1 \in Open' : peer'[f] = peer'[e1] => f = e1
      BY <3>6, <3>8 DEF Fresh
    <3> QED
      BY <3>1, <3>5, <3>7, <3>10, <3>11 DEF Fresh
  <2> QED
    BY <2>1, <2>2
<1>9. ASSUME NEW e \in batch, CloseHup(e) PROVE Fresh'
  BY <1>9, FreshStay DEF CloseHup
<1>10. ASSUME NEW e \in batch, Push(e) PROVE Fresh'
  BY <1>10, FreshStay DEF Push, Signal
<1>11. ASSUME NEW w \in Workers, Fetch(w) PROVE Fresh'
  BY <1>11, FreshStay DEF Fetch, Goto
<1>12. ASSUME NEW w \in Workers, RecvHead(w) PROVE Fresh'
  BY <1>12, FreshStay DEF RecvHead, Goto, Fails, Close
<1>13. ASSUME NEW w \in Workers, RecvHalf(w) PROVE Fresh'
  BY <1>13, FreshStay DEF RecvHalf, Goto, Fails, Close
<1>14. ASSUME NEW w \in Workers, RecvJunk(w) PROVE Fresh'
  BY <1>14, FreshStay DEF RecvJunk, Goto, Fails, Close
<1>15. ASSUME NEW w \in Workers, RecvBody(w) PROVE Fresh'
  BY <1>15, FreshStay DEF RecvBody, Goto, Fails, Close
<1>16. ASSUME NEW w \in Workers, ServiceApp(w) PROVE Fresh'
  BY <1>16, FreshStay DEF ServiceApp, Answers, Handle, Goto
<1>17. ASSUME NEW w \in Workers, Send(w) PROVE Fresh'
  BY <1>17, FreshStay DEF Send, Goto
<1>18. ASSUME NEW w \in Workers, SendFails(w) PROVE Fresh'
  BY <1>18, FreshStay DEF SendFails, Close, Goto
<1>19. ASSUME NEW w \in Workers, FreeSocket(w) PROVE Fresh'
  BY <1>19, FreshStay DEF FreeSocket, Rearm, Goto
<1>20. ASSUME NEW w \in Workers, SendStalls(w) PROVE Fresh'
  BY <1>20, FreshStay DEF SendStalls
<1>21. CASE UNCHANGED vars
  BY <1>21, FreshStay DEF vars
<1> QED
  BY <1>1, <1>2, <1>3, <1>4, <1>5, <1>6, <1>7, <1>8, <1>9, <1>10, <1>11, <1>12, <1>13, <1>14, <1>15, <1>16, <1>17, <1>18, <1>19, <1>20, <1>21 DEF Next, Client, Main, HandleEvent, Worker, Recv

\* What a client waits for was sent.
LEMMA PendingSent ==
  ASSUME Types, NEW c, NEW r \in Pending(c)
  PROVE  r \in Reqs /\ r \in 1..Len(reqs) /\ Sent(r) /\ Len(reqs) \in Nat
<1>1. DOMAIN reqs = 1..Len(reqs) /\ Len(reqs) \in Nat /\ Len(reqs) <= MaxReqs
  BY LenProperties DEF Types, CType
<1> QED
  BY <1>1, ServiceAssumption DEF Pending, Reqs, Sent

\* What a thread received is of a request, by number.
LEMMA PiecesOf ==
  ASSUME Types, NEW c \in Conns, NEW i \in 1..Len(stream[c])
  PROVE  stream[c][i].req \in Reqs
<1>1. stream[c] \in Seq(Pieces)
  BY DEF Types, CType
<1>2. stream[c][i] \in Pieces
  BY <1>1, ElementOfSeq
<1> QED
  BY <1>2 DEF Pieces

\* Clients that do nothing ask what they asked.
LEMMA AsksStay ==
  ASSUME Asks, UNCHANGED <<reqs, ans, cpc>>
  PROVE  Asks'
BY PendingSame DEF Asks

\* Every step keeps that a client has one request at most under way.
LEMMA AsksStep ==
  ASSUME Types, Numbers, Asks, [Next]_vars
  PROVE  Asks'
<1> USE DEF cVars, eVars, wVars, netVars
<1>1. CASE Connect
  BY <1>1, AsksStay DEF Connect
<1>2. ASSUME NEW c \in Conns, NEW k \in Kinds, SendHalf(c, k) PROVE Asks'
  <2>1. /\ Len(reqs) + 1 \in Reqs /\ Pending(c)' = Pending(c) \cup {Len(reqs) + 1}
        /\ \A d \in Conns : d # c => Pending(d)' = Pending(d)
        /\ \A r \in 1..Len(reqs) : reqs'[r] = reqs[r]
        /\ \A d \in Conns : Pending(d) \subseteq 1..Len(reqs)
    BY <1>2, PendingHalf
  <2>2. cpc[c] = "idle" /\ cpc'[c] = "half" /\ \A d \in Conns : d # c => cpc'[d] = cpc[d]
    BY <1>2 DEF SendHalf, Sends, Types, CType
  <2>3. Pending(c)' = {Len(reqs) + 1}
    BY <2>1, <2>2 DEF Asks
  <2> QED
    BY <2>1, <2>2, <2>3 DEF Asks
<1>3. ASSUME NEW c \in Conns, SendRest(c) PROVE Asks'
  <2>1. PICK r \in Pending(c) : Sends(c, "rest", r, IF reqs[r].kind = "empty" THEN "wait" ELSE "head")
    BY <1>3 DEF SendRest
  <2>2. /\ cpc'[c] = (IF reqs[r].kind = "empty" THEN "wait" ELSE "head") /\ \A d \in Conns : d # c => cpc'[d] = cpc[d]
        /\ UNCHANGED <<reqs, ans>>
    BY <1>3, <2>1 DEF SendRest, Sends, Types, CType
  <2>3. \A d : Pending(d)' = Pending(d)
    BY <2>2, PendingSame
  <2>4. \A s \in Pending(c) : s = r
    BY DEF Asks
  <2> QED
    BY <2>2, <2>3, <2>4 DEF Asks
<1>4. ASSUME NEW c \in Conns, SendBody(c) PROVE Asks'
  <2>1. PICK r \in Pending(c) : Sends(c, "body", r, "wait")
    BY <1>4 DEF SendBody
  <2>2. /\ cpc'[c] = ("wait") /\ \A d \in Conns : d # c => cpc'[d] = cpc[d]
        /\ UNCHANGED <<reqs, ans>>
    BY <1>4, <2>1 DEF SendBody, Sends, Types, CType
  <2>3. \A d : Pending(d)' = Pending(d)
    BY <2>2, PendingSame
  <2>4. \A s \in Pending(c) : s = r
    BY DEF Asks
  <2> QED
    BY <2>2, <2>3, <2>4 DEF Asks
<1>5. ASSUME NEW c \in Conns, ReadReply(c) PROVE Asks'
  <2>1. Pending(c)' = {} /\ \A d \in Conns : d # c => Pending(d)' = Pending(d)
    BY <1>5, PendingRead
  <2>2. cpc'[c] = "idle" /\ (\A d \in Conns : d # c => cpc'[d] = cpc[d]) /\ UNCHANGED reqs
    BY <1>5 DEF ReadReply, Types, CType
  <2> QED
    BY <2>1, <2>2 DEF Asks
<1>6. ASSUME NEW c \in Conns, HangUp(c) PROVE Asks'
  <2>1. cpc'[c] = "gone" /\ (\A d \in Conns : d # c => cpc'[d] = cpc[d]) /\ UNCHANGED <<reqs, ans>>
    BY <1>6 DEF HangUp, Types, CType
  <2> QED
    BY <2>1, PendingSame DEF Asks
<1>7. CASE EpollWait
  BY <1>7, AsksStay DEF EpollWait, Disarm
<1>8. ASSUME NEW e \in batch, Accept(e) PROVE Asks'
  BY <1>8, AsksStay DEF Accept
<1>9. ASSUME NEW e \in batch, CloseHup(e) PROVE Asks'
  BY <1>9, AsksStay DEF CloseHup
<1>10. ASSUME NEW e \in batch, Push(e) PROVE Asks'
  BY <1>10, AsksStay DEF Push, Signal
<1>11. ASSUME NEW w \in Workers, Fetch(w) PROVE Asks'
  BY <1>11, AsksStay DEF Fetch, Goto
<1>12. ASSUME NEW w \in Workers, RecvHead(w) PROVE Asks'
  BY <1>12, AsksStay DEF RecvHead, Goto, Fails, Close
<1>13. ASSUME NEW w \in Workers, RecvHalf(w) PROVE Asks'
  BY <1>13, AsksStay DEF RecvHalf, Goto, Fails, Close
<1>14. ASSUME NEW w \in Workers, RecvJunk(w) PROVE Asks'
  BY <1>14, AsksStay DEF RecvJunk, Goto, Fails, Close
<1>15. ASSUME NEW w \in Workers, RecvBody(w) PROVE Asks'
  BY <1>15, AsksStay DEF RecvBody, Goto, Fails, Close
<1>16. ASSUME NEW w \in Workers, ServiceApp(w) PROVE Asks'
  BY <1>16, AsksStay DEF ServiceApp, Answers, Handle, Goto
<1>17. ASSUME NEW w \in Workers, Send(w) PROVE Asks'
  BY <1>17, AsksStay DEF Send, Goto
<1>18. ASSUME NEW w \in Workers, SendFails(w) PROVE Asks'
  BY <1>18, AsksStay DEF SendFails, Close, Goto
<1>19. ASSUME NEW w \in Workers, FreeSocket(w) PROVE Asks'
  BY <1>19, AsksStay DEF FreeSocket, Rearm, Goto
<1>20. ASSUME NEW w \in Workers, SendStalls(w) PROVE Asks'
  BY <1>20, AsksStay DEF SendStalls
<1>21. CASE UNCHANGED vars
  BY <1>21, AsksStay DEF vars
<1> QED
  BY <1>1, <1>2, <1>3, <1>4, <1>5, <1>6, <1>7, <1>8, <1>9, <1>10, <1>11, <1>12, <1>13, <1>14, <1>15, <1>16, <1>17, <1>18, <1>19, <1>20, <1>21 DEF Next, Client, Main, HandleEvent, Worker, Recv

\* Steps that number nothing keep the numbers.
LEMMA NumbersStay ==
  ASSUME Numbers, UNCHANGED <<reqs, ans, mqueue, bd, stream>>
  PROVE  Numbers'
BY DEF Numbers, Sent

\* Receiving keeps the numbers.
LEMMA NumbersRecv ==
  ASSUME Types, Owners, Numbers, NEW w \in Workers, wpc[w] \notin {"fetch", "asleep"}, NEW n \in Nat,
         n <= Len(stream[Conn(w)]), Receives(w, n),
         stream[Conn(w)] # <<>>, bd' = bd \/ bd' = [bd EXCEPT ![w] = First(w).req], UNCHANGED <<reqs, ans, mqueue>>
  PROVE  Numbers'
<1>1. /\ \A i \in 1..Len(stream'[Conn(w)]) :
           i + n \in 1..Len(stream[Conn(w)]) /\ stream'[Conn(w)][i] = stream[Conn(w)][i + n]
      /\ \A d \in Conns : d # Conn(w) => stream'[d] = stream[d]
      /\ Conn(w) \in Conns
  BY CutFacts, ConnOf
<1>2. \A c \in Conns : \A i \in 1..Len(stream'[c]) : Sent(stream'[c][i].req)
  <2>1. \A c \in Conns : \A i \in 1..Len(stream[c]) : Sent(stream[c][i].req)
    BY DEF Numbers
  <2>2. \A i \in 1..Len(stream'[Conn(w)]) : Sent(stream'[Conn(w)][i].req)
    BY <1>1, <2>1
  <2>3. \A d \in Conns : d # Conn(w) => \A i \in 1..Len(stream'[d]) : Sent(stream'[d][i].req)
    BY <1>1, <2>1
  <2> QED
    BY <2>2, <2>3
<1>3. Sent(First(w).req)
  <2>1. First(w) = stream[Conn(w)][1] /\ stream[Conn(w)] \in Seq(Pieces)
    BY <1>1, FirstOf DEF Types, CType
  <2>2. 1 \in 1..Len(stream[Conn(w)])
    BY <2>1, EmptySeq, LenProperties
  <2> QED
    BY <1>1, <2>1, <2>2 DEF Numbers
<1>4. \A v \in Workers : Sent(bd'[v])
  BY <1>3 DEF Numbers, Types, WType
<1>5. \A r : Sent(r)' <=> Sent(r)
  BY DEF Sent
<1> QED
  BY <1>2, <1>4, <1>5 DEF Numbers

\* Sending keeps the numbers.
LEMMA NumbersSend ==
  ASSUME Types, Numbers, NEW c \in Conns, NEW p \in {"half", "rest", "body"}, NEW r \in Reqs, NEW q,
         Sends(c, p, r, q), Len(reqs) <= Len(reqs'), Len(reqs) \in Nat, Len(reqs') \in Nat, r <= Len(reqs')
  PROVE  Numbers'
<1> DEFINE In(x) == x <= Len(reqs')
<1>1. \A x \in Reqs \cup {None} : Sent(x) => In(x)
  BY ServiceAssumption DEF Sent, Reqs, None
<1>2. UNCHANGED <<ans, mqueue, bd>>
  BY DEF Sends, wVars
<1>3. /\ \A i \in 1..Len(stream'[c]) :
           stream'[c][i].req = r \/ (i \in 1..Len(stream[c]) /\ stream'[c][i] = stream[c][i])
      /\ \A d \in Conns : d # c => stream'[d] = stream[d]
  BY SendsFacts
<1>4. In(r)
  OBVIOUS
<1> HIDE DEF In
<1>5. \A d \in Conns : \A i \in 1..Len(stream[d]) : In(stream[d][i].req)
  BY <1>1, PiecesOf DEF Numbers
<1>6. \A d \in Conns : \A i \in 1..Len(stream'[d]) : In(stream'[d][i].req)
  BY <1>3, <1>4, <1>5
<1>7. \A x \in Reqs : ~In(x) => ans'[x] = "none"
  BY <1>1, <1>2 DEF Numbers
<1>8. \A i \in 1..Len(mqueue') : In(mqueue'[i])
  <2>1. \A i \in 1..Len(mqueue) : mqueue[i] \in Reqs
    BY ElementOfSeq DEF Types, WType
  <2> QED
    BY <1>1, <1>2, <2>1 DEF Numbers
<1>9. \A w \in Workers : In(bd'[w])
  <2>1. \A w \in Workers : bd[w] \in Reqs \cup {None}
    BY DEF Types, WType
  <2> QED
    BY <1>1, <1>2, <2>1 DEF Numbers
<1> QED
  BY <1>6, <1>7, <1>8, <1>9 DEF Numbers, Sent, In

\* Every step keeps that what is under way, read or queued was sent.
LEMMA NumbersStep ==
  ASSUME Types, Owners, Asks, Numbers, [Next]_vars
  PROVE  Numbers'
<1> USE DEF cVars, eVars, wVars, netVars
<1>1. CASE Connect
  BY <1>1, NumbersStay DEF Connect
<1>2. ASSUME NEW c \in Conns, NEW k \in Kinds, SendHalf(c, k) PROVE Numbers'
  <2>1. Len(reqs) + 1 \in Reqs /\ Len(reqs') = Len(reqs) + 1 /\ Len(reqs) \in Nat
    BY <1>2, PendingHalf
  <2>2. Sends(c, "half", Len(reqs) + 1, "half")
    BY <1>2 DEF SendHalf
  <2>3. Len(reqs) <= Len(reqs') /\ Len(reqs') \in Nat /\ Len(reqs) + 1 <= Len(reqs')
    BY <2>1
  <2> DEFINE n == Len(reqs) + 1
  <2> HIDE DEF n
  <2>4. Sends(c, "half", n, "half") /\ n \in Reqs /\ n <= Len(reqs')
    BY <2>1, <2>2, <2>3 DEF n
  <2> QED
    BY <2>1, <2>3, <2>4, NumbersSend
<1>3. ASSUME NEW c \in Conns, SendRest(c) PROVE Numbers'
  <2>1. PICK r \in Pending(c) : Sends(c, "rest", r, IF reqs[r].kind = "empty" THEN "wait" ELSE "head")
    BY <1>3 DEF SendRest
  <2>2. UNCHANGED reqs
    BY <1>3 DEF SendRest
  <2>3. r \in Reqs /\ r <= Len(reqs') /\ Len(reqs) <= Len(reqs') /\ Len(reqs) \in Nat
    BY <2>2, PendingSent DEF Sent, Reqs
  <2> QED
    BY <2>1, <2>2, <2>3, NumbersSend
<1>4. ASSUME NEW c \in Conns, SendBody(c) PROVE Numbers'
  <2>1. PICK r \in Pending(c) : Sends(c, "body", r, "wait")
    BY <1>4 DEF SendBody
  <2>2. UNCHANGED reqs
    BY <1>4 DEF SendBody
  <2>3. r \in Reqs /\ r <= Len(reqs') /\ Len(reqs) <= Len(reqs') /\ Len(reqs) \in Nat
    BY <2>2, PendingSent DEF Sent, Reqs
  <2> QED
    BY <2>1, <2>2, <2>3, NumbersSend
<1>5. ASSUME NEW c \in Conns, ReadReply(c) PROVE Numbers'
  <2>1. PICK r \in Pending(c) : ans' = [ans EXCEPT ![r] = Head(out[c])]
    BY <1>5, PendingRead
  <2>2. UNCHANGED <<reqs, mqueue, bd, stream>>
    BY <1>5 DEF ReadReply
  <2>3. Sent(r)
    BY PendingSent
  <2>4. \A x \in Reqs : ~Sent(x) => ans'[x] = "none"
    BY <2>1, <2>3 DEF Numbers, Types, CType
  <2> QED
    BY <2>2, <2>4 DEF Numbers, Sent
<1>6. ASSUME NEW c \in Conns, HangUp(c) PROVE Numbers'
  BY <1>6, NumbersStay DEF HangUp
<1>7. CASE EpollWait
  BY <1>7, NumbersStay DEF EpollWait, Disarm
<1>8. ASSUME NEW e \in batch, Accept(e) PROVE Numbers'
  BY <1>8, NumbersStay DEF Accept
<1>9. ASSUME NEW e \in batch, CloseHup(e) PROVE Numbers'
  BY <1>9, NumbersStay DEF CloseHup
<1>10. ASSUME NEW e \in batch, Push(e) PROVE Numbers'
  BY <1>10, NumbersStay DEF Push, Signal
<1>11. ASSUME NEW w \in Workers, Fetch(w) PROVE Numbers'
  BY <1>11, NumbersStay DEF Fetch, Goto
<1>12. ASSUME NEW w \in Workers, RecvHead(w) PROVE Numbers'
  <2>1. Len(stream[Conn(w)]) \in Nat
    <3>1. stream[Conn(w)] \in Seq(Pieces)
      BY <1>12, ConnOf DEF RecvHead, At, Types, CType
    <3> QED
      BY <3>1, LenProperties
  <2>2. 2 <= Len(stream[Conn(w)])
    BY <1>12, <2>1 DEF RecvHead
  <2> QED
    BY <1>12, <2>1, <2>2, NumbersRecv DEF RecvHead, At
<1>13. ASSUME NEW w \in Workers, RecvHalf(w) PROVE Numbers'
  <2>1. Len(stream[Conn(w)]) \in Nat
    <3>1. stream[Conn(w)] \in Seq(Pieces)
      BY <1>13, ConnOf DEF RecvHalf, At, Types, CType
    <3> QED
      BY <3>1, LenProperties
  <2>2. 1 <= Len(stream[Conn(w)])
    BY <1>13, <2>1 DEF RecvHalf
  <2> QED
    BY <1>13, <2>1, <2>2, NumbersRecv DEF RecvHalf, At
<1>14. ASSUME NEW w \in Workers, RecvJunk(w) PROVE Numbers'
  <2>1. Len(stream[Conn(w)]) \in Nat
    <3>1. stream[Conn(w)] \in Seq(Pieces)
      BY <1>14, ConnOf DEF RecvJunk, At, Types, CType
    <3> QED
      BY <3>1, LenProperties
  <2>2. Len(stream[Conn(w)]) <= Len(stream[Conn(w)])
    BY <1>14, <2>1 DEF RecvJunk
  <2> QED
    BY <1>14, <2>1, <2>2, NumbersRecv DEF RecvJunk, At
<1>15. ASSUME NEW w \in Workers, RecvBody(w) PROVE Numbers'
  <2>1. CASE stream[Conn(w)] = <<>>
    BY <1>15, <2>1, NumbersStay DEF RecvBody
  <2>2. CASE stream[Conn(w)] # <<>>
    <3>1. stream[Conn(w)] \in Seq(Pieces)
      BY <1>15, ConnOf DEF RecvBody, At, Types, CType
    <3>2. Len(stream[Conn(w)]) \in Nat /\ 1 <= Len(stream[Conn(w)])
      BY <2>2, <3>1, EmptySeq, LenProperties
    <3> QED
      BY <1>15, <2>2, <3>2, NumbersRecv DEF RecvBody, At
  <2> QED
    BY <2>1, <2>2
<1>16. ASSUME NEW w \in Workers, ServiceApp(w) PROVE Numbers'
  <2>1. UNCHANGED <<reqs, ans, bd, stream>>
    BY <1>16 DEF ServiceApp
  <2>2. CASE mqueue' = mqueue
    BY <2>1, <2>2, NumbersStay
  <2>3. CASE bd[w] # None /\ mqueue' = Append(mqueue, bd[w])
    <3>1. bd[w] \in Reqs /\ mqueue \in Seq(Reqs) /\ Sent(bd[w])
      BY <2>3 DEF Types, WType, Numbers
    <3>2. \A x : (\E i \in 1..Len(mqueue') : mqueue'[i] = x) <=> (\E i \in 1..Len(mqueue) : mqueue[i] = x) \/ x = bd[w]
      BY <2>3, <3>1, InAppend
    <3>3. \A i \in 1..Len(mqueue') : Sent(mqueue'[i])
      BY <3>1, <3>2 DEF Numbers
    <3> QED
      BY <2>1, <3>3 DEF Numbers, Sent
  <2> QED
    BY <1>16, <2>2, <2>3 DEF ServiceApp, Handle, Answers
<1>17. ASSUME NEW w \in Workers, Send(w) PROVE Numbers'
  BY <1>17, NumbersStay DEF Send, Goto
<1>18. ASSUME NEW w \in Workers, SendFails(w) PROVE Numbers'
  BY <1>18, NumbersStay DEF SendFails, Close, Goto
<1>19. ASSUME NEW w \in Workers, FreeSocket(w) PROVE Numbers'
  BY <1>19, NumbersStay DEF FreeSocket, Rearm, Goto
<1>20. ASSUME NEW w \in Workers, SendStalls(w) PROVE Numbers'
  BY <1>20, NumbersStay DEF SendStalls
<1>21. CASE UNCHANGED vars
  BY <1>21, NumbersStay DEF vars
<1> QED
  BY <1>1, <1>2, <1>3, <1>4, <1>5, <1>6, <1>7, <1>8, <1>9, <1>10, <1>11, <1>12, <1>13, <1>14, <1>15, <1>16, <1>17, <1>18, <1>19, <1>20, <1>21 DEF Next, Client, Main, HandleEvent, Worker, Recv

\* A thread that fetches a socket starts afresh; xrecv fails only to leave the loop of recv.
LEMMA UnfailedStep ==
  ASSUME Types, Unfailed, [Next]_vars
  PROVE  Unfailed'
<1> USE DEF Types, WType, Unfailed, At, cVars, eVars, wVars, netVars
<1>1. CASE Connect
  BY <1>1 DEF Connect
<1>2. ASSUME NEW c \in Conns, NEW k \in Kinds, SendHalf(c, k) PROVE Unfailed'
  BY <1>2 DEF SendHalf, Sends
<1>3. ASSUME NEW c \in Conns, SendRest(c) PROVE Unfailed'
  BY <1>3 DEF SendRest, Sends
<1>4. ASSUME NEW c \in Conns, SendBody(c) PROVE Unfailed'
  BY <1>4 DEF SendBody, Sends
<1>5. ASSUME NEW c \in Conns, ReadReply(c) PROVE Unfailed'
  BY <1>5 DEF ReadReply
<1>6. ASSUME NEW c \in Conns, HangUp(c) PROVE Unfailed'
  BY <1>6 DEF HangUp
<1>7. CASE EpollWait
  BY <1>7 DEF EpollWait, Disarm
<1>8. ASSUME NEW e \in batch, Accept(e) PROVE Unfailed'
  BY <1>8 DEF Accept
<1>9. ASSUME NEW e \in batch, CloseHup(e) PROVE Unfailed'
  BY <1>9 DEF CloseHup
<1>10. ASSUME NEW e \in batch, Push(e) PROVE Unfailed'
  BY <1>10 DEF Push, Signal
<1>11. ASSUME NEW w \in Workers, Fetch(w) PROVE Unfailed'
  BY <1>11 DEF Fetch, Goto
<1>12. ASSUME NEW w \in Workers, RecvHead(w) PROVE Unfailed'
  BY <1>12 DEF RecvHead, Goto, Fails, Close
<1>13. ASSUME NEW w \in Workers, RecvHalf(w) PROVE Unfailed'
  BY <1>13 DEF RecvHalf, Goto, Fails, Close
<1>14. ASSUME NEW w \in Workers, RecvJunk(w) PROVE Unfailed'
  BY <1>14 DEF RecvJunk, Goto, Fails, Close
<1>15. ASSUME NEW w \in Workers, RecvBody(w) PROVE Unfailed'
  BY <1>15 DEF RecvBody, Goto, Fails, Close
<1>16. ASSUME NEW w \in Workers, ServiceApp(w) PROVE Unfailed'
  BY <1>16 DEF ServiceApp, Answers, Handle, Goto
<1>17. ASSUME NEW w \in Workers, Send(w) PROVE Unfailed'
  BY <1>17 DEF Send, Goto
<1>18. ASSUME NEW w \in Workers, SendFails(w) PROVE Unfailed'
  BY <1>18 DEF SendFails, Close, Goto
<1>19. ASSUME NEW w \in Workers, FreeSocket(w) PROVE Unfailed'
  BY <1>19 DEF FreeSocket, Rearm, Goto
<1>20. ASSUME NEW w \in Workers, SendStalls(w) PROVE Unfailed'
  BY <1>20 DEF SendStalls
<1>21. CASE UNCHANGED vars
  BY <1>21 DEF vars
<1> QED
  BY <1>1, <1>2, <1>3, <1>4, <1>5, <1>6, <1>7, <1>8, <1>9, <1>10, <1>11, <1>12, <1>13, <1>14, <1>15, <1>16, <1>17, <1>18, <1>19, <1>20, <1>21 DEF Next, Client, Main, HandleEvent, Worker, Recv

-----------------------------------------------------------------------------
\* Nothing that concerns connection c changes, except that it may be closed.
Same(c) ==
  /\ stream'[c] = stream[c] /\ out'[c] = out[c] /\ cpc'[c] = cpc[c]
  /\ Pending(c)' = Pending(c) /\ \A r \in Pending(c) : reqs'[r] = reqs[r]
  /\ \A r \in Pending(c) : InMq(r) => InMq(r)'
  /\ \A w \in Workers : Works(w, c)' <=> Works(w, c)
  /\ \A w \in Workers : Works(w, c) =>
       /\ wpc'[w] = wpc[w] /\ hd'[w] = hd[w] /\ bd'[w] = bd[w]
       /\ rep'[w] = rep[w] /\ failed'[w] = failed[w]
  /\ Attached(c)' => Attached(c)
  /\ c \in misled => c \in misled'

\* A step that does not touch a connection keeps its link.
LEMMA LinkSame ==
  ASSUME NEW c \in Conns, Link(c), Same(c)
  PROVE  Link(c)'
<1> USE DEF Same
<1>1. Busy(c)' <=> Busy(c)
  BY DEF Busy
<1>2. Dirty(c) => Dirty(c)'
  <2>1. CASE c \in misled
    BY <2>1 DEF Dirty
  <2>2. ASSUME NEW w \in Workers, Works(w, c), wpc[w] = "app", failed[w]
        PROVE  Dirty(c)'
    <3>1. Works(w, c)' /\ wpc'[w] = "app" /\ failed'[w]
      BY <2>2
    <3> QED
      BY <3>1 DEF Dirty
  <2> QED
    BY <2>1, <2>2 DEF Dirty
<1>3. \A r \in Pending(c) : Acked(r) => Acked(r)'
  BY DEF Acked
<1>4. Unread(c) => Unread(c)'
  BY DEF Unread
<1>5. ASSUME NEW w \in Workers, Works(w, c), Serving(w, c)
      PROVE  Serving(w, c)'
  BY <1>3, <1>5 DEF Serving
<1>6. Form(c) => Form(c)'
  BY <1>1, <1>4, <1>5 DEF Form
<1>7. OutOk(c)'
  BY <1>1, <1>3 DEF OutOk, Link
<1> QED
  BY <1>2, <1>6, <1>7 DEF Link

\* Nor does it change whether the pending request is handed on, if it queues none.
LEMMA NotYetSame ==
  ASSUME NEW c \in Conns, NotYet(c), Same(c), \A r \in Pending(c) : InMq(r)' => InMq(r)
  PROVE  NotYet(c)'
<1>1. Unserved(c)' => Unserved(c)
  BY DEF Unserved, Same
<1> QED
  BY <1>1 DEF NotYet, Same

\* What is queued stays queued.
LEMMA QueuedStays ==
  ASSUME Types, UNCHANGED mqueue \/ \E r \in Reqs : mqueue' = Append(mqueue, r)
  PROVE  \A r : InMq(r) => InMq(r)'
<1>1. CASE UNCHANGED mqueue
  BY <1>1 DEF InMq
<1>2. ASSUME NEW r \in Reqs, mqueue' = Append(mqueue, r) PROVE \A x : InMq(x) => InMq(x)'
  <2>1. mqueue \in Seq(Reqs)
    BY DEF Types, WType
  <2> QED
    BY <1>2, <2>1, InAppend DEF InMq
<1> QED
  BY <1>1, <1>2

\* A connection is in the hands of one thread.
LEMMA OneThread ==
  ASSUME Types, Owners, Fresh, NEW v \in Workers, NEW w \in Workers,
         wfd[v] # None, wfd[w] # None, peer[wfd[v]] = peer[wfd[w]]
  PROVE  v = w
<1>1. wfd[v] \in Open /\ wfd[w] \in Open
  BY DEF Owners, WithWorker, Types, WType
<1> QED
  BY <1>1 DEF Fresh, Owners

\* A client's step touches its own connection only.
OnlyClient(c) ==
  /\ UNCHANGED <<conns, backlog, eVars, wVars>>
  /\ \A d \in Conns : d # c =>
       /\ stream'[d] = stream[d] /\ out'[d] = out[d] /\ cpc'[d] = cpc[d]
       /\ Pending(d)' = Pending(d) /\ \A r \in Pending(d) : reqs'[r] = reqs[r]

\* So a client's step leaves the other connections as they are, and who works on which.
LEMMA ClientSame ==
  ASSUME NEW c \in Conns, OnlyClient(c)
  PROVE  /\ \A d \in Conns : d # c => Same(d)
         /\ \A r : InMq(r)' <=> InMq(r)
         /\ \A d : Attached(d)' <=> Attached(d)
         /\ \A d : Dirty(d)' <=> Dirty(d)
         /\ \A d : Busy(d)' <=> Busy(d)
         /\ \A w \in Workers : \A d : Works(w, d)' <=> Works(w, d)
<1> USE DEF OnlyClient, eVars, wVars
<1>1. \A r : InMq(r)' <=> InMq(r)
  BY DEF InMq
<1>2. \A d : Attached(d)' <=> Attached(d)
  BY DEF Attached, Open
<1>3. \A w \in Workers : \A d : Works(w, d)' <=> Works(w, d)
  BY DEF Works, Serves
<1>4. \A d : (Dirty(d)' <=> Dirty(d)) /\ (Busy(d)' <=> Busy(d))
  BY <1>3 DEF Dirty, Busy
<1>5. ASSUME NEW d \in Conns, d # c PROVE Same(d)
  BY <1>1, <1>2, <1>3, <1>5 DEF Same
<1> QED
  BY <1>1, <1>2, <1>3, <1>4, <1>5

\* A service thread's step touches the connection it serves only.
OnlyWorker(w) ==
  /\ UNCHANGED <<conns, backlog, reqs, cpc, ans>>
  /\ \A d \in Conns : d # Conn(w) => stream'[d] = stream[d] /\ out'[d] = out[d]
  /\ \A v \in Workers : v # w =>
       /\ wpc'[v] = wpc[v] /\ wfd'[v] = wfd[v] /\ hd'[v] = hd[v] /\ bd'[v] = bd[v]
       /\ rep'[v] = rep[v] /\ failed'[v] = failed[v]
  /\ \/ peer' = peer /\ wfd'[w] = wfd[w]
     \/ peer' = [peer EXCEPT ![wfd[w]] = None] /\ wfd'[w] = None
  /\ misled \subseteq misled'
  /\ UNCHANGED mqueue \/ \E r \in Reqs : mqueue' = Append(mqueue, r)

\* So it leaves the other connections as they are, and either keeps its own or closes it.
LEMMA WorkerSame ==
  ASSUME Types, Owners, Fresh, NEW w \in Workers, wpc[w] \notin {"fetch", "asleep"}, OnlyWorker(w),
         NEW c, c = Conn(w)
  PROVE  /\ \A d \in Conns : d # c => Same(d)
         /\ \A d : Pending(d)' = Pending(d)
         /\ \A r : InMq(r) => InMq(r)'
         /\ Serves(w, c) /\ \A v \in Workers : Serves(v, c) => v = w
         /\ \A v \in Workers : Serves(v, c)' => v = w
         /\ c \in Conns /\ Attached(c) /\ (Attached(c)' => peer' = peer /\ wfd'[w] = wfd[w])
<1> USE DEF OnlyWorker
<1> DEFINE g == wfd[w]
<1>1. g \in Fds /\ g # None /\ g \in Open /\ c \in Conns /\ c = peer[g]
  BY ConnOf DEF Conn
<1>2. Serves(w, c) /\ \A v \in Workers : Serves(v, c) => v = w
  BY <1>1, OneThread DEF Serves
<1>3. \A d : Pending(d)' = Pending(d)
  BY PendingSame
<1>4. \A r : InMq(r) => InMq(r)'
  BY QueuedStays
<1>5. \A f \in Fds : peer'[f] = peer[f] \/ (f = g /\ peer'[f] = None)
  BY <1>1 DEF Types, EType
<1>6. \A f \in Open' : f \in Open /\ peer'[f] = peer[f]
  BY <1>5 DEF Open
<1>7. \A d : Attached(d)' => Attached(d)
  BY <1>6 DEF Attached
<1>8. \A v \in Workers : wfd[v] \in Fds \cup {None}
  BY DEF Types, WType
<1>9. \A v \in Workers : v # w /\ wfd[v] # None => wfd[v] # g
  BY <1>1 DEF Owners
<1>10. \A v \in Workers : v # w => \A d : Serves(v, d)' <=> Serves(v, d)
  BY <1>5, <1>8, <1>9 DEF Serves
<1>11. \A d : d # c => ~Serves(w, d) /\ ~Serves(w, d)'
  BY <1>1 DEF Serves
<1>12. \A v \in Workers : Serves(v, c)' => v = w
  BY <1>2, <1>10
<1>13. Attached(c)
  BY <1>1 DEF Attached
<1>14. Attached(c)' => peer' = peer /\ wfd'[w] = wfd[w]
  <2> SUFFICES ASSUME peer' = [peer EXCEPT ![g] = None] PROVE ~Attached(c)'
    OBVIOUS
  <2>1. peer'[g] = None
    BY <1>1 DEF Types, EType
  <2>2. \A f \in Open' : peer'[f] # c
    <3> SUFFICES ASSUME NEW f \in Open', peer'[f] = c PROVE FALSE
      OBVIOUS
    <3>1. f \in Open /\ peer[f] = c
      BY <1>6
    <3>2. f = g
      BY <1>1, <3>1 DEF Fresh
    <3> QED
      BY <2>1, <3>2 DEF Open
  <2>3. c <= conns /\ \A i \in 1..Len(backlog) : backlog[i] # c
    BY <1>1 DEF Fresh
  <2>4. c \in Nat /\ conns \in Nat
    BY <1>1 DEF Conns, Types, CType
  <2> QED
    BY <2>2, <2>3, <2>4 DEF Attached
<1>15. ASSUME NEW d \in Conns, d # c PROVE Same(d)
  <2>1. \A v \in Workers : (Works(v, d) \/ Works(v, d)') => v # w
    BY <1>11, <1>15 DEF Works
  <2>2. \A v \in Workers : Works(v, d)' <=> Works(v, d)
    BY <1>10, <2>1 DEF Works
  <2>3. stream'[d] = stream[d] /\ out'[d] = out[d] /\ cpc'[d] = cpc[d]
    BY <1>15
  <2>4. reqs' = reqs
    OBVIOUS
  <2> QED
    BY <1>3, <1>4, <1>7, <2>1, <2>2, <2>3, <2>4 DEF Same
<1> QED
  BY <1>1, <1>2, <1>3, <1>4, <1>12, <1>13, <1>14, <1>15

\* A step that neither sends nor receives nor serves.
LEMMA SameQuiet ==
  ASSUME UNCHANGED <<reqs, cpc, stream, out, ans, mqueue, hd, bd, misled>>, NEW c \in Conns,
         \A w \in Workers : Works(w, c)' <=> Works(w, c),
         \A w \in Workers : Works(w, c) => wpc'[w] = wpc[w] /\ rep'[w] = rep[w] /\ failed'[w] = failed[w],
         Attached(c)' => Attached(c)
  PROVE  Same(c)
<1>1. Pending(c)' = Pending(c)
  BY PendingSame
<1>2. \A r : InMq(r) => InMq(r)'
  BY DEF InMq
<1> QED
  BY <1>1, <1>2 DEF Same

\* The event queue's steps, and a thread's between two requests.
Quiet ==
  \/ Connect \/ EpollWait \/ UNCHANGED vars
  \/ \E e \in batch : Accept(e) \/ CloseHup(e) \/ Push(e)
  \/ \E w \in Workers : Fetch(w) \/ FreeSocket(w)

\* The steps of the event queue touch no connection: they accept it, hand it on or close it.
LEMMA QuietSame ==
  ASSUME Types, Owners, Fresh, Quiet
  PROVE  /\ \A c \in Conns : Same(c)
         /\ UNCHANGED <<reqs, cpc, stream, out, ans, mqueue, hd, bd, misled, again, down, slow>>
<1> USE DEF cVars, eVars, wVars
<1>8. UNCHANGED <<reqs, cpc, stream, out, ans, mqueue, hd, bd, misled, again, down, slow>>
  BY DEF Quiet, Connect, EpollWait, vars, Accept, CloseHup, Push, Fetch, FreeSocket
<1> SUFFICES ASSUME NEW c \in Conns PROVE Same(c)
  BY <1>8
<1>0. \A w \in Workers : wfd[w] \in Fds \cup {None} /\ (wfd[w] # None => WithWorker(wfd[w]) /\ wfd[w] \in Open)
  BY DEF Owners, WithWorker, Types, WType
<1>1. CASE Connect
  <2>1. \A w \in Workers : Works(w, c)' <=> Works(w, c)
    BY <1>1 DEF Connect, Works, Serves
  <2>2. Attached(c)' => Attached(c)
    <3>1. /\ conns + 1 \in Conns /\ backlog \in Seq(Conns) /\ backlog' = Append(backlog, conns + 1)
          /\ conns' = conns + 1 /\ conns \in Nat /\ peer' = peer /\ c \in Nat
      BY <1>1, ServiceAssumption DEF Connect, Types, CType, Conns
    <3> DEFINE n == conns + 1
    <3>2. n \in Conns /\ backlog' = Append(backlog, n) /\ (c > conns' => c > conns) /\ (c = n => c > conns)
      BY <3>1
    <3> HIDE DEF n
    <3>3. (\E i \in 1..Len(backlog') : backlog'[i] = c) <=> (\E i \in 1..Len(backlog) : backlog[i] = c) \/ c = n
      BY <3>1, <3>2, InAppend
    <3>4. Open' = Open
      BY <3>1 DEF Open
    <3> QED
      BY <3>1, <3>2, <3>3, <3>4 DEF Attached
  <2> QED
    BY <1>1, <2>1, <2>2, SameQuiet DEF Connect
<1>2. CASE EpollWait
  BY <1>2, SameQuiet DEF EpollWait, Works, Serves, Attached, Open
<1>3. CASE UNCHANGED vars
  BY <1>3, SameQuiet DEF vars, Works, Serves, Attached, Open
<1>4. ASSUME NEW e \in batch, Accept(e) PROVE Same(c)
  <2>1. CASE Free = {}
    BY <1>4, <2>1, SameQuiet DEF Accept, Works, Serves, Attached, Open
  <2>2. CASE Free # {}
    <3> DEFINE g == Min(Free)
               h == Head(backlog)
    <3>1. /\ g \in Free /\ peer' = [peer EXCEPT ![g] = h]
          /\ backlog' = Tail(backlog) /\ conns' = conns /\ backlog \in Seq(Conns) /\ backlog # <<>>
      BY <1>4, <2>2, LowestFree DEF Accept, Types, CType, Owners, InBatch
    <3>2. g \in Fds /\ g \notin Open
      BY <3>1 DEF Free
    <3>3. \A f \in Fds : peer'[f] = IF f = g THEN h ELSE peer[f]
      BY <3>1 DEF Types, EType
    <3> HIDE DEF g, h
    <3>4. (\E i \in 1..Len(backlog) : backlog[i] = h)
          /\ \A d : (\E i \in 1..Len(backlog') : backlog'[i] = d) <=> (\E i \in 1..Len(backlog) : backlog[i] = d) /\ d # h
      BY <3>1, InTail DEF Fresh, h
    <3>5. \A f \in Open' : (f \in Open /\ peer'[f] = peer[f]) \/ peer'[f] = h
      BY <3>3 DEF Open
    <3>6. Attached(c)' => Attached(c)
      BY <3>1, <3>4, <3>5 DEF Attached
    <3>7. \A w \in Workers : wfd[w] # None => peer'[wfd[w]] = peer[wfd[w]]
      BY <1>0, <3>2, <3>3
    <3>8. UNCHANGED <<reqs, cpc, stream, out, ans, mqueue, hd, bd, misled, wpc, wfd, rep, failed>>
      BY <1>4 DEF Accept
    <3>9. \A w \in Workers : Works(w, c)' <=> Works(w, c)
      BY <3>7, <3>8 DEF Works, Serves
    <3> QED
      BY <3>6, <3>8, <3>9, SameQuiet
  <2> QED
    BY <2>1, <2>2
<1>5. ASSUME NEW e \in batch, CloseHup(e) PROVE Same(c)
  <2>1. UNCHANGED <<reqs, cpc, stream, out, ans, mqueue, hd, bd, misled, wpc, wfd, rep, failed, conns, backlog>>
    BY <1>5 DEF CloseHup
  <2>2. e.fd \in Fds /\ InBatch(e.fd) /\ peer' = [peer EXCEPT ![e.fd] = None]
    BY <1>5 DEF CloseHup, Types, EType, InBatch
  <2>3. \A f \in Fds : peer'[f] = IF f = e.fd THEN None ELSE peer[f]
    BY <2>2 DEF Types, EType
  <2>4. \A w \in Workers : wfd[w] # None => peer'[wfd[w]] = peer[wfd[w]]
    <3>1. ~WithWorker(e.fd)
      BY <2>2 DEF Owners
    <3> QED
      BY <1>0, <2>3, <3>1
  <2>5. \A f \in Open' : f \in Open /\ peer'[f] = peer[f]
    BY <2>3 DEF Open
  <2>6. Attached(c)' => Attached(c)
    BY <2>1, <2>5 DEF Attached
  <2>7. \A w \in Workers : Works(w, c)' <=> Works(w, c)
    BY <2>1, <2>4 DEF Works, Serves
  <2> QED
    BY <2>1, <2>6, <2>7, SameQuiet
<1>6. ASSUME NEW e \in batch, Push(e) PROVE Same(c)
  <2>1. UNCHANGED <<reqs, cpc, stream, out, ans, mqueue, hd, bd, misled, wfd, rep, failed, conns, backlog, peer>>
    BY <1>6 DEF Push
  <2>2. \A w \in Workers : wpc'[w] = wpc[w] \/ (wpc[w] = "asleep" /\ wpc'[w] = "fetch")
    BY <1>6 DEF Push, Signal, Types, WType
  <2>3. \A w \in Workers : (Works(w, c)' <=> Works(w, c)) /\ (Works(w, c) => wpc'[w] = wpc[w])
    BY <2>1, <2>2 DEF Works, Serves
  <2> QED
    BY <2>1, <2>3, SameQuiet DEF Attached, Open
<1>7. ASSUME NEW w \in Workers, Fetch(w) \/ FreeSocket(w) PROVE Same(c)
  <2>1. UNCHANGED <<reqs, cpc, stream, out, ans, mqueue, hd, bd, misled, conns, backlog, peer>>
    BY <1>7 DEF Fetch, FreeSocket
  <2>2. \A v \in Workers : v # w => wpc'[v] = wpc[v] /\ wfd'[v] = wfd[v] /\ rep'[v] = rep[v] /\ failed'[v] = failed[v]
    BY <1>7 DEF Fetch, FreeSocket, Goto, Types, WType
  <2>3. wpc[w] \in {"fetch", "free"} /\ wpc'[w] \in {"asleep", "head", "fetch"}
    BY <1>7 DEF Fetch, FreeSocket, At, Goto, Types, WType
  <2>4. \A v \in Workers : (Works(v, c)' <=> Works(v, c)) /\ (Works(v, c) => v # w)
    BY <2>1, <2>2, <2>3 DEF Works, Serves
  <2> QED
    BY <2>1, <2>2, <2>4, SameQuiet DEF Attached, Open
<1> QED
  BY <1>1, <1>2, <1>3, <1>4, <1>5, <1>6, <1>7 DEF Quiet

\* The link of the client that acts, where the link is in force.
LEMMA LinkOf ==
  ASSUME NEW c \in Conns, Link(c)
  PROVE  /\ Attached(c) /\ ~Dirty(c) => Form(c)
         /\ c \notin misled /\ out[c] # <<>> =>
              /\ Len(out[c]) = 1 /\ cpc[c] \in {"wait", "gone"} /\ ~Busy(c)
              /\ out[c][1] = "OK" => \A r \in Pending(c) : Acked(r)
BY DEF Link, OutOk

\* A client asks: the first half of a head, on a connection where nothing is under way.
LEMMA LinkHalf ==
  ASSUME Types, Asks, Numbers, NEW c \in Conns, NEW k \in Kinds, SendHalf(c, k), Link(c)
  PROVE  Link(c)' /\ OnlyClient(c)
<1> DEFINE n == Len(reqs) + 1
<1>1. /\ n \in Reqs /\ Pending(c)' = Pending(c) \cup {n}
      /\ \A d \in Conns : d # c => Pending(d)' = Pending(d)
      /\ \A r \in 1..Len(reqs) : reqs'[r] = reqs[r]
      /\ \A d \in Conns : Pending(d) \subseteq 1..Len(reqs)
  BY PendingHalf
<1>2. Sends(c, "half", n, "half") /\ cpc[c] = "idle"
  BY DEF SendHalf
<1> HIDE DEF n
<1>3. /\ Len(stream'[c]) = Len(stream[c]) + 1 /\ Len(stream[c]) \in Nat /\ stream'[c] # <<>>
      /\ \A i \in 1..Len(stream'[c]) :
           stream'[c][i].req = n \/ (i \in 1..Len(stream[c]) /\ stream'[c][i] = stream[c][i])
      /\ \A d \in Conns : d # c => stream'[d] = stream[d] /\ cpc'[d] = cpc[d]
      /\ cpc'[c] = "half"
  BY <1>1, <1>2, SendsFacts
<1>4. UNCHANGED <<conns, backlog, out, ans, eVars, wVars>>
  BY <1>2 DEF Sends
<1>5. OnlyClient(c)
  BY <1>1, <1>3, <1>4 DEF OnlyClient
<1>6. Pending(c)' = {n}
  BY <1>1, <1>2 DEF Asks
<1>7. OutOk(c)'
  BY <1>2, <1>4, LinkOf DEF OutOk, wVars
<1>8. ASSUME Attached(c)', ~Dirty(c)' PROVE Form(c)'
  <2>1. Attached(c) /\ ~Dirty(c) /\ (Busy(c)' <=> Busy(c)) /\ \A w \in Workers : Works(w, c)' <=> Works(w, c)
    BY <1>5, <1>8, ClientSame
  <2>2. Form(c) /\ c \notin misled
    BY <2>1, LinkOf DEF Dirty
  <2>3. out[c] = <<>>
    BY <1>2, <2>2, LinkOf
  <2>4. stream[c] = <<>> /\ ~Busy(c)
    BY <1>2, <2>2 DEF Form
  <2>5. Len(stream'[c]) = 1 /\ \A i \in 1..Len(stream'[c]) : stream'[c][i].req = n
    BY <1>3, <2>4, EmptySeq
  <2>6. Unread(c)'
    BY <1>3, <2>5 DEF Unread
  <2> QED
    BY <1>3, <1>4, <1>6, <2>1, <2>3, <2>4, <2>5, <2>6 DEF Form, Busy
<1> QED
  BY <1>5, <1>7, <1>8 DEF Link

\* A client sends the rest of the head, or the body.
LEMMA LinkMore ==
  ASSUME Types, Asks, NEW c \in Conns, SendRest(c) \/ SendBody(c), Link(c)
  PROVE  Link(c)' /\ OnlyClient(c)
<1>1. PICK r \in Pending(c) :
        \/ cpc[c] = "half" /\ Sends(c, "rest", r, IF reqs[r].kind = "empty" THEN "wait" ELSE "head")
        \/ cpc[c] = "head" /\ Sends(c, "body", r, "wait")
  BY DEF SendRest, SendBody
<1>2. UNCHANGED <<conns, backlog, out, ans, eVars, wVars, reqs>>
  BY DEF Sends, SendRest, SendBody
<1>3. r \in Reqs
  BY PendingSent
<1>4. /\ Len(stream'[c]) = Len(stream[c]) + 1 /\ Len(stream[c]) \in Nat /\ stream'[c] # <<>>
      /\ \A i \in 1..Len(stream'[c]) :
           stream'[c][i].req = r \/ (i \in 1..Len(stream[c]) /\ stream'[c][i] = stream[c][i])
      /\ \A d \in Conns : d # c => stream'[d] = stream[d] /\ cpc'[d] = cpc[d]
      /\ cpc[c] = "half" => cpc'[c] = IF reqs[r].kind = "empty" THEN "wait" ELSE "head"
      /\ cpc[c] = "head" => cpc'[c] = "wait"
  BY <1>1, <1>3, SendsFacts
<1>5. \A d : Pending(d)' = Pending(d)
  BY <1>2, PendingSame
<1>6. OnlyClient(c)
  BY <1>2, <1>4, <1>5 DEF OnlyClient
<1>7. OutOk(c)'
  BY <1>1, <1>2, LinkOf DEF OutOk, wVars
<1>8. ASSUME Attached(c)', ~Dirty(c)' PROVE Form(c)'
  <2>1. /\ Attached(c) /\ ~Dirty(c) /\ (Busy(c)' <=> Busy(c))
        /\ \A w \in Workers : Works(w, c)' <=> Works(w, c)
    BY <1>6, <1>8, ClientSame
  <2>2. Form(c) /\ c \notin misled
    BY <2>1, LinkOf DEF Dirty
  <2>3. out[c] = <<>>
    BY <1>1, <2>2, LinkOf
  <2>4. \A s \in Pending(c) : s = r
    BY DEF Asks
  <2>5. \A i \in 1..Len(stream'[c]) : stream'[c][i].req \in Pending(c)
    BY <1>4, <2>2 DEF Form
  <2>6. ASSUME NEW w \in Workers, Works(w, c)
        PROVE  Serving(w, c)' /\ cpc[c] = "head"
    <3>1. Serving(w, c) /\ wpc[w] \in {"body", "app", "send"}
      BY <2>2, <2>6 DEF Form, Works
    <3>2. wpc[w] = "body" /\ cpc[c] = "head" /\ stream[c] = <<>>
      BY <1>1, <3>1 DEF Serving
    <3>3. Len(stream'[c]) = 1 /\ cpc'[c] = "wait"
      BY <1>4, <3>2, EmptySeq
    <3>4. wpc'[w] = "body" /\ hd' = hd /\ reqs' = reqs
      BY <1>2, <3>2 DEF wVars
    <3> QED
      BY <1>5, <3>1, <3>2, <3>3, <3>4 DEF Serving
  <2>7. ~Busy(c) => Unread(c)'
    <3> SUFFICES ASSUME ~Busy(c) PROVE Unread(c)'
      OBVIOUS
    <3>1. Unread(c)
      BY <2>2 DEF Form
    <3>2. cpc[c] = "half" => Len(stream[c]) = 1
      BY <3>1 DEF Unread
    <3>3. cpc[c] = "head" => Len(stream[c]) = 2 /\ reqs[r].kind # "empty"
      BY <3>1 DEF Unread, Asks
    <3>4. cpc[c] = "half" \/ cpc[c] = "head"
      BY <1>1
    <3> DEFINE m == Len(stream[c])
               n == Len(stream'[c])
    <3> HIDE DEF m, n
    <3>0. n = m + 1 /\ (cpc[c] = "half" => m = 1) /\ (cpc[c] = "head" => m = 2)
      BY <1>4, <3>2, <3>3 DEF m, n
    <3>5. CASE cpc[c] = "half"
      <4>1. Len(stream'[c]) = 2
        BY <3>0, <3>5 DEF n
      <4>2. cpc'[c] = IF reqs[r].kind = "empty" THEN "wait" ELSE "head"
        BY <1>4, <3>5
      <4> QED
        BY <1>2, <1>5, <2>4, <4>1, <4>2 DEF Unread
    <3>6. CASE cpc[c] = "head"
      <4>1. Len(stream'[c]) = 3 /\ cpc'[c] = "wait" /\ reqs[r].kind # "empty"
        <5>1. n = 3
          BY <3>0, <3>6
        <5> QED
          BY <1>4, <3>3, <3>6, <5>1 DEF n
      <4> QED
        BY <1>2, <1>5, <2>4, <4>1 DEF Unread
    <3> QED
      BY <3>4, <3>5, <3>6
  <2>8. cpc'[c] # "idle" /\ out'[c] = <<>>
    BY <1>1, <1>2, <1>4, <2>3
  <2> QED
    BY <1>5, <2>1, <2>5, <2>6, <2>7, <2>8 DEF Form
<1> QED
  BY <1>6, <1>7, <1>8 DEF Link

\* A client reads its answer: nothing is under way any more.
LEMMA LinkRead ==
  ASSUME Types, Asks, NEW c \in Conns, ReadReply(c), Link(c)
  PROVE  Link(c)' /\ OnlyClient(c)
<1>1. Pending(c)' = {} /\ \A d \in Conns : d # c => Pending(d)' = Pending(d)
  BY PendingRead
<1>2. /\ cpc[c] = "wait" /\ out[c] # <<>> /\ UNCHANGED <<conns, backlog, reqs, stream, eVars, wVars>>
      /\ out' = [out EXCEPT ![c] = Tail(@)] /\ cpc' = [cpc EXCEPT ![c] = "idle"]
  BY DEF ReadReply
<1>3. /\ out'[c] = Tail(out[c]) /\ cpc'[c] = "idle"
      /\ \A d \in Conns : d # c => out'[d] = out[d] /\ cpc'[d] = cpc[d]
  BY <1>2 DEF Types, CType
<1>4. OnlyClient(c)
  BY <1>1, <1>2, <1>3 DEF OnlyClient
<1>5. c \notin misled => out'[c] = <<>>
  <2> SUFFICES ASSUME c \notin misled PROVE out'[c] = <<>>
    OBVIOUS
  <2>1. Len(out[c]) = 1 /\ out[c] \in Seq(Texts)
    BY <1>2, LinkOf DEF Types, CType
  <2>2. Tail(out[c]) \in Seq(Texts) /\ Len(Tail(out[c])) = 0
    BY <1>2, <2>1, HeadTailProperties
  <2> QED
    BY <1>3, <2>2, EmptySeq
<1>6. OutOk(c)'
  BY <1>2, <1>5 DEF OutOk, wVars
<1>7. ASSUME Attached(c)', ~Dirty(c)' PROVE Form(c)'
  <2>1. Attached(c) /\ ~Dirty(c) /\ (Busy(c)' <=> Busy(c)) /\ \A w \in Workers : Works(w, c)' <=> Works(w, c)
    BY <1>4, <1>7, ClientSame
  <2>2. Form(c) /\ c \notin misled
    BY <2>1, LinkOf DEF Dirty
  <2>3. stream[c] = <<>> /\ ~Busy(c)
    BY <1>2, <2>2 DEF Form
  <2>4. stream'[c] = <<>> /\ Len(stream'[c]) = 0
    BY <1>2, <2>3, EmptySeq
  <2>5. Unread(c)'
    BY <1>1, <1>3, <2>4 DEF Unread
  <2> QED
    BY <2>1, <2>3, <2>4, <2>5 DEF Form, Busy
<1> QED
  BY <1>4, <1>6, <1>7 DEF Link

\* A client hangs up.
LEMMA LinkHangUp ==
  ASSUME Types, NEW c \in Conns, HangUp(c), Link(c)
  PROVE  Link(c)' /\ OnlyClient(c)
<1>1. /\ UNCHANGED <<conns, backlog, reqs, stream, out, ans, eVars, wVars>>
      /\ cpc'[c] = "gone" /\ \A d \in Conns : d # c => cpc'[d] = cpc[d]
  BY DEF HangUp, Types, CType
<1>2. \A d : Pending(d)' = Pending(d)
  BY <1>1, PendingSame
<1>3. OnlyClient(c)
  BY <1>1, <1>2 DEF OnlyClient
<1>4. /\ (Attached(c)' <=> Attached(c)) /\ (Dirty(c)' <=> Dirty(c)) /\ (Busy(c)' <=> Busy(c))
      /\ \A w \in Workers : Works(w, c)' <=> Works(w, c)
      /\ \A r : InMq(r)' <=> InMq(r)
  BY <1>3, ClientSame
<1>5. \A r : Acked(r)' <=> Acked(r)
  BY <1>1, <1>4 DEF Acked
<1>6. OutOk(c)'
  BY <1>1, <1>2, <1>4, <1>5, LinkOf DEF OutOk, wVars
<1>7. Unread(c) => Unread(c)'
  BY <1>1, <1>2 DEF Unread
<1>8. \A w \in Workers : Serving(w, c) => Serving(w, c)'
  BY <1>1, <1>2, <1>5 DEF Serving, wVars
<1>9. Form(c) => Form(c)'
  BY <1>1, <1>2, <1>4, <1>7, <1>8 DEF Form
<1> QED
  BY <1>3, <1>4, <1>6, <1>9, LinkOf DEF Link

-----------------------------------------------------------------------------
\* The steps of a service thread that serves a request.
Request(w) ==
  Recv(w) \/ ServiceApp(w) \/ Send(w) \/ SendFails(w) \/ SendStalls(w)

\* They touch the connection of the thread only.
LEMMA RequestOnly ==
  ASSUME Types, Owners, NEW w \in Workers, Request(w)
  PROVE  OnlyWorker(w) /\ wpc[w] \in {"head", "body", "app", "send"}
<1> USE DEF cVars, eVars, netVars
<1>1. wpc[w] \in {"head", "body", "app", "send"}
  BY DEF Request, Recv, RecvHead, RecvHalf, RecvJunk, RecvBody, ServiceApp, Send, SendFails, SendStalls, At
<1>2. Conn(w) \in Conns
  BY <1>1, ConnOf
<1>3. UNCHANGED <<conns, backlog, reqs, cpc, ans>> /\ misled \subseteq misled'
  BY DEF Request, Recv, RecvHead, RecvHalf, RecvJunk, RecvBody, ServiceApp, Send, SendFails, SendStalls
<1>4. \A d \in Conns : d # Conn(w) => stream'[d] = stream[d] /\ out'[d] = out[d]
  BY <1>2 DEF Types, CType, Request, Recv, RecvHead, RecvHalf, RecvJunk, RecvBody, ServiceApp, Send,
              SendFails, SendStalls, Receives
<1>5. \A v \in Workers : v # w => wpc'[v] = wpc[v] /\ wfd'[v] = wfd[v]
  BY DEF Types, WType, Request, Recv, RecvHead, RecvHalf, RecvJunk, RecvBody, ServiceApp, Send,
         SendFails, SendStalls, Fails, Close, Goto, Handle, Answers
<1>6. \A v \in Workers : v # w => hd'[v] = hd[v] /\ bd'[v] = bd[v] /\ rep'[v] = rep[v] /\ failed'[v] = failed[v]
  BY DEF Types, WType, Request, Recv, RecvHead, RecvHalf, RecvJunk, RecvBody, ServiceApp, Send,
         SendFails, SendStalls, Fails, Close, Handle, Answers
<1>7. \/ peer' = peer /\ wfd'[w] = wfd[w]
      \/ peer' = [peer EXCEPT ![wfd[w]] = None] /\ wfd'[w] = None
  BY DEF Types, WType, Request, Recv, RecvHead, RecvHalf, RecvJunk, RecvBody, ServiceApp, Send,
         SendFails, SendStalls, Fails, Close
<1>8. UNCHANGED mqueue \/ \E r \in Reqs : mqueue' = Append(mqueue, r)
  BY DEF Types, WType, Request, Recv, RecvHead, RecvHalf, RecvJunk, RecvBody, ServiceApp, Send,
         SendFails, SendStalls, Handle, Answers
<1> QED
  BY <1>1, <1>3, <1>4, <1>5, <1>6, <1>7, <1>8 DEF OnlyWorker

\* What the link of its connection says to a thread that serves it.
LEMMA LinkServed ==
  ASSUME Types, Owners, Fresh, NEW w \in Workers, NEW c, c = Conn(w),
         wpc[w] \in {"head", "body", "app", "send"}, Link(c)
  PROVE  /\ c \in Conns /\ Attached(c)
         /\ wpc[w] # "head" => Works(w, c) /\ Busy(c)
         /\ wpc[w] = "head" => ~Busy(c)
         /\ Dirty(c) <=> c \in misled \/ (wpc[w] = "app" /\ failed[w])
         /\ ~Dirty(c) => Form(c)
         /\ ~Dirty(c) /\ wpc[w] # "head" => Serving(w, c)
         /\ c \notin misled /\ (wpc[w] = "head" => stream[c] # <<>>) => out[c] = <<>>
<1>1. wfd[w] \in Fds /\ wfd[w] # None /\ wfd[w] \in Open /\ c \in Conns
  BY ConnOf
<1>2. Serves(w, c) /\ \A v \in Workers : Serves(v, c) => v = w
  BY <1>1, OneThread DEF Serves, Conn
<1>3. Attached(c)
  BY <1>1 DEF Attached, Conn
<1>4. \A v \in Workers : Works(v, c) <=> v = w /\ wpc[w] # "head"
  BY <1>2 DEF Works
<1>5. (wpc[w] # "head" => Works(w, c) /\ Busy(c)) /\ (wpc[w] = "head" => ~Busy(c))
  BY <1>4 DEF Busy
<1>6. Dirty(c) <=> c \in misled \/ (wpc[w] = "app" /\ failed[w])
  BY <1>4 DEF Dirty
<1>7. ~Dirty(c) => Form(c)
  BY <1>1, <1>3, LinkOf
<1>8. ~Dirty(c) /\ wpc[w] # "head" => Serving(w, c)
  BY <1>4, <1>7 DEF Form
<1>9. c \notin misled /\ (wpc[w] = "head" => stream[c] # <<>>) => out[c] = <<>>
  <2>1. CASE wpc[w] = "head"
    BY <1>6, <1>7, <2>1 DEF Form
  <2>2. CASE wpc[w] # "head"
    BY <1>1, <1>5, <2>2, LinkOf
  <2> QED
    BY <2>1, <2>2
<1> QED
  BY <1>1, <1>3, <1>5, <1>6, <1>7, <1>8, <1>9

\* After xrecv failed, the connection is either closed or served nevertheless.
LEMMA LinkFails ==
  ASSUME Types, Owners, Fresh, NEW w \in Workers, NEW c, c = Conn(w), wpc[w] \in {"head", "body"}, Link(c),
         OnlyWorker(w), NEW e \in BOOLEAN, Fails(w, e), UNCHANGED <<out, misled>>, wpc[w] = "head" => stream[c] # <<>>
  PROVE  Link(c)'
<1>1. c \in Conns /\ (c \notin misled => out[c] = <<>>)
  BY LinkServed
<1>2. OutOk(c)'
  BY <1>1 DEF OutOk
<1>3. Attached(c)' => peer' = peer /\ wfd'[w] = wfd[w]
  BY WorkerSame
<1>4. CASE e
  <2>1. peer' = peer /\ wfd' = wfd /\ wpc'[w] = "app" /\ failed'[w] = TRUE
    BY <1>4 DEF Fails, Goto, Types, WType
  <2>2. wfd[w] # None /\ peer[wfd[w]] = c
    BY ConnOf DEF Conn
  <2>3. Dirty(c)'
    BY <2>1, <2>2 DEF Dirty, Works, Serves
  <2> QED
    BY <1>2, <2>3 DEF Link
<1>5. CASE ~e
  <2>1. wfd'[w] = None /\ wfd[w] # None
    BY <1>5, ConnOf DEF Fails, Close, Types, WType
  <2>2. ~Attached(c)'
    BY <1>3, <2>1
  <2> QED
    BY <1>2, <2>2 DEF Link
<1> QED
  BY <1>4, <1>5

\* The head is received.
LEMMA LinkHead ==
  ASSUME Types, Owners, Fresh, Asks, NEW w \in Workers, NEW c, c = Conn(w), RecvHead(w), Link(c)
  PROVE  Link(c)'
<1>1. /\ wpc[w] = "head" /\ stream[c] # <<>> /\ Len(stream[c]) >= 2 /\ Receives(w, 2)
      /\ hd' = [hd EXCEPT ![w] = First(w).req] /\ UNCHANGED <<netVars, out, bd, rep, mqueue, misled>>
  BY DEF RecvHead, At
<1>2. OnlyWorker(w)
  BY RequestOnly DEF Request, Recv
<1>3. CASE reqs[First(w).req].kind = "big"
  <2>1. Fails(w, again[w]) /\ again[w] \in BOOLEAN
    BY <1>3 DEF RecvHead, Types, WType
  <2> QED
    BY <1>1, <1>2, <2>1, LinkFails
<1>4. CASE reqs[First(w).req].kind # "big"
  <2>1. c \in Conns /\ ~Busy(c) /\ (Dirty(c) <=> c \in misled) /\ (~Dirty(c) => Form(c)) /\ (c \notin misled => out[c] = <<>>)
    BY <1>1, LinkServed
  <2>2. OutOk(c)'
    BY <1>1, <2>1 DEF OutOk
  <2> SUFFICES ASSUME ~Dirty(c)' PROVE Form(c)'
    BY <2>2 DEF Link
  <2>3. c \notin misled /\ Form(c) /\ Unread(c) /\ out'[c] = <<>>
    BY <1>1, <2>1 DEF Dirty, Form
  <2> DEFINE r == First(w).req
             k == reqs[r].kind
  <2>4. r \in Pending(c) /\ k \in Kinds /\ k # "big"
    <3>1. First(w) = stream[c][1] /\ stream[c] \in Seq(Pieces)
      BY <1>1, <2>1, FirstOf DEF Types, CType
    <3>2. 1 \in 1..Len(stream[c])
      BY <1>1, <3>1, EmptySeq, LenProperties
    <3>3. r \in Pending(c)
      BY <2>3, <3>1, <3>2 DEF Form
    <3>4. reqs[r] \in [kind : Kinds, conn : Conns]
      BY <3>3, PendingSent, ElementOfSeq DEF Types, CType
    <3> QED
      BY <1>4, <3>3, <3>4
  <2>5. k = "empty" \/ k = "message"
    BY <2>4, ServiceAssumption
  <2>6. peer' = peer /\ wfd' = wfd /\ wpc' = [wpc EXCEPT ![w] = IF k = "empty" THEN "app" ELSE "body"]
    BY <2>5 DEF RecvHead, Goto
  <2>7. hd'[w] = r /\ wpc'[w] = IF k = "empty" THEN "app" ELSE "body"
    BY <1>1, <2>6 DEF Types, WType
  <2> HIDE DEF r, k
  <2>8. /\ \A d : Pending(d)' = Pending(d)
        /\ \A v \in Workers : Serves(v, c)' => v = w
    BY <1>1, <1>2, WorkerSame
  <2>9. /\ Len(stream'[c]) = Len(stream[c]) - 2 /\ Len(stream[c]) \in Nat
        /\ \A i \in 1..Len(stream'[c]) : i + 2 \in 1..Len(stream[c]) /\ stream'[c][i] = stream[c][i + 2]
        /\ stream'[c] \in Seq(Pieces)
    <3>1. stream[c] \in Seq(Pieces) /\ stream'[c] \in Seq(Pieces)
      BY <1>1, <2>1, ReceivesType DEF Types, CType
    <3>2. Len(stream[c]) \in Nat
      BY <3>1, LenProperties
    <3> QED
      BY <1>1, <3>1, <3>2, CutFacts
  <2>10. \A i \in 1..Len(stream'[c]) : stream'[c][i].req \in Pending(c)
    BY <2>3, <2>9 DEF Form
  <2>11. \A s \in Pending(c) : s = r
    BY <2>1, <2>4 DEF Asks
  <2> DEFINE m == Len(stream[c])
             n == Len(stream'[c])
  <2> HIDE DEF m, n
  <2>12. /\ m <= 3 /\ (cpc[c] = "half" => m = 1) /\ (cpc[c] = "head" => m = 2 /\ k # "empty")
         /\ (m = 3 => k # "empty") /\ m >= 2 /\ m \in Nat /\ n = m - 2
    <3>1. m <= 3 /\ (cpc[c] = "half" => m = 1) /\ (cpc[c] = "head" => m = 2)
      BY <2>3 DEF Unread, m
    <3>2. m = 3 => k # "empty"
      BY <2>3, <2>4 DEF Unread, m, k
    <3>3. cpc[c] = "head" => k # "empty"
      BY <2>1, <2>4 DEF Asks, k
    <3>4. m >= 2 /\ m \in Nat /\ n = m - 2
      BY <1>1, <2>9 DEF m, n
    <3> QED
      BY <3>1, <3>2, <3>3, <3>4
  <2>13. cpc[c] \in {"head", "wait", "gone"}
    <3>1. cpc[c] # "idle"
      BY <1>1, <2>3 DEF Form
    <3>2. cpc[c] # "half"
      BY <2>12
    <3> QED
      BY <2>1, <3>1, <3>2 DEF Types, CType
  <2>14. Len(stream'[c]) <= 1 /\ (k = "empty" \/ cpc[c] = "head" => Len(stream'[c]) = 0)
    <3>1. n <= 1 /\ (k = "empty" \/ cpc[c] = "head" => n = 0)
      BY <2>12
    <3> QED
      BY <3>1 DEF n
  <2>15. k = "empty" \/ cpc[c] = "head" => stream'[c] = <<>>
    BY <2>9, <2>14, EmptySeq
  <2>16. Works(w, c)' /\ \A v \in Workers : Works(v, c)' => v = w
    <3>1. wfd[w] # None /\ peer[wfd[w]] = c
      BY <1>1, ConnOf DEF Conn
    <3>2. Works(w, c)'
      BY <2>6, <2>7, <3>1 DEF Works, Serves
    <3> QED
      BY <2>8, <3>2 DEF Works
  <2>17. Serving(w, c)'
    <3>1. UNCHANGED <<cpc, reqs>>
      BY <1>1 DEF netVars
    <3>2. reqs'[r].kind = k /\ hd'[w] = r /\ cpc'[c] = cpc[c]
      BY <2>7, <3>1 DEF k
    <3>3. CASE k = "empty"
      <4>1. cpc[c] \in {"wait", "gone"} /\ stream'[c] = <<>> /\ wpc'[w] = "app"
        BY <2>7, <2>12, <2>13, <2>15, <3>3
      <4> QED
        BY <2>4, <2>8, <3>2, <3>3, <4>1 DEF Serving
    <3>4. CASE k = "message"
      <4>1. wpc'[w] = "body"
        BY <2>7, <3>4
      <4> QED
        BY <2>4, <2>8, <2>13, <2>14, <2>15, <3>2, <3>4, <4>1 DEF Serving
    <3> QED
      BY <2>5, <3>3, <3>4 DEF k
  <2>18. Busy(c)'
    BY <2>16 DEF Busy
  <2>19. cpc'[c] # "idle"
    BY <1>1, <2>13 DEF netVars
  <2> QED
    BY <2>3, <2>8, <2>10, <2>16, <2>17, <2>18, <2>19 DEF Form
<1> QED
  BY <1>3, <1>4

\* Half a head, or what is no head.
LEMMA LinkBroken ==
  ASSUME Types, Owners, Fresh, NEW w \in Workers, NEW c, c = Conn(w), RecvHalf(w) \/ RecvJunk(w), Link(c)
  PROVE  Link(c)'
<1>1. OnlyWorker(w)
  BY RequestOnly DEF Request, Recv
<1>2. /\ wpc[w] = "head" /\ stream[c] # <<>> /\ Fails(w, again[w]) /\ again[w] \in BOOLEAN /\ UNCHANGED <<out, misled>>
  BY DEF RecvHalf, RecvJunk, At, Types, WType
<1> QED
  BY <1>1, <1>2, LinkFails

\* The body is received.
LEMMA LinkBody ==
  ASSUME Types, Owners, Fresh, Asks, NEW w \in Workers, NEW c, c = Conn(w), RecvBody(w), Link(c)
  PROVE  Link(c)'
<1>1. wpc[w] = "body" /\ UNCHANGED <<netVars, out, hd, rep, mqueue, misled>>
  BY DEF RecvBody, At
<1>2. OnlyWorker(w)
  BY RequestOnly DEF Request, Recv
<1>3. CASE stream[c] = <<>>
  <2>1. PICK e \in BOOLEAN : Fails(w, e)
    BY <1>3 DEF RecvBody, Types, WType
  <2> QED
    BY <1>1, <1>2, <2>1, LinkFails
<1>4. CASE stream[c] # <<>>
  <2>1. /\ c \in Conns /\ (Dirty(c) <=> c \in misled) /\ (~Dirty(c) => Form(c) /\ Serving(w, c))
        /\ (c \notin misled => out[c] = <<>>)
    BY <1>1, LinkServed
  <2>2. OutOk(c)'
    BY <1>1, <2>1 DEF OutOk
  <2> SUFFICES ASSUME ~Dirty(c)' PROVE Form(c)'
    BY <2>2 DEF Link
  <2>3. c \notin misled /\ Form(c) /\ Serving(w, c) /\ out'[c] = <<>>
    BY <1>1, <2>1 DEF Dirty
  <2>4. /\ Receives(w, 1) /\ bd' = [bd EXCEPT ![w] = First(w).req] /\ wpc' = [wpc EXCEPT ![w] = "app"]
        /\ peer' = peer /\ wfd' = wfd
    BY <1>4 DEF RecvBody, Goto
  <2>5. bd'[w] = First(w).req /\ wpc'[w] = "app"
    BY <2>4 DEF Types, WType
  <2>6. /\ hd[w] \in Pending(c) /\ reqs[hd[w]].kind = "message"
        /\ Len(stream[c]) <= 1 /\ cpc[c] \in {"head", "wait", "gone"} /\ cpc[c] # "head"
    BY <1>1, <1>4, <2>3 DEF Serving
  <2>7. stream[c] \in Seq(Pieces) /\ stream'[c] \in Seq(Pieces) /\ First(w) = stream[c][1]
    BY <1>1, <1>4, <2>1, <2>4, ReceivesType, FirstOf DEF Types, CType
  <2>8. Len(stream[c]) \in Nat /\ Len(stream[c]) = 1 /\ 1 \in 1..Len(stream[c])
    <3>1. Len(stream[c]) \in Nat /\ Len(stream[c]) # 0
      BY <1>4, <2>7, EmptySeq, LenProperties
    <3> DEFINE m == Len(stream[c])
    <3>2. m \in Nat /\ m # 0 /\ m <= 1
      BY <2>6, <3>1
    <3> HIDE DEF m
    <3>3. m = 1 /\ 1 \in 1..m
      BY <3>2
    <3> QED
      BY <3>1, <3>3 DEF m
  <2>9. Len(stream'[c]) = Len(stream[c]) - 1
    BY <1>1, <2>4, <2>8, CutFacts
  <2>10. Len(stream'[c]) = 0
    BY <2>8, <2>9
  <2>11. stream'[c] = <<>> /\ 1..Len(stream'[c]) = {}
    BY <2>7, <2>10, EmptySeq
  <2>12. bd'[w] = hd[w]
    <3>1. stream[c][1].req \in Pending(c)
      BY <2>3, <2>8 DEF Form
    <3> QED
      BY <2>1, <2>5, <2>6, <2>7, <3>1 DEF Asks
  <2>13. /\ \A d : Pending(d)' = Pending(d)
         /\ \A v \in Workers : Serves(v, c)' => v = w
    BY <1>1, <1>2, WorkerSame
  <2>14. Works(w, c)' /\ \A v \in Workers : Works(v, c)' => v = w
    <3>1. wfd[w] # None /\ peer[wfd[w]] = c
      BY <1>1, ConnOf DEF Conn
    <3>2. Works(w, c)'
      BY <2>4, <2>5, <3>1 DEF Works, Serves
    <3> QED
      BY <2>13, <3>2 DEF Works
  <2>15. UNCHANGED <<cpc, reqs, hd>> /\ cpc[c] \in {"wait", "gone"}
    BY <1>1, <2>6 DEF netVars
  <2>16. Serving(w, c)'
    BY <2>5, <2>6, <2>11, <2>12, <2>13, <2>15 DEF Serving
  <2> QED
    BY <2>3, <2>11, <2>13, <2>14, <2>15, <2>16 DEF Form, Busy
<1> QED
  BY <1>3, <1>4

\* The application answers, or the process dies: what it read is the pending request.
LEMMA LinkApp ==
  ASSUME Types, Owners, Fresh, Asks, NEW w \in Workers, NEW c, c = Conn(w), ServiceApp(w), Link(c)
  PROVE  Link(c)'
<1>1. /\ wpc[w] = "app" /\ UNCHANGED <<cVars, eVars, wfd, hd, bd, failed>>
      /\ misled' = IF failed[w] THEN misled \cup {c} ELSE misled
  BY DEF ServiceApp, At
<1>2. OnlyWorker(w)
  BY RequestOnly DEF Request
<1>3. /\ c \in Conns /\ (Dirty(c) <=> c \in misled \/ failed[w]) /\ (~Dirty(c) => Form(c) /\ Serving(w, c))
      /\ (c \notin misled => out[c] = <<>>)
  BY <1>1, LinkServed
<1>4. OutOk(c)'
  BY <1>1, <1>3 DEF OutOk, cVars
<1> SUFFICES ASSUME ~Dirty(c)' PROVE Form(c)'
  BY <1>4 DEF Link
<1>5. c \notin misled /\ ~failed[w] /\ Form(c) /\ Serving(w, c) /\ out[c] = <<>>
  BY <1>1, <1>3 DEF Dirty
<1>6. /\ hd[w] \in Pending(c) /\ stream[c] = <<>> /\ cpc[c] \in {"wait", "gone"}
      /\ reqs[hd[w]].kind = "empty" \/ (reqs[hd[w]].kind = "message" /\ bd[w] = hd[w])
  BY <1>1, <1>5 DEF Serving
<1>7. HeadKind(w) = reqs[hd[w]].kind
  <2>1. hd[w] \in Reqs
    BY <1>6, PendingSent
  <2>2. hd[w] # None /\ hd[w] # Junk
    BY <2>1, ServiceAssumption DEF Reqs, None, Junk
  <2> QED
    BY <2>2 DEF HeadKind
<1>8. \/ UNCHANGED <<wpc, rep, mqueue>>
      \/ /\ wpc' = [wpc EXCEPT ![w] = "send"]
         /\ \/ reqs[hd[w]].kind = "empty"
            \/ mqueue' = Append(mqueue, hd[w])
            \/ rep' = [rep EXCEPT ![w] = "ERROR"]
  BY <1>6, <1>7 DEF ServiceApp, Handle, Answers, Goto
<1>9. \A d : Pending(d)' = Pending(d)
  BY <1>1, <1>2, WorkerSame
<1>10. \A r \in Pending(c) : r = hd[w]
  BY <1>3, <1>6 DEF Asks
<1>11. wpc'[w] = "send" /\ rep'[w] = "OK" => Acked(hd[w])'
  <2>1. hd'[w] = hd[w] /\ reqs' = reqs
    BY <1>1 DEF cVars
  <2>2. CASE reqs[hd[w]].kind = "empty"
    BY <2>1, <2>2, <1>1 DEF Acked
  <2>3. CASE mqueue' = Append(mqueue, hd[w])
    <3> DEFINE h == hd[w]
    <3>1. h \in Reqs /\ mqueue \in Seq(Reqs) /\ mqueue' = Append(mqueue, h) /\ hd' = hd
      BY <1>1, <1>6, <2>3, PendingSent DEF Types, WType
    <3> HIDE DEF h
    <3>2. \E i \in 1..Len(mqueue') : mqueue'[i] = h
      BY <3>1, InAppend
    <3> QED
      BY <3>1, <3>2 DEF Acked, InMq, h
  <2>4. CASE rep' = [rep EXCEPT ![w] = "ERROR"]
    BY <2>4 DEF Types, WType
  <2> QED
    BY <1>1, <1>8, <2>2, <2>3, <2>4
<1>12. wpc'[w] \in {"app", "send"} /\ UNCHANGED <<hd, bd, reqs>>
  BY <1>1, <1>8 DEF Types, WType, cVars
<1>13. Works(w, c)' /\ \A v \in Workers : Works(v, c)' => v = w
  <2>1. wfd[w] # None /\ peer[wfd[w]] = c
    BY <1>1, ConnOf DEF Conn
  <2>2. Works(w, c)'
    BY <1>1, <1>12, <2>1 DEF Works, Serves, eVars
  <2>3. \A v \in Workers : Serves(v, c)' => v = w
    BY <1>1, <1>2, WorkerSame
  <2> QED
    BY <2>2, <2>3 DEF Works
<1>14. stream'[c] = <<>> /\ out'[c] = <<>> /\ cpc'[c] \in {"wait", "gone"}
  BY <1>1, <1>5, <1>6 DEF cVars
<1>15. Serving(w, c)'
  <2>1. wpc'[w] = "send" /\ rep'[w] = "OK" => \A r \in Pending(c)' : Acked(r)'
    <3> SUFFICES ASSUME wpc'[w] = "send", rep'[w] = "OK", NEW r \in Pending(c)' PROVE Acked(r)'
      OBVIOUS
    <3>1. r = hd[w]
      BY <1>9, <1>10
    <3> QED
      BY <1>11, <1>12, <3>1 DEF Acked, InMq
  <2>2. hd'[w] \in Pending(c)' /\ (reqs'[hd'[w]].kind = "empty" \/ (reqs'[hd'[w]].kind = "message" /\ bd'[w] = hd'[w]))
    BY <1>6, <1>9, <1>12
  <2> QED
    BY <1>12, <1>14, <2>1, <2>2 DEF Serving
<1>16. Len(stream'[c]) = 0
  BY <1>14, EmptySeq
<1> QED
  BY <1>13, <1>14, <1>15, <1>16 DEF Form, Busy

\* The answer is sent.
LEMMA LinkAnswer ==
  ASSUME Types, Owners, Fresh, Reps, Asks, NEW w \in Workers, NEW c, c = Conn(w), Send(w), Link(c)
  PROVE  Link(c)'
<1>1. /\ wpc[w] = "send" /\ wpc' = [wpc EXCEPT ![w] = "free"] /\ out' = [out EXCEPT ![c] = Append(@, rep[w])]
      /\ UNCHANGED <<netVars, stream, eVars, wfd, hd, bd, failed, rep, mqueue, misled>>
  BY DEF Send, At, Goto
<1>2. OnlyWorker(w)
  BY RequestOnly DEF Request
<1>3. /\ c \in Conns /\ Attached(c) /\ (Dirty(c) <=> c \in misled) /\ (~Dirty(c) => Form(c) /\ Serving(w, c))
      /\ (c \notin misled => out[c] = <<>>)
  BY <1>1, LinkServed
<1>4. wpc'[w] = "free"
  BY <1>1 DEF Types, WType
<1>5. ~Busy(c)' /\ \A v \in Workers : ~Works(v, c)'
  <2>1. \A v \in Workers : Serves(v, c)' => v = w
    BY <1>1, <1>2, WorkerSame
  <2> QED
    BY <1>4, <2>1 DEF Works, Busy
<1>6. CASE c \in misled
  BY <1>1, <1>6 DEF Link, Dirty, OutOk
<1>7. CASE c \notin misled
  <2>1. Form(c) /\ Serving(w, c) /\ out[c] = <<>>
    BY <1>3, <1>7
  <2>2. /\ stream[c] = <<>> /\ cpc[c] \in {"wait", "gone"}
        /\ rep[w] = "OK" => \A r \in Pending(c) : Acked(r)
    BY <1>1, <2>1 DEF Serving
  <2>3. rep[w] \in Texts
    BY <1>1 DEF Reps
  <2>4. out'[c] = Append(<<>>, rep[w])
    BY <1>1, <1>3, <2>1 DEF Types, CType
  <2>5. Len(out'[c]) = 1 /\ out'[c][1] = rep[w]
    BY <2>3, <2>4
  <2>6. out'[c] # <<>>
    BY <2>5, EmptySeq
  <2>7. UNCHANGED <<reqs, cpc, stream, mqueue>> /\ Pending(c)' = Pending(c)
    BY <1>1, PendingSame DEF netVars
  <2>8. \A r : Acked(r)' <=> Acked(r)
    BY <2>7 DEF Acked, InMq
  <2>9. OutOk(c)'
    BY <1>5, <2>2, <2>5, <2>7, <2>8 DEF OutOk
  <2>10. Len(stream'[c]) = 0 /\ stream'[c] = <<>>
    BY <2>2, <2>7, EmptySeq
  <2>11. Unread(c)'
    <3>1. cpc'[c] # "half" /\ cpc'[c] # "head"
      BY <2>2, <2>7
    <3>2. out'[c] # <<>> /\ Len(stream'[c]) = 0
      BY <2>6, <2>10
    <3> QED
      BY <3>1, <3>2 DEF Unread
  <2>12. Form(c)'
    BY <1>5, <2>10, <2>11 DEF Form
  <2> QED
    BY <2>9, <2>12 DEF Link
<1> QED
  BY <1>6, <1>7

\* The answer cannot be sent, or is garbled.
LEMMA LinkUnsent ==
  ASSUME Types, Owners, Fresh, NEW w \in Workers, NEW c, c = Conn(w), SendFails(w) \/ SendStalls(w), Link(c)
  PROVE  Link(c)'
<1>1. wpc[w] = "send" /\ UNCHANGED <<cVars, hd, bd, failed, mqueue, misled>>
  BY DEF SendFails, SendStalls, At
<1>2. OnlyWorker(w)
  BY RequestOnly DEF Request
<1>3. /\ c \in Conns /\ (c \notin misled => out[c] = <<>>)
  BY <1>1, LinkServed
<1>4. OutOk(c)'
  BY <1>1, <1>3 DEF OutOk, cVars
<1>5. CASE SendFails(w)
  <2>1. wfd'[w] = None /\ wfd[w] # None
    BY <1>1, <1>5, ConnOf DEF SendFails, Close, Types, WType
  <2>2. ~Attached(c)'
    BY <1>1, <1>2, <2>1, WorkerSame
  <2> QED
    BY <1>4, <2>2 DEF Link
<1>6. CASE SendStalls(w)
  <2>1. UNCHANGED <<eVars, wpc, wfd>> /\ rep' = [rep EXCEPT ![w] = "garbled"]
    BY <1>6 DEF SendStalls
  <2>2. rep'[w] = "garbled" /\ \A v \in Workers : v # w => rep'[v] = rep[v]
    BY <2>1 DEF Types, WType
  <2>3. \A v \in Workers : Works(v, c)' <=> Works(v, c)
    BY <2>1 DEF Works, Serves, eVars
  <2>4. /\ Attached(c)' <=> Attached(c)
        /\ Busy(c)' <=> Busy(c)
        /\ Dirty(c)' <=> Dirty(c)
    BY <1>1, <2>1, <2>3 DEF Attached, Open, Busy, Dirty, eVars, cVars
  <2>5. Pending(c)' = Pending(c) /\ \A r : Acked(r)' <=> Acked(r)
    BY <1>1, PendingSame DEF cVars, Acked, InMq
  <2>6. Unread(c)' <=> Unread(c)
    BY <1>1, <2>5 DEF Unread, cVars
  <2>7. \A v \in Workers : Serving(v, c) => Serving(v, c)'
    BY <1>1, <2>1, <2>2, <2>5 DEF Serving, cVars
  <2>8. Form(c) => Form(c)'
    BY <1>1, <2>3, <2>4, <2>5, <2>6, <2>7 DEF Form, cVars
  <2> QED
    BY <1>3, <1>4, <2>4, <2>8, LinkOf DEF Link
<1> QED
  BY <1>5, <1>6

-----------------------------------------------------------------------------
\* A step is one of the event queue, of one client or of one thread at its request.
LEMMA Steps ==
  ASSUME [Next]_vars
  PROVE  Quiet \/ (\E c \in Conns : Client(c)) \/ (\E w \in Workers : Request(w))
BY DEF Next, Main, HandleEvent, Worker, Quiet, Request

\* Every step keeps the links.
LEMMA LinksStep ==
  ASSUME Types, Owners, Reps, Fresh, Asks, Numbers, Links, [Next]_vars
  PROVE  Links'
<1>1. CASE Quiet
  BY <1>1, QuietSame, LinkSame DEF Links
<1>2. ASSUME NEW c \in Conns, Client(c) PROVE Links'
  <2>1. Link(c)
    BY DEF Links
  <2>2. Link(c)' /\ OnlyClient(c)
    BY <1>2, <2>1, LinkHalf, LinkMore, LinkRead, LinkHangUp DEF Client
  <2>3. \A d \in Conns : d # c => Link(d)'
    BY <2>2, ClientSame, LinkSame DEF Links
  <2> QED
    BY <2>2, <2>3 DEF Links
<1>3. ASSUME NEW w \in Workers, Request(w) PROVE Links'
  <2>1. OnlyWorker(w) /\ wpc[w] \in {"head", "body", "app", "send"}
    BY <1>3, RequestOnly
  <2>2. PICK c \in Conns : c = Conn(w)
    BY <2>1, ConnOf
  <2>3. Link(c)
    BY DEF Links
  <2>4. Link(c)'
    BY <1>3, <2>2, <2>3, LinkHead, LinkBroken, LinkBody, LinkApp, LinkAnswer, LinkUnsent DEF Request, Recv
  <2>5. \A d \in Conns : d # c => Link(d)'
    BY <2>1, <2>2, WorkerSame, LinkSame DEF Links
  <2> QED
    BY <2>4, <2>5 DEF Links
<1> QED
  BY <1>1, <1>2, <1>3, Steps

\* An OK that is read is the answer to what was asked.
LEMMA AckedStep ==
  ASSUME Types, Owners, Fresh, Asks, Numbers, Links, AckedIsQueued, [Next]_vars
  PROVE  AckedIsQueued'
<1>0. DOMAIN mqueue = 1..Len(mqueue) /\ DOMAIN reqs = 1..Len(reqs)
  BY LenProperties DEF Types, CType, WType
<1> DEFINE Good(r) == ans[r] = "OK" /\ reqs[r].kind # "empty" /\ reqs[r].conn \notin misled => InMq(r)
<1>1. \A r \in DOMAIN reqs : Good(r)
  BY <1>0 DEF AckedIsQueued, InMq
<1>2. ASSUME \A r : InMq(r) => InMq(r)', \A r \in DOMAIN reqs' : Good(r)'
      PROVE  AckedIsQueued'
  <2>1. \A r : InMq(r)' => \E i \in DOMAIN mqueue' : mqueue'[i] = r
    <3>1. DOMAIN mqueue' = 1..Len(mqueue')
      <4>1. mqueue' \in Seq(Reqs)
        BY WTypeStep DEF WType
      <4> QED
        BY <4>1, LenProperties
    <3> QED
      BY <3>1 DEF InMq
  <2> QED
    BY <1>2, <2>1 DEF AckedIsQueued
<1> HIDE DEF Good
<1>3. CASE Quiet
  <2>1. UNCHANGED <<reqs, ans, mqueue, misled>>
    BY <1>3, QuietSame
  <2> QED
    BY <1>1, <1>2, <2>1 DEF Good, InMq
<1>4. ASSUME NEW c \in Conns, Client(c) PROVE AckedIsQueued'
  <2>1. UNCHANGED <<mqueue, misled>>
    BY <1>4 DEF Client, SendHalf, SendRest, SendBody, ReadReply, HangUp, Sends, wVars
  <2>2. \A r : InMq(r)' <=> InMq(r)
    BY <2>1 DEF InMq
  <2>3. CASE UNCHANGED <<reqs, ans>>
    BY <1>1, <1>2, <2>1, <2>2, <2>3 DEF Good
  <2>4. ASSUME NEW k \in Kinds, SendHalf(c, k) PROVE AckedIsQueued'
    <3>1. /\ Len(reqs) + 1 \in Reqs /\ Len(reqs') = Len(reqs) + 1 /\ Len(reqs) \in Nat
          /\ \A r \in 1..Len(reqs) : reqs'[r] = reqs[r]
      BY <2>4, PendingHalf
    <3>2. ans' = ans
      BY <2>4 DEF SendHalf, Sends
    <3>3. ans[Len(reqs) + 1] # "OK"
      BY <3>1 DEF Numbers, Sent
    <3>4. DOMAIN reqs' = 1..Len(reqs')
      BY <2>4, AppendProperties, LenProperties DEF SendHalf, Types, CType
    <3>5. \A r \in DOMAIN reqs' : r \in DOMAIN reqs \/ r = Len(reqs) + 1
      BY <1>0, <3>1, <3>4
    <3>6. \A r \in DOMAIN reqs' : Good(r)'
      BY <1>0, <1>1, <2>1, <2>2, <3>1, <3>2, <3>3, <3>5 DEF Good
    <3> QED
      BY <1>2, <2>2, <3>6
  <2>5. CASE ReadReply(c)
    <3>1. PICK r \in Pending(c) : ans' = [ans EXCEPT ![r] = Head(out[c])]
      BY <2>5 DEF ReadReply
    <3>2. reqs' = reqs /\ out[c] # <<>> /\ r \in DOMAIN reqs /\ reqs[r].conn = c
      BY <2>5 DEF ReadReply, Pending
    <3>3. \A s \in DOMAIN reqs : s # r => ans'[s] = ans[s]
      BY <3>1 DEF Types, CType
    <3>4. ans'[r] = Head(out[c])
      BY <3>1, PendingSent DEF Types, CType
    <3>5. Head(out[c]) = out[c][1]
      BY <3>2, HeadTailProperties DEF Types, CType
    <3>6. c \notin misled /\ Head(out[c]) = "OK" => Acked(r)
      BY <3>2, <3>5, LinkOf DEF Links
    <3>7. Good(r)'
      BY <2>1, <2>2, <3>2, <3>4, <3>6 DEF Good, Acked
    <3>8. \A s \in DOMAIN reqs' : Good(s)'
      BY <1>1, <2>1, <2>2, <3>2, <3>3, <3>7 DEF Good
    <3> QED
      BY <1>2, <2>2, <3>8
  <2> QED
    BY <1>4, <2>3, <2>4, <2>5 DEF Client, SendRest, SendBody, HangUp, Sends
<1>5. ASSUME NEW w \in Workers, Request(w) PROVE AckedIsQueued'
  <2>1. OnlyWorker(w) /\ wpc[w] \in {"head", "body", "app", "send"}
    BY <1>5, RequestOnly
  <2>2. UNCHANGED <<reqs, ans>> /\ misled \subseteq misled'
    BY <2>1 DEF OnlyWorker
  <2>3. \A r : InMq(r) => InMq(r)'
    BY <2>1, QueuedStays DEF OnlyWorker
  <2> QED
    BY <1>1, <1>2, <2>2, <2>3 DEF Good
<1> QED
  BY <1>3, <1>4, <1>5, Steps

-----------------------------------------------------------------------------
\* A call that timed out stays in the history.
LEMMA SlowStays ==
  ASSUME Types, Owners, Fresh, [Next]_vars, ~slow'
  PROVE  ~slow
<1>1. CASE Quiet
  BY <1>1, QuietSame
<1>2. CASE \E c \in Conns : Client(c)
  BY <1>2 DEF Client, SendHalf, SendRest, SendBody, ReadReply, HangUp, Sends, wVars
<1>3. CASE \E w \in Workers : Request(w)
  BY <1>3 DEF Request, Recv, RecvHead, RecvHalf, RecvJunk, RecvBody, ServiceApp, Send, SendFails, SendStalls
<1> QED
  BY <1>1, <1>2, <1>3, Steps

\* What the application finds in the buffer while nothing has timed out: the pending request.
LEMMA AppFinds ==
  ASSUME Types, Owners, Fresh, Links, Calm, NEW w \in Workers, wpc[w] = "app"
  PROVE  /\ Conn(w) \in Conns /\ hd[w] \in Pending(Conn(w)) /\ HeadKind(w) = reqs[hd[w]].kind
         /\ HeadKind(w) = "empty" \/ (HeadKind(w) = "message" /\ bd[w] = hd[w])
         /\ stream[Conn(w)] = <<>> /\ cpc[Conn(w)] \in {"wait", "gone"} /\ ~failed[w]
<1>1. Conn(w) \in Conns
  BY ConnOf
<1>2. PICK c \in Conns : c = Conn(w)
  BY <1>1
<1>3. ~failed[w] /\ c \notin misled
  BY DEF Calm
<1>4. Serving(w, c)
  BY <1>2, <1>3, LinkServed DEF Links
<1>5. /\ hd[w] \in Pending(c) /\ stream[c] = <<>> /\ cpc[c] \in {"wait", "gone"}
      /\ reqs[hd[w]].kind = "empty" \/ (reqs[hd[w]].kind = "message" /\ bd[w] = hd[w])
  BY <1>4 DEF Serving
<1>6. hd[w] \in Reqs
  BY <1>5, PendingSent
<1>7. hd[w] # None /\ hd[w] # Junk
  BY <1>6, ServiceAssumption DEF Reqs, None, Junk
<1> QED
  BY <1>1, <1>2, <1>3, <1>5, <1>7 DEF HeadKind

\* When the process is dead, nothing happens.
LEMMA DeadStays ==
  ASSUME down, [Next]_vars
  PROVE  UNCHANGED vars
BY DEF Next, Main, EpollWait, HandleEvent, Worker, Fetch, Recv, RecvHead, RecvHalf, RecvJunk, RecvBody, ServiceApp,
       Send, SendFails, SendStalls, FreeSocket, At

\* Without time-outs nothing is garbled, nobody is misled and the server dies of nothing but a message
\* received whole.
LEMMA CalmStep ==
  ASSUME Types, Owners, Reps, Fresh, Unfailed, Links, Calm, [Next]_vars, ~slow'
  PROVE  Calm'
<1> USE DEF cVars, eVars, wVars, netVars
<1>8. CASE down
  BY <1>8, DeadStays DEF vars, Calm, Lives, OwnDeath
<1>9. ASSUME ~down'
      PROVE  Lives'
  BY <1>9 DEF Lives
<1> SUFFICES ASSUME ~down PROVE Calm'
  BY <1>8
<1>1. CASE Quiet
  <2>1. UNCHANGED <<out, ans, misled, again, down>>
    BY <1>1, QuietSame
  <2>2. \A w \in Workers : (wpc'[w] = "app" => ~failed'[w]) /\ rep'[w] # "garbled"
    <3> USE DEF Calm, Types, WType
    <3>1. CASE Connect \/ EpollWait \/ UNCHANGED vars \/ \E e \in batch : Accept(e) \/ CloseHup(e)
      BY <3>1 DEF Connect, EpollWait, vars, Accept, CloseHup
    <3>2. CASE \E e \in batch : Push(e)
      BY <3>2 DEF Push, Signal
    <3>3. ASSUME NEW w \in Workers, Fetch(w) \/ FreeSocket(w)
          PROVE  \A v \in Workers : (wpc'[v] = "app" => ~failed'[v]) /\ rep'[v] # "garbled"
      BY <3>3 DEF Fetch, FreeSocket, Goto
    <3> QED
      BY <1>1, <3>1, <3>2, <3>3 DEF Quiet
  <2> QED
    BY <1>9, <2>1, <2>2 DEF Calm
<1>2. ASSUME NEW c \in Conns, Client(c) PROVE Calm'
  <2>1. UNCHANGED wVars
    BY <1>2 DEF Client, SendHalf, SendRest, SendBody, ReadReply, HangUp, Sends
  <2>2. CASE UNCHANGED <<out, ans>>
    BY <1>9, <2>1, <2>2 DEF Calm
  <2>3. CASE ReadReply(c)
    <3>1. PICK r \in Pending(c) : ans' = [ans EXCEPT ![r] = Head(out[c])]
      BY <2>3 DEF ReadReply
    <3>2. out[c] # <<>> /\ out[c] \in Seq(Texts) /\ out' = [out EXCEPT ![c] = Tail(@)]
      BY <2>3 DEF ReadReply, Types, CType
    <3>3. /\ Len(out[c]) \in Nat \ {0} /\ Len(Tail(out[c])) = Len(out[c]) - 1
          /\ \A i \in 1..Len(Tail(out[c])) : Tail(out[c])[i] = out[c][i + 1]
          /\ Head(out[c]) = out[c][1]
      BY <3>2, HeadTailProperties, EmptySeq
    <3>4. 1 \in 1..Len(out[c]) /\ \A i \in 1..Len(Tail(out[c])) : i + 1 \in 1..Len(out[c])
      BY <3>3
    <3>5. Head(out[c]) # "garbled"
      BY <3>3, <3>4 DEF Calm
    <3>6. \A s \in Reqs : ans'[s] # "garbled"
      BY <3>1, <3>5 DEF Calm, Types, CType
    <3>7. \A i \in 1..Len(Tail(out[c])) : Tail(out[c])[i] # "garbled"
      BY <3>3, <3>4 DEF Calm
    <3>8. out'[c] = Tail(out[c]) /\ \A d \in Conns : d # c => out'[d] = out[d]
      BY <3>2 DEF Types, CType
    <3>9. \A d \in Conns : \A i \in 1..Len(out'[d]) : out'[d][i] # "garbled"
      BY <3>7, <3>8 DEF Calm
    <3> QED
      BY <1>9, <2>1, <3>6, <3>9 DEF Calm
  <2> QED
    BY <1>2, <2>2, <2>3 DEF Client, SendHalf, SendRest, SendBody, HangUp, Sends
<1>3. ASSUME NEW w \in Workers, Recv(w) PROVE Calm'
  <2>1. UNCHANGED <<out, ans, misled, down, rep>>
    BY <1>3 DEF Recv, RecvHead, RecvHalf, RecvJunk, RecvBody
  <2>2. again[w] = FALSE /\ ~failed[w]
    BY <1>3 DEF Calm, Unfailed, Types, WType, Recv, RecvHead, RecvHalf, RecvJunk, RecvBody, At
  <2>3. \/ failed' = failed /\ again' = again
        \/ Fails(w, FALSE)
    BY <1>3, <2>2 DEF Recv, RecvHead, RecvHalf, RecvJunk, RecvBody
  <2>4. OnlyWorker(w)
    BY <1>3, RequestOnly DEF Request
  <2>5. \A v \in Workers : v # w => wpc'[v] = wpc[v] /\ failed'[v] = failed[v]
    BY <2>4 DEF OnlyWorker
  <2>6. CASE failed' = failed /\ again' = again
    BY <1>9, <2>1, <2>2, <2>5, <2>6 DEF Calm
  <2>7. CASE Fails(w, FALSE)
    <3>1. wpc'[w] = "fetch" /\ again' = [again EXCEPT ![w] = FALSE]
      BY <2>7 DEF Fails, Close, Goto, Types, WType
    <3>2. \A v \in Workers : ~again'[v]
      BY <3>1 DEF Calm, Types, WType
    <3>3. \A v \in Workers : wpc'[v] = "app" => ~failed'[v]
      BY <2>5, <3>1 DEF Calm
    <3> QED
      BY <1>9, <2>1, <3>2, <3>3 DEF Calm
  <2> QED
    BY <2>3, <2>6, <2>7
<1>4. ASSUME NEW w \in Workers, ServiceApp(w) PROVE Calm'
  <2>1. wpc[w] = "app" /\ UNCHANGED <<out, ans, again, failed>>
    BY <1>4 DEF ServiceApp, At
  <2>2. /\ hd[w] \in Pending(Conn(w)) /\ HeadKind(w) = reqs[hd[w]].kind /\ ~failed[w]
        /\ HeadKind(w) = "empty" \/ (HeadKind(w) = "message" /\ bd[w] = hd[w])
    BY <2>1, AppFinds
  <2>3. UNCHANGED misled
    BY <1>4, <2>2 DEF ServiceApp
  <2>4. CASE down'
    <3>1. HeadKind(w) = "message" /\ UNCHANGED <<wpc, rep, hd, bd, reqs>>
      BY <1>4, <2>2, <2>4 DEF ServiceApp, Handle
    <3>2. bd[w] = hd[w]
      BY <2>2, <3>1
    <3>3. OwnDeath(w)'
      BY <2>1, <2>2, <3>1, <3>2 DEF OwnDeath, Pending
    <3> QED
      BY <2>1, <2>3, <3>1, <3>3 DEF Calm, Lives
  <2>5. CASE ~down'
    <3>1. wpc' = [wpc EXCEPT ![w] = "send"]
      BY <1>4, <2>5 DEF ServiceApp, Handle, Answers, Goto
    <3>2. rep' = [rep EXCEPT ![w] = "OK"] \/ rep' = [rep EXCEPT ![w] = "ERROR"]
      BY <1>4, <2>5 DEF ServiceApp, Handle, Answers
    <3>3. \A v \in Workers : rep'[v] # "garbled" /\ (wpc'[v] = "app" => ~failed'[v])
      BY <2>1, <3>1, <3>2 DEF Calm, Types, WType
    <3> QED
      BY <1>9, <2>1, <2>3, <2>5, <3>1, <3>3 DEF Calm
  <2> QED
    BY <2>4, <2>5
<1>5. ASSUME NEW w \in Workers, Send(w) PROVE Calm'
  <2>1. /\ wpc[w] = "send" /\ UNCHANGED <<ans, misled, again, failed, down, rep>>
        /\ out' = [out EXCEPT ![Conn(w)] = Append(@, rep[w])] /\ wpc' = [wpc EXCEPT ![w] = "free"]
    BY <1>5 DEF Send, At, Goto
  <2>2. PICK c \in Conns : c = Conn(w)
    BY <2>1, ConnOf
  <2>3. rep[w] \in Texts /\ rep[w] # "garbled" /\ out[c] \in Seq(Texts)
    BY <2>1 DEF Reps, Calm, Types, CType
  <2>4. out'[c] = Append(out[c], rep[w]) /\ \A d \in Conns : d # c => out'[d] = out[d]
    BY <2>1, <2>2 DEF Types, CType
  <2>5. \A x : (\E i \in 1..Len(out'[c]) : out'[c][i] = x) <=> (\E i \in 1..Len(out[c]) : out[c][i] = x) \/ x = rep[w]
    BY <2>3, <2>4, InAppend
  <2>6. \A d \in Conns : \A i \in 1..Len(out'[d]) : out'[d][i] # "garbled"
    <3>1. \A i \in 1..Len(out[c]) : out[c][i] # "garbled"
      BY DEF Calm
    <3>2. \A i \in 1..Len(out'[c]) : out'[c][i] # "garbled"
      BY <2>3, <2>5, <3>1
    <3>3. \A d \in Conns : d # c => \A i \in 1..Len(out'[d]) : out'[d][i] # "garbled"
      BY <2>4 DEF Calm
    <3> QED
      BY <3>2, <3>3
  <2>7. \A v \in Workers : wpc'[v] = "app" => ~failed'[v]
    BY <2>1 DEF Calm, Types, WType
  <2> QED
    BY <1>9, <2>1, <2>6, <2>7 DEF Calm
<1>6. ASSUME NEW w \in Workers, SendFails(w) PROVE Calm'
  <2>1. /\ UNCHANGED <<out, ans, misled, failed, down>> /\ again' = [again EXCEPT ![w] = FALSE]
        /\ rep' = [rep EXCEPT ![w] = "none"] /\ wpc' = [wpc EXCEPT ![w] = "fetch"]
    BY <1>6 DEF SendFails, Close, Goto
  <2> QED
    BY <1>9, <2>1 DEF Calm, Types, WType
<1>7. ASSUME NEW w \in Workers, SendStalls(w) PROVE Calm'
  BY <1>7 DEF SendStalls
<1> QED
  BY <1>1, <1>2, <1>3, <1>4, <1>5, <1>6, <1>7, Steps DEF Request

\* Without time-outs every message is queued once: the one that is being served is not in
\* the queue yet.
LEMMA OnceStep ==
  ASSUME Types, Owners, Fresh, Asks, Numbers, Links, Calm, Once, [Next]_vars
  PROVE  Once'
<1> USE DEF cVars, eVars, wVars, netVars
<1>0. ASSUME UNCHANGED mqueue PROVE /\ \A i, j \in 1..Len(mqueue') : mqueue'[i] = mqueue'[j] => i = j
                                    /\ \A r : InMq(r)' <=> InMq(r)
  BY <1>0 DEF Once, InMq
<1>1. CASE Quiet
  <2>1. UNCHANGED mqueue /\ \A c \in Conns : Same(c)
    BY <1>1, QuietSame
  <2>2. \A c \in Conns : NotYet(c)'
    BY <1>0, <2>1, NotYetSame DEF Once
  <2> QED
    BY <1>0, <2>1, <2>2 DEF Once
<1>2. ASSUME NEW c \in Conns, Client(c) PROVE Once'
  <2>1. UNCHANGED wVars
    BY <1>2 DEF Client, SendHalf, SendRest, SendBody, ReadReply, HangUp, Sends
  <2>2. OnlyClient(c) /\ \A w \in Workers : Works(w, c)' <=> Works(w, c)
    BY <1>2, LinkHalf, LinkMore, LinkRead, LinkHangUp, ClientSame DEF Client, Links
  <2>3. \A d \in Conns : d # c => NotYet(d)'
    BY <1>0, <2>1, <2>2, ClientSame, NotYetSame DEF Once
  <2>4. NotYet(c)'
    <3>1. ASSUME NEW k \in Kinds, SendHalf(c, k) PROVE NotYet(c)'
      <4>1. Pending(c)' = {Len(reqs) + 1} /\ Len(reqs) \in Nat
        BY <3>1, PendingHalf DEF Asks, SendHalf
      <4>2. \A i \in 1..Len(mqueue) : mqueue[i] <= Len(reqs)
        BY DEF Numbers, Sent
      <4>3. \A i \in 1..Len(mqueue) : mqueue[i] # Len(reqs) + 1
        BY <4>1, <4>2
      <4>4. ~InMq(Len(reqs) + 1)
        BY <4>3 DEF InMq
      <4> QED
        BY <1>0, <2>1, <4>1, <4>4 DEF NotYet
    <3>2. CASE SendRest(c) \/ SendBody(c)
      <4>1. UNCHANGED <<reqs, ans>> /\ Unserved(c)
        BY <3>2 DEF SendRest, SendBody, Sends, Unserved
      <4> QED
        BY <1>0, <2>1, <4>1, PendingSame DEF Once, NotYet
    <3>3. CASE ReadReply(c)
      BY <3>3, PendingRead DEF NotYet
    <3>4. CASE HangUp(c)
      <4>1. UNCHANGED <<reqs, ans, stream>> /\ cpc'[c] = "gone"
        BY <3>4 DEF HangUp, Types, CType
      <4>2. Unserved(c)' => Unserved(c)
        BY <2>1, <2>2, <4>1 DEF Unserved
      <4> QED
        BY <1>0, <2>1, <4>1, <4>2, PendingSame DEF Once, NotYet
    <3> QED
      BY <1>2, <3>1, <3>2, <3>3, <3>4 DEF Client
  <2> QED
    BY <1>0, <2>1, <2>3, <2>4 DEF Once
<1>3. ASSUME NEW w \in Workers, Request(w) PROVE Once'
  <2>1. OnlyWorker(w) /\ wpc[w] \in {"head", "body", "app", "send"}
    BY <1>3, RequestOnly
  <2>2. PICK c \in Conns : c = Conn(w)
    BY <2>1, ConnOf
  <2>3. /\ \A d \in Conns : d # c => Same(d)
        /\ \A d : Pending(d)' = Pending(d)
        /\ Serves(w, c) /\ \A v \in Workers : Serves(v, c)' => v = w
    BY <2>1, <2>2, WorkerSame
  <2>4. CASE ~ServiceApp(w)
    <3>1. UNCHANGED mqueue
      BY <1>3, <2>4 DEF Request, Recv, RecvHead, RecvHalf, RecvJunk, RecvBody, Send, SendFails, SendStalls
    <3>2. \A d \in Conns : d # c => NotYet(d)'
      BY <1>0, <2>3, <3>1, NotYetSame DEF Once
    <3>3. Unserved(c)' => Unserved(c)
      <4>1. CASE Recv(w)
        <5>1. stream[c] # <<>> \/ wpc[w] = "body"
          BY <2>2, <4>1 DEF Recv, RecvHead, RecvHalf, RecvJunk, RecvBody, At
        <5> QED
          BY <2>3, <5>1 DEF Unserved, Works
      <4>2. CASE Send(w) \/ SendFails(w) \/ SendStalls(w)
        <5>1. UNCHANGED <<cpc, stream>> /\ wpc'[w] \notin {"body", "app"}
          BY <4>2 DEF Send, SendFails, SendStalls, At, Goto, Close, Types, WType
        <5> QED
          BY <2>3, <5>1 DEF Unserved, Works
      <4> QED
        BY <1>3, <2>4, <4>1, <4>2 DEF Request
    <3>4. NotYet(c)'
      BY <1>0, <2>3, <3>1, <3>3 DEF Once, NotYet
    <3> QED
      BY <1>0, <3>1, <3>2, <3>4 DEF Once
  <2>5. CASE ServiceApp(w)
    <3>1. wpc[w] = "app" /\ UNCHANGED <<cVars, hd>>
      BY <2>5 DEF ServiceApp, At
    <3>2. /\ hd[w] \in Pending(c) /\ stream[c] = <<>> /\ cpc[c] \in {"wait", "gone"}
          /\ HeadKind(w) = "empty" \/ (HeadKind(w) = "message" /\ bd[w] = hd[w])
      BY <2>2, <3>1, AppFinds
    <3>3. UNCHANGED mqueue \/ (mqueue' = Append(mqueue, hd[w]) /\ wpc'[w] = "send")
      BY <2>5, <3>2 DEF ServiceApp, Handle, Answers, Goto, Types, WType
    <3>4. wpc'[w] = "send" => ~Unserved(c)'
      BY <2>3, <3>1, <3>2 DEF Unserved, Works
    <3>5. CASE UNCHANGED mqueue
      <4>1. \A d \in Conns : d # c => NotYet(d)'
        BY <1>0, <2>3, <3>5, NotYetSame DEF Once
      <4>2. Unserved(c)
        BY <2>3, <3>1 DEF Unserved, Works
      <4>3. NotYet(c)'
        BY <1>0, <2>3, <3>5, <4>2 DEF Once, NotYet
      <4> QED
        BY <1>0, <3>5, <4>1, <4>3 DEF Once
    <3>6. CASE mqueue' = Append(mqueue, hd[w]) /\ wpc'[w] = "send"
      <4> DEFINE h == hd[w]
      <4>1. h \in Reqs /\ mqueue \in Seq(Reqs) /\ mqueue' = Append(mqueue, h) /\ h \in Pending(c)
        BY <3>2, <3>6, PendingSent DEF Types, WType
      <4>2. ~InMq(h)
        <5>1. Unserved(c)
          BY <2>3, <3>1 DEF Unserved, Works
        <5> QED
          BY <4>1, <5>1 DEF Once, NotYet
      <4> HIDE DEF h
      <4>3. \A r : (\E i \in 1..Len(mqueue') : mqueue'[i] = r) <=> (\E i \in 1..Len(mqueue) : mqueue[i] = r) \/ r = h
        BY <4>1, InAppend
      <4>4. \A i, j \in 1..Len(mqueue') : mqueue'[i] = mqueue'[j] => i = j
        BY <4>1, <4>2, DistinctAppend DEF Once, InMq
      <4>5. ASSUME NEW d \in Conns, d # c PROVE NotYet(d)'
        <5>1. h \notin Pending(d)
          BY <4>1, <4>5 DEF Pending
        <5>2. \A r \in Pending(d) : (\E i \in 1..Len(mqueue') : mqueue'[i] = r) => InMq(r)
          BY <4>3, <5>1 DEF InMq
        <5>3. ASSUME NEW r \in Pending(d) PROVE InMq(r)' => InMq(r)
          BY <5>2 DEF InMq
        <5> QED
          BY <2>3, <4>5, <5>3, NotYetSame DEF Once
      <4> QED
        BY <3>4, <3>6, <4>4, <4>5 DEF Once, NotYet
    <3> QED
      BY <3>3, <3>5, <3>6
  <2> QED
    BY <2>4, <2>5
<1> QED
  BY <1>1, <1>2, <1>3, Steps

-----------------------------------------------------------------------------
\* The inductive invariant.
ProtocolInv == EquInv /\ Fresh /\ Asks /\ Numbers /\ Unfailed /\ Links /\ AckedIsQueued /\ CalmOnce

\* A server that starts has read and queued nothing.
LEMMA ProtocolInit == Init => ProtocolInv
<1> SUFFICES ASSUME Init PROVE ProtocolInv
  OBVIOUS
<1>1. EquInv
  BY EquInit
<1>2. /\ Len(backlog) = 0 /\ Len(reqs) = 0 /\ Len(mqueue) = 0 /\ DOMAIN reqs = {}
      /\ \A c \in Conns : Len(stream[c]) = 0 /\ stream[c] = <<>> /\ Len(out[c]) = 0 /\ out[c] = <<>> /\ cpc[c] = "idle"
  BY EmptySeq DEF Init
<1>3. Open = {}
  BY DEF Init, Open
<1>4. \A c : Pending(c) = {}
  BY <1>2 DEF Pending
<1>5. \A c : ~Busy(c)
  BY DEF Init, Busy, Works
<1>6. Fresh
  BY <1>2, <1>3 DEF Fresh
<1>7. Asks
  BY <1>4 DEF Asks
<1>8. Numbers
  BY <1>2 DEF Numbers, Sent, Init, None
<1>9. Unfailed
  BY DEF Unfailed, Init
<1>10. Links
  <2> SUFFICES ASSUME NEW c \in Conns PROVE Link(c)
    BY DEF Links
  <2>1. OutOk(c)
    BY <1>2 DEF OutOk
  <2>2. Unread(c)
    BY <1>2, <1>4 DEF Unread
  <2>3. Form(c)
    BY <1>2, <1>5, <2>2 DEF Form, Busy
  <2> QED
    BY <2>1, <2>3 DEF Link
<1>11. AckedIsQueued
  BY <1>2 DEF AckedIsQueued
<1>12. CalmOnce
  <2>1. Calm
    BY <1>2 DEF Calm, Lives, Init
  <2>2. Once
    BY <1>2, <1>4 DEF Once, NotYet
  <2> QED
    BY <2>1, <2>2 DEF CalmOnce
<1> QED
  BY <1>1, <1>6, <1>7, <1>8, <1>9, <1>10, <1>11, <1>12 DEF ProtocolInv

\* The invariant holds in every state.
LEMMA ProtocolAlways == Spec => []ProtocolInv
<1>1. ASSUME ProtocolInv, [Next]_vars PROVE ProtocolInv'
  <2>1. Types /\ Reps /\ Owners
    BY <1>1 DEF ProtocolInv, EquInv
  <2>2. EquInv'
    BY <1>1, <2>1, CTypeStep, ETypeStep, WTypeStep, RepsStep, OwnersStep, WakersStep DEF ProtocolInv, EquInv, Types
  <2>3. Fresh' /\ Asks' /\ Numbers' /\ Unfailed'
    BY <1>1, <2>1, FreshStep, AsksStep, NumbersStep, UnfailedStep DEF ProtocolInv
  <2>4. Links' /\ AckedIsQueued'
    BY <1>1, <2>1, LinksStep, AckedStep DEF ProtocolInv
  <2>5. CalmOnce'
    BY <1>1, <2>1, SlowStays, CalmStep, OnceStep DEF ProtocolInv, CalmOnce
  <2> QED
    BY <2>2, <2>3, <2>4, <2>5 DEF ProtocolInv
<1> QED
  BY <1>1, ProtocolInit, PTL DEF Spec

\* xsend, free_socket and the buffer that is never cleared: a client that reads OK for a message has
\* its message in the queue, unless the application ran on its connection after xrecv had failed.
THEOREM OkMeansQueued == Spec => []AckedIsQueued
<1>1. ProtocolInv => AckedIsQueued
  BY DEF ProtocolInv
<1> QED
  BY <1>1, ProtocolAlways, PTL

\* As long as no socket call has timed out, ServiceApp queues each message once, no request is
\* served after a failed xrecv, no answer is garbled and the process dies of nothing but a message
\* received whole, though the left-overs of earlier requests stay in RecvBuff and errno.
THEOREM QueuedOnce == Spec => []QueueIsWhatWasSent
<1>1. ProtocolInv => QueueIsWhatWasSent
  <2> SUFFICES ASSUME ProtocolInv PROVE QueueIsWhatWasSent
    OBVIOUS
  <2>1. DOMAIN mqueue = 1..Len(mqueue)
    BY LenProperties DEF ProtocolInv, EquInv, Types, WType
  <2> QED
    BY <2>1 DEF ProtocolInv, CalmOnce, Calm, Lives, Once, QueueIsWhatWasSent
<1> QED
  BY <1>1, ProtocolAlways, PTL
=============================================================================
