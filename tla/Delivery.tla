------------------------------ MODULE Delivery ------------------------------
(***************************************************************************)
(* From the message queue to the engine: the sender thread of a channel    *)
(* (ciqueue/sender/send_message.cpp) reads the queue files and sends each  *)
(* wanted message over TCP; update_thread (flexse/update_thread.cpp)       *)
(* applies it and answers OK, or asks the sender to roll back to the last  *)
(* message it has.                                                         *)
(*                                                                         *)
(* A message is its rank in the queue, 1..Msgs: (file_no, block_id) pairs  *)
(* are compared lexicographically, and block 0 of a file is the position   *)
(* behind the last message of the file before.                             *)
(*                                                                         *)
(* TCP: update_thread serves one connection at a time, in the order of     *)
(* arrival.  A connection carries at most one request, since the sender    *)
(* waits for the answer and closes the connection when none comes; what it *)
(* sent before stays readable.                                             *)
(***************************************************************************)
EXTENDS Integers, Sequences

CONSTANTS
  Msgs,          \* messages that are ever written (bound)
  Wanted,        \* those whose event the channel listens to (events_set)
  Refused,       \* those update_thread cannot apply (parse error, add() fails)
  FileBlocks,    \* messages that fit in a queue file (FILE_MAX_SIZE)
  Early,         \* recv_toms may pass while update_thread is still working
  MaxBacklog,    \* connections waiting for accept (bound; listen allows 128)
  SenderDeaths,  \* deaths of the sender (bound)
  EngineDeaths   \* deaths of the engine (bound)

ASSUME MsgsAssumption == Msgs \in Nat /\ Wanted \subseteq 1..Msgs /\ Refused \subseteq Wanted
ASSUME SizeAssumption ==
  /\ FileBlocks \in Nat \ {0} /\ MaxBacklog \in Nat \ {0}
  /\ SenderDeaths \in Nat /\ EngineDeaths \in Nat
ASSUME FlagAssumption == Early \in BOOLEAN

VARIABLES
  long,      \* long_connect, from the channel's configuration
  written,   \* messages in the queue files
  spc,       \* where the sender is: it reads, sends, or waits for the answer
  rpos,      \* the reader's position: the message read last
  saved,     \* the position in the channel's offset file
  sock,      \* the sender holds a connection
  backlog,   \* requests of the connections not yet accepted, NoMsg: nothing sent
  serving,   \* update_thread has an accepted connection
  req,       \* the request waiting on that connection
  reply,     \* the answer on the sender's connection
  up,        \* the engine runs
  last,      \* (last_file_no, last_block_id)
  needRoll,  \* need_roll_back
  chk,       \* the check point on disk
  have,      \* messages whose effect the engine holds
  deaths     \* deaths so far: [sender |-> n, engine |-> n]

sendVars == <<spc, rpos, saved, sock>>
netVars  == <<backlog, serving, req, reply>>
updVars  == <<up, last, needRoll, chk, have>>
vars == <<long, written, sendVars, netVars, updVars, deaths>>

NoMsg == 0
NoReply == [status |-> "none", pos |-> 0]
Ok(p) == [status |-> "OK", pos |-> p]
RollBack(p) == [status |-> "ROLL_BACK", pos |-> p]

\* The position before the first message of the newest file.
NewestFile == IF written = 0 THEN 0 ELSE ((written - 1) \div FileBlocks) * FileBlocks

\* The sender's connection is the newest.  It waits for accept, is the one
\* being served, or was closed by update_thread.
Queued  == sock /\ backlog # <<>>
Served  == sock /\ backlog = <<>> /\ serving
Dead    == sock /\ backlog = <<>> /\ ~serving

-----------------------------------------------------------------------------
(***************************************************************************)
(* The queue.                                                              *)
(***************************************************************************)
Write ==
  /\ written < Msgs /\ written' = written + 1
  /\ UNCHANGED <<sendVars, netVars, updVars, deaths>>

(***************************************************************************)
(* The sender.                                                             *)
(***************************************************************************)
\* Mutant: the offset is saved before the message is sent.
ReadSaves ==
  /\ spc = "read" /\ rpos < written
  /\ rpos' = rpos + 1 /\ saved' = rpos + 1
  /\ spc' = IF rpos + 1 \in Wanted THEN "send" ELSE spc
  /\ UNCHANGED <<written, sock, netVars, updVars, deaths>>

\* read_message, then the test of the event: other events are passed over.
Read ==
  /\ spc = "read" /\ rpos < written
  /\ rpos' = rpos + 1
  /\ IF rpos + 1 \in Wanted THEN spc' = "send" /\ UNCHANGED saved
                            ELSE saved' = rpos + 1 /\ UNCHANGED spc
  /\ UNCHANGED <<written, sock, netVars, updVars, deaths>>

\* myconnect; it fails, and is tried again, while the engine is down.
Connect ==
  /\ spc = "send" /\ ~sock /\ up /\ Len(backlog) < MaxBacklog
  /\ sock' = TRUE /\ backlog' = Append(backlog, NoMsg) /\ reply' = NoReply
  /\ UNCHANGED <<written, spc, rpos, saved, serving, req, updVars, deaths>>

\* xsend.
Send ==
  /\ spc = "send"
  /\ \/ Queued /\ backlog' = [backlog EXCEPT ![Len(backlog)] = rpos] /\ UNCHANGED req
     \/ Served /\ req' = rpos /\ UNCHANGED backlog
  /\ spc' = "recv"
  /\ UNCHANGED <<written, rpos, saved, sock, serving, reply, updVars, deaths>>

\* xrecv delivers the answer.
GetReply ==
  /\ spc = "recv" /\ reply # NoReply
  /\ IF reply.status = "OK"
       THEN saved' = rpos /\ sock' = long /\ UNCHANGED rpos
       ELSE rpos' = reply.pos /\ UNCHANGED <<saved, sock>>
  /\ spc' = "read" /\ reply' = NoReply
  /\ UNCHANGED <<written, backlog, serving, req, updVars, deaths>>

\* No answer can come any more: the request was taken without one.
Unanswered == Served /\ req = NoMsg /\ reply = NoReply

\* xsend or xrecv fails: close the connection and send the message again.
Fail ==
  /\ \/ Dead /\ spc \in {"send", "recv"} /\ reply = NoReply
     \/ spc = "recv" /\ reply = NoReply /\ sock /\ (Early \/ Unanswered)
  /\ sock' = FALSE /\ spc' = "send"
  /\ UNCHANGED <<written, rpos, saved, netVars, updVars, deaths>>

\* A new sender opens the newest file and reads from its beginning.
SenderRestart ==
  /\ deaths.sender < SenderDeaths
  /\ deaths' = [deaths EXCEPT !.sender = @ + 1]
  /\ spc' = "read" /\ rpos' = NewestFile /\ sock' = FALSE /\ reply' = NoReply
  /\ UNCHANGED <<written, saved, backlog, serving, req, updVars>>

Sender == Read \/ Connect \/ Send \/ GetReply \/ Fail

-----------------------------------------------------------------------------
(***************************************************************************)
(* update_thread.                                                          *)
(***************************************************************************)
Accept ==
  /\ up /\ ~serving /\ backlog # <<>>
  /\ serving' = TRUE /\ req' = Head(backlog) /\ backlog' = Tail(backlog)
  /\ UNCHANGED <<written, sendVars, reply, updVars, deaths>>

\* xsend on the served connection.  Into a connection the sender has closed it
\* may succeed or fail; the answer is lost in both cases.
Answer(r, ok) ==
  /\ ok \/ ~Served
  /\ reply' = IF Served THEN r ELSE reply
  /\ serving' = ok
  /\ req' = NoMsg

AskRollBack(ok) ==
  /\ up /\ serving /\ req # NoMsg /\ needRoll
  /\ Answer(RollBack(last), ok)
  /\ needRoll' = ~ok
  /\ UNCHANGED <<written, sendVars, backlog, up, last, chk, have, deaths>>

\* Mutant: a known message is dropped, no roll-back follows.
StaleDrops ==
  /\ up /\ serving /\ req # NoMsg /\ ~needRoll
  /\ req <= last
  /\ req' = NoMsg
  /\ UNCHANGED <<written, sendVars, backlog, serving, reply, updVars, deaths>>

\* A message it has already: no answer, but the next one is.
Stale ==
  /\ up /\ serving /\ req # NoMsg /\ ~needRoll
  /\ req <= last
  /\ needRoll' = TRUE /\ req' = NoMsg
  /\ UNCHANGED <<written, sendVars, backlog, serving, reply, up, last, chk, have, deaths>>

Apply(ok) ==
  /\ up /\ serving /\ req # NoMsg /\ ~needRoll
  /\ req > last /\ req \notin Refused
  /\ have' = have \cup {req} /\ last' = req
  /\ Answer(Ok(req), ok)
  /\ UNCHANGED <<written, sendVars, backlog, up, needRoll, chk, deaths>>

\* The message cannot be applied: the connection is closed without an answer.
Refuse ==
  /\ up /\ serving /\ req # NoMsg /\ ~needRoll
  /\ req > last /\ req \in Refused
  /\ serving' = FALSE /\ req' = NoMsg
  /\ UNCHANGED <<written, sendVars, backlog, reply, updVars, deaths>>

\* xrecv fails: the sender closed the connection, or sent nothing for
\* UpdateSocketTimeOutMS.
Hangup ==
  /\ up /\ serving /\ req = NoMsg
  /\ serving' = FALSE
  /\ UNCHANGED <<written, sendVars, backlog, req, reply, updVars, deaths>>

\* The day merger moves the check point up to a message the index was given.
CheckPoint ==
  /\ up
  /\ chk' \in {m \in have : m > chk}
  /\ UNCHANGED <<written, sendVars, netVars, up, last, needRoll, have, deaths>>

\* The engine dies: what the check point covers survives.
Die ==
  /\ up /\ deaths.engine < EngineDeaths
  /\ deaths' = [deaths EXCEPT !.engine = @ + 1]
  /\ up' = FALSE /\ have' = {m \in have : m <= chk}
  /\ backlog' = <<>> /\ serving' = FALSE /\ req' = NoMsg
  /\ reply' \in {reply, NoReply}
  /\ UNCHANGED <<written, sendVars, last, needRoll, chk>>

\* Mutant: the engine starts without asking for a roll-back.
RestartTrusting ==
  /\ ~up /\ up' = TRUE
  /\ last' = chk /\ needRoll' = FALSE
  /\ UNCHANGED <<written, sendVars, netVars, chk, have, deaths>>

\* update_thread begins at the check point and asks the sender to go there.
Restart ==
  /\ ~up /\ up' = TRUE
  /\ last' = chk /\ needRoll' = TRUE
  /\ UNCHANGED <<written, sendVars, netVars, chk, have, deaths>>

Engine ==
  \/ Accept \/ Stale \/ Refuse \/ Hangup
  \/ \E ok \in BOOLEAN : AskRollBack(ok) \/ Apply(ok)

-----------------------------------------------------------------------------
Init ==
  /\ long \in BOOLEAN
  /\ written = 0 /\ spc = "read" /\ rpos = 0 /\ saved = 0 /\ sock = FALSE
  /\ backlog = <<>> /\ serving = FALSE /\ req = NoMsg /\ reply = NoReply
  /\ up = TRUE /\ last = 0 /\ needRoll = TRUE /\ chk = 0 /\ have = {}
  /\ deaths = [sender |-> 0, engine |-> 0]

Next ==
  /\ UNCHANGED long
  /\ Write \/ Sender \/ SenderRestart \/ Engine \/ CheckPoint \/ Die \/ Restart

Spec == Init /\ [][Next]_vars

\* Fairness: neither process stops, a dead engine is started again, and the
\* update thread's idle timeout does not beat every send.
Running(A) == UNCHANGED long /\ A
Fairness ==
  /\ WF_vars(Running(Write)) /\ WF_vars(Running(Sender)) /\ SF_vars(Running(Send))
  /\ WF_vars(Running(Engine)) /\ WF_vars(Running(Restart))
FairSpec == Spec /\ Fairness

-----------------------------------------------------------------------------
(***************************************************************************)
(* Properties                                                              *)
(***************************************************************************)
Replies == {NoReply} \cup {Ok(p) : p \in 0..Msgs} \cup {RollBack(p) : p \in 0..Msgs}

\* Types of the variables.
TypeOK ==
  /\ long \in BOOLEAN /\ written \in 0..Msgs /\ rpos \in 0..Msgs /\ saved \in 0..Msgs
  /\ spc \in {"read", "send", "recv"} /\ sock \in BOOLEAN
  /\ backlog \in Seq(0..Msgs) /\ serving \in BOOLEAN /\ req \in 0..Msgs
  /\ reply \in Replies
  /\ up \in BOOLEAN /\ last \in 0..Msgs /\ needRoll \in BOOLEAN /\ chk \in 0..Msgs
  /\ have \in SUBSET Wanted
  /\ deaths \in [sender : 0..SenderDeaths, engine : 0..EngineDeaths]

\* The variables have their types, and the offset file says what "已经成功发送": while the engine has not died, no
\* wanted message up to the saved position is missing in it.
OffsetNotAhead ==
  TypeOK /\ (deaths.engine = 0 => \A m \in Wanted : m <= saved => m \in have)

\* Every wanted message that is written is applied in the end, unless update_thread
\* refuses it or one before it ("会一直重试数据，直至成功").
Delivered ==
  \A m \in Wanted :
    (written >= m) ~> (last >= m \/ \E r \in Refused : r <= m)

\* The engine is fed in order and without gaps.
Feeding == INSTANCE Feed WITH alive <- up
ImplementsFeed == Feeding!Spec
=============================================================================
