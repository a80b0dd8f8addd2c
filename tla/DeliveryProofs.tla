--------------------------- MODULE DeliveryProofs ---------------------------
(***************************************************************************)
(* Proofs about Delivery: the offset file is never ahead of the engine, and *)
(* the engine is fed in order without gaps.                                *)
(***************************************************************************)
EXTENDS Delivery, TLAPS, SequenceTheorems

\* A sender that is started again finds the messages it has to send: they are
\* all in the file it opens, or it is never started again.
OneFile == Msgs <= FileBlocks \/ SenderDeaths = 0

\* The engine has every wanted message before p.
Good(p) == \A m \in Wanted : m < p => m <= last

\* The message the sender reads or sends next.
Due == IF spc = "read" THEN rpos + 1 ELSE rpos

-----------------------------------------------------------------------------
\* Who holds what on the wire: an answer is on the sender's newest connection and belongs to
\* the request it waits for.
Wire ==
  /\ ~serving => req = NoMsg
  /\ ~up => backlog = <<>> /\ ~serving
  /\ reply # NoReply => spc = "recv" /\ sock /\ backlog = <<>> /\ req = NoMsg
  /\ reply.status = "OK" => reply.pos = rpos
  /\ spc = "recv" => sock
  /\ Served /\ req # NoMsg => spc = "recv" /\ req = rpos
  /\ Queued /\ backlog[Len(backlog)] # NoMsg => spc = "recv" /\ backlog[Len(backlog)] = rpos

\* Only wanted messages are sent.
OnlyWanted ==
  /\ spc # "read" => rpos \in Wanted
  /\ req # NoMsg => req \in Wanted
  /\ \A i \in 1..Len(backlog) : backlog[i] # NoMsg => backlog[i] \in Wanted

\* What the engine holds.
Held ==
  /\ chk <= last
  /\ \A m \in have : m <= IF up THEN last ELSE chk

\* In the engine's first life nothing is ahead of it.
FirstLife ==
  deaths.engine = 0 =>
    /\ up
    /\ \A m \in Wanted : m <= last => m \in have
    /\ Good(Due) /\ Good(req) /\ \A i \in 1..Len(backlog) : Good(backlog[i])
    /\ Good(saved + 1)
    /\ reply # NoReply => reply.pos <= last

\* Once the roll-back is asked for, the sender is not ahead, or is told so.
Rolled ==
  up /\ ~needRoll =>
    /\ Good(req) /\ \A i \in 1..Len(backlog) : Good(backlog[i])
    /\ Good(Due) \/ reply.status = "ROLL_BACK"
    /\ reply # NoReply => reply.pos <= last

\* Before, what is ahead is the first request the engine will see,
\* and it is the sender's own or one of a sender that died.
AheadFirst ==
  /\ \A i \in 1..Len(backlog) :
       ~Good(backlog[i]) => req = NoMsg /\ \A j \in 1..Len(backlog) : j < i => backlog[j] = NoMsg
  /\ ~Good(Due) =>
       /\ \A i \in 1..Len(backlog) : i # Len(backlog) => backlog[i] = NoMsg
       /\ backlog # <<>> => req = NoMsg
       /\ ~sock => req = NoMsg /\ \A i \in 1..Len(backlog) : backlog[i] = NoMsg

OffsetInv == TypeOK /\ Wire /\ OnlyWanted /\ Held /\ FirstLife
FeedInv == TypeOK /\ Wire /\ OnlyWanted /\ Held /\ Rolled /\ (up => AheadFirst)

-----------------------------------------------------------------------------
(***************************************************************************)
(* The types.                                                              *)
(***************************************************************************)
\* What the sender can receive: the three kinds of answer are told apart by their status.
LEMMA ReplyForm ==
  ASSUME NEW r \in Replies
  PROVE  /\ r.status \in {"none", "OK", "ROLL_BACK"} /\ r.pos \in 0..Msgs
         /\ (r = NoReply <=> r.status = "none")
BY MsgsAssumption DEF Replies, NoReply, Ok, RollBack

\* The answers of update_thread have the type of an answer.
LEMMA ReplyMade ==
  ASSUME NEW p \in 0..Msgs
  PROVE  /\ NoReply \in Replies /\ Ok(p) \in Replies /\ RollBack(p) \in Replies
         /\ Ok(p).status = "OK" /\ Ok(p).pos = p /\ Ok(p) # NoReply
         /\ RollBack(p).status = "ROLL_BACK" /\ RollBack(p).pos = p /\ RollBack(p) # NoReply
         /\ NoReply.status = "none"
BY MsgsAssumption DEF Replies, NoReply, Ok, RollBack

\* The position of a restarted sender lies in the queue.
LEMMA NewestFileType ==
  ASSUME written \in 0..Msgs
  PROVE  NewestFile \in 0..Msgs
BY MsgsAssumption, SizeAssumption DEF NewestFile

\* A restarted sender begins at the first message.
LEMMA RestartPos ==
  ASSUME OneFile, TypeOK, SenderRestart
  PROVE  rpos' = 0
<1>1. SenderDeaths # 0
  BY SizeAssumption DEF SenderRestart, TypeOK
<1>2. Msgs <= FileBlocks
  BY <1>1 DEF OneFile
<1>3. written \in 0..Msgs
  BY DEF TypeOK
<1>4. NewestFile = 0
  BY <1>2, <1>3, MsgsAssumption, SizeAssumption DEF NewestFile
<1> QED
  BY <1>4 DEF SenderRestart

\* Connect puts an empty connection at the end of the backlog.
LEMMA Connected ==
  ASSUME TypeOK, Connect
  PROVE  /\ Len(backlog') = Len(backlog) + 1 /\ Len(backlog) \in Nat
         /\ backlog'[Len(backlog')] = 0
         /\ \A i \in 1..Len(backlog') :
              IF i = Len(backlog') THEN backlog'[i] = 0
                                   ELSE i \in 1..Len(backlog) /\ backlog'[i] = backlog[i]
<1>1. backlog \in Seq(0..Msgs) /\ 0 \in 0..Msgs /\ backlog' = Append(backlog, 0)
  BY MsgsAssumption DEF TypeOK, Connect, NoMsg
<1>2. /\ Len(backlog') = Len(backlog) + 1 /\ Len(backlog) \in Nat
      /\ backlog'[Len(backlog')] = 0
      /\ \A i \in 1..Len(backlog) : backlog'[i] = backlog[i]
  BY <1>1, AppendProperties, LenProperties
<1> QED
  BY <1>2

\* Send writes the request into the newest connection: one that waits for accept ...
LEMMA SentQueued ==
  ASSUME TypeOK, Send, Queued
  PROVE  /\ Len(backlog') = Len(backlog) /\ Len(backlog) \in Nat \ {0}
         /\ backlog'[Len(backlog)] = rpos
         /\ \A i \in 1..Len(backlog) : i # Len(backlog) => backlog'[i] = backlog[i]
         /\ req' = req
<1>1. backlog' = [backlog EXCEPT ![Len(backlog)] = rpos] /\ req' = req
  BY DEF Send, Queued, Served
<1>2. backlog \in Seq(0..Msgs) /\ rpos \in 0..Msgs /\ backlog # <<>>
  BY DEF TypeOK, Queued
<1>3. Len(backlog) \in Nat \ {0} /\ Len(backlog) \in 1..Len(backlog)
  BY <1>2, EmptySeq
<1>4. backlog \in [1..Len(backlog) -> 0..Msgs]
  BY <1>2, LenProperties
<1>5. Len(backlog') = Len(backlog)
  BY <1>1, <1>2, <1>3, ExceptSeq
<1>6. backlog'[Len(backlog)] = rpos
  BY <1>1, <1>3, <1>4
<1>7. \A i \in 1..Len(backlog) : i # Len(backlog) => backlog'[i] = backlog[i]
  BY <1>1, <1>3, <1>4
<1> QED
  BY <1>1, <1>3, <1>5, <1>6, <1>7

\* ... or the one that is served.
LEMMA SentServed ==
  ASSUME Send, ~Queued
  PROVE  Served /\ req' = rpos /\ backlog' = backlog
BY DEF Send

\* Accept takes the oldest connection.
LEMMA Accepted ==
  ASSUME TypeOK, Accept
  PROVE  /\ Len(backlog) \in Nat \ {0} /\ Len(backlog') = Len(backlog) - 1
         /\ req' = backlog[1] /\ 1 \in 1..Len(backlog)
         /\ \A i \in 1..Len(backlog') :
              /\ i + 1 \in 1..Len(backlog) /\ backlog'[i] = backlog[i + 1]
              /\ 1 < i + 1 /\ (i + 1 = Len(backlog) => i = Len(backlog'))
         /\ \A i, j \in 1..Len(backlog') : j < i => j + 1 < i + 1
         /\ (backlog' = <<>> <=> Len(backlog) = 1)
         /\ (backlog' # <<>> => backlog'[Len(backlog')] = backlog[Len(backlog)])
<1>1. backlog \in Seq(0..Msgs) /\ backlog # <<>> /\ backlog' = Tail(backlog) /\ req' = Head(backlog)
  BY DEF TypeOK, Accept
<1>2. Len(backlog) \in Nat \ {0}
  BY <1>1, EmptySeq
<1>3. Len(backlog') = Len(backlog) - 1 /\ backlog' \in Seq(0..Msgs)
      /\ \A i \in 1..Len(backlog') : backlog'[i] = backlog[i + 1]
  BY <1>1, HeadTailProperties
<1>4. req' = backlog[1]
  BY <1>1
<1>5. backlog' = <<>> <=> Len(backlog) = 1
  BY <1>2, <1>3, EmptySeq
<1>6. ASSUME backlog' # <<>>
      PROVE  backlog'[Len(backlog')] = backlog[Len(backlog)]
  <2>1. Len(backlog') \in Nat \ {0}
    BY <1>3, <1>6, EmptySeq
  <2>2. backlog'[Len(backlog')] = backlog[Len(backlog') + 1]
    BY <1>3, <2>1
  <2>3. Len(backlog') + 1 = Len(backlog)
    BY <1>2, <1>3
  <2> QED
    BY <2>2, <2>3
<1> QED
  BY <1>2, <1>3, <1>4, <1>5, <1>6

\* A death that the bounds allow is counted within them.
LEMMA DeathCounted ==
  ASSUME NEW d \in [sender : 0..SenderDeaths, engine : 0..EngineDeaths]
  PROVE  /\ d.sender < SenderDeaths =>
              [d EXCEPT !.sender = @ + 1] \in [sender : 0..SenderDeaths, engine : 0..EngineDeaths]
         /\ d.engine < EngineDeaths =>
              [d EXCEPT !.engine = @ + 1] \in [sender : 0..SenderDeaths, engine : 0..EngineDeaths]
<1>1. SenderDeaths \in Nat /\ EngineDeaths \in Nat
  BY SizeAssumption
<1>2. d.sender < SenderDeaths => d.sender + 1 \in 0..SenderDeaths
  BY <1>1
<1>3. d.engine < EngineDeaths => d.engine + 1 \in 0..EngineDeaths
  BY <1>1
<1> QED
  BY <1>2, <1>3

\* Every step of the sender, the network and update_thread keeps the types.
LEMMA TypeStep ==
  ASSUME TypeOK, OnlyWanted, [Next]_vars
  PROVE  TypeOK'
<1> USE MsgsAssumption, SizeAssumption DEF TypeOK, NoMsg, sendVars, netVars, updVars
<1>1. CASE Write /\ UNCHANGED long
  BY <1>1 DEF Write
<1>2. CASE Read /\ UNCHANGED long
  BY <1>2 DEF Read
<1>3. CASE Connect /\ UNCHANGED long
  BY <1>3, ReplyMade DEF Connect
<1>4. CASE Send /\ UNCHANGED long
  <2>1. ASSUME Queued PROVE [backlog EXCEPT ![Len(backlog)] = rpos] \in Seq(0..Msgs)
    BY <2>1, ExceptSeq, EmptySeq DEF Queued
  <2> QED
    BY <1>4, <2>1 DEF Send
<1>5. CASE GetReply /\ UNCHANGED long
  BY <1>5, ReplyForm, ReplyMade DEF GetReply
<1>6. CASE Fail /\ UNCHANGED long
  BY <1>6 DEF Fail, Dead, Unanswered, Served
<1>7. CASE SenderRestart /\ UNCHANGED long
  <2>1. [deaths EXCEPT !.sender = @ + 1] \in [sender : 0..SenderDeaths, engine : 0..EngineDeaths]
    <3>1. deaths \in [sender : 0..SenderDeaths, engine : 0..EngineDeaths] /\ deaths.sender < SenderDeaths
      BY <1>7 DEF SenderRestart
    <3> QED
      BY <3>1, DeathCounted, Zenon
  <2> QED
    BY <1>7, <2>1, NewestFileType, ReplyMade DEF SenderRestart
<1>8. CASE Accept /\ UNCHANGED long
  BY <1>8 DEF Accept
<1>9. CASE Stale /\ UNCHANGED long
  BY <1>9 DEF Stale
<1>10. CASE Refuse /\ UNCHANGED long
  <2>1. serving' = FALSE /\ req' = 0 /\ UNCHANGED <<written, sendVars, backlog, reply, updVars, deaths>>
    BY <1>10 DEF Refuse
  <2>2. req' \in 0..Msgs
    BY <2>1
  <2> QED
    BY <1>10, <2>1, <2>2
<1>11. CASE Hangup /\ UNCHANGED long
  BY <1>11 DEF Hangup
<1>12. CASE CheckPoint /\ UNCHANGED long
  BY <1>12 DEF CheckPoint
<1>13. CASE Die /\ UNCHANGED long
  <2>1. [deaths EXCEPT !.engine = @ + 1] \in [sender : 0..SenderDeaths, engine : 0..EngineDeaths]
    <3>1. deaths \in [sender : 0..SenderDeaths, engine : 0..EngineDeaths] /\ deaths.engine < EngineDeaths
      BY <1>13 DEF Die
    <3> QED
      BY <3>1, DeathCounted, Zenon
  <2>2. reply' \in Replies
    BY <1>13, ReplyMade DEF Die
  <2>3. have' \in SUBSET Wanted
    BY <1>13 DEF Die
  <2>4. /\ up' = FALSE /\ backlog' = <<>> /\ serving' = FALSE /\ req' = 0
        /\ deaths' = [deaths EXCEPT !.engine = @ + 1]
        /\ UNCHANGED <<written, sendVars, last, needRoll, chk>>
    BY <1>13 DEF Die
  <2>5. req' \in 0..Msgs
    BY <2>4
  <2>6. serving' \in BOOLEAN
    BY <2>4
  <2>7. backlog' \in Seq(0..Msgs)
    BY <2>4, EmptySeq
  <2> QED
    BY <1>13, <2>1, <2>2, <2>3, <2>4, <2>5, <2>6, <2>7
<1>14. CASE Restart /\ UNCHANGED long
  BY <1>14 DEF Restart
<1>15. ASSUME NEW ok \in BOOLEAN, AskRollBack(ok), UNCHANGED long
     PROVE  TypeOK'
  BY <1>15, ReplyMade DEF AskRollBack, Answer, Served
<1>16. ASSUME NEW ok \in BOOLEAN, Apply(ok), UNCHANGED long
     PROVE  TypeOK'
  <2>1. have' \in SUBSET Wanted
    BY <1>16 DEF Apply, OnlyWanted
  <2> QED
    BY <1>16, <2>1, ReplyMade DEF Apply, Answer
<1>17. CASE UNCHANGED vars
  BY <1>17 DEF vars
<1> QED
  BY <1>1, <1>2, <1>3, <1>4, <1>5, <1>6, <1>7, <1>8, <1>9, <1>10, <1>11, <1>12, <1>13, <1>14, <1>15, <1>16, <1>17 DEF Next, Sender, Engine

\* Every step of the sender, the network and update_thread keeps the wire in order.
LEMMA WireStep ==
  ASSUME TypeOK, TypeOK', Wire, [Next]_vars
  PROVE  Wire'
<1> USE MsgsAssumption, ReplyForm, ReplyMade DEF TypeOK, Wire, NoMsg, Served, Queued, sendVars, netVars, updVars
<1>1. CASE Write /\ UNCHANGED long
  BY <1>1 DEF Write
<1>2. CASE Read /\ UNCHANGED long
  BY <1>2 DEF Read
<1>3. CASE Connect /\ UNCHANGED long
  BY <1>3 DEF Connect
<1>4. CASE Send /\ UNCHANGED long
  BY <1>4 DEF Send, Queued, Served
<1>5. CASE GetReply /\ UNCHANGED long
  BY <1>5 DEF GetReply
<1>6. CASE Fail /\ UNCHANGED long
  BY <1>6 DEF Fail, Dead, Unanswered, Served
<1>7. CASE SenderRestart /\ UNCHANGED long
  BY <1>7 DEF SenderRestart
<1>8. CASE Accept /\ UNCHANGED long
  <2>1. backlog' = <<>> => backlog[Len(backlog)] = req'
    BY <1>8, Accepted
  <2>2. backlog' # <<>> => backlog'[Len(backlog')] = backlog[Len(backlog)]
    BY <1>8, Accepted
  <2> QED
    BY <1>8, <2>1, <2>2 DEF Accept
<1>9. CASE Stale /\ UNCHANGED long
  BY <1>9 DEF Stale
<1>10. CASE Refuse /\ UNCHANGED long
  BY <1>10 DEF Refuse
<1>11. CASE Hangup /\ UNCHANGED long
  BY <1>11 DEF Hangup
<1>12. CASE CheckPoint /\ UNCHANGED long
  BY <1>12 DEF CheckPoint
<1>13. CASE Die /\ UNCHANGED long
  BY <1>13 DEF Die
<1>14. CASE Restart /\ UNCHANGED long
  BY <1>14 DEF Restart
<1>15. ASSUME NEW ok \in BOOLEAN, AskRollBack(ok), UNCHANGED long
     PROVE  Wire'
  BY <1>15 DEF AskRollBack, Answer, Served
<1>16. ASSUME NEW ok \in BOOLEAN, Apply(ok), UNCHANGED long
     PROVE  Wire'
  BY <1>16 DEF Apply, Answer, Served
<1>17. CASE UNCHANGED vars
  BY <1>17 DEF vars
<1> QED
  BY <1>1, <1>2, <1>3, <1>4, <1>5, <1>6, <1>7, <1>8, <1>9, <1>10, <1>11, <1>12, <1>13, <1>14, <1>15, <1>16, <1>17 DEF Next, Sender, Engine

\* Only wanted messages are ever put on the wire: the sender passes over the other events.
LEMMA WantedStep ==
  ASSUME TypeOK, TypeOK', OnlyWanted, [Next]_vars
  PROVE  OnlyWanted'
<1> USE MsgsAssumption DEF TypeOK, OnlyWanted, NoMsg, sendVars, netVars, updVars
<1>1. CASE Write /\ UNCHANGED long
  BY <1>1 DEF Write
<1>2. CASE Read /\ UNCHANGED long
  BY <1>2 DEF Read
<1>3. CASE Connect /\ UNCHANGED long
  BY <1>3 DEF Connect
<1>4. CASE Send /\ UNCHANGED long
  <2>1. rpos' = rpos /\ rpos \in Wanted /\ spc' = "recv"
    BY <1>4 DEF Send
  <2>2. CASE backlog' = [backlog EXCEPT ![Len(backlog)] = rpos] /\ UNCHANGED req
    <3>1. Len(backlog') = Len(backlog)
      BY <2>2
    <3>2. \A i \in 1..Len(backlog) : backlog'[i] = backlog[i] \/ backlog'[i] = rpos
      BY <2>2
    <3> QED
      BY <2>1, <2>2, <3>1, <3>2
  <2>3. CASE req' = rpos /\ UNCHANGED backlog
    BY <2>1, <2>3
  <2> QED
    BY <1>4, <2>2, <2>3 DEF Send
<1>5. CASE GetReply /\ UNCHANGED long
  BY <1>5 DEF GetReply
<1>6. CASE Fail /\ UNCHANGED long
  BY <1>6 DEF Fail, Dead, Unanswered, Served
<1>7. CASE SenderRestart /\ UNCHANGED long
  BY <1>7 DEF SenderRestart
<1>8. CASE Accept /\ UNCHANGED long
  BY <1>8 DEF Accept
<1>9. CASE Stale /\ UNCHANGED long
  BY <1>9 DEF Stale
<1>10. CASE Refuse /\ UNCHANGED long
  BY <1>10 DEF Refuse
<1>11. CASE Hangup /\ UNCHANGED long
  BY <1>11 DEF Hangup
<1>12. CASE CheckPoint /\ UNCHANGED long
  BY <1>12 DEF CheckPoint
<1>13. CASE Die /\ UNCHANGED long
  BY <1>13 DEF Die
<1>14. CASE Restart /\ UNCHANGED long
  BY <1>14 DEF Restart
<1>15. ASSUME NEW ok \in BOOLEAN, AskRollBack(ok), UNCHANGED long
     PROVE  OnlyWanted'
  BY <1>15 DEF AskRollBack, Answer, Served
<1>16. ASSUME NEW ok \in BOOLEAN, Apply(ok), UNCHANGED long
     PROVE  OnlyWanted'
  BY <1>16 DEF Apply, Answer, Served
<1>17. CASE UNCHANGED vars
  BY <1>17 DEF vars
<1> QED
  BY <1>1, <1>2, <1>3, <1>4, <1>5, <1>6, <1>7, <1>8, <1>9, <1>10, <1>11, <1>12, <1>13, <1>14, <1>15, <1>16, <1>17 DEF Next, Sender, Engine

\* The check point stays behind last, and what the engine holds behind both.
LEMMA HeldStep ==
  ASSUME TypeOK, TypeOK', Wire, Held, [Next]_vars
  PROVE  Held'
<1> USE MsgsAssumption DEF TypeOK, Wire, Held, NoMsg, sendVars, netVars, updVars
<1>1. CASE Write /\ UNCHANGED long
  BY <1>1 DEF Write
<1>2. CASE Read /\ UNCHANGED long
  BY <1>2 DEF Read
<1>3. CASE Connect /\ UNCHANGED long
  BY <1>3 DEF Connect
<1>4. CASE Send /\ UNCHANGED long
  BY <1>4 DEF Send, Queued, Served
<1>5. CASE GetReply /\ UNCHANGED long
  BY <1>5 DEF GetReply
<1>6. CASE Fail /\ UNCHANGED long
  BY <1>6 DEF Fail, Dead, Unanswered, Served
<1>7. CASE SenderRestart /\ UNCHANGED long
  BY <1>7 DEF SenderRestart
<1>8. CASE Accept /\ UNCHANGED long
  BY <1>8 DEF Accept
<1>9. CASE Stale /\ UNCHANGED long
  BY <1>9 DEF Stale
<1>10. CASE Refuse /\ UNCHANGED long
  BY <1>10 DEF Refuse
<1>11. CASE Hangup /\ UNCHANGED long
  BY <1>11 DEF Hangup
<1>12. CASE CheckPoint /\ UNCHANGED long
  BY <1>12 DEF CheckPoint
<1>13. CASE Die /\ UNCHANGED long
  BY <1>13 DEF Die
<1>14. CASE Restart /\ UNCHANGED long
  BY <1>14 DEF Restart
<1>15. ASSUME NEW ok \in BOOLEAN, AskRollBack(ok), UNCHANGED long
     PROVE  Held'
  BY <1>15 DEF AskRollBack, Answer, Served
<1>16. ASSUME NEW ok \in BOOLEAN, Apply(ok), UNCHANGED long
     PROVE  Held'
  BY <1>16 DEF Apply, Answer, Served
<1>17. CASE UNCHANGED vars
  BY <1>17 DEF vars
<1> QED
  BY <1>1, <1>2, <1>3, <1>4, <1>5, <1>6, <1>7, <1>8, <1>9, <1>10, <1>11, <1>12, <1>13, <1>14, <1>15, <1>16, <1>17 DEF Next, Sender, Engine

\* Until the engine dies, no step of the sender brings it, a request or the offset file ahead.
LEMMA FirstLifeStep ==
  ASSUME OneFile, TypeOK, TypeOK', Wire, OnlyWanted, Held, FirstLife, [Next]_vars
  PROVE  FirstLife'
<1> USE MsgsAssumption DEF TypeOK, FirstLife, NoMsg, Good, Due, sendVars, netVars, updVars
<1>1. CASE Write /\ UNCHANGED long
  BY <1>1 DEF Write
<1>2. CASE Read /\ UNCHANGED long
  <2>1. rpos' = rpos + 1 /\ UNCHANGED <<netVars, updVars, deaths>> /\ spc = "read"
    BY <1>2 DEF Read
  <2>2. CASE rpos + 1 \in Wanted
    BY <1>2, <2>1, <2>2 DEF Read
  <2>3. CASE rpos + 1 \notin Wanted
    <3>1. \A m \in Wanted : m < rpos + 2 => m < rpos + 1
      BY <2>3
    <3>2. saved' = rpos + 1 /\ spc' = "read"
      BY <1>2, <2>1, <2>3 DEF Read
    <3> QED
      BY <2>1, <3>1, <3>2
  <2> QED
    BY <2>2, <2>3
<1>3. CASE Connect /\ UNCHANGED long
  BY <1>3 DEF Connect
<1>4. CASE Send /\ UNCHANGED long
  <2>1. UNCHANGED <<rpos, saved, updVars, deaths, reply>> /\ spc = "send" /\ spc' = "recv"
    BY <1>4 DEF Send
  <2>2. CASE ~Queued
    BY <1>4, <2>1, <2>2, SentServed
  <2>3. CASE Queued
    <3>1. \A i \in 1..Len(backlog) : backlog'[i] = backlog[i] \/ backlog'[i] = rpos
      BY <1>4, <2>3, SentQueued
    <3>2. Len(backlog') = Len(backlog) /\ Len(backlog) \in Nat /\ req' = req
      BY <1>4, <2>3, SentQueued
    <3> QED
      BY <2>1, <2>3, <3>1, <3>2
  <2> QED
    BY <2>2, <2>3
<1>5. CASE GetReply /\ UNCHANGED long
  <2>1. CASE reply.status = "OK"
    <3>1. saved' = rpos /\ rpos' = rpos /\ spc' = "read" /\ reply' = NoReply /\ reply.pos = rpos /\ reply # NoReply
      BY <1>5, <2>1 DEF GetReply, Wire
    <3>2. UNCHANGED <<backlog, req, updVars, deaths>>
      BY <1>5 DEF GetReply
    <3> QED
      BY <3>1, <3>2
  <2>2. CASE reply.status # "OK"
    <3>1. saved' = saved /\ rpos' = reply.pos /\ spc' = "read" /\ reply' = NoReply /\ reply # NoReply
      BY <1>5, <2>2 DEF GetReply, Wire
    <3>2. UNCHANGED <<backlog, req, updVars, deaths>>
      BY <1>5 DEF GetReply
    <3>3. reply.pos \in 0..Msgs
      BY ReplyForm
    <3> QED
      BY <3>1, <3>2, <3>3
  <2> QED
    BY <2>1, <2>2
<1>6. CASE Fail /\ UNCHANGED long
  BY <1>6 DEF Fail, Dead, Unanswered, Served
<1>7. CASE SenderRestart /\ UNCHANGED long
  <2>1. rpos' = 0 /\ spc' = "read" /\ reply' = NoReply
    BY <1>7, RestartPos DEF SenderRestart
  <2>2. deaths'.engine = deaths.engine
    BY <1>7 DEF SenderRestart
  <2>3. UNCHANGED <<saved, backlog, req, updVars>>
    BY <1>7 DEF SenderRestart
  <2> QED
    BY <2>1, <2>2, <2>3
<1>8. CASE Accept /\ UNCHANGED long
  BY <1>8 DEF Accept
<1>9. CASE Stale /\ UNCHANGED long
  BY <1>9 DEF Stale
<1>10. CASE Refuse /\ UNCHANGED long
  BY <1>10 DEF Refuse
<1>11. CASE Hangup /\ UNCHANGED long
  BY <1>11 DEF Hangup
<1>12. CASE CheckPoint /\ UNCHANGED long
  BY <1>12 DEF CheckPoint
<1>13. CASE Die /\ UNCHANGED long
  BY <1>13 DEF Die
<1>14. CASE Restart /\ UNCHANGED long
  BY <1>14 DEF Restart
<1>15. ASSUME NEW ok \in BOOLEAN, AskRollBack(ok), UNCHANGED long
     PROVE  FirstLife'
  <2>1. req' = NoMsg /\ UNCHANGED <<written, sendVars, backlog, up, last, chk, have, deaths>>
    BY <1>15 DEF AskRollBack, Answer
  <2>2. reply' # NoReply => reply' = reply \/ reply'.pos = last
    BY <1>15, ReplyMade DEF AskRollBack, Answer
  <2> QED
    BY <2>1, <2>2
<1>16. ASSUME NEW ok \in BOOLEAN, Apply(ok), UNCHANGED long
     PROVE  FirstLife'
  <2>1. last' = req /\ last < req /\ have' = have \cup {req} /\ req' = NoMsg
        /\ UNCHANGED <<written, sendVars, backlog, up, deaths>>
    BY <1>16 DEF Apply, Answer
  <2>2. reply' # NoReply => reply' = reply \/ reply'.pos = req
    BY <1>16, ReplyMade DEF Apply, Answer
  <2>3. ASSUME deaths.engine = 0, NEW m \in Wanted, m <= req
        PROVE  m \in have'
    BY <2>1, <2>3
  <2>4. last \in Int /\ req \in Int /\ \A m \in Wanted : m \in Int
    OBVIOUS
  <2>5. reply # NoReply => req = NoMsg
    BY DEF Wire
  <2> QED
    BY <2>1, <2>2, <2>3, <2>4, <2>5
<1>17. CASE UNCHANGED vars
  BY <1>17 DEF vars
<1> QED
  BY <1>1, <1>2, <1>3, <1>4, <1>5, <1>6, <1>7, <1>8, <1>9, <1>10, <1>11, <1>12, <1>13, <1>14, <1>15, <1>16, <1>17 DEF Next, Sender, Engine

\* Once update_thread has asked for the roll-back, nothing on the wire is ahead of it any more.
LEMMA RolledStep ==
  ASSUME OneFile, ~Early, TypeOK, TypeOK', Wire, OnlyWanted, Rolled, up => AheadFirst, [Next]_vars
  PROVE  Rolled'
<1> USE MsgsAssumption DEF TypeOK, Rolled, NoMsg, Good, Due, sendVars, netVars, updVars
<1>1. CASE Write /\ UNCHANGED long
  BY <1>1 DEF Write
<1>2. CASE Read /\ UNCHANGED long
  BY <1>2 DEF Read
<1>3. CASE Connect /\ UNCHANGED long
  <2>1. reply = NoReply /\ reply' = NoReply
    BY <1>3 DEF Connect, Wire
  <2>2. up /\ ~needRoll => Good(Due)
    BY <2>1, ReplyForm
  <2>3. UNCHANGED <<rpos, spc, req, updVars>>
    BY <1>3 DEF Connect
  <2>4. \A i \in 1..Len(backlog') : backlog'[i] = 0 \/ (i \in 1..Len(backlog) /\ backlog'[i] = backlog[i])
    BY <1>3, Connected
  <2>5. ASSUME up, ~needRoll, NEW i \in 1..Len(backlog')
        PROVE  Good(backlog'[i])
    <3>1. CASE backlog'[i] = 0
      BY <3>1
    <3>2. CASE i \in 1..Len(backlog) /\ backlog'[i] = backlog[i]
      BY <2>5, <3>2
    <3> QED
      BY <2>4, <3>1, <3>2
  <2> QED
    BY <2>1, <2>2, <2>3, <2>5
<1>4. CASE Send /\ UNCHANGED long
  <2>1. UNCHANGED <<rpos, updVars, reply>> /\ spc = "send" /\ spc' = "recv"
    BY <1>4 DEF Send
  <2>2. reply = NoReply
    BY <2>1 DEF Wire
  <2>3. up /\ ~needRoll => Good(Due)
    BY <2>2, ReplyForm
  <2>4. CASE ~Queued
    BY <1>4, <2>1, <2>2, <2>3, <2>4, SentServed
  <2>5. CASE Queued
    <3>1. \A i \in 1..Len(backlog) : backlog'[i] = backlog[i] \/ backlog'[i] = rpos
      BY <1>4, <2>5, SentQueued
    <3>2. Len(backlog') = Len(backlog) /\ Len(backlog) \in Nat /\ req' = req
      BY <1>4, <2>5, SentQueued
    <3> QED
      BY <2>1, <2>2, <2>3, <3>1, <3>2
  <2> QED
    BY <2>4, <2>5
<1>5. CASE GetReply /\ UNCHANGED long
  <2>1. UNCHANGED <<backlog, req, updVars>> /\ spc' = "read" /\ reply' = NoReply /\ reply # NoReply
    BY <1>5 DEF GetReply
  <2>2. rpos' = reply.pos
    BY <1>5 DEF GetReply, Wire
  <2> QED
    BY <2>1, <2>2
<1>6. CASE Fail /\ UNCHANGED long
  BY <1>6 DEF Fail, Dead, Unanswered, Served
<1>7. CASE SenderRestart /\ UNCHANGED long
  <2>1. rpos' = 0 /\ spc' = "read" /\ reply' = NoReply /\ UNCHANGED <<backlog, req, updVars>>
    BY <1>7, RestartPos DEF SenderRestart
  <2> QED
    BY <2>1
<1>8. CASE Accept /\ UNCHANGED long
  BY <1>8 DEF Accept
<1>9. CASE Stale /\ UNCHANGED long
  BY <1>9 DEF Stale
<1>10. CASE Refuse /\ UNCHANGED long
  BY <1>10 DEF Refuse
<1>11. CASE Hangup /\ UNCHANGED long
  BY <1>11 DEF Hangup
<1>12. CASE CheckPoint /\ UNCHANGED long
  BY <1>12 DEF CheckPoint
<1>13. CASE Die /\ UNCHANGED long
  BY <1>13 DEF Die
<1>14. CASE Restart /\ UNCHANGED long
  BY <1>14 DEF Restart
<1>15. ASSUME NEW ok \in BOOLEAN, AskRollBack(ok), UNCHANGED long
     PROVE  Rolled'
  <2>1. /\ up /\ serving /\ req # 0 /\ req' = 0 /\ needRoll' = ~ok
        /\ UNCHANGED <<rpos, spc, sock, backlog, up, last>>
        /\ reply' = IF Served THEN RollBack(last) ELSE reply
    BY <1>15 DEF AskRollBack, Answer
  <2>2. \A i \in 1..Len(backlog) : Good(backlog[i])
    BY <2>1 DEF AheadFirst
  <2>3. reply = NoReply
    BY <2>1 DEF Wire
  <2>4. CASE Served
    BY <2>1, <2>2, <2>4, ReplyMade
  <2>5. CASE ~Served
    <3>1. Good(Due)
      BY <2>1, <2>5 DEF AheadFirst, Served
    <3> QED
      BY <2>1, <2>2, <2>3, <2>5, <3>1
  <2> QED
    BY <2>4, <2>5
<1>16. ASSUME NEW ok \in BOOLEAN, Apply(ok), UNCHANGED long
     PROVE  Rolled'
  <2>1. /\ last' = req /\ last < req /\ req # 0 /\ req' = 0 /\ up /\ ~needRoll
        /\ UNCHANGED <<rpos, spc, backlog, up, needRoll>>
        /\ reply' = IF Served THEN Ok(req) ELSE reply
    BY <1>16 DEF Apply, Answer
  <2>2. reply = NoReply
    BY <2>1 DEF Wire
  <2>3. Good(Due)
    BY <2>1, <2>2, ReplyForm
  <2>4. reply' # NoReply => reply'.pos <= last'
    BY <2>1, <2>2, ReplyMade
  <2> QED
    BY <2>1, <2>3, <2>4
<1>17. CASE UNCHANGED vars
  BY <1>17 DEF vars
<1> QED
  BY <1>1, <1>2, <1>3, <1>4, <1>5, <1>6, <1>7, <1>8, <1>9, <1>10, <1>11, <1>12, <1>13, <1>14, <1>15, <1>16, <1>17 DEF Next, Sender, Engine

\* Before, a request that is ahead is the next one that update_thread will take.
LEMMA AheadStep ==
  ASSUME OneFile, ~Early, TypeOK, TypeOK', Wire, OnlyWanted, Rolled, up => AheadFirst, [Next]_vars
  PROVE  (up => AheadFirst)'
<1> USE MsgsAssumption DEF TypeOK, AheadFirst, NoMsg, Good, Due, sendVars, netVars, updVars
<1>1. CASE Write /\ UNCHANGED long
  BY <1>1 DEF Write
<1>2. CASE Read /\ UNCHANGED long
  BY <1>2 DEF Read
<1>3. CASE Connect /\ UNCHANGED long
  BY <1>3 DEF Connect
<1>4. CASE Send /\ UNCHANGED long
  <2>1. UNCHANGED <<rpos, sock, updVars, reply>> /\ spc = "send" /\ spc' = "recv" /\ sock
    BY <1>4 DEF Send, Queued, Served
  <2>2. CASE ~Queued
    BY <1>4, <2>1, <2>2, SentServed DEF Served
  <2>3. CASE Queued
    <3>1. /\ Len(backlog') = Len(backlog) /\ Len(backlog) \in Nat \ {0} /\ req' = req
          /\ backlog'[Len(backlog)] = rpos
          /\ \A i \in 1..Len(backlog) : i # Len(backlog) => backlog'[i] = backlog[i]
      BY <1>4, <2>3, SentQueued
    <3>2. backlog # <<>>
      BY <2>3 DEF Queued
    <3>3. up /\ ~Good(rpos) => req = 0 /\ \A i \in 1..Len(backlog) : i # Len(backlog) => backlog[i] = 0
      BY <2>1, <3>2
    <3>4. ASSUME up, NEW i \in 1..Len(backlog), ~Good(backlog'[i])
          PROVE  req = 0 /\ \A j \in 1..Len(backlog) : j < i => backlog'[j] = 0
      <4>1. \A j \in 1..Len(backlog) : j < i => j # Len(backlog) /\ backlog'[j] = backlog[j]
        BY <3>1
      <4>2. CASE i = Len(backlog)
        BY <3>1, <3>3, <3>4, <4>1, <4>2
      <4>3. CASE i # Len(backlog)
        <5>1. ~Good(backlog[i])
          BY <3>1, <3>4, <4>3
        <5> QED
          BY <3>4, <4>1, <5>1
      <4> QED
        BY <4>2, <4>3
    <3>5. up /\ ~Good(rpos) => \A i \in 1..Len(backlog) : i # Len(backlog) => backlog'[i] = 0
      BY <3>1, <3>3
    <3> QED
      BY <2>1, <3>1, <3>3, <3>4, <3>5
  <2> QED
    BY <2>2, <2>3
<1>5. CASE GetReply /\ UNCHANGED long
  <2>1. backlog' = <<>> /\ req' = 0
    BY <1>5 DEF GetReply, Wire
  <2> QED
    BY <2>1
<1>6. CASE Fail /\ UNCHANGED long
  <2>1. backlog' = <<>> /\ req' = 0
    BY <1>6 DEF Fail, Dead, Unanswered, Served, Wire
  <2> QED
    BY <2>1
<1>7. CASE SenderRestart /\ UNCHANGED long
  <2>1. rpos' = 0 /\ spc' = "read" /\ sock' = FALSE /\ UNCHANGED <<backlog, req, updVars>>
    BY <1>7, RestartPos DEF SenderRestart
  <2> QED
    BY <2>1
<1>8. CASE Accept /\ UNCHANGED long
  <2>1. up /\ req = 0 /\ UNCHANGED <<rpos, spc, sock, updVars>>
    BY <1>8 DEF Accept, Wire
  <2>2. ASSUME NEW i \in 1..Len(backlog'), ~Good(backlog'[i])
        PROVE  req' = 0 /\ \A j \in 1..Len(backlog') : j < i => backlog'[j] = 0
    <3>1. ~Good(backlog[i + 1]) /\ i + 1 \in 1..Len(backlog)
      BY <1>8, <2>2, Accepted
    <3>2. \A j \in 1..Len(backlog) : j < i + 1 => backlog[j] = 0
      BY <2>1, <3>1
    <3> QED
      BY <1>8, <3>2, Accepted
  <2>3. ASSUME ~Good(Due)
        PROVE  /\ \A i \in 1..Len(backlog') : i # Len(backlog') => backlog'[i] = 0
               /\ backlog' # <<>> => req' = 0
               /\ ~sock => req' = 0 /\ \A i \in 1..Len(backlog') : backlog'[i] = 0
    <3>1. \A i \in 1..Len(backlog) : i # Len(backlog) => backlog[i] = 0
      BY <2>1, <2>3
    <3>2. ~sock => \A i \in 1..Len(backlog) : backlog[i] = 0
      BY <2>1, <2>3
    <3>3. \A i \in 1..Len(backlog') : i # Len(backlog') => backlog'[i] = 0
      BY <1>8, <3>1, Accepted
    <3>4. backlog' # <<>> => req' = 0
      BY <1>8, <3>1, Accepted
    <3>5. ~sock => req' = 0 /\ \A i \in 1..Len(backlog') : backlog'[i] = 0
      BY <1>8, <3>2, Accepted
    <3> QED
      BY <3>3, <3>4, <3>5
  <2> QED
    BY <2>1, <2>2, <2>3
<1>9. CASE Stale /\ UNCHANGED long
  BY <1>9 DEF Stale
<1>10. CASE Refuse /\ UNCHANGED long
  BY <1>10 DEF Refuse
<1>11. CASE Hangup /\ UNCHANGED long
  BY <1>11 DEF Hangup
<1>12. CASE CheckPoint /\ UNCHANGED long
  BY <1>12 DEF CheckPoint
<1>13. CASE Die /\ UNCHANGED long
  BY <1>13 DEF Die
<1>14. CASE Restart /\ UNCHANGED long
  <2>1. backlog' = <<>> /\ req' = 0
    BY <1>14 DEF Restart, Wire
  <2> QED
    BY <2>1
<1>15. ASSUME NEW ok \in BOOLEAN, AskRollBack(ok), UNCHANGED long
     PROVE  (up => AheadFirst)'
  BY <1>15 DEF AskRollBack, Answer, Served
<1>16. ASSUME NEW ok \in BOOLEAN, Apply(ok), UNCHANGED long
     PROVE  (up => AheadFirst)'
  BY <1>16 DEF Apply, Answer, Served
<1>17. CASE UNCHANGED vars
  BY <1>17 DEF vars
<1> QED
  BY <1>1, <1>2, <1>3, <1>4, <1>5, <1>6, <1>7, <1>8, <1>9, <1>10, <1>11, <1>12, <1>13, <1>14, <1>15, <1>16, <1>17 DEF Next, Sender, Engine

-----------------------------------------------------------------------------
(***************************************************************************)
(* The offset file.                                                        *)
(***************************************************************************)
\* The offset invariant holds at the start.
LEMMA OffsetInit == Init => OffsetInv
<1> SUFFICES ASSUME Init
             PROVE  OffsetInv
  OBVIOUS
<1> USE MsgsAssumption, SizeAssumption DEF Init, NoMsg
<1>1. TypeOK
  <2>1. NoReply \in Replies /\ backlog \in Seq(0..Msgs) /\ have \in SUBSET Wanted
    BY ReplyMade, EmptySeq
  <2>2. 0 \in 0..Msgs /\ deaths \in [sender : 0..SenderDeaths, engine : 0..EngineDeaths]
    OBVIOUS
  <2> QED
    BY <2>1, <2>2 DEF TypeOK
<1>2. reply.status = "none" /\ Len(backlog) = 0
  BY ReplyMade, EmptySeq
<1>3. Wire
  BY <1>2 DEF Wire, Served, Queued
<1>4. OnlyWanted /\ Held
  BY <1>2 DEF OnlyWanted, Held
<1>5. FirstLife
  BY <1>2 DEF FirstLife, Good, Due
<1> QED
  BY <1>1, <1>3, <1>4, <1>5 DEF OffsetInv

\* The sender never writes an offset behind which the engine misses a wanted message, in the
\* engine's first life, however often the sender dies and however early its timeout fires, as long
\* as a restarted sender finds all messages in one file.
THEOREM OffsetNeverAhead ==
  ASSUME OneFile
  PROVE  Spec => []OffsetNotAhead
<1>1. Init => OffsetInv
  BY OffsetInit
<1>2. OffsetInv /\ [Next]_vars => OffsetInv'
  <2> SUFFICES ASSUME OffsetInv, [Next]_vars
               PROVE  OffsetInv'
    OBVIOUS
  <2>1. TypeOK /\ Wire /\ OnlyWanted /\ Held /\ FirstLife
    BY DEF OffsetInv
  <2>2. TypeOK'
    BY <2>1, TypeStep
  <2>3. Wire' /\ OnlyWanted' /\ Held'
    BY <2>1, <2>2, WireStep, WantedStep, HeldStep
  <2>4. FirstLife'
    BY <2>1, <2>2, FirstLifeStep, OneFile
  <2> QED
    BY <2>2, <2>3, <2>4 DEF OffsetInv
<1>3. OffsetInv => OffsetNotAhead
  BY MsgsAssumption DEF OffsetInv, OffsetNotAhead, FirstLife, Good, TypeOK
<1> QED
  BY <1>1, <1>2, <1>3, PTL DEF Spec

-----------------------------------------------------------------------------
(***************************************************************************)
(* The refinement.                                                         *)
(***************************************************************************)
\* A step of the sender, the network or update_thread is a step of the feed or leaves it alone.
LEMMA FeedStep ==
  ASSUME FeedInv, [Next]_vars
  PROVE  [Feeding!Next]_Feeding!vars
<1> USE MsgsAssumption DEF FeedInv, Feeding!Next, Feeding!vars, sendVars, netVars, updVars
<1>1. CASE CheckPoint
  <2>1. up /\ UNCHANGED <<last, up>> /\ chk' \in have /\ chk' > chk
    BY <1>1 DEF CheckPoint
  <2>2. chk' \in chk..last
    BY <2>1 DEF Held, TypeOK
  <2> QED
    BY <2>1, <2>2 DEF Feeding!Save
<1>2. CASE Die
  BY <1>2 DEF Die, Feeding!Stop
<1>3. CASE Restart
  BY <1>3 DEF Restart, Feeding!Start
<1>4. ASSUME NEW ok \in BOOLEAN, Apply(ok)
      PROVE  [Feeding!Next]_Feeding!vars
  <2>1. up /\ ~needRoll /\ last' = req /\ req > last /\ req # NoMsg /\ UNCHANGED <<chk, up>>
    BY <1>4 DEF Apply
  <2>2. req \in Wanted /\ Good(req)
    BY <2>1 DEF OnlyWanted, Rolled
  <2>3. req \in Feeding!After(last) /\ \A m \in Feeding!After(last) : req <= m
    BY <2>1, <2>2 DEF Good, Feeding!After, TypeOK
  <2> QED
    BY <2>1, <2>3 DEF Feeding!Apply
<1>5. CASE UNCHANGED <<last, chk, up>>
  BY <1>5
<1>6. ASSUME Write \/ Sender \/ SenderRestart
      PROVE  UNCHANGED <<last, chk, up>>
  BY <1>6 DEF Write, Sender, Read, Connect, Send, GetReply, Fail, SenderRestart
<1>7. ASSUME Accept \/ Stale \/ Refuse \/ Hangup \/ \E ok \in BOOLEAN : AskRollBack(ok)
      PROVE  UNCHANGED <<last, chk, up>>
  BY <1>7 DEF Accept, Stale, Refuse, Hangup, AskRollBack
<1>8. CASE UNCHANGED vars
  BY <1>8 DEF vars
<1> QED
  BY <1>1, <1>2, <1>3, <1>4, <1>5, <1>6, <1>7, <1>8 DEF Next, Engine

\* The sender and update_thread feed the engine in the order of the queue and without gaps, over
\* deaths and restarts of both, when the receive timeout never fires on an engine that is still
\* working and a restarted sender finds all messages in one file.
THEOREM DeliveryImplementsFeed ==
  ASSUME OneFile, ~Early
  PROVE  Spec => ImplementsFeed
<1>1. Init => FeedInv
  <2> SUFFICES ASSUME Init
               PROVE  FeedInv
    OBVIOUS
  <2>1. TypeOK /\ Wire /\ OnlyWanted /\ Held
    BY OffsetInit DEF OffsetInv
  <2>2. Len(backlog) = 0 /\ backlog = <<>> /\ needRoll /\ req = NoMsg
    BY EmptySeq DEF Init
  <2>3. Rolled /\ AheadFirst
    BY <2>2 DEF Rolled, AheadFirst
  <2> QED
    BY <2>1, <2>3 DEF FeedInv
<1>2. FeedInv /\ [Next]_vars => FeedInv'
  <2> SUFFICES ASSUME FeedInv, [Next]_vars
               PROVE  FeedInv'
    OBVIOUS
  <2>1. TypeOK /\ Wire /\ OnlyWanted /\ Held /\ Rolled /\ (up => AheadFirst)
    BY DEF FeedInv
  <2>2. TypeOK'
    BY <2>1, TypeStep
  <2>3. Wire' /\ OnlyWanted' /\ Held'
    BY <2>1, <2>2, WireStep, WantedStep, HeldStep
  <2>4. Rolled' /\ (up => AheadFirst)'
    BY <2>1, <2>2, RolledStep, AheadStep, OneFile, ~Early
  <2> QED
    BY <2>2, <2>3, <2>4 DEF FeedInv
<1>3. Init => Feeding!Init
  BY DEF Init, Feeding!Init
<1>4. FeedInv /\ [Next]_vars => [Feeding!Next]_Feeding!vars
  BY FeedStep
<1> QED
  BY <1>1, <1>2, <1>3, <1>4, PTL DEF Spec, ImplementsFeed, Feeding!Spec
=============================================================================
