------------------------ MODULE ConnectionWriteProofs ------------------------
(***************************************************************************)
(* The writing side of Connection, with send_message on the user's thread  *)
(* beside the handlers, is correct but for two steps of                    *)
(* start_writing_message if the handshake is over before the first message *)
(* can be sent: on a plain socket, where start() completes it, and on a    *)
(* client whose user waits for m_on_connected.                             *)
(***************************************************************************)
EXTENDS ConnectionProofs

USE ConnectionAssumption, SMTT(30), ZenonT(30), SMTT(60)

Disciplined == ~Ssl \/ FirstSend = "server_accept"

\* The Asio thread never starts the writing: async_handshake_finished calls start_writing_message
\* when the queue is still empty.
OnlySender ==
    pc["asio"] \in StartSteps =>
        pc["asio"] = "test_empty" /\ FirstSend = "server_accept" /\ in_queue = <<>>

\* What the flag m_is_writing_message protects: at any time at most one of an
\* outstanding write, a thread about to start one, and a handler about to decide
\* on the next one.
WriteTurn ==
    /\ Len(writes) <= 1
    /\ pc["user"] \in {"test_handshake", "set_writing"} => ~m_is_writing_message
    /\ pc["user"] = "write_header" => writes = <<>> /\ pc["asio"] \notin FinishSteps
    /\ pc["asio"] \in FinishSteps => writes = <<>>
    /\ ~m_is_writing_message =>
           writes = <<>> /\ pc["user"] # "write_header" /\ pc["asio"] \notin FinishSteps

\* The outstanding write is of the front of the queue, and the messages in the
\* queue are the last ones that were sent.
WritesFront ==
    /\ \A i \in 1 .. Len(m_out_queue) : m_out_queue[i].num = sent - Len(m_out_queue) + i
    /\ writes # <<>> =>
           /\ m_out_queue # <<>>
           /\ writes[1].msg = m_out_queue[1]
           /\ writes[1].part = "body" => m_out_queue[1].head.size > 0

\* The last chunk of the stream when the next one to be written is a header.
AtBoundary ==
    IF outbound = <<>>
    THEN Len(m_out_queue) = sent
    ELSE LET c == outbound[Len(outbound)] IN
         c.part = LastPart(c.msg) /\ c.msg.num = sent - Len(m_out_queue)

\* A thread may start the write of a header without the completion of another one.
\* It is false for good after a write error, which leaves m_is_writing_message set.
MayStart ==
    ~m_is_writing_message \/ pc["user"] = "write_header" \/ pc["asio"] \in FinishSteps

\* The last chunk of the stream is the one the outstanding write, or the next one
\* to be started, continues.
WriteContinues ==
    /\ MayStart => AtBoundary
    /\ writes # <<>> =>
           IF writes[1].part = "header"
           THEN AtBoundary
           ELSE /\ outbound # <<>>
                /\ outbound[Len(outbound)] = [part |-> "header", msg |-> m_out_queue[1]]
-------------------------------------------------------------------------------
\* A sequence of at most one element has nothing left when that one is removed
\* (the only outstanding write has completed).
LEMMA RemoveOnly ==
    ASSUME NEW S, NEW s \in Seq(S), Len(s) <= 1, NEW i \in 1 .. Len(s)
    PROVE  i = 1 /\ Len(s) = 1 /\ Remove(s, i) = <<>>
<1>0. Len(s) \in Nat
  BY SeqLen
<1>1. i = 1 /\ Len(s) = 1
  <2>1. \A n \in Nat : \A j \in 1 .. n : n <= 1 => j = 1 /\ n = 1
    OBVIOUS
  <2>2. QED
    BY <1>0, <2>1, ZenonT(30)
<1>2. SubSeq(s, 1, 0) = <<>> /\ SubSeq(s, 2, 1) = <<>>
  BY SubSeqNone
<1>3. QED
  BY <1>1, <1>2 DEF Remove

\* A write that is started when there is none is the only one.
LEMMA WriteOnly ==
    ASSUME NEW part, NEW others, others = <<>>, async_write(part, others)
    PROVE  /\ writes' # <<>> /\ Len(writes') <= 1
           /\ writes'[1].part = part /\ writes'[1].msg = Head(m_out_queue)
<1>1. PICK op : writes' = Append(<<>>, op) /\ op.part = part /\ op.msg = Head(m_out_queue)
  BY DEF async_write
<1>2. writes' = <<op>>
  BY <1>1
<1>3. QED
  BY <1>1, <1>2

\* A write that was started is outstanding.
LEMMA WriteStarts ==
    ASSUME NEW part, NEW others \in Seq(WriteOp), async_write(part, others)
    PROVE  writes' # <<>>
<1>1. PICK op : writes' = Append(others, op)
  BY DEF async_write
<1>2. QED
  BY <1>1

LEMMA SomeWrite == ASSUME NEW i \in 1 .. Len(writes), writes \in Seq(WriteOp) PROVE writes # <<>>
OBVIOUS

\* No action puts the Asio thread on the way to a write.
LEMMA OnlySenderStep ==
    ASSUME Disciplined, TypeOK, HandshakeOnce, OnlySender, [Next]_vars
    PROVE  OnlySender'
<1>0. pc \in [Threads -> {"idle"} \cup StartSteps \cup FinishSteps] /\ in_queue \in Seq(Message)
  BY DEF TypeOK
<1> USE <1>0 DEF lifeVars, writeVars, readVars, peerVars, GoTo, Threads
<1>1. CASE UNCHANGED <<pc, in_queue>>
  BY <1>1 DEF OnlySender
<1>2. CASE async_handshake_finished
  BY <1>2 DEF async_handshake_finished, HandshakeOnce, OnlySender, Disciplined, StartSteps
<1>3. ASSUME send_message PROVE OnlySender'
  BY <1>3 DEF send_message, OnlySender
<1>4. ASSUME NEW t \in Threads, start_writing_message(t) PROVE OnlySender'
  <2>1. in_queue' = in_queue
    BY <1>4 DEF start_writing_message, StartCondition
  <2>2. CASE t = "user"
    BY <1>4, <2>1, <2>2 DEF start_writing_message, StartCondition, OnlySender
  <2>3. CASE t # "user"
    <3>1. t = "asio" /\ pc[t] = "test_empty" /\ m_out_queue = <<>>
      BY <1>4, <2>3 DEF start_writing_message, StartCondition, OnlySender, StartSteps, HandshakeOnce
    <3>2. pc' = [pc EXCEPT ![t] = "idle"]
      BY <1>4, <3>1 DEF start_writing_message, StartCondition
    <3>3. QED
      BY <2>1, <3>1, <3>2 DEF OnlySender, StartSteps
  <2>4. QED
    BY <2>2, <2>3
<1>5. ASSUME NEW t \in Threads, SetWriting(t) \/ WriteHeader(t) PROVE OnlySender'
  <2>1. t = "user"
    BY <1>5 DEF SetWriting, WriteHeader, OnlySender, StartSteps
  <2>2. QED
    BY <1>5, <2>1 DEF SetWriting, WriteHeader, OnlySender
<1>6. CASE WriteHandlers
  <2>1. in_queue' = in_queue /\ (pc' = pc \/ pc' = [pc EXCEPT !["asio"] = "test_more"])
    BY <1>6 DEF WriteHandlers, async_write_header_finished, async_write_body_finished,
                WriteFails, PopWritten, PopEmpty
  <2>2. QED
    BY <2>1 DEF OnlySender, StartSteps
<1>7. CASE TestMore \/ ClearWriting
  BY <1>7 DEF TestMore, ClearWriting, OnlySender, StartSteps
<1>8. CASE ReadHandlers
  <2>1. pc["asio"] = "idle" /\ pc' = pc
    BY <1>8 DEF ReadHandlers, async_read_header_finished, async_read_body_finished, ReadFails,
                ReadCompletes, Idle
  <2>2. QED
    BY <2>1 DEF OnlySender, StartSteps
<1>9. QED
  BY <1>1, <1>2, <1>3, <1>4, <1>5, <1>6, <1>7, <1>8, ZenonT(30)
     DEF Next, Sending, vars, start, async_handshake, StartThrows, Destroy, HandlerOnDestroyed,
         add_accepted_message, PeerSends

\* Every action keeps the turn: the flag is set before the first write and cleared
\* only by the handler that found nothing more to write.
LEMMA WriteTurnStep ==
    ASSUME TypeOK, OnlySender, WriteTurn, [Next]_vars
    PROVE  WriteTurn'
<1>0. /\ pc \in [Threads -> {"idle"} \cup StartSteps \cup FinishSteps]
      /\ pc["user"] \notin FinishSteps
      /\ writes \in Seq(WriteOp) /\ m_is_writing_message \in BOOLEAN
  BY DEF TypeOK
<1> USE <1>0 DEF lifeVars, writeVars, readVars, peerVars, GoTo, Threads
<1>1. CASE UNCHANGED <<pc, writes, m_is_writing_message>>
  BY <1>1 DEF WriteTurn
<1>2. CASE start
  BY <1>2 DEF start, async_handshake, WriteTurn
<1>3. CASE async_handshake_finished
  BY <1>3 DEF async_handshake_finished, WriteTurn, StartSteps, FinishSteps, Idle
<1>4. CASE send_message
  BY <1>4 DEF send_message, WriteTurn, StartSteps, FinishSteps, Idle
<1>5. ASSUME NEW t \in Threads, start_writing_message(t) PROVE WriteTurn'
  BY <1>5 DEF start_writing_message, StartCondition, WriteTurn, StartSteps, FinishSteps
<1>6. ASSUME NEW t \in Threads, SetWriting(t) PROVE WriteTurn'
  BY <1>6 DEF SetWriting, OnlySender, WriteTurn, StartSteps, FinishSteps
<1>7. ASSUME NEW t \in Threads, WriteHeader(t) PROVE WriteTurn'
  <2>1. t = "user" /\ writes = <<>> /\ pc["asio"] \notin FinishSteps /\ m_is_writing_message
    BY <1>7 DEF WriteHeader, OnlySender, WriteTurn, StartSteps
  <2>2. Len(writes') <= 1
    <3>1. CASE async_write("header", writes)
      BY <2>1, <3>1, WriteOnly, ZenonT(30)
    <3>2. CASE writes' = writes
      BY <3>2 DEF WriteTurn
    <3>3. QED
      BY <1>7, <3>1, <3>2 DEF WriteHeader
  <2>3. QED
    BY <1>7, <2>1, <2>2 DEF WriteHeader, WriteTurn, StartSteps, FinishSteps
<1>8. CASE WriteHandlers
  <2>1. PICK i \in 1 .. Len(writes) : \/ async_write_header_finished(i)
                                      \/ async_write_body_finished(i)
                                      \/ WriteFails(i)
    BY <1>8 DEF WriteHandlers
  <2>2. Remove(writes, i) = <<>> /\ writes # <<>>
    BY RemoveOnly DEF WriteTurn
  <2>3. m_is_writing_message /\ pc["user"] # "write_header" /\ pc["asio"] = "idle"
    BY <2>1, <2>2 DEF WriteTurn, async_write_header_finished, async_write_body_finished,
                      WriteCompletes, WriteFails, Idle
  <2>4. m_is_writing_message' = m_is_writing_message
    BY <2>1 DEF async_write_header_finished, async_write_body_finished, WriteFails
  <2>5. \/ writes' = <<>> /\ pc' = [pc EXCEPT !["asio"] = "test_more"]
        \/ Len(writes') <= 1 /\ pc' = pc
    <3>1. CASE async_write("body", Remove(writes, i)) /\ pc' = pc
      BY <2>2, <3>1, WriteOnly, ZenonT(30)
    <3>2. CASE PopWritten(i)
      BY <2>2, <3>2 DEF PopWritten
    <3>3. CASE PopEmpty
      BY <3>3 DEF PopEmpty, WriteTurn
    <3>4. CASE WriteFails(i)
      BY <2>2, <3>4 DEF WriteFails
    <3>5. QED
      BY <2>1, <3>1, <3>2, <3>3, <3>4 DEF async_write_header_finished, async_write_body_finished
  <2>6. CASE writes' = <<>> /\ pc' = [pc EXCEPT !["asio"] = "test_more"]
    BY <2>3, <2>4, <2>6 DEF WriteTurn, StartSteps, FinishSteps
  <2>7. CASE Len(writes') <= 1 /\ pc' = pc
    BY <2>3, <2>4, <2>7 DEF WriteTurn, FinishSteps
  <2>8. QED
    BY <2>5, <2>6, <2>7
<1>9. CASE TestMore
  <2>1. writes = <<>> /\ m_is_writing_message /\ pc["user"] # "write_header"
    BY <1>9 DEF TestMore, WriteTurn, FinishSteps
  <2>2. Len(writes') <= 1 /\ (pc'["asio"] \in FinishSteps => writes' = <<>>)
    <3>1. CASE async_write("header", writes) /\ GoTo("asio", "idle")
      <4>1. Len(writes') <= 1
        BY <2>1, <3>1, WriteOnly, ZenonT(30)
      <4>2. QED
        BY <3>1, <4>1 DEF FinishSteps
    <3>2. CASE writes' = writes
      BY <2>1, <3>2
    <3>3. QED
      BY <1>9, <3>1, <3>2 DEF TestMore
  <2>3. QED
    <3>1. pc'["asio"] \in {"idle", "clear_writing"} /\ pc'["user"] = pc["user"]
      BY <1>9 DEF TestMore
    <3>2. m_is_writing_message' = m_is_writing_message
      BY <1>9 DEF TestMore
    <3>3. /\ pc'["user"] \in {"test_handshake", "set_writing"} => ~m_is_writing_message
          /\ pc'["user"] # "write_header"
      BY <2>1, <3>1 DEF WriteTurn, StartSteps
    <3>4. QED
      BY <2>1, <2>2, <3>2, <3>3, ZenonT(30) DEF WriteTurn
<1>10. CASE ClearWriting
  BY <1>10 DEF ClearWriting, WriteTurn, StartSteps, FinishSteps
<1>11. QED
  BY <1>1, <1>2, <1>3, <1>4, <1>5, <1>6, <1>7, <1>8, <1>9, <1>10, ZenonT(30)
     DEF Next, Sending, ReadHandlers, vars, StartThrows, Destroy, HandlerOnDestroyed,
         async_read_header_finished, async_read_body_finished, ReadFails,
         add_accepted_message, PeerSends
-------------------------------------------------------------------------------
(***************************************************************************)
(* What a step does to the queue, the outstanding write and the stream.    *)
(***************************************************************************)
Quiet ==
    /\ UNCHANGED <<m_out_queue, writes, outbound, sent>>
    /\ MayStart' => MayStart

Sends ==
    /\ sent' = sent + 1
    /\ \E h \in Outgoing : m_out_queue' = Append(m_out_queue, [num |-> sent + 1, head |-> h])
    /\ UNCHANGED <<writes, outbound>>
    /\ MayStart' => MayStart

StartsHeader ==
    /\ MayStart /\ ~MayStart'
    /\ m_out_queue # <<>> /\ writes'[1].part = "header" /\ writes'[1].msg = Head(m_out_queue)
    /\ UNCHANGED <<m_out_queue, outbound, sent>>

StartsBody ==
    /\ ~MayStart'
    /\ writes # <<>> /\ writes[1].part = "header"
    /\ outbound' = Append(outbound, [part |-> "header", msg |-> writes[1].msg])
    /\ Head(m_out_queue).head.size > 0
    /\ writes'[1].part = "body" /\ writes'[1].msg = Head(m_out_queue)
    /\ UNCHANGED <<m_out_queue, sent>>

Pops ==
    /\ writes # <<>> /\ writes' = <<>>
    /\ writes[1].part = LastPart(writes[1].msg)
    /\ outbound' = Append(outbound, [part |-> writes[1].part, msg |-> writes[1].msg])
    /\ m_out_queue' = Tail(m_out_queue)
    /\ sent' = sent

Breaks ==
    /\ ~MayStart'
    /\ writes' = <<>>
    /\ UNCHANGED <<m_out_queue, outbound, sent>>

\* Every step of the specification has one of these six effects: the handlers and
\* the calls of both threads do nothing else to what is being written.
LEMMA Effects ==
    ASSUME TypeOK, OnlySender, WriteTurn, WritesFront, [Next]_vars
    PROVE  Quiet \/ Sends \/ StartsHeader \/ StartsBody \/ Pops \/ Breaks
<1>0. /\ pc \in [Threads -> {"idle"} \cup StartSteps \cup FinishSteps]
      /\ pc["user"] \notin FinishSteps
      /\ writes \in Seq(WriteOp) /\ m_is_writing_message \in BOOLEAN
  BY DEF TypeOK
<1> USE <1>0 DEF lifeVars, writeVars, readVars, peerVars, GoTo, Threads
<1>1. CASE UNCHANGED <<m_out_queue, writes, outbound, sent, pc, m_is_writing_message>>
  BY <1>1 DEF Quiet, MayStart
<1>2. CASE async_handshake_finished
  BY <1>2 DEF async_handshake_finished, Quiet, MayStart, FinishSteps, Idle
<1>3. ASSUME send_message PROVE Sends
  <2>1. MayStart' => MayStart
    BY <1>3 DEF send_message, MayStart, FinishSteps, Idle
  <2>2. QED
    BY <1>3, <2>1 DEF send_message, Sends
<1>4. ASSUME NEW t \in Threads, start_writing_message(t) PROVE Quiet
  BY <1>4 DEF start_writing_message, StartCondition, Quiet, MayStart, FinishSteps
<1>5. ASSUME NEW t \in Threads, SetWriting(t) PROVE Quiet
  <2>1. t = "user"
    BY <1>5 DEF SetWriting, OnlySender, StartSteps
  <2>2. MayStart
    BY <1>5, <2>1 DEF SetWriting, WriteTurn, MayStart
  <2>3. QED
    BY <1>5, <2>2 DEF SetWriting, Quiet
<1>6. ASSUME NEW t \in Threads, WriteHeader(t) PROVE Quiet \/ StartsHeader
  <2>1. t = "user" /\ writes = <<>> /\ pc["asio"] \notin FinishSteps /\ m_is_writing_message
    BY <1>6 DEF WriteHeader, OnlySender, WriteTurn, StartSteps
  <2>2. MayStart
    BY <1>6, <2>1 DEF WriteHeader, MayStart
  <2>3. ~MayStart'
    BY <1>6, <2>1 DEF WriteHeader, MayStart, FinishSteps
  <2>4. CASE m_out_queue # <<>> /\ async_write("header", writes)
    <3>1. writes'[1].part = "header" /\ writes'[1].msg = Head(m_out_queue)
      BY <2>1, <2>4, WriteOnly, ZenonT(30)
    <3>2. QED
      BY <1>6, <2>2, <2>3, <2>4, <3>1 DEF WriteHeader, StartsHeader
  <2>5. CASE writes' = writes
    BY <1>6, <2>2, <2>5 DEF WriteHeader, Quiet
  <2>6. QED
    BY <1>6, <2>4, <2>5 DEF WriteHeader
<1>7. ASSUME WriteHandlers PROVE StartsBody \/ Pops \/ Breaks
  <2>1. PICK i \in 1 .. Len(writes) : \/ async_write_header_finished(i)
                                      \/ async_write_body_finished(i)
                                      \/ WriteFails(i)
    BY <1>7 DEF WriteHandlers
  <2>2. i = 1 /\ Remove(writes, i) = <<>> /\ writes # <<>>
    BY RemoveOnly DEF WriteTurn
  <2>3. m_out_queue # <<>> /\ writes[1].msg = Head(m_out_queue)
    BY <2>2 DEF WritesFront
  <2>4. ~MayStart
    <3>1. pc["asio"] = "idle"
      BY <2>1 DEF async_write_header_finished, async_write_body_finished, WriteCompletes,
                  WriteFails, Idle
    <3>2. QED
      BY <2>2, <3>1 DEF WriteTurn, MayStart, FinishSteps
  <2>5. ASSUME UNCHANGED <<pc, m_is_writing_message>> PROVE ~MayStart'
    BY <2>4, <2>5 DEF MayStart
  <2>6. ~PopEmpty
    BY <2>3 DEF PopEmpty
  <2>7. CASE WriteFails(i)
    BY <2>2, <2>5, <2>7 DEF WriteFails, Breaks
  <2>8. CASE async_write_header_finished(i)
    <3>1. writes[1].part = "header"
           /\ outbound' = Append(outbound, [part |-> "header", msg |-> writes[1].msg])
      BY <2>2, <2>8 DEF async_write_header_finished, WriteCompletes
    <3>2. CASE Head(m_out_queue).head.size > 0 /\ async_write("body", Remove(writes, i))
                 /\ UNCHANGED <<m_out_queue, pc, fault>>
      <4>1. writes'[1].part = "body" /\ writes'[1].msg = Head(m_out_queue)
        BY <2>2, <3>2, WriteOnly, ZenonT(30)
      <4>2. ~MayStart'
        BY <2>5, <2>8, <3>2 DEF async_write_header_finished
      <4>3. QED
        BY <2>2, <2>8, <3>1, <3>2, <4>1, <4>2 DEF async_write_header_finished, StartsBody
    <3>3. CASE Head(m_out_queue).head.size = 0 /\ PopWritten(i)
      BY <2>2, <2>3, <2>8, <3>1, <3>3 DEF async_write_header_finished, PopWritten, Pops, LastPart
    <3>4. QED
      BY <2>6, <2>8, <3>2, <3>3 DEF async_write_header_finished
  <2>9. CASE async_write_body_finished(i)
    <3>1. writes[1].part = "body"
           /\ outbound' = Append(outbound, [part |-> "body", msg |-> writes[1].msg])
      BY <2>2, <2>9 DEF async_write_body_finished, WriteCompletes
    <3>2. LastPart(writes[1].msg) = "body"
      BY <2>2, <3>1 DEF WritesFront, LastPart
    <3>3. PopWritten(i)
      BY <2>6, <2>9 DEF async_write_body_finished
    <3>4. QED
      BY <2>2, <2>9, <3>1, <3>2, <3>3 DEF async_write_body_finished, PopWritten, Pops
  <2>10. QED
    BY <2>1, <2>7, <2>8, <2>9
<1>8. ASSUME TestMore PROVE Quiet \/ StartsHeader
  <2>1. writes = <<>> /\ m_is_writing_message /\ pc["user"] # "write_header" /\ MayStart
    BY <1>8 DEF TestMore, WriteTurn, FinishSteps, MayStart
  <2>2. CASE m_out_queue # <<>> /\ async_write("header", writes) /\ GoTo("asio", "idle")
    <3>1. writes'[1].part = "header" /\ writes'[1].msg = Head(m_out_queue)
      BY <2>1, <2>2, WriteOnly, ZenonT(30)
    <3>2. ~MayStart'
      BY <1>8, <2>1, <2>2 DEF TestMore, MayStart, FinishSteps
    <3>3. QED
      BY <1>8, <2>1, <2>2, <3>1, <3>2 DEF TestMore, StartsHeader
  <2>3. CASE writes' = writes
    BY <1>8, <2>1, <2>3 DEF TestMore, Quiet
  <2>4. QED
    BY <1>8, <2>2, <2>3 DEF TestMore
<1>9. ASSUME ClearWriting PROVE Quiet
  <2>1. MayStart
    BY <1>9 DEF ClearWriting, MayStart, FinishSteps
  <2>2. QED
    BY <1>9, <2>1 DEF ClearWriting, Quiet
<1>10. QED
  BY <1>1, <1>2, <1>3, <1>4, <1>5, <1>6, <1>7, <1>8, <1>9, ZenonT(30)
     DEF Next, Sending, ReadHandlers, vars, start, async_handshake, StartThrows, Destroy, HandlerOnDestroyed,
         async_read_header_finished, async_read_body_finished, ReadFails,
         add_accepted_message, PeerSends
-------------------------------------------------------------------------------
\* A message is appended to the queue: the positions before stay as they are.
LEMMA QueueAppend ==
    ASSUME NEW S, NEW q \in Seq(S), NEW x
    PROVE  /\ Len(q) \in Nat /\ Len(Append(q, x)) = Len(q) + 1
           /\ Append(q, x) # <<>>
           /\ \A i \in 1 .. Len(q) : Append(q, x)[i] = q[i]
           /\ Append(q, x)[Len(q) + 1] = x
OBVIOUS

\* The front of the queue is popped: the others move up.
LEMMA QueueTail ==
    ASSUME NEW S, NEW q \in Seq(S), q # <<>>
    PROVE  /\ Len(q) \in Nat \ {0} /\ Len(Tail(q)) = Len(q) - 1
           /\ \A i \in 1 .. Len(q) - 1 : Tail(q)[i] = q[i + 1]
           /\ Head(q) = q[1] /\ q[1] \in S
BY SeqTail

\* The queue and the outstanding write stay in step.
LEMMA WritesFrontStep ==
    ASSUME TypeOK, WritesFront, Quiet \/ Sends \/ StartsHeader \/ StartsBody \/ Pops \/ Breaks
    PROVE  WritesFront'
<1>0. m_out_queue \in Seq(Message) /\ sent \in Nat
  BY DEF TypeOK
<1>1. CASE Quiet
  BY <1>1 DEF Quiet, WritesFront
<1>2. CASE Sends
  <2>1. PICK h \in Outgoing : m_out_queue' = Append(m_out_queue, [num |-> sent + 1, head |-> h])
    BY <1>2 DEF Sends
  <2>2. /\ Len(m_out_queue) \in Nat /\ Len(m_out_queue') = Len(m_out_queue) + 1
        /\ m_out_queue' # <<>>
        /\ \A i \in 1 .. Len(m_out_queue) : m_out_queue'[i] = m_out_queue[i]
        /\ m_out_queue'[Len(m_out_queue) + 1].num = sent + 1
    BY <1>0, <2>1, QueueAppend
  <2>3. \A i \in 1 .. Len(m_out_queue') : m_out_queue'[i].num = sent' - Len(m_out_queue') + i
    <3> SUFFICES ASSUME NEW i \in 1 .. Len(m_out_queue')
                 PROVE  m_out_queue'[i].num = sent' - Len(m_out_queue') + i
      OBVIOUS
    <3>1. sent' = sent + 1
      BY <1>2 DEF Sends
    <3>2. CASE i \in 1 .. Len(m_out_queue)
      <4>1. m_out_queue'[i].num = sent - Len(m_out_queue) + i
        BY <2>2, <3>2 DEF WritesFront
      <4>2. QED
        BY <1>0, <2>2, <3>1, <3>2, <4>1
    <3>3. CASE i = Len(m_out_queue) + 1
      BY <1>0, <2>2, <3>1, <3>3
    <3>4. QED
      BY <2>2, <3>2, <3>3
  <2>4. m_out_queue # <<>> => m_out_queue'[1] = m_out_queue[1]
    BY <1>0, <2>2
  <2>5. QED
    BY <1>2, <2>2, <2>3, <2>4 DEF Sends, WritesFront
<1>3. CASE StartsHeader
  <2>1. m_out_queue # <<>> /\ writes'[1].part = "header" /\ writes'[1].msg = m_out_queue[1]
    BY <1>0, <1>3, QueueTail DEF StartsHeader
  <2>2. QED
    BY <1>3, <2>1 DEF StartsHeader, WritesFront
<1>4. CASE StartsBody
  <2>1. m_out_queue # <<>>
    BY <1>4 DEF StartsBody, WritesFront
  <2>2. writes'[1].msg = m_out_queue[1] /\ m_out_queue[1].head.size > 0
    BY <1>0, <1>4, <2>1, QueueTail DEF StartsBody
  <2>3. QED
    BY <1>4, <2>1, <2>2 DEF StartsBody, WritesFront
<1>5. CASE Pops
  <2>1. m_out_queue # <<>> /\ m_out_queue' = Tail(m_out_queue) /\ writes' = <<>> /\ sent' = sent
    BY <1>5 DEF Pops, WritesFront
  <2>2. /\ Len(m_out_queue) \in Nat /\ Len(m_out_queue') = Len(m_out_queue) - 1
        /\ \A i \in 1 .. Len(m_out_queue) - 1 : m_out_queue'[i] = m_out_queue[i + 1]
    BY <1>0, <2>1, QueueTail
  <2>3. \A i \in 1 .. Len(m_out_queue') : m_out_queue'[i].num = sent' - Len(m_out_queue') + i
    <3> SUFFICES ASSUME NEW i \in 1 .. Len(m_out_queue) - 1
                 PROVE  m_out_queue[i + 1].num = sent - (Len(m_out_queue) - 1) + i
      BY <2>1, <2>2
    <3>1. i + 1 \in 1 .. Len(m_out_queue)
      BY <2>2
    <3>2. m_out_queue[i + 1].num = sent - Len(m_out_queue) + (i + 1)
      BY <3>1 DEF WritesFront
    <3>3. QED
      BY <1>0, <2>2, <3>2
  <2>4. QED
    BY <2>1, <2>3 DEF WritesFront
<1>6. CASE Breaks
  BY <1>6 DEF Breaks, WritesFront
<1>7. QED
  BY <1>1, <1>2, <1>3, <1>4, <1>5, <1>6

\* Whatever is written next continues the stream where it ends.
LEMMA WriteContinuesStep ==
    ASSUME TypeOK, WritesFront, WriteContinues,
           Quiet \/ Sends \/ StartsHeader \/ StartsBody \/ Pops \/ Breaks
    PROVE  WriteContinues'
<1>0. /\ m_out_queue \in Seq(Message) /\ sent \in Nat /\ outbound \in Seq(Chunk)
      /\ writes \in Seq(WriteOp)
  BY DEF TypeOK
<1>1. CASE Quiet
  <2>1. AtBoundary' = AtBoundary
    BY <1>1 DEF Quiet, AtBoundary
  <2>2. QED
    BY <1>1, <2>1 DEF Quiet, WriteContinues
<1>2. CASE Sends
  <2>1. PICK h \in Outgoing : m_out_queue' = Append(m_out_queue, [num |-> sent + 1, head |-> h])
    BY <1>2 DEF Sends
  <2>2. /\ Len(m_out_queue) \in Nat /\ Len(m_out_queue') = Len(m_out_queue) + 1
        /\ \A i \in 1 .. Len(m_out_queue) : m_out_queue'[i] = m_out_queue[i]
    BY <1>0, <2>1, QueueAppend
  <2>3. writes # <<>> => m_out_queue'[1] = m_out_queue[1]
    BY <1>0, <2>2 DEF WritesFront
  <2>4. sent' = sent + 1 /\ outbound' = outbound /\ writes' = writes /\ (MayStart' => MayStart)
    BY <1>2 DEF Sends
  <2>5. sent' - Len(m_out_queue') = sent - Len(m_out_queue)
         /\ (Len(m_out_queue) = sent => Len(m_out_queue') = sent')
    BY <1>0, <2>2, <2>4
  <2>6. AtBoundary => AtBoundary'
    BY <2>4, <2>5 DEF AtBoundary
  <2>7. QED
    BY <2>3, <2>4, <2>6 DEF WriteContinues
<1>3. CASE StartsHeader
  <2>1. AtBoundary /\ AtBoundary' = AtBoundary
    BY <1>3 DEF StartsHeader, WriteContinues, AtBoundary
  <2>2. QED
    BY <1>3, <2>1 DEF StartsHeader, WriteContinues
<1>4. CASE StartsBody
  <2>1. m_out_queue # <<>> /\ writes[1].msg = m_out_queue[1] /\ m_out_queue' = m_out_queue
    BY <1>4 DEF StartsBody, WritesFront
  <2>2. outbound' = Append(outbound, [part |-> "header", msg |-> m_out_queue[1]])
    BY <1>4, <2>1 DEF StartsBody
  <2>3. outbound' # <<>> /\ outbound'[Len(outbound')] = [part |-> "header", msg |-> m_out_queue[1]]
    BY <1>0, <2>2, QueueAppend
  <2>4. ~MayStart' /\ writes'[1].part = "body"
    BY <1>4 DEF StartsBody
  <2>5. QED
    BY <2>1, <2>3, <2>4 DEF WriteContinues
<1>5. CASE Pops
  <2>1. /\ m_out_queue # <<>> /\ writes[1].msg = m_out_queue[1]
        /\ m_out_queue' = Tail(m_out_queue) /\ writes' = <<>> /\ sent' = sent
    BY <1>5 DEF Pops, WritesFront
  <2>2. Len(m_out_queue) \in Nat \ {0} /\ Len(m_out_queue') = Len(m_out_queue) - 1
    BY <1>0, <2>1, QueueTail
  <2>3. m_out_queue[1].num = sent - Len(m_out_queue) + 1
    BY <2>2 DEF WritesFront
  <2>4. m_out_queue[1].num = sent' - Len(m_out_queue')
    BY <1>0, <2>1, <2>2, <2>3
  <2>5. PICK c : /\ outbound' = Append(outbound, c)
                 /\ c.msg = m_out_queue[1] /\ c.part = LastPart(c.msg)
    BY <1>5, <2>1 DEF Pops
  <2>6. outbound' # <<>> /\ outbound'[Len(outbound')] = c
    <3>1. /\ outbound' # <<>> /\ Len(outbound') = Len(outbound) + 1
          /\ outbound'[Len(outbound) + 1] = c
      BY <1>0, <2>5, QueueAppend, ZenonT(30)
    <3>2. QED
      BY <3>1, ZenonT(30)
  <2>7. AtBoundary'
    BY <2>4, <2>5, <2>6 DEF AtBoundary, LastPart
  <2>8. QED
    BY <2>1, <2>7 DEF WriteContinues
<1>6. CASE Breaks
  BY <1>6 DEF Breaks, WriteContinues
<1>7. QED
  BY <1>1, <1>2, <1>3, <1>4, <1>5, <1>6

\* A chunk that follows the last one keeps the stream in order.
LEMMA FifoAppend ==
    ASSUME NEW c, outbound \in Seq(Chunk), OutboundFifo, outbound' = Append(outbound, c),
           IF outbound = <<>> THEN c.part = "header" /\ c.msg.num = 1
                              ELSE Follows(outbound[Len(outbound)], c)
    PROVE  OutboundFifo'
<1>1. /\ Len(outbound) \in Nat /\ Len(outbound') = Len(outbound) + 1
      /\ \A i \in 1 .. Len(outbound) : outbound'[i] = outbound[i]
      /\ outbound'[Len(outbound) + 1] = c
  BY QueueAppend
<1>2. outbound'[1].part = "header" /\ outbound'[1].msg.num = 1
  <2>1. CASE outbound = <<>>
    BY <1>1, <2>1
  <2>2. CASE outbound # <<>>
    <3>1. 1 \in 1 .. Len(outbound)
      BY <2>2
    <3>2. QED
      BY <1>1, <2>2, <3>1 DEF OutboundFifo
  <2>3. QED
    BY <2>1, <2>2
<1>3. \A i \in 1 .. Len(outbound') - 1 : Follows(outbound'[i], outbound'[i + 1])
  <2> SUFFICES ASSUME NEW i \in 1 .. Len(outbound)
               PROVE  Follows(outbound'[i], outbound'[i + 1])
    BY <1>1
  <2>1. outbound # <<>>
    OBVIOUS
  <2>2. CASE i = Len(outbound)
    BY <1>1, <2>1, <2>2, ZenonT(30)
  <2>3. CASE i # Len(outbound)
    <3>1. i \in 1 .. Len(outbound) - 1 /\ i + 1 \in 1 .. Len(outbound)
      BY <1>1, <2>3
    <3>2. Follows(outbound[i], outbound[i + 1])
      BY <3>1 DEF OutboundFifo
    <3>3. outbound'[i] = outbound[i] /\ outbound'[i + 1] = outbound[i + 1]
      BY <1>1, <3>1
    <3>4. QED
      BY <3>2, <3>3, ZenonT(30)
  <2>4. QED
    BY <2>2, <2>3
<1>4. QED
  BY <1>2, <1>3 DEF OutboundFifo, Follows, LastPart

\* The stream stays in the order of the calls of send_message.
LEMMA OutboundFifoStep ==
    ASSUME TypeOK, WritesFront, WriteContinues, OutboundFifo,
           Quiet \/ Sends \/ StartsHeader \/ StartsBody \/ Pops \/ Breaks
    PROVE  OutboundFifo'
<1>0. /\ m_out_queue \in Seq(Message) /\ sent \in Nat /\ outbound \in Seq(Chunk)
      /\ writes \in Seq(WriteOp)
  BY DEF TypeOK
<1>1. CASE outbound' = outbound
  BY <1>1 DEF OutboundFifo
<1>2. CASE StartsBody \/ Pops
  <2> DEFINE c == [part |-> writes[1].part, msg |-> writes[1].msg]
  <2>1. /\ writes # <<>> /\ m_out_queue # <<>> /\ writes[1].msg = m_out_queue[1]
        /\ outbound' = Append(outbound, c)
    BY <1>2 DEF StartsBody, Pops, WritesFront
  <2>2. Len(m_out_queue) \in Nat \ {0} /\ m_out_queue[1] \in Message
    BY <1>0, <2>1, QueueTail
  <2>3. m_out_queue[1].num = sent - Len(m_out_queue) + 1
    BY <2>2 DEF WritesFront
  <2>4. CASE writes[1].part = "header"
    <3>1. AtBoundary
      BY <2>1, <2>4 DEF WriteContinues
    <3>2. CASE outbound = <<>>
      <4>1. c.part = "header" /\ c.msg.num = 1
        BY <1>0, <2>1, <2>2, <2>3, <2>4, <3>1, <3>2 DEF AtBoundary
      <4>2. QED
        BY <1>0, <2>1, <3>2, <4>1, FifoAppend
    <3>3. CASE outbound # <<>>
      <4> DEFINE d == outbound[Len(outbound)]
      <4>1. d.part = LastPart(d.msg) /\ d.msg.num = sent - Len(m_out_queue)
        BY <3>1, <3>3 DEF AtBoundary
      <4>2. c.part = "header" /\ c.msg.num = d.msg.num + 1
        BY <1>0, <2>1, <2>2, <2>3, <2>4, <4>1
      <4>3. Follows(d, c)
        BY <4>1, <4>2 DEF Follows
      <4>4. QED
        BY <1>0, <2>1, <3>3, <4>3, FifoAppend
    <3>4. QED
      BY <3>2, <3>3
  <2>5. CASE writes[1].part = "body"
    <3>1. /\ outbound # <<>>
          /\ outbound[Len(outbound)] = [part |-> "header", msg |-> m_out_queue[1]]
      BY <2>1, <2>5 DEF WriteContinues
    <3>2. LastPart(m_out_queue[1]) = "body"
      BY <2>1, <2>5 DEF WritesFront, LastPart
    <3>3. Follows(outbound[Len(outbound)], c)
      BY <2>1, <2>5, <3>1, <3>2 DEF Follows
    <3>4. QED
      BY <1>0, <2>1, <3>1, <3>3, FifoAppend
  <2>6. QED
    <3>1. writes[1] \in WriteOp
      BY <1>0, <2>1
    <3>2. QED
      BY <2>4, <2>5, <3>1 DEF WriteOp
<1>3. QED
  BY <1>1, <1>2 DEF Quiet, Sends, StartsHeader, Breaks

\* pop_front takes the message whose last chunk has just got into the stream.
LEMMA NothingDroppedStep ==
    ASSUME TypeOK, WritesFront, NothingDropped,
           Quiet \/ Sends \/ StartsHeader \/ StartsBody \/ Pops \/ Breaks
    PROVE  NothingDropped'
<1>0. /\ m_out_queue \in Seq(Message) /\ sent \in Nat /\ outbound \in Seq(Chunk)
      /\ writes \in Seq(WriteOp)
  BY DEF TypeOK
<1>1. ASSUME NEW c, outbound' = Append(outbound, c), NEW n, IsWritten(n)
      PROVE  IsWritten(n)'
  <2>1. PICK i \in 1 .. Len(outbound) :
            outbound[i].msg.num = n /\ outbound[i].part = LastPart(outbound[i].msg)
    BY <1>1 DEF IsWritten
  <2>2. Len(outbound) \in Nat /\ Len(outbound') = Len(outbound) + 1 /\ outbound'[i] = outbound[i]
    BY <1>0, <1>1, QueueAppend
  <2>3. i \in 1 .. Len(outbound')
    BY <2>2
  <2>4. QED
    BY <2>1, <2>2, <2>3 DEF IsWritten, LastPart
<1>2. CASE UNCHANGED <<m_out_queue, outbound, sent>>
  BY <1>2 DEF NothingDropped, IsWritten, LastPart
<1>3. CASE Sends
  <2>1. PICK h \in Outgoing : m_out_queue' = Append(m_out_queue, [num |-> sent + 1, head |-> h])
    BY <1>3 DEF Sends
  <2>2. /\ Len(m_out_queue) \in Nat /\ Len(m_out_queue') = Len(m_out_queue) + 1
        /\ \A i \in 1 .. Len(m_out_queue) : m_out_queue'[i] = m_out_queue[i]
        /\ m_out_queue'[Len(m_out_queue) + 1].num = sent + 1
    BY <1>0, <2>1, QueueAppend
  <2>3. sent' = sent + 1 /\ outbound' = outbound
    BY <1>3 DEF Sends
  <2>4. ASSUME NEW n \in 1 .. sent + 1
        PROVE  IsWritten(n)' \/ \E i \in 1 .. Len(m_out_queue') : m_out_queue'[i].num = n
    <3>1. CASE n = sent + 1
      <4>1. Len(m_out_queue) + 1 \in 1 .. Len(m_out_queue')
        BY <2>2
      <4>2. QED
        BY <2>2, <3>1, <4>1
    <3>2. CASE n \in 1 .. sent
      <4>1. CASE IsWritten(n)
        BY <2>3, <4>1 DEF IsWritten, LastPart
      <4>2. CASE \E i \in 1 .. Len(m_out_queue) : m_out_queue[i].num = n
        <5>1. PICK i \in 1 .. Len(m_out_queue) : m_out_queue[i].num = n
          BY <4>2
        <5>2. i \in 1 .. Len(m_out_queue') /\ m_out_queue'[i].num = n
          BY <2>2, <5>1
        <5>3. QED
          BY <5>2
      <4>3. QED
        BY <3>2, <4>1, <4>2 DEF NothingDropped
    <3>3. QED
      BY <1>0, <3>1, <3>2
  <2>5. QED
    BY <2>3, <2>4 DEF NothingDropped
<1>4. CASE StartsBody
  <2>1. PICK c : outbound' = Append(outbound, c)
    BY <1>4, ZenonT(30), SMTT(30) DEF StartsBody
  <2>2. sent' = sent /\ m_out_queue' = m_out_queue
    BY <1>4 DEF StartsBody
  <2>3. QED
    BY <1>1, <2>1, <2>2 DEF NothingDropped
<1>5. CASE Pops
  <2>1. /\ m_out_queue # <<>> /\ writes[1].msg = m_out_queue[1]
        /\ m_out_queue' = Tail(m_out_queue) /\ sent' = sent
    BY <1>5 DEF Pops, WritesFront
  <2>2. PICK c : /\ outbound' = Append(outbound, c)
                 /\ c.msg = m_out_queue[1] /\ c.part = LastPart(c.msg)
    BY <1>5, <2>1 DEF Pops
  <2>3. /\ Len(m_out_queue) \in Nat \ {0} /\ Len(m_out_queue') = Len(m_out_queue) - 1
        /\ \A i \in 1 .. Len(m_out_queue) - 1 : m_out_queue'[i] = m_out_queue[i + 1]
    BY <1>0, <2>1, QueueTail
  <2>4. ASSUME NEW n, n = m_out_queue[1].num PROVE IsWritten(n)'
    <3>1. /\ Len(outbound) \in Nat /\ Len(outbound') = Len(outbound) + 1
          /\ outbound'[Len(outbound) + 1] = c
      BY <1>0, <2>2, QueueAppend, ZenonT(30)
    <3>2. Len(outbound) + 1 \in 1 .. Len(outbound')
      BY <3>1
    <3>3. \E i \in 1 .. Len(outbound') : /\ outbound'[i].msg.num = n
                                         /\ outbound'[i].part = LastPart(outbound'[i].msg)
      BY <2>2, <2>4, <3>1, <3>2, ZenonT(30)
    <3>4. QED
      BY <3>3 DEF IsWritten, LastPart
  <2>5. ASSUME NEW n \in 1 .. sent
        PROVE  IsWritten(n)' \/ \E i \in 1 .. Len(m_out_queue') : m_out_queue'[i].num = n
    <3>1. CASE IsWritten(n)
      BY <1>1, <2>2, <3>1
    <3>2. CASE \E i \in 1 .. Len(m_out_queue) : m_out_queue[i].num = n
      <4>1. PICK i \in 1 .. Len(m_out_queue) : m_out_queue[i].num = n
        BY <3>2
      <4>2. CASE i = 1
        BY <2>4, <4>1, <4>2
      <4>3. CASE i # 1
        <5>1. i - 1 \in 1 .. Len(m_out_queue') /\ (i - 1) + 1 = i
          BY <2>3, <4>3
        <5>2. m_out_queue'[i - 1].num = n
          BY <2>3, <4>1, <5>1
        <5>3. QED
          BY <5>1, <5>2
      <4>4. QED
        BY <4>2, <4>3
    <3>3. QED
      BY <3>1, <3>2 DEF NothingDropped
  <2>6. QED
    BY <2>1, <2>5 DEF NothingDropped
<1>6. QED
  BY <1>2, <1>3, <1>4, <1>5 DEF Quiet, StartsHeader, Breaks
-------------------------------------------------------------------------------
(***************************************************************************)
(* The theorems.                                                           *)
(***************************************************************************)
WriteInv ==
    OnlySender /\ WriteTurn /\ WritesFront /\ WriteContinues /\ OutboundFifo /\ NothingDropped

LEMMA WriteInit == Init => WriteInv
<1> SUFFICES ASSUME Init PROVE WriteInv
  OBVIOUS
<1>1. m_out_queue = <<>> /\ writes = <<>> /\ outbound = <<>> /\ sent = 0
  BY DEF Init
<1>2. pc["asio"] = "idle" /\ pc["user"] = "idle" /\ handshake = FALSE
  BY DEF Init, Threads
<1>3. OnlySender /\ WriteTurn
  BY <1>1, <1>2 DEF OnlySender, WriteTurn, Threads, StartSteps, FinishSteps
<1>4. WritesFront /\ OutboundFifo
  BY <1>1 DEF WritesFront, OutboundFifo
<1>5. AtBoundary
  BY <1>1 DEF AtBoundary
<1>6. WriteContinues
  BY <1>1, <1>5 DEF WriteContinues
<1>7. NothingDropped
  BY <1>1 DEF NothingDropped
<1>8. QED
  BY <1>3, <1>4, <1>6, <1>7 DEF WriteInv

\* The inductive invariant: each of the six parts is kept by the six effects.
LEMMA WriteStep ==
    ASSUME Disciplined, TypeOK, HandshakeOnce, WriteInv, [Next]_vars
    PROVE  WriteInv'
<1>1. OnlySender /\ WriteTurn /\ WritesFront /\ WriteContinues /\ OutboundFifo /\ NothingDropped
  BY DEF WriteInv
<1>2. Quiet \/ Sends \/ StartsHeader \/ StartsBody \/ Pops \/ Breaks
  BY <1>1, Effects
<1>3. OnlySender' /\ WriteTurn'
  BY <1>1, OnlySenderStep, WriteTurnStep
<1>4. WritesFront'
  BY <1>1, <1>2, WritesFrontStep
<1>5. WriteContinues'
  BY <1>1, <1>2, WriteContinuesStep
<1>6. OutboundFifo' /\ NothingDropped'
  BY <1>1, <1>2, OutboundFifoStep, NothingDroppedStep
<1>7. QED
  BY <1>3, <1>4, <1>5, <1>6 DEF WriteInv

LEMMA WriteInvariant ==
    ASSUME Disciplined
    PROVE  Spec => []WriteInv
<1>1. TypeOK /\ HandshakeOnce /\ WriteInv /\ [Next]_vars => WriteInv'
  BY WriteStep
<1>2. QED
  BY <1>1, WriteInit, TypeCorrect, HandshakeOnceHolds, PTL DEF Spec

\* The write handlers and start_writing_message keep at most one async_write
\* outstanding, the stream is the messages in the order of the calls of
\* send_message, each header before its body, and pop_front removes no message
\* that is not completely in the stream: for any number of messages of any sizes, sent
\* by the user's thread beside the handlers of the Asio thread, on a plain socket, and on
\* an Ssl_socket when nothing is sent before server_accept is received.
THEOREM WritingCorrect ==
    ASSUME Disciplined
    PROVE  Spec => [](OneWriteAtATime /\ OutboundFifo /\ NothingDropped)
<1>1. WriteInv => OneWriteAtATime /\ OutboundFifo /\ NothingDropped
  BY DEF WriteInv, WriteTurn, OneWriteAtATime
<1>2. QED
  BY <1>1, WriteInvariant, PTL

\* Only start_writing_message on the user's thread can find m_out_queue empty at its
\* front(): a write handler, which tests nothing before front() and pop_front(), always
\* finds the message whose write has completed there, and TestMore the one it has seen.
THEOREM HandlersHaveFront ==
    ASSUME Disciplined
    PROVE  Spec => HandlersFindFront
<1>1. TypeOK /\ WriteInv /\ [Next]_vars =>
        [fault' = "empty_front" /\ fault # "empty_front" => WriteHeader("user")]_vars
  <2> SUFFICES ASSUME TypeOK, WriteInv, Next, fault' = "empty_front", fault # "empty_front"
               PROVE  WriteHeader("user")
    OBVIOUS
  <2>0. writes \in Seq(WriteOp) /\ OnlySender /\ WritesFront
    BY DEF TypeOK, WriteInv
  <2> USE DEF lifeVars, writeVars, readVars, peerVars, Faults
  <2>1. ~disconnect
    BY DEF disconnect
  <2>2. ASSUME NEW t \in Threads, WriteHeader(t) PROVE WriteHeader("user")
    <3>1. t # "asio"
      BY <2>0, <2>2 DEF WriteHeader, OnlySender, StartSteps
    <3>2. QED
      BY <2>2, <3>1 DEF Threads
  <2>3. ~WriteHandlers
    <3> SUFFICES ASSUME NEW i \in 1 .. Len(writes),
                        \/ async_write_header_finished(i)
                        \/ async_write_body_finished(i)
                        \/ WriteFails(i)
                 PROVE  FALSE
      BY DEF WriteHandlers
    <3>1. writes # <<>>
      BY <2>0, SomeWrite
    <3>2. ~PopEmpty
      BY <2>0, <3>1 DEF PopEmpty, WritesFront
    <3>3. QED
      BY <2>1, <3>2, ZenonT(30)
         DEF async_write_header_finished, async_write_body_finished, WriteFails, PopWritten
  <2>4. ~ReadHandlers
    BY <2>1, ZenonT(30) DEF ReadHandlers, async_read_header_finished, RejectHeader,
                            async_read_body_finished, ReadFails
  <2>5. ~async_handshake_finished /\ ~StartThrows /\ ~HandlerOnDestroyed
    BY <2>1, ZenonT(30), SMTT(30) DEF async_handshake_finished, StartThrows, HandlerOnDestroyed
  <2>6. QED
    BY <2>2, <2>3, <2>4, <2>5, ZenonT(30)
       DEF Next, start, Destroy, send_message, Sending, start_writing_message, StartCondition,
           SetWriting, TestMore, ClearWriting, add_accepted_message, PeerSends
<1>2. QED
  BY <1>1, TypeCorrect, WriteInvariant, PTL DEF Spec, HandlersFindFront
-------------------------------------------------------------------------------
(***************************************************************************)
(* The flag m_is_writing_message, which keeps everybody from writing.      *)
(***************************************************************************)
Live == fault = "none" /\ is_connected

\* m_is_writing_message is not left set: as long as the connection lives, a write is
\* outstanding, or a thread is about to start one or to clear the flag.
FlagIsHeld ==
    Live /\ m_is_writing_message =>
        writes # <<>> \/ pc["user"] = "write_header" \/ pc["asio"] \in FinishSteps

\* Only the end of the connection takes the turn to write away from everybody.
LEMMA FlagStep ==
    ASSUME TypeOK, WriteInv, FlagIsHeld, [Next]_vars
    PROVE  FlagIsHeld'
<1>0. /\ pc \in [Threads -> {"idle"} \cup StartSteps \cup FinishSteps]
      /\ "user" \in Threads /\ OnlySender /\ "asio" \in Threads
  BY DEF TypeOK, WriteInv, Threads
<1> USE <1>0 DEF lifeVars, writeVars, readVars, peerVars, GoTo
<1>1. CASE UNCHANGED <<m_is_writing_message, writes, pc>> /\ (Live' => Live)
  BY <1>1 DEF FlagIsHeld
<1>2. CASE ~Live'
  BY <1>2 DEF FlagIsHeld
<1>3. CASE async_handshake_finished
  <2>1. /\ UNCHANGED <<m_is_writing_message, writes>> /\ pc["asio"] = "idle"
        /\ pc' = pc \/ pc' = [pc EXCEPT !["asio"] = "test_empty"]
        /\ Live' => Live
    BY <1>3 DEF async_handshake_finished, disconnect, Live, is_connected, Idle, Running
  <2>2. QED
    BY <2>1 DEF FlagIsHeld, FinishSteps
<1>4. ASSUME NEW t \in Threads, (t = "user" /\ send_message) \/ start_writing_message(t)
      PROVE  FlagIsHeld'
  <2>1. /\ UNCHANGED <<m_is_writing_message, writes>>
        /\ pc[t] \notin {"write_header"} \cup FinishSteps
        /\ \E step \in {"idle"} \cup StartSteps : pc' = [pc EXCEPT ![t] = step]
        /\ Live' => Live
    BY <1>4, ZenonT(30), SMTT(30)
       DEF send_message, start_writing_message, StartCondition, Live, is_connected, Idle,
           StartSteps, FinishSteps
  <2>2. QED
    BY <2>1, ZenonT(30), SMTT(30) DEF FlagIsHeld
<1>5. ASSUME NEW t \in Threads, SetWriting(t) \/ WriteHeader(t) PROVE FlagIsHeld'
  <2>1. t = "user"
    BY <1>5 DEF SetWriting, WriteHeader, OnlySender, StartSteps, Threads
  <2>2. CASE SetWriting(t)
    BY <2>1, <2>2 DEF SetWriting, FlagIsHeld
  <2>3. CASE WriteHeader(t)
    <3>1. writes' # <<>> \/ ~Live'
      BY <2>3, WriteStarts, ZenonT(30), SMTT(30) DEF WriteHeader, Live, TypeOK
    <3>2. QED
      BY <3>1 DEF FlagIsHeld
  <2>4. QED
    BY <1>5, <2>2, <2>3
<1>6. CASE WriteHandlers
  <2>1. PICK i \in 1 .. Len(writes) : \/ async_write_header_finished(i)
                                      \/ async_write_body_finished(i)
                                      \/ WriteFails(i)
    BY <1>6 DEF WriteHandlers
  <2>2. CASE WriteFails(i) \/ PopEmpty
    BY <1>2, <2>2 DEF WriteFails, PopEmpty, disconnect, Live, is_connected
  <2>3. CASE PopWritten(i)
    BY <2>3 DEF PopWritten, FlagIsHeld, FinishSteps
  <2>4. CASE async_write("body", Remove(writes, i))
    <3>1. Remove(writes, i) \in Seq(WriteOp)
      BY RemoveType DEF TypeOK
    <3>2. writes' # <<>>
      BY <2>4, <3>1, WriteStarts, ZenonT(30), SMTT(30)
    <3>3. QED
      BY <3>2 DEF FlagIsHeld
  <2>5. QED
    BY <2>1, <2>2, <2>3, <2>4, ZenonT(30), SMTT(30) DEF async_write_header_finished, async_write_body_finished
<1>7. CASE TestMore
  <2>1. writes' # <<>> \/ pc' = [pc EXCEPT !["asio"] = "clear_writing"]
    BY <1>7, WriteStarts, ZenonT(30), SMTT(30) DEF TestMore, TypeOK
  <2>2. QED
    BY <2>1 DEF FlagIsHeld, FinishSteps
<1>8. CASE ClearWriting
  BY <1>8, ZenonT(30), SMTT(30) DEF ClearWriting, FlagIsHeld
<1>9. CASE ReadHandlers
  <2>1. UNCHANGED <<m_is_writing_message, writes, pc>> /\ (disconnect \/ UNCHANGED socket)
    BY <1>9, ZenonT(30)
       DEF ReadHandlers, async_read_header_finished, RejectHeader, async_read_body_finished, ReadFails
  <2>2. fault = "none"
    BY <1>9, ZenonT(30)
       DEF ReadHandlers, async_read_header_finished, async_read_body_finished, ReadFails,
           ReadCompletes, Idle, Running
  <2>3. Live' => Live
    BY <2>1, <2>2 DEF disconnect, Live, is_connected
  <2>4. QED
    BY <1>1, <2>1, <2>3
<1>10. CASE \/ start \/ StartThrows \/ Destroy \/ HandlerOnDestroyed
            \/ \E i \in Ids, l \in Limits : add_accepted_message(i, l)
            \/ \E h \in Incoming : PeerSends(h)
            \/ UNCHANGED vars
  BY <1>1, <1>2, <1>10, ZenonT(30), SMTT(30)
     DEF start, StartThrows, Destroy, HandlerOnDestroyed, add_accepted_message,
         PeerSends, vars, Live, is_connected
<1>11. QED
  BY <1>3, <1>4, <1>5, <1>6, <1>7, <1>8, <1>9, <1>10, ZenonT(30) DEF Next, Sending

\* m_is_writing_message is never left set on a connection that lives: while it is set a
\* write is outstanding or on its way, or a handler is about to look at the queue once more
\* or to clear it.  (A send_message that meets the flag in that last step is left behind.)
THEOREM FlagIsNotLeftSet ==
    ASSUME Disciplined
    PROVE  Spec => []FlagIsHeld
<1>1. Init => FlagIsHeld
  BY DEF Init, FlagIsHeld
<1>2. TypeOK /\ WriteInv /\ FlagIsHeld /\ [Next]_vars => FlagIsHeld'
  BY FlagStep
<1>3. QED
  BY <1>1, <1>2, TypeCorrect, WriteInvariant, PTL DEF Spec

-------------------------------------------------------------------------------
(***************************************************************************)
(* What another module needs to know of a Connection and its stream.       *)
(***************************************************************************)
ConnectionInv == TypeOK /\ HeaderKept /\ HandshakeOnce /\ WriteInv

\* The part that is read next: "none" after the last one.
NextPart == IF AwaitsHeader THEN "header" ELSE read.part

\* The next chunk is the part that is read next.
NextAligned ==
    inbound # <<>> =>
        /\ NextPart = "header" => inbound[1].part = "header"
        /\ NextPart = "body" => inbound[1] = [part |-> "body", msg |-> m_received_message[1]]

\* A step leaves what is written alone, or is one of send_message, or writes a chunk.
WriteEffect ==
    \/ UNCHANGED <<m_out_queue, outbound, sent>>
    \/ /\ \E h \in Outgoing : m_out_queue' = Append(m_out_queue, [num |-> sent + 1, head |-> h])
       /\ sent' = sent + 1 /\ outbound' = outbound
    \/ /\ m_out_queue # <<>> /\ m_out_queue' \in {m_out_queue, Tail(m_out_queue)} /\ sent' = sent
       /\ \E part \in {"header", "body"} :
              outbound' = Append(outbound, [part |-> part, msg |-> m_out_queue[1]])

\* m is complete when the next chunk is read.
Completes(next, inbound_, message, m) ==
    \/ next = "header" /\ inbound_[1].part = "header" /\ inbound_[1].msg = m /\ m.head.size = 0
    \/ next = "body" /\ inbound_[1].part = "body" /\ m = message[1]

\* A step reads nothing, or a header and no message, or what completes a message.
ReadEffect ==
    \/ /\ UNCHANGED <<inbound, in_queue>>
       /\ NextPart' = "header" => NextPart = "header"
       /\ NextPart' = "body" => NextPart = "body" /\ UNCHANGED m_received_message
    \/ /\ inbound # <<>> /\ inbound[1].part = "header" /\ inbound' = Tail(inbound)
       /\ NextPart = "header" /\ NextPart' # "header" /\ in_queue' = in_queue
       /\ NextPart' = "body" =>
              m_received_message'[1] = inbound[1].msg /\ inbound[1].msg.head.size > 0
    \/ /\ inbound # <<>> /\ inbound' = Tail(inbound) /\ NextPart' # "body"
       /\ \E m \in Message : /\ in_queue' = Append(in_queue, m)
                             /\ Completes(NextPart, inbound, m_received_message, m)

LEMMA ConnectionFacts ==
    ASSUME ConnectionInv
    PROVE  /\ m_out_queue \in Seq(Message) /\ in_queue \in Seq(Message) /\ sent \in Nat
           /\ outbound \in Seq(Chunk) /\ inbound \in Seq(Chunk)
           /\ outbound # <<>> => outbound[1].part = "header" /\ outbound[1].msg.num = 1
           /\ \A i \in 1 .. Len(outbound) - 1 : Follows(outbound[i], outbound[i + 1])
           /\ \A n \in 1 .. sent : \/ \E i \in 1 .. Len(outbound) : outbound[i].msg.num = n
                                  \/ \E i \in 1 .. Len(m_out_queue) : m_out_queue[i].num = n
           /\ read.part \in {"none", "header", "body"}
           /\ read.part = "body" => m_received_message # <<>>
<1>1. TypeOK /\ HeaderKept /\ OutboundFifo /\ NothingDropped
  BY DEF ConnectionInv, WriteInv
<1>2. /\ m_out_queue \in Seq(Message) /\ in_queue \in Seq(Message) /\ sent \in Nat
      /\ outbound \in Seq(Chunk) /\ inbound \in Seq(Chunk)
      /\ read.part \in {"none", "header", "body"}
  BY <1>1 DEF TypeOK, ReadOp
<1>3. read.part = "body" => m_received_message # <<>>
  BY <1>1 DEF HeaderKept
<1>4. \A n \in 1 .. sent : \/ \E i \in 1 .. Len(outbound) : outbound[i].msg.num = n
                           \/ \E i \in 1 .. Len(m_out_queue) : m_out_queue[i].num = n
  BY <1>1, ZenonT(30) DEF NothingDropped, IsWritten
<1>5. QED
  BY <1>1, <1>2, <1>3, <1>4, ZenonT(30) DEF OutboundFifo

LEMMA ConnectionInit == ASSUME Disciplined, Init PROVE ConnectionInv /\ NextPart = "header"
<1>1. TypeOK /\ HeaderKept /\ WriteInv
  BY TypeInit, WriteInit
<1>2. HandshakeOnce /\ NextPart = "header"
  BY DEF Init, HandshakeOnce, NextPart, AwaitsHeader
<1>3. QED
  BY <1>1, <1>2 DEF ConnectionInv

LEMMA WriteEffects == ASSUME TypeOK, WriteInv, [Next]_vars PROVE WriteEffect
<1>1. OnlySender /\ WriteTurn /\ WritesFront
  BY DEF WriteInv
<1>2. CASE StartsBody \/ Pops
  <2>1. /\ m_out_queue # <<>> /\ writes # <<>> /\ sent' = sent
        /\ m_out_queue' \in {m_out_queue, Tail(m_out_queue)}
        /\ outbound' = Append(outbound, [part |-> writes[1].part, msg |-> m_out_queue[1]])
    BY <1>1, <1>2, ZenonT(30), SMTT(30) DEF StartsBody, Pops, WritesFront
  <2>2. writes[1].part \in {"header", "body"}
    <3>1. writes[1] \in WriteOp
      BY <2>1, SeqTail DEF TypeOK
    <3>2. QED
      BY <3>1, ZenonT(30), SMTT(30) DEF WriteOp
  <2>3. QED
    BY <2>1, <2>2, ZenonT(30), SMTT(30) DEF WriteEffect
<1>3. QED
  BY <1>1, <1>2, Effects, ZenonT(30) DEF Quiet, Sends, StartsHeader, Breaks, WriteEffect

LEMMA ReadEffects ==
    ASSUME TypeOK, HeaderKept, HandshakeOnce, Aligned, Incoming = {}, [Next]_vars
    PROVE  ReadEffect
<1>1. read.part = "body" => ~AwaitsHeader
  BY NoReadType, ZenonT(30), SMTT(30) DEF HandshakeOnce, AwaitsHeader
<1>2. CASE NothingRead
  <2>1. NextPart' = "header" => NextPart = "header"
    BY <1>2 DEF NothingRead, NextPart, AwaitsHeader
  <2>2. NextPart' = "body" => NextPart = "body" /\ UNCHANGED m_received_message
    BY <1>1, <1>2, ZenonT(30), SMTT(30) DEF NothingRead, NextPart
  <2>3. QED
    BY <1>2, <2>1, <2>2, ZenonT(30), SMTT(30) DEF NothingRead, ReadEffect
<1>3. CASE HeaderEndsReading \/ \E m \in Message : HeaderRead(m)
  <2>1. /\ Takes("header") /\ ~AwaitsHeader' /\ in_queue' = in_queue
        /\ read'.part = "body" =>
               m_received_message'[1] = inbound[1].msg /\ inbound[1].msg.head.size > 0
    BY <1>3, ZenonT(30), SMTT(30) DEF HeaderEndsReading, HeaderRead
  <2>2. NextPart = "header" /\ NextPart' # "header"
    BY <2>1, ZenonT(30), SMTT(30) DEF Takes, AwaitsHeader, NextPart
  <2>3. QED
    BY <2>1, <2>2, ZenonT(30), SMTT(30) DEF Takes, NextPart, ReadEffect
<1>4. ASSUME NEW m \in Message, MessageRead(m) PROVE ReadEffect
  <2>1. inbound # <<>> /\ inbound' = Tail(inbound) /\ in_queue' = Append(in_queue, m)
    BY <1>4, ZenonT(30), SMTT(30) DEF MessageRead, Takes
  <2>2. Completes(NextPart, inbound, m_received_message, m) /\ NextPart' # "body"
    BY <1>1, <1>4, ZenonT(30), SMTT(30) DEF MessageRead, Takes, AwaitsHeader, NextPart, Completes
  <2>3. QED
    BY <2>1, <2>2, ZenonT(30), SMTT(30) DEF ReadEffect
<1>5. QED
  BY <1>2, <1>3, <1>4, ReadSteps

LEMMA ConnectionStep ==
    ASSUME Disciplined, Incoming = {}, ConnectionInv, NextAligned, Next
    PROVE  ConnectionInv' /\ WriteEffect /\ ReadEffect /\ sent' \in 0 .. MaxSends
<1>1. TypeOK /\ HeaderKept /\ HandshakeOnce /\ WriteInv
  BY DEF ConnectionInv
<1>2. TypeOK' /\ HeaderKept'
  BY <1>1, TypeStep, HeaderKeptStep
<1>3. HandshakeOnce' /\ WriteInv'
  BY <1>1, HandshakeOnceStep, WriteStep
<1>4. WriteEffect /\ ReadEffect
  <2>1. read.part = "body" => ~AwaitsHeader
    BY <1>1, NoReadType, ZenonT(30), SMTT(30) DEF HandshakeOnce, AwaitsHeader
  <2>2. Aligned
    BY <2>1, ZenonT(30), SMTT(30) DEF NextAligned, NextPart, AwaitsHeader, Aligned
  <2>3. QED
    BY <1>1, <2>2, WriteEffects, ReadEffects
<1>5. QED
  BY <1>1, <1>2, <1>3, <1>4, ZenonT(30), SMTT(30) DEF ConnectionInv, TypeOK

\* More of the stream may arrive.
LEMMA ConnectionArrival ==
    ASSUME ConnectionInv, inbound' \in Seq(Chunk),
           UNCHANGED <<lifeVars, pc, m_has_done_handshake, writeVars>>,
           UNCHANGED <<read, m_received_message, in_queue, late, peerVars>>
    PROVE  ConnectionInv' /\ NextPart' = NextPart
<1> USE DEF ConnectionInv, WriteInv, lifeVars, writeVars, peerVars
<1>1. TypeOK'
  BY DEF TypeOK
<1>2. HeaderKept' /\ HandshakeOnce'
  BY ZenonT(30), SMTT(30) DEF HeaderKept, HandshakeOnce
<1>3. OnlySender' /\ WriteTurn' /\ WritesFront'
  BY ZenonT(30), SMTT(30) DEF OnlySender, WriteTurn, WritesFront
<1>4. WriteContinues'
  BY ZenonT(30), SMTT(30) DEF WriteContinues, MayStart, AtBoundary
<1>5. OutboundFifo' /\ NothingDropped'
  BY ZenonT(30) DEF OutboundFifo, NothingDropped, IsWritten
<1>6. QED
  BY <1>1, <1>2, <1>3, <1>4, <1>5 DEF NextPart, AwaitsHeader
===============================================================================
