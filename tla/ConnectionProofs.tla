--------------------------- MODULE ConnectionProofs ---------------------------
(***************************************************************************)
(* Theorems about Connection, for every value of its constants.            *)
(***************************************************************************)
EXTENDS Connection, TLAPS

USE ConnectionAssumption, SMTT(30), ZenonT(30), SMTT(60)
-------------------------------------------------------------------------------
\* The facts about sequences that the proofs below cite.
LEMMA SeqElement == ASSUME NEW S, NEW s \in Seq(S), NEW i \in 1 .. Len(s) PROVE s[i] \in S
OBVIOUS

LEMMA SeqEmpty ==
    ASSUME NEW S
    PROVE  <<>> \in Seq(S) /\ Len(<<>>) = 0 /\ \A s \in Seq(S) : s # <<>> => Len(s) \in Nat \ {0}
OBVIOUS

LEMMA SeqLen ==
    ASSUME NEW S, NEW s \in Seq(S)
    PROVE  Len(s) \in Nat /\ s \in [1 .. Len(s) -> S] /\ DOMAIN s = 1 .. Len(s)
OBVIOUS

LEMMA SeqAppend ==
    ASSUME NEW S, NEW s \in Seq(S), NEW e \in S
    PROVE  /\ Append(s, e) \in Seq(S) /\ Append(s, e) # <<>>
           /\ Len(Append(s, e)) = Len(s) + 1 /\ Append(s, e)[Len(s) + 1] = e
           /\ \A i \in 1 .. Len(s) : Append(s, e)[i] = s[i]
OBVIOUS

LEMMA SeqTail ==
    ASSUME NEW S, NEW s \in Seq(S), s # <<>>
    PROVE  /\ Head(s) \in S /\ Tail(s) \in Seq(S) /\ Len(Tail(s)) = Len(s) - 1
           /\ \A i \in 1 .. Len(Tail(s)) : Tail(s)[i] = s[i + 1]
OBVIOUS

LEMMA SeqConcat ==
    ASSUME NEW S, NEW s \in Seq(S), NEW t \in Seq(S)
    PROVE  /\ s \o t \in Seq(S) /\ Len(s \o t) = Len(s) + Len(t)
           /\ \A i \in 1 .. Len(s) + Len(t) :
                  (s \o t)[i] = IF i <= Len(s) THEN s[i] ELSE t[i - Len(s)]
OBVIOUS

LEMMA SubSeqType ==
    ASSUME NEW S, NEW s, NEW m \in Int, NEW n \in Int, \A i \in m .. n : s[i] \in S
    PROVE  /\ SubSeq(s, m, n) \in Seq(S)
           /\ Len(SubSeq(s, m, n)) = IF m <= n THEN n - m + 1 ELSE 0
           /\ \A i \in 1 .. n - m + 1 : SubSeq(s, m, n)[i] = s[m + i - 1]
OBVIOUS

LEMMA SubSeqNone == ASSUME NEW s, NEW m \in Int, NEW n \in Int, n < m PROVE SubSeq(s, m, n) = <<>>
OBVIOUS

\* Taking an operation out of the outstanding ones leaves a sequence of the
\* others (the lambda of a completed async_write is gone).
LEMMA RemoveType ==
    ASSUME NEW S, NEW s \in Seq(S), NEW i \in 1 .. Len(s)
    PROVE  Remove(s, i) \in Seq(S)
<1>1. SubSeq(s, 1, i - 1) \in Seq(S)
  BY SubSeqType, SeqElement
<1>2. SubSeq(s, i + 1, Len(s)) \in Seq(S)
  BY SubSeqType, SeqElement
<1>3. QED
  BY <1>1, <1>2, SeqConcat DEF Remove

\* The head and the tail of a queue that is not empty.
LEMMA QueueType ==
    ASSUME NEW S, NEW s \in Seq(S), s # <<>>
    PROVE  Head(s) \in S /\ Tail(s) \in Seq(S)
BY SeqTail

\* A read that is started is one of the reads there are, and so is none at all.
LEMMA ReadType ==
    ASSUME NEW part \in {"none", "header", "body"}, socket \in {"open", "closed"}, async_read(part)
    PROVE  read' \in ReadOp /\ read'.part = part
BY DEF async_read, ReadOp

LEMMA NoReadType == NoRead \in ReadOp /\ NoRead.part = "none"
BY DEF NoRead, ReadOp

\* A write of the front of the queue is one of the writes there are.
LEMMA WriteType ==
    ASSUME NEW part \in {"header", "body"}, NEW others \in Seq(WriteOp),
           m_out_queue \in Seq(Message), m_out_queue # <<>>, socket \in {"open", "closed"},
           async_write(part, others)
    PROVE  writes' \in Seq(WriteOp)
<1>1. [part |-> part, msg |-> Head(m_out_queue), on |-> socket] \in WriteOp
  BY QueueType DEF WriteOp
<1>2. QED
  BY <1>1, SeqAppend DEF async_write

\* disconnect closes the socket or ends the program, nothing else.
LEMMA DisconnectType ==
    ASSUME socket \in {"open", "closed"}, fault \in Faults, disconnect
    PROVE  socket' \in {"open", "closed"} /\ fault' \in Faults
BY DEF disconnect, is_connected, Faults

\* What a chunk is read as is a message, and a body does not change the header before it.
LEMMA ReadHeaderType ==
    ASSUME inbound \in Seq(Chunk), inbound # <<>>, NEW m \in ReadHeader(Head(inbound))
    PROVE  m \in Message
<1>1. Head(inbound).msg \in Message
  <2>1. Head(inbound) \in Chunk
    BY QueueType
  <2>2. QED
    BY <2>1 DEF Chunk
<1>2. [num: {0}, head: Header] \subseteq Message
  BY DEF Message
<1>3. QED
  BY <1>1, <1>2, ZenonT(30) DEF ReadHeader

LEMMA ReadBodyType ==
    ASSUME NEW m \in Message, NEW c
    PROVE  ReadBody(m, c) \in Message /\ ReadBody(m, c).head = m.head
BY DEF ReadBody, Message

\* What the handler of a header does with the message it reads.
LEMMA HeaderHandler ==
    ASSUME TypeOK, async_read_header_finished
    PROVE  \E m \in Message :
              /\ m \in ReadHeader(Head(inbound))
              /\ \/ /\ disconnect /\ read' = NoRead /\ m_received_message' = <<m>>
                    /\ UNCHANGED <<in_queue, late>>
                 \/ /\ validate_header(m.head) /\ m.head.size = 0
                    /\ on_message_received(m) /\ async_read("header") /\ UNCHANGED <<socket, fault>>
                 \/ /\ validate_header(m.head) /\ m.head.size > 0
                    /\ m_received_message' = <<m>> /\ UNCHANGED <<socket, in_queue, late>>
                    /\ \/ async_read("body") /\ fault' = fault
                       \/ read' = NoRead /\ fault' = "terminate"
<1>1. inbound \in Seq(Chunk) /\ inbound # <<>>
  BY ZenonT(30) DEF TypeOK, async_read_header_finished, ReadCompletes
<1>2. \A m \in ReadHeader(Head(inbound)) : m \in Message
  BY <1>1, ReadHeaderType
<1>3. QED
  BY <1>2, ZenonT(30) DEF async_read_header_finished, RejectHeader

\* While a body is being read, m_received_message holds the header read before it.
HeaderKept == read.part = "body" => m_received_message # <<>>

LEMMA TypeInit == Init => TypeOK /\ HeaderKept
<1> SUFFICES ASSUME Init PROVE TypeOK /\ HeaderKept
  OBVIOUS
<1>1. read \in ReadOp /\ HeaderKept
  BY NoReadType DEF Init, HeaderKept
<1>2. /\ pc \in [Threads -> {"idle"} \cup StartSteps \cup FinishSteps]
      /\ pc["user"] \notin FinishSteps
  BY DEF Init, Threads, FinishSteps
<1>3. sent \in 0 .. MaxSends /\ arrived \in 0 .. MaxReceives /\ late \in Nat
  BY DEF Init
<1>4. /\ m_out_queue \in Seq(Message) /\ writes \in Seq(WriteOp)
      /\ outbound \in Seq(Chunk) /\ inbound \in Seq(Chunk)
      /\ m_received_message \in Seq(Message) /\ in_queue \in Seq(Message)
  BY DEF Init
<1>5. QED
  BY <1>1, <1>2, <1>3, <1>4, ZenonT(30) DEF Init, TypeOK, Faults

LEMMA TypeStep == TypeOK /\ HeaderKept /\ [Next]_vars => TypeOK'
<1> SUFFICES ASSUME TypeOK, HeaderKept, [Next]_vars PROVE TypeOK'
  OBVIOUS
<1> USE DEF lifeVars, writeVars, readVars, peerVars, GoTo
<1>1. CASE start
  <2>1. read' \in ReadOp
    BY <1>1, ReadType DEF TypeOK, start, async_handshake, HandshakeSucceeded
  <2>2. QED
    BY <1>1, <2>1, ZenonT(30) DEF TypeOK, start, async_handshake, HandshakeSucceeded
<1>2. CASE StartThrows
  BY <1>2, ZenonT(30) DEF TypeOK, StartThrows, Faults
<1>3. CASE async_handshake_finished
  <2>1. read' \in ReadOp
    BY <1>3, ReadType DEF TypeOK, async_handshake_finished, HandshakeSucceeded
  <2>2. socket' \in {"open", "closed"} /\ fault' \in Faults
    BY <1>3, DisconnectType DEF TypeOK, async_handshake_finished
  <2>3. QED
    BY <1>3, <2>1, <2>2, ZenonT(30) DEF TypeOK, async_handshake_finished, HandshakeSucceeded,
                            Threads, StartSteps, FinishSteps
<1>4. CASE Destroy
  BY <1>4, ZenonT(30) DEF TypeOK, Destroy
<1>5. CASE HandlerOnDestroyed
  BY <1>5 DEF TypeOK, HandlerOnDestroyed, Faults
<1>6. CASE send_message
  <2>1. sent' \in 0 .. MaxSends
    BY <1>6 DEF send_message, TypeOK
  <2>2. m_out_queue' \in Seq(Message)
    <3>1. PICK h \in Outgoing :
             m_out_queue' = Append(m_out_queue, [num |-> sent + 1, head |-> h])
      BY <1>6 DEF send_message
    <3>2. [num |-> sent + 1, head |-> h] \in Message
      BY DEF Message, TypeOK
    <3>3. QED
      BY <3>1, <3>2, SeqAppend DEF TypeOK
  <2>3. QED
    BY <1>6, <2>1, <2>2 DEF send_message, TypeOK, StartSteps, FinishSteps, Threads
<1>7. ASSUME NEW t \in Threads, Sending(t) PROVE TypeOK'
  <2>1. CASE start_writing_message(t)
    <3>1. PICK step \in {"idle", "test_writing", "test_handshake", "set_writing"} : GoTo(t, step)
      BY <2>1 DEF start_writing_message, StartCondition
    <3>2. /\ pc' \in [Threads -> {"idle"} \cup StartSteps \cup FinishSteps]
          /\ pc'["user"] \notin FinishSteps
      BY <3>1 DEF TypeOK, StartSteps, FinishSteps, Threads
    <3>3. UNCHANGED <<lifeVars, m_has_done_handshake, writeVars, readVars, peerVars>>
      BY <2>1 DEF start_writing_message, StartCondition
    <3>4. QED
      BY <3>2, <3>3 DEF TypeOK
  <2>2. CASE SetWriting(t)
    BY <2>2 DEF SetWriting, TypeOK, StartSteps, FinishSteps, Threads
  <2>3. CASE WriteHeader(t)
    <3>1. writes' \in Seq(WriteOp)
      <4>1. CASE m_out_queue = <<>>
        BY <2>3, <4>1 DEF WriteHeader, TypeOK
      <4>2. CASE m_out_queue # <<>>
        BY <2>3, <4>2, WriteType DEF WriteHeader, TypeOK
      <4>3. QED
        BY <4>1, <4>2
    <3>2. QED
      BY <2>3, <3>1 DEF WriteHeader, TypeOK, StartSteps, FinishSteps, Threads, Faults
  <2>4. QED
    BY <1>7, <2>1, <2>2, <2>3 DEF Sending
<1>8. CASE WriteHandlers
  <2>1. PICK i \in 1 .. Len(writes) : \/ async_write_header_finished(i)
                                      \/ async_write_body_finished(i)
                                      \/ WriteFails(i)
    BY <1>8 DEF WriteHandlers
  <2>2. writes[i] \in WriteOp /\ Remove(writes, i) \in Seq(WriteOp)
    BY SeqElement, RemoveType DEF TypeOK
  <2>3. ASSUME NEW part \in {"header", "body"}, WriteCompletes(i, part)
        PROVE  outbound' \in Seq(Chunk)
    <3>1. [part |-> part, msg |-> writes[i].msg] \in Chunk
      BY <2>2 DEF Chunk, WriteOp
    <3>2. QED
      BY <2>3, <3>1, SeqAppend DEF WriteCompletes, TypeOK
  <2>4. ASSUME PopWritten(i), m_out_queue # <<>>
        PROVE  /\ m_out_queue' \in Seq(Message) /\ writes' \in Seq(WriteOp)
               /\ fault' \in Faults
               /\ pc' \in [Threads -> {"idle"} \cup StartSteps \cup FinishSteps]
               /\ pc'["user"] \notin FinishSteps
    BY <2>2, <2>4, QueueType DEF PopWritten, TypeOK, StartSteps, FinishSteps, Threads
  <2>5. CASE async_write_header_finished(i)
    <3>1. outbound' \in Seq(Chunk)
      BY <2>3, <2>5 DEF async_write_header_finished
    <3>2. CASE m_out_queue # <<>> /\ PopWritten(i)
      BY <2>4, <2>5, <3>1, <3>2 DEF async_write_header_finished, TypeOK
    <3>3. CASE m_out_queue # <<>> /\ async_write("body", Remove(writes, i))
                 /\ UNCHANGED <<m_out_queue, pc, fault>>
      <4>1. writes' \in Seq(WriteOp)
        BY <2>2, <3>3, WriteType DEF TypeOK
      <4>2. QED
        BY <2>5, <3>1, <3>3, <4>1 DEF async_write_header_finished, TypeOK
    <3>4. CASE PopEmpty
      BY <2>5, <3>1, <3>4 DEF async_write_header_finished, PopEmpty, TypeOK, Faults
    <3>5. QED
      BY <2>5, <3>2, <3>3, <3>4 DEF async_write_header_finished
  <2>6. CASE async_write_body_finished(i)
    <3>1. outbound' \in Seq(Chunk)
      BY <2>3, <2>6 DEF async_write_body_finished
    <3>2. CASE m_out_queue # <<>> /\ PopWritten(i)
      BY <2>4, <2>6, <3>1, <3>2 DEF async_write_body_finished, TypeOK
    <3>3. CASE PopEmpty
      BY <2>6, <3>1, <3>3 DEF async_write_body_finished, PopEmpty, TypeOK, Faults
    <3>4. QED
      BY <2>6, <3>2, <3>3 DEF async_write_body_finished
  <2>7. CASE WriteFails(i)
    BY <2>2, <2>7 DEF WriteFails, disconnect, is_connected, TypeOK, Faults
  <2>8. QED
    BY <2>1, <2>5, <2>6, <2>7
<1>9. CASE TestMore
  <2>1. CASE m_out_queue = <<>>
    BY <1>9, <2>1 DEF TestMore, TypeOK, StartSteps, FinishSteps, Threads
  <2>2. CASE m_out_queue # <<>>
    <3>1. writes' \in Seq(WriteOp)
      BY <1>9, <2>2, WriteType DEF TestMore, TypeOK
    <3>2. QED
      BY <1>9, <2>2, <3>1 DEF TestMore, TypeOK, StartSteps, FinishSteps, Threads
  <2>3. QED
    BY <2>1, <2>2
<1>10. CASE ClearWriting
  BY <1>10, ZenonT(30) DEF ClearWriting, TypeOK, StartSteps, FinishSteps, Threads
<1>11. CASE async_read_header_finished
  <2>1. inbound' \in Seq(Chunk)
    BY <1>11, QueueType, ZenonT(30) DEF async_read_header_finished, ReadCompletes, TypeOK
  <2>2. PICK m \in Message :
           \/ /\ disconnect /\ read' = NoRead /\ m_received_message' = <<m>>
              /\ UNCHANGED <<in_queue, late>>
           \/ on_message_received(m) /\ async_read("header") /\ UNCHANGED <<socket, fault>>
           \/ /\ m_received_message' = <<m>> /\ UNCHANGED <<socket, in_queue, late>>
              /\ \/ async_read("body") /\ fault' = fault
                 \/ read' = NoRead /\ fault' = "terminate"
    BY <1>11, HeaderHandler, ZenonT(30)
  <2>3. <<m>> \in Seq(Message) /\ <<>> \in Seq(Message)
    OBVIOUS
  <2>4. Append(in_queue, m) \in Seq(Message)
    BY SeqAppend DEF TypeOK
  <2>5. in_queue' \in Seq(Message) /\ m_received_message' \in Seq(Message) /\ late' \in Nat
    <3>1. CASE on_message_received(m)
      BY <2>3, <2>4, <3>1 DEF on_message_received, TypeOK
    <3>2. CASE m_received_message' = <<m>> /\ UNCHANGED <<in_queue, late>>
      BY <2>3, <3>2 DEF TypeOK
    <3>3. QED
      BY <2>2, <3>1, <3>2, ZenonT(30)
  <2>6. read' \in ReadOp
    BY <2>2, ReadType, NoReadType DEF TypeOK
  <2>7. socket' \in {"open", "closed"} /\ fault' \in Faults
    BY <2>2, DisconnectType DEF TypeOK, Faults
  <2>8. QED
    BY <1>11, <2>1, <2>5, <2>6, <2>7 DEF async_read_header_finished, TypeOK
<1>12. CASE async_read_body_finished
  <2>1. PICK m : /\ m = ReadBody(Head(m_received_message), Head(inbound))
                 /\ ReadCompletes("body") /\ on_message_received(m) /\ async_read("header")
    BY <1>12 DEF async_read_body_finished
  <2>2. m \in Message
    <3>1. Head(m_received_message) \in Message
      BY <2>1, QueueType DEF ReadCompletes, HeaderKept, TypeOK
    <3>2. QED
      BY <2>1, <3>1, ReadBodyType
  <2>3. in_queue' \in Seq(Message)
    BY <2>1, <2>2, SeqAppend DEF on_message_received, TypeOK
  <2>4. m_received_message' \in Seq(Message) /\ late' \in Nat
    BY <2>1 DEF on_message_received, TypeOK
  <2>5. read' \in ReadOp
    BY <2>1, ReadType DEF TypeOK
  <2>6. inbound' \in Seq(Chunk)
    BY <2>1, QueueType DEF ReadCompletes, TypeOK
  <2>7. QED
    BY <1>12, <2>3, <2>4, <2>5, <2>6 DEF async_read_body_finished, TypeOK
<1>13. CASE ReadFails
  <2>1. socket' \in {"open", "closed"} /\ fault' \in Faults
    BY <1>13, DisconnectType DEF ReadFails, TypeOK
  <2>2. QED
    BY <1>13, <2>1, NoReadType DEF ReadFails, TypeOK
<1>14. ASSUME NEW id \in Ids, NEW limits \in Limits, add_accepted_message(id, limits)
       PROVE  TypeOK'
  <2> DEFINE new == [i \in DOMAIN m_accepted_messages \cup {id} |->
               IF i \in DOMAIN m_accepted_messages THEN m_accepted_messages[i] ELSE limits]
  <2>1. PICK S \in SUBSET Ids : m_accepted_messages \in [S -> Limits]
    BY DEF TypeOK, AcceptedMessages
  <2>2. new \in [S \cup {id} -> Limits]
    BY <2>1
  <2>3. S \cup {id} \in SUBSET Ids
    OBVIOUS
  <2>4. new \in AcceptedMessages
    BY <2>2, <2>3, ZenonT(30) DEF AcceptedMessages
  <2>5. QED
    BY <1>14, <2>4 DEF add_accepted_message, TypeOK
<1>15. ASSUME NEW h \in Incoming, PeerSends(h) PROVE TypeOK'
  <2> DEFINE m == [num |-> arrived + 1, head |-> h]
             news == IF h.size = 0
                     THEN <<[part |-> "header", msg |-> m]>>
                     ELSE <<[part |-> "header", msg |-> m], [part |-> "body", msg |-> m]>>
  <2>1. m \in Message
    BY DEF Message, TypeOK
  <2>2. [part |-> "header", msg |-> m] \in Chunk /\ [part |-> "body", msg |-> m] \in Chunk
    BY <2>1 DEF Chunk
  <2>3. news \in Seq(Chunk)
    BY <2>2
  <2>4. inbound' = inbound \o news /\ arrived' \in 0 .. MaxReceives
    BY <1>15 DEF PeerSends, TypeOK
  <2>5. inbound' \in Seq(Chunk)
    BY <2>3, <2>4, SeqConcat DEF TypeOK
  <2>6. QED
    BY <1>15, <2>4, <2>5 DEF PeerSends, TypeOK
<1>16. CASE UNCHANGED vars
  BY <1>16 DEF vars, TypeOK
<1>17. QED
  BY <1>1, <1>2, <1>3, <1>4, <1>5, <1>6, <1>7, <1>8, <1>9, <1>10, <1>11, <1>12, <1>13,
     <1>14, <1>15, <1>16 DEF Next, ReadHandlers

LEMMA HeaderKeptStep == TypeOK /\ HeaderKept /\ [Next]_vars => HeaderKept'
<1> SUFFICES ASSUME TypeOK, HeaderKept, [Next]_vars,
                    ~ UNCHANGED <<read, m_received_message>>
             PROVE  HeaderKept'
  BY DEF HeaderKept
<1> USE DEF lifeVars, writeVars, readVars, peerVars
<1>1. CASE start
  BY <1>1, ReadType DEF start, async_handshake, HandshakeSucceeded, HeaderKept, TypeOK
<1>2. CASE async_handshake_finished
  BY <1>2, ReadType DEF async_handshake_finished, HandshakeSucceeded, HeaderKept, TypeOK
<1>3. CASE async_read_header_finished
  <2>1. PICK m \in Message : read' = NoRead \/ async_read("header") \/ m_received_message' = <<m>>
    BY <1>3, HeaderHandler, ZenonT(30)
  <2>2. CASE read' = NoRead
    BY <2>2, NoReadType DEF HeaderKept
  <2>3. CASE async_read("header")
    BY <2>3, ReadType DEF HeaderKept, TypeOK
  <2>4. CASE m_received_message' = <<m>>
    BY <2>4 DEF HeaderKept
  <2>5. QED
    BY <2>1, <2>2, <2>3, <2>4
<1>4. CASE async_read_body_finished
  BY <1>4, ReadType DEF async_read_body_finished, HeaderKept, TypeOK
<1>5. CASE ReadFails
  BY <1>5, NoReadType DEF ReadFails, HeaderKept
<1>6. QED
  BY <1>1, <1>2, <1>3, <1>4, <1>5, ZenonT(30)
     DEF Next, ReadHandlers, vars, StartThrows, Destroy, HandlerOnDestroyed, send_message,
         Sending, start_writing_message, StartCondition, SetWriting, WriteHeader,
         WriteHandlers, async_write_header_finished, async_write_body_finished, WriteFails,
         TestMore, ClearWriting, add_accepted_message, PeerSends

\* Every member of Connection, and every operation it has outstanding, stays in
\* its type through every handler and every call, in each of the two threads.
THEOREM TypeCorrect == Spec => []TypeOK
BY TypeInit, TypeStep, HeaderKeptStep, PTL DEF Spec
-------------------------------------------------------------------------------
\* The handshake is started once and ends once; before it has ended nothing is read
\* and, on a client whose user waits for m_on_connected, nothing is sent.
HandshakeOnce ==
    /\ handshake => started /\ Ssl
    /\ m_has_done_handshake => started /\ ~handshake
    /\ handshake \/ ~started => read = NoRead /\ in_queue = <<>>
    /\ FirstSend = "server_accept" /\ in_queue = <<>> => m_out_queue = <<>>

\* No handler and no call starts a second handshake or reads before the first.
LEMMA HandshakeOnceStep ==
    ASSUME TypeOK, HandshakeOnce, [Next]_vars
    PROVE  HandshakeOnce'
<1>0. in_queue \in Seq(Message) /\ m_out_queue \in Seq(Message)
  BY DEF TypeOK
<1> USE DEF lifeVars, writeVars, readVars, peerVars
<1>1. CASE UNCHANGED <<started, handshake, m_has_done_handshake, read, in_queue, m_out_queue>>
  BY <1>1 DEF HandshakeOnce
<1>2. CASE start
  BY <1>2 DEF start, async_handshake, HandshakeSucceeded, HandshakeOnce
<1>3. CASE StartThrows
  BY <1>3 DEF StartThrows, HandshakeOnce
<1>4. CASE async_handshake_finished
  BY <1>4 DEF async_handshake_finished, HandshakeSucceeded, HandshakeOnce
<1>5. CASE send_message
  <2>1. FirstSend = "server_accept" => in_queue # <<>>
    BY <1>0, <1>5 DEF send_message, MaySend
  <2>2. QED
    BY <1>5, <2>1 DEF send_message, HandshakeOnce
<1>6. CASE WriteHandlers
  <2>1. UNCHANGED <<started, handshake, m_has_done_handshake, read, in_queue>>
    BY <1>6 DEF WriteHandlers, async_write_header_finished, async_write_body_finished, WriteFails
  <2>2. m_out_queue' = m_out_queue \/ m_out_queue # <<>>
    BY <1>6 DEF WriteHandlers, async_write_header_finished, async_write_body_finished,
                WriteFails, PopEmpty
  <2>3. QED
    BY <2>1, <2>2 DEF HandshakeOnce
<1>7. ASSUME ReadHandlers PROVE HandshakeOnce'
  <2>1. read # NoRead
    BY <1>7, NoReadType DEF ReadHandlers, async_read_header_finished, async_read_body_finished,
                            ReadFails, ReadCompletes
  <2>2. started /\ ~handshake
    BY <2>1 DEF HandshakeOnce
  <2>3. UNCHANGED <<started, handshake, m_has_done_handshake, m_out_queue>>
    BY <1>7 DEF ReadHandlers, async_read_header_finished, async_read_body_finished, ReadFails
  <2>4. in_queue' = in_queue \/ \E m : in_queue' = Append(in_queue, m)
    BY <1>7, ZenonT(30) DEF ReadHandlers, async_read_header_finished, RejectHeader,
                async_read_body_finished, ReadFails, on_message_received
  <2>5. in_queue' = in_queue \/ in_queue' # <<>>
    BY <1>0, <2>4
  <2>6. QED
    BY <2>2, <2>3, <2>5 DEF HandshakeOnce
<1>8. QED
  BY <1>1, <1>2, <1>3, <1>4, <1>5, <1>6, <1>7, ZenonT(30)
     DEF Next, Sending, vars, Destroy, HandlerOnDestroyed, start_writing_message,
         StartCondition, SetWriting, WriteHeader, TestMore, ClearWriting,
         add_accepted_message, PeerSends

LEMMA HandshakeOnceHolds == Spec => []HandshakeOnce
<1>1. Init => HandshakeOnce
  BY DEF Init, HandshakeOnce
<1>2. QED
  BY <1>1, HandshakeOnceStep, TypeCorrect, PTL DEF Spec

-------------------------------------------------------------------------------
(***************************************************************************)
(* What a step does to the stream that is read.                            *)
(***************************************************************************)
\* The next chunk that is read will be a header: of the read that is outstanding, or of
\* the one that starts when the handshake is over.
AwaitsHeader == read.part = "header" \/ ~started \/ handshake

\* The outstanding read takes the next chunk.
Takes(part) ==
    /\ read.part = part /\ inbound # <<>> /\ inbound[1].part = part
    /\ inbound' = Tail(inbound) /\ arrived' = arrived

NothingRead ==
    /\ UNCHANGED <<inbound, in_queue, arrived>>
    /\ AwaitsHeader' => AwaitsHeader
    /\ read'.part = "body" => read.part = "body" /\ UNCHANGED m_received_message

HeaderEndsReading ==
    Takes("header") /\ ~AwaitsHeader' /\ read'.part # "body" /\ in_queue' = in_queue

HeaderRead(m) ==
    /\ Takes("header") /\ inbound[1].msg = m /\ m.head.size > 0
    /\ m_received_message' # <<>> /\ m_received_message'[1] = m
    /\ ~AwaitsHeader' /\ in_queue' = in_queue

MessageRead(m) ==
    /\ \/ Takes("header") /\ inbound[1].msg = m /\ m.head.size = 0
       \/ Takes("body") /\ m = m_received_message[1]
    /\ in_queue' = Append(in_queue, m) /\ read'.part # "body"

\* The next chunk is what the outstanding read was started for.
Aligned ==
    inbound # <<>> =>
        /\ read.part = "header" => inbound[1].part = "header"
        /\ read.part = "body" => inbound[1] = [part |-> "body", msg |-> m_received_message[1]]

\* Every step has one of these effects, or is one of the peer.
LEMMA ReadSteps ==
    ASSUME TypeOK, HeaderKept, HandshakeOnce, Aligned, [Next]_vars
    PROVE  \/ NothingRead \/ HeaderEndsReading
           \/ \E m \in Message : HeaderRead(m) \/ MessageRead(m)
           \/ \E h \in Incoming : PeerSends(h)
<1>0. /\ socket \in {"open", "closed"} /\ m_received_message \in Seq(Message)
      /\ inbound \in Seq(Chunk) /\ read \in ReadOp
  BY DEF TypeOK
<1> USE <1>0 DEF lifeVars, writeVars, readVars, peerVars
<1>1. CASE UNCHANGED <<read, m_received_message, inbound, in_queue, arrived, handshake, started>>
  BY <1>1 DEF NothingRead, AwaitsHeader
<1>2. CASE StartThrows
  BY <1>2 DEF StartThrows, NothingRead, AwaitsHeader
<1>3. CASE start \/ async_handshake_finished
  <2>1. AwaitsHeader /\ UNCHANGED <<m_received_message, inbound, in_queue, arrived>> /\ read = NoRead
    BY <1>3 DEF start, async_handshake_finished, AwaitsHeader, HandshakeOnce
  <2>2. read'.part # "body"
    BY <1>3, <2>1, ReadType, NoReadType
       DEF start, async_handshake, async_handshake_finished, HandshakeSucceeded
  <2>3. QED
    BY <2>1, <2>2 DEF NothingRead
<1>4. CASE ReadFails
  <2>1. read'.part = "none" /\ UNCHANGED <<started, handshake, inbound, in_queue, arrived>>
    BY <1>4, NoReadType DEF ReadFails
  <2>2. QED
    BY <2>1 DEF NothingRead, AwaitsHeader
<1>5. ASSUME NEW part \in {"header", "body"}, ReadCompletes(part), UNCHANGED <<started, handshake, arrived>>
      PROVE  Takes(part) /\ started' /\ ~handshake' /\ inbound[1] \in Chunk /\ inbound[1] = Head(inbound)
  <2>1. inbound # <<>> /\ inbound' = Tail(inbound) /\ read # NoRead /\ read.part = part
    BY <1>5, NoReadType DEF ReadCompletes
  <2>2. inbound[1] = Head(inbound) /\ inbound[1] \in Chunk
    BY <2>1, SeqTail
  <2>3. started' /\ ~handshake'
    BY <1>5, <2>1 DEF HandshakeOnce
  <2>4. inbound[1].part = part
    BY <2>1, SMTT(30) DEF Aligned
  <2>5. QED
    BY <1>5, <2>1, <2>2, <2>3, <2>4 DEF Takes, ReadCompletes
<1>6. CASE async_read_header_finished
  <2>1. /\ Takes("header") /\ started' /\ ~handshake' /\ inbound[1] \in Chunk
        /\ inbound[1] = Head(inbound) /\ inbound[1].part = "header"
    BY <1>5, <1>6, ZenonT(30) DEF async_read_header_finished, Takes
  <2>2. PICK m \in Message :
           /\ m \in ReadHeader(Head(inbound))
           /\ \/ read' = NoRead /\ in_queue' = in_queue
              \/ m.head.size = 0 /\ on_message_received(m) /\ async_read("header")
              \/ /\ m.head.size > 0 /\ m_received_message' = <<m>> /\ async_read("body")
                 /\ in_queue' = in_queue
    BY <1>6, HeaderHandler, ZenonT(30)
  <2>7. inbound[1].msg = m
    BY <2>1, <2>2, ZenonT(30) DEF ReadHeader
  <2>3. CASE read' = NoRead /\ in_queue' = in_queue
    BY <2>1, <2>3, NoReadType, ZenonT(30), SMTT(30) DEF HeaderEndsReading, AwaitsHeader
  <2>4. CASE m.head.size = 0 /\ on_message_received(m) /\ async_read("header")
    BY <2>1, <2>4, <2>7, ReadType, ZenonT(30), SMTT(30) DEF MessageRead, on_message_received
  <2>5. CASE m.head.size > 0 /\ m_received_message' = <<m>> /\ async_read("body") /\ in_queue' = in_queue
    <3>1. read'.part = "body" /\ m_received_message' # <<>> /\ m_received_message'[1] = m
      BY <2>5, ReadType
    <3>2. QED
      BY <2>1, <2>5, <2>7, <3>1, ZenonT(30) DEF HeaderRead, AwaitsHeader
  <2>6. QED
    BY <2>2, <2>3, <2>4, <2>5, ZenonT(30)
<1>7. CASE async_read_body_finished
  <2>1. Takes("body") /\ read.part = "body"
    BY <1>5, <1>7 DEF async_read_body_finished, ReadCompletes
  <2>2. PICK m \in Message : m = Head(m_received_message) /\ m = m_received_message[1]
    BY <2>1, SeqTail DEF HeaderKept
  <2>5. ReadBody(m, Head(inbound)) = m
    <3>1. inbound # <<>> /\ Head(inbound) = inbound[1]
      BY <2>1, SeqTail DEF Takes
    <3>2. QED
      BY <2>1, <2>2, <3>1, ZenonT(30) DEF Aligned, ReadBody
  <2>3. on_message_received(m) /\ read'.part = "header"
    BY <1>7, <2>2, <2>5, ReadType DEF async_read_body_finished
  <2>4. QED
    BY <2>1, <2>2, <2>3, ZenonT(30) DEF MessageRead, on_message_received
<1>8. QED
  BY <1>1, <1>2, <1>3, <1>4, <1>6, <1>7, ZenonT(30)
     DEF Next, ReadHandlers, vars, Destroy, HandlerOnDestroyed, send_message,
         Sending, start_writing_message, StartCondition, SetWriting, WriteHeader,
         WriteHandlers, async_write_header_finished, async_write_body_finished, WriteFails,
         TestMore, ClearWriting, add_accepted_message
-------------------------------------------------------------------------------
(***************************************************************************)
(* The reading side: what reaches the User, whichever thread adds accepted *)
(* messages, sends or removes the connection meanwhile.                    *)
(***************************************************************************)
\* The header whose body is being read was validated, and still is valid.
BodyAccepted ==
    read.part = "body" => m_received_message # <<>> /\ Respects(m_received_message[1].head)

\* What validate_header lets through respects the limits.
LEMMA ValidateHeader ==
    ASSUME TypeOK, NEW h \in Header, validate_header(h)
    PROVE  Respects(h)
<1>1. CASE h.internal_id # "not_internal"
  BY <1>1 DEF validate_header, Respects
<1>2. CASE h.internal_id = "not_internal"
  <2>1. /\ h.key = "correct" /\ h.id \in DOMAIN m_accepted_messages
        /\ h.size >= m_accepted_messages[h.id].m_min
        /\ h.size <= m_accepted_messages[h.id].m_max
    BY <1>2 DEF validate_header
  <2>2. PICK S \in SUBSET Ids : m_accepted_messages \in [S -> Limits]
    BY DEF TypeOK, AcceptedMessages
  <2>3. m_accepted_messages[h.id] \in Limits
    BY <2>1, <2>2
  <2>4. h.size \in Nat /\ m_accepted_messages[h.id].m_min \in Nat
           /\ m_accepted_messages[h.id].m_max \in Nat
    BY <2>3, ZenonT(30) DEF Limits, Header
  <2>5. h.size \in m_accepted_messages[h.id].m_min .. m_accepted_messages[h.id].m_max
    BY <2>1, <2>4
  <2>6. QED
    BY <2>1, <2>5 DEF Respects
<1>3. QED
  BY <1>1, <1>2

\* emplace changes no limits that are there, so what respects them goes on doing so.
LEMMA RespectsStays ==
    ASSUME [Next]_vars, NEW h, Respects(h)
    PROVE  Respects(h)'
<1> USE DEF lifeVars, writeVars, readVars, peerVars
<1>1. CASE m_accepted_messages' = m_accepted_messages
  BY <1>1 DEF Respects
<1>2. ASSUME NEW id \in Ids, NEW limits \in Limits, add_accepted_message(id, limits)
      PROVE  Respects(h)'
  <2>1. \A i \in DOMAIN m_accepted_messages :
           i \in DOMAIN m_accepted_messages' /\ m_accepted_messages'[i] = m_accepted_messages[i]
    BY <1>2 DEF add_accepted_message
  <2>2. QED
    BY <2>1 DEF Respects
<1>3. QED
  BY <1>1, <1>2, ZenonT(30)
     DEF Next, ReadHandlers, vars, start, async_handshake, StartThrows, async_handshake_finished, Destroy,
         HandlerOnDestroyed, send_message, Sending, start_writing_message, StartCondition,
         SetWriting, WriteHeader, WriteHandlers, async_write_header_finished,
         async_write_body_finished, WriteFails, TestMore, ClearWriting,
         async_read_header_finished, async_read_body_finished, ReadFails, PeerSends

\* What a step does to what was read: nothing, a new read of a header, a header
\* read whose body comes next, or a message for the User.
LEMMA ReadingEffects ==
    ASSUME TypeOK, HeaderKept, [Next]_vars
    PROVE  \/ UNCHANGED <<read, m_received_message, in_queue>>
           \/ read'.part # "body" /\ in_queue' = in_queue
           \/ \E m \in Message : /\ validate_header(m.head) /\ m_received_message' = <<m>>
                                 /\ in_queue' = in_queue
           \/ \E m \in Message : /\ read'.part # "body" /\ in_queue' = Append(in_queue, m)
                                 /\ \/ validate_header(m.head)
                                    \/ read.part = "body" /\ m.head = m_received_message[1].head
<1>0. socket \in {"open", "closed"} /\ m_received_message \in Seq(Message) /\ inbound \in Seq(Chunk)
  BY DEF TypeOK
<1> USE <1>0 DEF lifeVars, writeVars, readVars, peerVars
<1>1. CASE start
  BY <1>1, ReadType DEF start, async_handshake, HandshakeSucceeded
<1>2. CASE async_handshake_finished
  BY <1>2, ReadType DEF async_handshake_finished, HandshakeSucceeded
<1>3. CASE async_read_header_finished
  <2>1. PICK m \in Message :
           \/ read' = NoRead /\ in_queue' = in_queue
           \/ validate_header(m.head) /\ on_message_received(m) /\ async_read("header")
           \/ validate_header(m.head) /\ m_received_message' = <<m>> /\ in_queue' = in_queue
    BY <1>3, HeaderHandler, ZenonT(30)
  <2>2. CASE read' = NoRead /\ in_queue' = in_queue
    BY <2>2, NoReadType
  <2>3. CASE validate_header(m.head) /\ on_message_received(m) /\ async_read("header")
    BY <2>3, ReadType DEF on_message_received
  <2>4. CASE validate_header(m.head) /\ m_received_message' = <<m>> /\ in_queue' = in_queue
    BY <2>4
  <2>5. QED
    BY <2>1, <2>2, <2>3, <2>4, ZenonT(30)
<1>4. CASE async_read_body_finished
  <2>1. PICK m : /\ m = ReadBody(Head(m_received_message), Head(inbound))
                 /\ read.part = "body" /\ on_message_received(m) /\ async_read("header")
    BY <1>4 DEF async_read_body_finished, ReadCompletes
  <2>2. m \in Message /\ m.head = m_received_message[1].head
    <3>1. Head(m_received_message) \in Message /\ Head(m_received_message) = m_received_message[1]
      BY <2>1, QueueType DEF HeaderKept
    <3>2. QED
      BY <2>1, <3>1, ReadBodyType
  <2>3. read'.part # "body"
    BY <2>1, ReadType
  <2>4. QED
    BY <2>1, <2>2, <2>3 DEF on_message_received
<1>5. CASE ReadFails
  BY <1>5, NoReadType DEF ReadFails
<1>6. QED
  BY <1>1, <1>2, <1>3, <1>4, <1>5, ZenonT(30)
     DEF Next, ReadHandlers, vars, StartThrows, Destroy, HandlerOnDestroyed, send_message,
         Sending, start_writing_message, StartCondition, SetWriting, WriteHeader,
         WriteHandlers, async_write_header_finished, async_write_body_finished, WriteFails,
         TestMore, ClearWriting, add_accepted_message, PeerSends

\* Every message in the User's queue had the key and respects the limits that are
\* registered for its id, whatever update() registers while messages are being read.
THEOREM OnlyAcceptedReachTheUser == Spec => []AcceptedOnly
<1>1. Init => BodyAccepted /\ AcceptedOnly
  BY NoReadType DEF Init, BodyAccepted, AcceptedOnly
<1>2. TypeOK /\ BodyAccepted /\ AcceptedOnly /\ [Next]_vars => BodyAccepted' /\ AcceptedOnly'
  <2> SUFFICES ASSUME TypeOK, BodyAccepted, AcceptedOnly, [Next]_vars
               PROVE  BodyAccepted' /\ AcceptedOnly'
    OBVIOUS
  <2>0. in_queue \in Seq(Message) /\ HeaderKept
    BY DEF TypeOK, BodyAccepted, HeaderKept
  <2>1. ASSUME in_queue' = in_queue PROVE AcceptedOnly'
    <3>1. \A i \in 1 .. Len(in_queue) : Respects(in_queue[i].head)
      BY DEF AcceptedOnly
    <3>2. \A i \in 1 .. Len(in_queue') : Respects(in_queue[i].head)'
      <4> SUFFICES ASSUME NEW i \in 1 .. Len(in_queue) PROVE Respects(in_queue[i].head)'
        BY <2>1
      <4>1. PICK h : h = in_queue[i].head
        OBVIOUS
      <4>2. Respects(h)'
        BY <3>1, <4>1, RespectsStays
      <4>3. h = in_queue'[i].head
        BY <2>1, <4>1
      <4>4. QED
        BY <4>2, <4>3 DEF Respects
    <3>3. QED
      BY <3>2 DEF AcceptedOnly
  <2>2. CASE UNCHANGED <<read, m_received_message, in_queue>>
    <3>1. BodyAccepted'
      <4>1. PICK h : h = m_received_message[1].head
        OBVIOUS
      <4>2. read.part = "body" => Respects(h)'
        BY <4>1, RespectsStays DEF BodyAccepted
      <4>3. QED
        BY <2>2, <4>1, <4>2 DEF BodyAccepted, Respects
    <3>2. QED
      BY <2>1, <2>2, <3>1
  <2>3. CASE read'.part # "body" /\ in_queue' = in_queue
    BY <2>1, <2>3 DEF BodyAccepted
  <2>4. ASSUME NEW m \in Message, validate_header(m.head), m_received_message' = <<m>>,
               in_queue' = in_queue
        PROVE  BodyAccepted' /\ AcceptedOnly'
    <3>1. PICK h \in Header : h = m.head
      BY DEF Message
    <3>2. Respects(h)'
      BY <2>4, <3>1, ValidateHeader, RespectsStays
    <3>3. m_received_message' # <<>> /\ h = m_received_message'[1].head
      BY <2>4, <3>1
    <3>4. BodyAccepted'
      BY <3>2, <3>3 DEF BodyAccepted, Respects
    <3>5. QED
      BY <2>1, <2>4, <3>4
  <2>5. ASSUME NEW m \in Message, read'.part # "body", in_queue' = Append(in_queue, m),
               validate_header(m.head) \/ (read.part = "body" /\ m.head = m_received_message[1].head)
        PROVE  BodyAccepted' /\ AcceptedOnly'
    <3>1. PICK h \in Header : h = m.head
      BY DEF Message
    <3>2. Respects(h)
      BY <2>5, <3>1, ValidateHeader DEF BodyAccepted
    <3>3. /\ Len(in_queue) \in Nat /\ Len(in_queue') = Len(in_queue) + 1
          /\ \A i \in 1 .. Len(in_queue) : in_queue'[i] = in_queue[i]
          /\ in_queue'[Len(in_queue) + 1] = m
      BY <2>0, <2>5
    <3>4. ASSUME NEW i \in 1 .. Len(in_queue) + 1
          PROVE  Respects(in_queue[i].head)'
      <4>1. PICK g : g = in_queue'[i].head
        OBVIOUS
      <4>2. Respects(g)
        <5>1. CASE i \in 1 .. Len(in_queue)
          BY <3>3, <4>1, <5>1 DEF AcceptedOnly
        <5>2. CASE i = Len(in_queue) + 1
          BY <3>1, <3>2, <3>3, <4>1, <5>2
        <5>3. QED
          BY <3>3, <5>1, <5>2
      <4>3. Respects(g)'
        BY <4>2, RespectsStays
      <4>4. QED
        BY <4>1, <4>3 DEF Respects
    <3>5. AcceptedOnly'
      BY <3>3, <3>4 DEF AcceptedOnly
    <3>6. QED
      BY <2>5, <3>5 DEF BodyAccepted
  <2>6. QED
    BY <2>0, <2>2, <2>3, <2>4, <2>5, ReadingEffects
<1>3. QED
  BY <1>1, <1>2, TypeCorrect, PTL DEF Spec

\* While the socket is open nothing is late, and a read started on the open socket
\* is the one that can still complete.
LateInv ==
    /\ is_connected => late = 0
    /\ read.on = "open" => late = 0
    /\ late <= 1

\* After the socket was closed, by a handler, by remove_client or by an exception in
\* start(), at most one message still reaches the User.
THEOREM LateMessages == Spec => []AtMostOneLate
<1>1. Init => LateInv
  BY DEF Init, LateInv, NoRead
<1>2. TypeOK /\ LateInv /\ [Next]_vars => LateInv'
  <2> SUFFICES ASSUME TypeOK, LateInv, [Next]_vars PROVE LateInv'
    OBVIOUS
  <2>0. socket \in {"open", "closed"} /\ late \in Nat
    BY DEF TypeOK
  <2> USE <2>0 DEF lifeVars, writeVars, readVars, peerVars
  <2>1. CASE UNCHANGED <<late, read>> /\ socket' \in {socket, "closed"}
    BY <2>1 DEF LateInv, is_connected
  <2>2. ASSUME NEW part, async_read(part) PROVE read'.on = socket
    BY <2>2 DEF async_read
  <2>3. CASE start
    BY <2>2, <2>3 DEF start, async_handshake, HandshakeSucceeded, LateInv, is_connected
  <2>4. CASE async_handshake_finished
    BY <2>2, <2>4 DEF async_handshake_finished, HandshakeSucceeded, disconnect, LateInv, is_connected
  <2>5. NoRead.on = "closed"
    BY DEF NoRead
  <2>6. ASSUME NEW m, NEW part, on_message_received(m), read.on = "open", async_read("header"),
               socket' = socket
        PROVE  LateInv'
    BY <2>2, <2>6 DEF on_message_received, LateInv, is_connected
  <2>7. CASE async_read_header_finished
    <3>1. CASE disconnect /\ read' = NoRead /\ late' = late
      BY <2>5, <3>1 DEF disconnect, LateInv, is_connected
    <3>2. ASSUME NEW m, on_message_received(m), async_read("header"), socket' = socket PROVE LateInv'
      BY <2>6, <2>7, <3>2 DEF async_read_header_finished, ReadCompletes
    <3>3. CASE async_read("body") /\ socket' = socket /\ late' = late
      BY <2>2, <3>3 DEF LateInv, is_connected
    <3>4. CASE read' = NoRead /\ socket' = socket /\ late' = late
      BY <2>5, <3>4 DEF LateInv, is_connected
    <3>5. QED
      BY <2>7, <3>1, <3>2, <3>3, <3>4, ZenonT(30) DEF async_read_header_finished, RejectHeader
  <2>8. CASE async_read_body_finished
    BY <2>6, <2>8 DEF async_read_body_finished, ReadCompletes
  <2>9. CASE ReadFails
    BY <2>5, <2>9 DEF ReadFails, disconnect, LateInv, is_connected
  <2>10. CASE WriteHandlers
    BY <2>1, <2>10 DEF WriteHandlers, async_write_header_finished, async_write_body_finished,
                       WriteFails, disconnect
  <2>11. QED
    BY <2>1, <2>3, <2>4, <2>7, <2>8, <2>9, <2>10, ZenonT(30)
       DEF Next, ReadHandlers, vars, StartThrows, Destroy, HandlerOnDestroyed, send_message,
           Sending, start_writing_message, StartCondition, SetWriting, WriteHeader, TestMore,
           ClearWriting, add_accepted_message, PeerSends
<1>3. LateInv => AtMostOneLate
  BY DEF LateInv, AtMostOneLate
<1>4. QED
  BY <1>1, <1>2, <1>3, TypeCorrect, PTL DEF Spec
-------------------------------------------------------------------------------
(***************************************************************************)
(* The order of the messages.                                              *)
(***************************************************************************)
\* The chunks that are not read yet follow each other, to the end of the last message.
StreamInOrder ==
    /\ \A i \in 1 .. Len(inbound) - 1 : Follows(inbound[i], inbound[i + 1])
    /\ inbound # <<>> =>
           LET c == inbound[Len(inbound)] IN c.part = LastPart(c.msg) /\ c.msg.num = arrived

\* The stream continues with the header of the message after those of the User.
HeaderNext ==
    IF inbound = <<>> THEN Len(in_queue) = arrived
    ELSE inbound[1].part = "header" /\ inbound[1].msg.num = Len(in_queue) + 1

\* It continues with the body of the message whose header was read.
BodyNext ==
    /\ m_received_message # <<>> /\ inbound # <<>>
    /\ inbound[1] = [part |-> "body", msg |-> m_received_message[1]]
    /\ m_received_message[1].num = Len(in_queue) + 1
    /\ m_received_message[1].head.size > 0

OrderInv ==
    /\ StreamInOrder
    /\ \A i \in 1 .. Len(in_queue) : in_queue[i].num = i
    /\ AwaitsHeader => HeaderNext
    /\ read.part = "body" => BodyNext

\* Reading a chunk leaves the stream in order: what comes next follows it.
LEMMA ReadChunk ==
    ASSUME inbound \in Seq(Chunk), inbound # <<>>, StreamInOrder, inbound' = Tail(inbound),
           arrived' = arrived
    PROVE  /\ StreamInOrder'
           /\ IF inbound' = <<>>
              THEN inbound[1].part = LastPart(inbound[1].msg) /\ inbound[1].msg.num = arrived
              ELSE Follows(inbound[1], inbound'[1])
<1>1. PICK u : u = inbound'
  OBVIOUS
<1>2. /\ Len(inbound) \in Nat \ {0} /\ u \in Seq(Chunk) /\ Len(u) = Len(inbound) - 1
      /\ \A i \in 1 .. Len(u) : u[i] = inbound[i + 1]
  BY <1>1, SeqTail, SeqLen, SeqEmpty
<1>3. \A i \in 1 .. Len(inbound) - 1 : Follows(inbound[i], inbound[i + 1])
  BY DEF StreamInOrder
<1>4. ASSUME NEW i \in 1 .. Len(u) - 1 PROVE Follows(u[i], u[i + 1])
  <2>1. i + 1 \in 1 .. Len(inbound) - 1 /\ i \in 1 .. Len(u) /\ i + 1 \in 1 .. Len(u)
    BY <1>2
  <2>2. u[i] = inbound[i + 1] /\ u[i + 1] = inbound[(i + 1) + 1]
    BY <1>2, <2>1
  <2>3. QED
    BY <1>3, <2>1, <2>2
<1>5. CASE u = <<>>
  <2>1. Len(inbound) = 1
    BY <1>2, <1>5
  <2>2. inbound[1].part = LastPart(inbound[1].msg) /\ inbound[1].msg.num = arrived
    BY <2>1 DEF StreamInOrder
  <2>3. StreamInOrder'
    <3>1. \A i \in 1 .. Len(inbound') - 1 : Follows(inbound'[i], inbound'[i + 1])
      BY <1>1, <1>4, ZenonT(30)
    <3>2. QED
      BY <1>1, <1>5, <3>1, ZenonT(30) DEF StreamInOrder, Follows, LastPart
  <2>4. QED
    BY <1>1, <1>5, <2>2, <2>3, ZenonT(30)
<1>6. CASE u # <<>>
  <2>1. Len(u) \in 1 .. Len(u) /\ Len(u) + 1 = Len(inbound)
    BY <1>2, <1>6, SeqEmpty
  <2>2. u[Len(u)] = inbound[Len(inbound)]
    BY <1>2, <2>1
  <2>3. 1 \in 1 .. Len(inbound) - 1 /\ 1 \in 1 .. Len(u)
    BY <1>2, <2>1
  <2>4. Follows(inbound[1], u[1])
    BY <1>2, <1>3, <2>3
  <2>5. StreamInOrder'
    <3>1. \A i \in 1 .. Len(inbound') - 1 : Follows(inbound'[i], inbound'[i + 1])
      BY <1>1, <1>4, ZenonT(30)
    <3>2. u[Len(u)].part = LastPart(u[Len(u)].msg) /\ u[Len(u)].msg.num = arrived
      BY <1>2, <2>2 DEF StreamInOrder
    <3>3. QED
      BY <1>1, <3>1, <3>2, ZenonT(30) DEF StreamInOrder, Follows, LastPart
  <2>6. QED
    BY <1>1, <1>6, <2>4, <2>5
<1>7. QED
  BY <1>5, <1>6

\* The peer's next message continues the stream.
LEMMA PeerContinues ==
    ASSUME TypeOK, StreamInOrder, NEW h \in Incoming, PeerSends(h)
    PROVE  /\ StreamInOrder' /\ arrived' = arrived + 1 /\ inbound' # <<>>
           /\ IF inbound = <<>> THEN inbound'[1].part = "header" /\ inbound'[1].msg.num = arrived'
              ELSE inbound'[1] = inbound[1]
<1>1. PICK m : m = [num |-> arrived + 1, head |-> h]
  BY ZenonT(30)
<1>2. /\ arrived \in Nat /\ inbound \in Seq(Chunk) /\ m \in Message /\ h.size \in Nat
      /\ m.num = arrived + 1 /\ m.head = h
  <2>1. arrived \in Nat /\ inbound \in Seq(Chunk) /\ h \in Header
    BY DEF TypeOK
  <2>2. h.size \in Nat
    BY <2>1, ZenonT(30) DEF Header
  <2>3. m \in Message
    BY <1>1, <2>1 DEF Message
  <2>4. QED
    BY <1>1, <2>1, <2>2, <2>3
<1>3. PICK c : c = [part |-> "header", msg |-> m]
  BY ZenonT(30)
<1>4. PICK d : d = [part |-> "body", msg |-> m]
  BY ZenonT(30)
<1>5. arrived' = arrived + 1 /\ inbound' = inbound \o (IF h.size = 0 THEN <<c>> ELSE <<c, d>>)
  BY <1>1, <1>3, <1>4 DEF PeerSends
<1>6. PICK n \in Nat : n = Len(inbound)
  BY <1>2, SeqLen
<1>7. c \in Chunk /\ d \in Chunk
  BY <1>2, <1>3, <1>4, ZenonT(30) DEF Chunk
<1>8. PICK u : u = inbound'
  OBVIOUS
<1>9. PICK k \in {1, 2} :
         /\ Len(u) = n + k /\ u[n + 1] = c
         /\ \A i \in 1 .. n : u[i] = inbound[i]
         /\ u[n + k].part = LastPart(m) /\ u[n + k].msg = m
         /\ k = 2 => u[n + 2] = d /\ LastPart(m) = "body"
  <2>1. CASE h.size = 0
    <3>1. Len(u) = n + 1 /\ u[n + 1] = c /\ \A i \in 1 .. n : u[i] = inbound[i]
      BY <1>2, <1>5, <1>6, <1>7, <1>8, <2>1
    <3>2. c.part = LastPart(m) /\ c.msg = m
      BY <1>2, <1>3, <2>1 DEF LastPart
    <3>3. QED
      BY <3>1, <3>2
  <2>2. CASE h.size # 0
    <3>1. /\ Len(u) = n + 2 /\ u[n + 1] = c /\ u[n + 2] = d
          /\ \A i \in 1 .. n : u[i] = inbound[i]
      BY <1>2, <1>5, <1>6, <1>7, <1>8, <2>2
    <3>2. d.part = LastPart(m) /\ d.msg = m /\ LastPart(m) = "body"
      BY <1>2, <1>4, <2>2 DEF LastPart
    <3>3. QED
      BY <3>1, <3>2
  <2>3. QED
    BY <2>1, <2>2, ZenonT(30)
<1>10. ASSUME NEW i \in 1 .. Len(u) - 1 PROVE Follows(u[i], u[i + 1])
  <2>1. CASE i + 1 \in 1 .. n
    <3>1. i \in 1 .. Len(inbound) - 1 /\ i \in 1 .. n
      BY <1>6, <2>1
    <3>2. Follows(inbound[i], inbound[i + 1])
      BY <3>1 DEF StreamInOrder
    <3>3. QED
      BY <1>9, <2>1, <3>1, <3>2
  <2>2. CASE i = n
    <3>1. inbound # <<>> /\ n \in 1 .. n
      BY <1>6, <2>2
    <3>2. u[i].part = LastPart(u[i].msg) /\ u[i].msg.num = arrived
      BY <1>6, <1>9, <2>2, <3>1 DEF StreamInOrder
    <3>3. u[i + 1].part = "header" /\ u[i + 1].msg.num = arrived + 1
      BY <1>2, <1>3, <1>9, <2>2
    <3>4. QED
      BY <3>2, <3>3 DEF Follows
  <2>3. CASE i = n + 1
    <3>1. k = 2 /\ u[i] = c /\ u[i + 1] = d /\ LastPart(m) = "body"
      BY <1>9, <2>3
    <3>2. u[i].part = "header" /\ u[i].msg = m
      BY <1>3, <3>1
    <3>3. u[i + 1] = [part |-> "body", msg |-> u[i].msg]
      BY <1>4, <3>1, <3>2, ZenonT(30)
    <3>4. u[i].part # LastPart(u[i].msg)
      BY <3>1, <3>2
    <3>5. QED
      BY <3>3, <3>4, ZenonT(30) DEF Follows
  <2>4. QED
    BY <1>9, <2>1, <2>2, <2>3
<1>11. StreamInOrder'
  <2>1. u[Len(u)].part = LastPart(u[Len(u)].msg) /\ u[Len(u)].msg.num = arrived + 1
    BY <1>2, <1>9
  <2>2. QED
    BY <1>5, <1>8, <1>10, <2>1, ZenonT(30) DEF StreamInOrder, Follows, LastPart
<1>12. u # <<>>
  BY <1>9
<1>13. CASE inbound = <<>>
  <2>1. n = 0
    BY <1>6, <1>13
  <2>2. u[1].part = "header" /\ u[1].msg.num = arrived + 1
    BY <1>2, <1>3, <1>9, <2>1
  <2>3. QED
    BY <1>5, <1>8, <1>11, <1>12, <1>13, <2>2
<1>14. CASE inbound # <<>>
  <2>1. 1 \in 1 .. n
    BY <1>2, <1>6, <1>14, SeqEmpty
  <2>2. QED
    BY <1>5, <1>8, <1>9, <1>11, <1>12, <1>14, <2>1
<1>15. QED
  BY <1>13, <1>14

LEMMA OrderStep ==
    ASSUME TypeOK, HandshakeOnce, OrderInv, [Next]_vars
    PROVE  OrderInv'
<1>0. /\ inbound \in Seq(Chunk) /\ in_queue \in Seq(Message)
      /\ arrived \in Nat /\ Len(in_queue) \in Nat /\ HeaderKept
  <2>1. inbound \in Seq(Chunk) /\ in_queue \in Seq(Message) /\ arrived \in 0 .. MaxReceives
    BY ZenonT(30) DEF TypeOK
  <2>2. Len(in_queue) \in Nat /\ arrived \in Nat
    BY <2>1, SeqLen
  <2>3. HeaderKept
    BY ZenonT(30) DEF OrderInv, BodyNext, HeaderKept
  <2>4. QED
    BY <2>1, <2>2, <2>3
<1>1. CASE NothingRead
  BY <1>1 DEF NothingRead, OrderInv, StreamInOrder, HeaderNext, BodyNext, Follows, LastPart
<1>2. ASSUME NEW part, Takes(part)
      PROVE  /\ StreamInOrder' /\ inbound # <<>> /\ inbound[1].part = part
             /\ read.part = part /\ arrived' = arrived
             /\ IF inbound' = <<>>
                THEN inbound[1].part = LastPart(inbound[1].msg) /\ inbound[1].msg.num = arrived
                ELSE Follows(inbound[1], inbound'[1])
  BY <1>0, <1>2, ReadChunk DEF OrderInv, Takes
<1>3. CASE HeaderEndsReading
  BY <1>2, <1>3 DEF HeaderEndsReading, OrderInv
<1>4. ASSUME NEW m \in Message, HeaderRead(m) PROVE OrderInv'
  <2>1. Takes("header") /\ inbound[1].msg = m /\ m.head.size > 0 /\ in_queue' = in_queue
    BY <1>4 DEF HeaderRead
  <2>2. inbound[1].part # LastPart(m)
    BY <1>2, <2>1 DEF LastPart
  <2>3. inbound' # <<>> /\ inbound'[1] = [part |-> "body", msg |-> m]
    BY <1>2, <2>1, <2>2 DEF Follows
  <2>4. m.num = Len(in_queue) + 1
    BY <1>2, <2>1 DEF OrderInv, HeaderNext, AwaitsHeader
  <2>5. BodyNext'
    BY <1>4, <2>1, <2>3, <2>4 DEF HeaderRead, BodyNext
  <2>6. QED
    BY <1>2, <1>4, <2>1, <2>5 DEF HeaderRead, OrderInv
<1>5. ASSUME NEW m \in Message, MessageRead(m) PROVE OrderInv'
  <2>1. PICK part : /\ Takes(part) /\ inbound[1].msg = m /\ part = LastPart(m)
                    /\ m.num = Len(in_queue) + 1
    <3>1. CASE Takes("header") /\ inbound[1].msg = m /\ m.head.size = 0
      BY <1>2, <3>1 DEF OrderInv, HeaderNext, AwaitsHeader, LastPart
    <3>2. CASE Takes("body") /\ m = m_received_message[1]
      BY <1>2, <3>2 DEF OrderInv, BodyNext, LastPart
    <3>3. QED
      BY <1>5, <3>1, <3>2 DEF MessageRead
  <2>2. PICK u : u = in_queue' /\ u = Append(in_queue, m)
    BY <1>5 DEF MessageRead
  <2>3. /\ Len(u) = Len(in_queue) + 1
        /\ \A i \in 1 .. Len(in_queue) : u[i] = in_queue[i]
        /\ u[Len(in_queue) + 1] = m
    BY <1>0, <2>2
  <2>4. \A i \in 1 .. Len(in_queue) : in_queue[i].num = i
    BY DEF OrderInv
  <2>5. \A i \in 1 .. Len(u) : u[i].num = i
    BY <1>0, <2>1, <2>3, <2>4
  <2>6. HeaderNext'
    <3>1. CASE inbound' = <<>>
      BY <1>2, <2>1, <2>2, <2>3, <3>1 DEF HeaderNext
    <3>2. CASE inbound' # <<>>
      BY <1>2, <2>1, <2>2, <2>3, <3>2 DEF HeaderNext, Follows
    <3>3. QED
      BY <3>1, <3>2
  <2>7. QED
    BY <1>2, <1>5, <2>1, <2>2, <2>5, <2>6 DEF MessageRead, OrderInv
<1>6. ASSUME NEW h \in Incoming, PeerSends(h) PROVE OrderInv'
  <2>1. UNCHANGED <<read, m_received_message, in_queue, started, handshake>>
    BY <1>6 DEF PeerSends, lifeVars
  <2>2. /\ StreamInOrder' /\ arrived' = arrived + 1 /\ inbound' # <<>>
        /\ IF inbound = <<>> THEN inbound'[1].part = "header" /\ inbound'[1].msg.num = arrived'
           ELSE inbound'[1] = inbound[1]
    BY <1>6, PeerContinues DEF OrderInv
  <2>3. HeaderNext => HeaderNext'
    BY <1>0, <2>1, <2>2 DEF HeaderNext
  <2>4. BodyNext => BodyNext'
    BY <2>1, <2>2 DEF BodyNext
  <2>5. QED
    BY <2>1, <2>2, <2>3, <2>4 DEF OrderInv, AwaitsHeader
<1>7. Aligned
  BY ZenonT(30) DEF Aligned, OrderInv, AwaitsHeader, HeaderNext, BodyNext
<1>8. QED
  BY <1>0, <1>1, <1>3, <1>4, <1>5, <1>6, <1>7, ReadSteps

\* The messages reach the User in the order in which the peer sent them, none skipped or
\* repeated, and a body is always read for the header it belongs to: whatever is rejected,
\* closed or destroyed in between, and for messages of any number and size.
THEOREM ReadingInOrder == Spec => []InboundFifo
<1>1. Init => OrderInv
  <2> SUFFICES ASSUME Init PROVE OrderInv
    OBVIOUS
  <2>1. inbound = <<>> /\ in_queue = <<>> /\ arrived = 0 /\ read.part = "none"
    BY NoReadType DEF Init
  <2>2. StreamInOrder /\ HeaderNext
    BY <2>1 DEF StreamInOrder, HeaderNext
  <2>3. QED
    BY <2>1, <2>2 DEF OrderInv
<1>2. TypeOK /\ OrderInv => InboundFifo
  <2> SUFFICES ASSUME TypeOK, OrderInv PROVE InboundFifo
    OBVIOUS
  <2>1. BodyNext => Head(inbound) = inbound[1] /\ Head(m_received_message) = m_received_message[1]
    <3>1. inbound \in Seq(Chunk) /\ m_received_message \in Seq(Message)
      BY ZenonT(30) DEF TypeOK
    <3>2. BodyNext => inbound # <<>> /\ m_received_message # <<>>
      BY ZenonT(30) DEF BodyNext
    <3>3. QED
      BY <3>1, <3>2, SeqTail
  <2>2. QED
    BY <2>1 DEF OrderInv, InboundFifo, BodyNext
<1>3. QED
  BY <1>1, <1>2, OrderStep, TypeCorrect, HandshakeOnceHolds, PTL DEF Spec
===============================================================================
