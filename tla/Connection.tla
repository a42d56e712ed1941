------------------------------ MODULE Connection ------------------------------
(***************************************************************************)
(* One Net::Connection (Connection.h) over one Template_socket (Socket.h), *)
(* from the moment create_connection (User.h) has constructed it until it  *)
(* is destroyed.                                                           *)
(*                                                                         *)
(* Two threads touch it.  The Asio thread runs the completion handlers,    *)
(* one after the other.  The user's thread is the one that calls update()  *)
(* and the send functions of Server and Client, and so send_message: the   *)
(* comment of send_message asks for the Asio thread, and no caller obeys.  *)
(* The members they share,                                                 *)
(* m_out_queue, m_is_writing_message and m_has_done_handshake, are read    *)
(* and written one access per step: only the deque has a lock of its own.  *)
(*                                                                         *)
(* A message is its header plus a number that tells messages apart; a body *)
(* is a chunk of the stream that carries the message it belongs to.        *)
(***************************************************************************)
EXTENDS Integers, Sequences

CONSTANTS
    Ids,          \* the user's message ids (Id_type)
    Sizes,        \* the values of m_size and of the limits
    Outgoing,     \* the headers of the messages this side sends
    Incoming,     \* the headers the peer sends
    Ssl,          \* is the socket a Template_socket<Ssl_socket>?
    Starter,      \* thread of create_connection: "user" (Server), "asio" (Client)
    FirstSend,    \* "start": setup_client sends right after start() (Server);
                  \* "server_accept": only after m_on_connected (Client)
    MaxSends,     \* bound: calls of send_message
    MaxReceives   \* bound: messages the peer sends

Threads == {"user", "asio"}

\* Message_header (Message_header.h), its fields without the prefix m_.
Header == [key: {"correct", "wrong"}, internal_id: {"not_internal", "server_accept"},
           id: Ids, size: Sizes]

Message == [num: Nat, head: Header]

\* Message_limits (Connection.h).
Limits == [m_min: Sizes, m_max: Sizes]

\* The maps from accepted ids to their limits (Accepted_messages_container, User.h).
AcceptedMessages == UNION {[S -> Limits] : S \in SUBSET Ids}

ASSUME ConnectionAssumption ==
    /\ Sizes \subseteq Nat
    /\ Outgoing \subseteq Header
    /\ Incoming \subseteq Header
    /\ Ssl \in BOOLEAN
    /\ Starter \in Threads
    /\ FirstSend \in {"start", "server_accept"}
    /\ MaxSends \in Nat
    /\ MaxReceives \in Nat

VARIABLES
    started,                \* has start() run?
    socket,                 \* is m_socket "open" or "closed"?
    alive,                  \* has the Connection not been destroyed yet?
    fault,                  \* why the program has stopped, or "none"
    pc,                     \* what each thread does next in this object
    handshake,              \* is an async_handshake outstanding?
    m_has_done_handshake,
    m_is_writing_message,
    m_out_queue,
    writes,                 \* the outstanding async_writes
    outbound,               \* the chunks written to the stream so far
    sent,                   \* how many messages send_message was given
    read,                   \* the outstanding async_read
    m_received_message,     \* <<m>> once the header of m is read, else <<>>
    inbound,                \* the chunks of the peer not read yet
    arrived,                \* how many messages the peer has sent
    m_accepted_messages,    \* the map shared with the User
    in_queue,               \* messages given to User::on_message_received
    late                    \* how many of them after the socket was closed

lifeVars == <<started, socket, alive, fault, handshake>>
writeVars == <<m_is_writing_message, m_out_queue, writes, outbound, sent>>
readVars == <<read, m_received_message, inbound, in_queue, late>>
peerVars == <<arrived, m_accepted_messages>>
vars == <<lifeVars, pc, m_has_done_handshake, writeVars, readVars, peerVars>>

Chunk == [part: {"header", "body"}, msg: Message]

\* An outstanding operation, with the state of the socket when it was started.
WriteOp == [part: {"header", "body"}, msg: Message, on: {"open", "closed"}]
ReadOp == [part: {"none", "header", "body"}, on: {"open", "closed"}]

NoRead == [part |-> "none", on |-> "closed"]

\* The steps of start_writing_message, and those that end a write handler.
StartSteps == {"test_empty", "test_writing", "test_handshake", "set_writing",
               "write_header"}
FinishSteps == {"test_more", "clear_writing"}

Faults == {"none", "terminate", "empty_front", "destroyed"}

TypeOK ==
    /\ started \in BOOLEAN
    /\ socket \in {"open", "closed"}
    /\ alive \in BOOLEAN
    /\ fault \in Faults
    /\ pc \in [Threads -> {"idle"} \cup StartSteps \cup FinishSteps]
    /\ pc["user"] \notin FinishSteps
    /\ handshake \in BOOLEAN
    /\ m_has_done_handshake \in BOOLEAN
    /\ m_is_writing_message \in BOOLEAN
    /\ m_out_queue \in Seq(Message)
    /\ writes \in Seq(WriteOp)
    /\ outbound \in Seq(Chunk)
    /\ sent \in 0 .. MaxSends
    /\ read \in ReadOp
    /\ m_received_message \in Seq(Message)
    /\ inbound \in Seq(Chunk)
    /\ arrived \in 0 .. MaxReceives
    /\ m_accepted_messages \in AcceptedMessages
    /\ in_queue \in Seq(Message)
    /\ late \in Nat
-------------------------------------------------------------------------------
\* create_connection has built the object around a connected socket, set its
\* two delegates and given it the accepted messages; start() comes next.
Init ==
    /\ started = FALSE
    /\ socket = "open"
    /\ alive = TRUE
    /\ fault = "none"
    /\ pc = [t \in Threads |-> "idle"]
    /\ handshake = FALSE
    /\ m_has_done_handshake = FALSE
    /\ m_is_writing_message = FALSE
    /\ m_out_queue = <<>>
    /\ writes = <<>>
    /\ outbound = <<>>
    /\ sent = 0
    /\ read = NoRead
    /\ m_received_message = <<>>
    /\ inbound = <<>>
    /\ arrived = 0
    /\ m_accepted_messages \in AcceptedMessages
    /\ in_queue = <<>>
    /\ late = 0

is_connected == socket = "open"

Running == fault = "none" /\ alive

\* Thread t is in none of the functions of this object.
Idle(t) == Running /\ pc[t] = "idle"

GoTo(t, step) == pc' = [pc EXCEPT ![t] = step]

Remove(s, i) == SubSeq(s, 1, i - 1) \o SubSeq(s, i + 1, Len(s))
-------------------------------------------------------------------------------
\* Variant of disconnect that shuts the socket down and forgets to close it.
DisconnectHalf ==
    \/ ~is_connected /\ UNCHANGED <<socket, fault>>
    \/ is_connected /\ socket' = "shut_down" /\ fault' = fault

\* Connection::disconnect and Template_socket::disconnect, called by a handler.
\* shutdown is the overload that throws when the peer has already reset the
\* connection; nothing catches an exception on the Asio thread.
disconnect ==
    \/ ~is_connected /\ UNCHANGED <<socket, fault>>
    \/ is_connected /\ socket' = "closed" /\ fault' = fault
    \/ is_connected /\ socket' = socket /\ fault' = "terminate"

\* Variants of async_read: one goes on reading what arrived before the close, the other
\* reads a header where a body was announced.
ReadOnClosed(part) == read' = [part |-> part, on |-> "open"]
ReadHeaderAlways(part) == read' = [part |-> "header", on |-> socket]

\* async_read_header and async_read_body: on a closed socket they only fail.
async_read(part) == read' = [part |-> part, on |-> socket]

\* Variant of async_write with back() for front().
WriteLast(part, others) ==
    writes' = Append(others, [part |-> part, msg |-> m_out_queue[Len(m_out_queue)], on |-> socket])

\* async_write_header and async_write_body of out_message(): front() of the
\* queue, which must not be empty.
async_write(part, others) ==
    writes' = Append(others, [part |-> part, msg |-> Head(m_out_queue), on |-> socket])

\* The part of async_handshake_finished before start_writing_message.
HandshakeSucceeded ==
    /\ m_has_done_handshake' = TRUE
    /\ async_read("header")

\* A plain socket completes the handshake inside the call; m_out_queue is still empty
\* then, so start_writing_message does nothing.
async_handshake ==
    IF Ssl
    THEN handshake' = TRUE /\ UNCHANGED <<m_has_done_handshake, read>>
    ELSE handshake' = FALSE /\ HandshakeSucceeded

\* Connection::start on the thread that creates the connection.
start ==
    /\ Idle(Starter) /\ ~started /\ is_connected
    /\ started' = TRUE
    /\ async_handshake
    /\ UNCHANGED <<socket, alive, fault, pc, writeVars, m_received_message, inbound,
                   in_queue, late, peerVars>>

\* remote_endpoint throws in update_ip when the peer is already gone.  On the
\* user's thread the exception leaves update() and the connection, which has
\* nothing outstanding yet, is destroyed; on the Asio thread nothing catches it.
StartThrows ==
    /\ Idle(Starter) /\ ~started /\ is_connected
    /\ started' = TRUE
    /\ IF Starter = "user"
       THEN alive' = FALSE /\ socket' = "closed" /\ fault' = fault
       ELSE alive' = alive /\ socket' = socket /\ fault' = "terminate"
    /\ UNCHANGED <<handshake, pc, m_has_done_handshake, writeVars, readVars, peerVars>>

async_handshake_finished ==
    /\ Idle("asio") /\ handshake
    /\ handshake' = FALSE
    /\ \/ /\ HandshakeSucceeded
          /\ GoTo("asio", "test_empty")
          /\ UNCHANGED <<socket, fault>>
       \/ /\ disconnect
          /\ UNCHANGED <<pc, m_has_done_handshake, read>>
    /\ UNCHANGED <<started, alive, writeVars, m_received_message, inbound,
                   in_queue, late, peerVars>>

\* The Connection is destroyed; the socket closes and every outstanding operation is
\* aborted.  On a server remove_client erases the client, on the user's thread and after
\* the send_message of setup_client.  A client resets m_connection in disconnect(), when
\* the Asio thread has ended, or its connect handler replaces it, between two handlers.
Destroy ==
    /\ Running /\ started
    /\ \/ Starter = "user" /\ pc["user"] = "idle" /\ sent > 0
       \/ Starter = "asio" /\ pc["asio"] = "idle"
    /\ alive' = FALSE
    /\ socket' = "closed"
    /\ UNCHANGED <<started, fault, handshake, pc, m_has_done_handshake, writeVars,
                   readVars, peerVars>>

\* The handler of an operation, or the rest of the function that one of the threads is in,
\* uses the socket and the connection, which are gone.
HandlerOnDestroyed ==
    /\ ~alive /\ fault = "none"
    /\ \/ handshake \/ read # NoRead \/ writes # <<>>
       \/ \E t \in Threads : pc[t] # "idle"
    /\ fault' = "destroyed"
    /\ UNCHANGED <<started, socket, alive, handshake, pc, m_has_done_handshake,
                   writeVars, readVars, peerVars>>
-------------------------------------------------------------------------------
(***************************************************************************)
(* Writing.                                                                *)
(***************************************************************************)
\* A server sends from setup_client on.  The user of a client waits, as asked to,
\* for m_on_connected, which update() broadcasts when it has received server_accept.
MaySend ==
    /\ started
    /\ FirstSend = "server_accept" =>
           \E i \in 1 .. Len(in_queue) : in_queue[i].head.internal_id = "server_accept"

\* send_message: push_back, which locks the queue; then start_writing_message.
send_message ==
    /\ Idle("user") /\ MaySend
    /\ sent < MaxSends
    /\ sent' = sent + 1
    /\ \E h \in Outgoing : m_out_queue' = Append(m_out_queue, [num |-> sent + 1, head |-> h])
    /\ GoTo("user", "test_empty")
    /\ UNCHANGED <<lifeVars, m_has_done_handshake, m_is_writing_message, writes, outbound,
                   readVars, peerVars>>

\* The three conditions of start_writing_message, evaluated left to right, each
\* with the next step when it holds.
StartCondition(t, step, condition, next) ==
    /\ Running /\ pc[t] = step
    /\ GoTo(t, IF condition THEN next ELSE "idle")
    /\ UNCHANGED <<lifeVars, m_has_done_handshake, writeVars, readVars, peerVars>>

\* Variant of start_writing_message without the test of m_is_writing_message.
StartWhileWriting(t) ==
    \/ StartCondition(t, "test_empty", m_out_queue # <<>>, "test_writing")
    \/ StartCondition(t, "test_writing", TRUE, "test_handshake")
    \/ StartCondition(t, "test_handshake", m_has_done_handshake, "set_writing")

start_writing_message(t) ==
    \/ StartCondition(t, "test_empty", m_out_queue # <<>>, "test_writing")
    \/ StartCondition(t, "test_writing", ~m_is_writing_message, "test_handshake")
    \/ StartCondition(t, "test_handshake", m_has_done_handshake, "set_writing")

\* m_is_writing_message = true
SetWriting(t) ==
    /\ Running /\ pc[t] = "set_writing"
    /\ m_is_writing_message' = TRUE
    /\ GoTo(t, "write_header")
    /\ UNCHANGED <<lifeVars, m_has_done_handshake, m_out_queue, writes, outbound, sent,
                   readVars, peerVars>>

\* async_write_header of the front of the queue.
WriteHeader(t) ==
    /\ Running /\ pc[t] = "write_header"
    /\ GoTo(t, "idle")
    /\ \/ m_out_queue # <<>> /\ async_write("header", writes) /\ fault' = fault
       \/ m_out_queue = <<>> /\ fault' = "empty_front" /\ UNCHANGED writes
    /\ UNCHANGED <<started, socket, alive, handshake, m_has_done_handshake,
                   m_is_writing_message, m_out_queue, outbound, sent, readVars, peerVars>>

\* The i-th outstanding write completes: its chunk is in the stream and the Asio
\* thread runs its handler.
WriteCompletes(i, part) ==
    /\ Idle("asio")
    /\ writes[i].part = part /\ writes[i].on = "open"
    /\ outbound' = Append(outbound, [part |-> part, msg |-> writes[i].msg])

\* Variant of PopWritten with pop_back for pop_front.
PopBack(i) ==
    /\ m_out_queue' = SubSeq(m_out_queue, 1, Len(m_out_queue) - 1)
    /\ writes' = Remove(writes, i)
    /\ GoTo("asio", "test_more")
    /\ fault' = fault

\* pop_front; what follows depends on whether the queue is empty now.
PopWritten(i) ==
    /\ m_out_queue' = Tail(m_out_queue)
    /\ writes' = Remove(writes, i)
    /\ GoTo("asio", "test_more")
    /\ fault' = fault

\* front() or pop_front() of an empty deque.
PopEmpty ==
    /\ m_out_queue = <<>>
    /\ fault' = "empty_front"
    /\ UNCHANGED <<m_out_queue, writes, pc>>

async_write_header_finished(i) ==
    /\ WriteCompletes(i, "header")
    /\ \/ /\ m_out_queue # <<>> /\ Head(m_out_queue).head.size > 0
          /\ async_write("body", Remove(writes, i))
          /\ UNCHANGED <<m_out_queue, pc, fault>>
       \/ /\ m_out_queue # <<>> /\ Head(m_out_queue).head.size = 0
          /\ PopWritten(i)
       \/ PopEmpty
    /\ UNCHANGED <<started, socket, alive, handshake, m_has_done_handshake,
                   m_is_writing_message, sent, readVars, peerVars>>

async_write_body_finished(i) ==
    /\ WriteCompletes(i, "body")
    /\ \/ m_out_queue # <<>> /\ PopWritten(i)
       \/ PopEmpty
    /\ UNCHANGED <<started, socket, alive, handshake, m_has_done_handshake,
                   m_is_writing_message, sent, readVars, peerVars>>

\* Variant of WriteFails that drops the message that could not be written.
WriteFailsPops(i) ==
    /\ Idle("asio") /\ m_out_queue # <<>>
    /\ writes' = Remove(writes, i)
    /\ m_out_queue' = Tail(m_out_queue)
    /\ disconnect
    /\ UNCHANGED <<started, alive, handshake, pc, m_has_done_handshake,
                   m_is_writing_message, outbound, sent, readVars, peerVars>>

\* Either write handler with an error: the stream broke or the socket is closed.
WriteFails(i) ==
    /\ Idle("asio")
    /\ writes' = Remove(writes, i)
    /\ disconnect
    /\ UNCHANGED <<started, alive, handshake, pc, m_has_done_handshake,
                   m_is_writing_message, m_out_queue, outbound, sent, readVars, peerVars>>

\* Variant of TestMore that does not test the queue before it writes the next message.
TestMoreUntested ==
    /\ Running /\ pc["asio"] = "test_more"
    /\ \/ m_out_queue # <<>> /\ async_write("header", writes) /\ fault' = fault
       \/ m_out_queue = <<>> /\ fault' = "empty_front" /\ UNCHANGED writes
    /\ GoTo("asio", "idle")
    /\ UNCHANGED <<started, socket, alive, handshake, m_has_done_handshake,
                   m_is_writing_message, m_out_queue, outbound, sent, readVars, peerVars>>

\* The rest of a write handler that popped: the next message, or the end of writing.
TestMore ==
    /\ Running /\ pc["asio"] = "test_more"
    /\ \/ /\ m_out_queue # <<>>
          /\ async_write("header", writes)
          /\ GoTo("asio", "idle")
       \/ /\ m_out_queue = <<>>
          /\ GoTo("asio", "clear_writing")
          /\ UNCHANGED writes
    /\ UNCHANGED <<lifeVars, m_has_done_handshake, m_is_writing_message, m_out_queue,
                   outbound, sent, readVars, peerVars>>

\* Variant of ClearWriting that forgets the flag.
ClearForgets ==
    /\ Running /\ pc["asio"] = "clear_writing"
    /\ GoTo("asio", "idle")
    /\ UNCHANGED <<lifeVars, m_has_done_handshake, writeVars, readVars, peerVars>>

\* m_is_writing_message = false
ClearWriting ==
    /\ Running /\ pc["asio"] = "clear_writing"
    /\ m_is_writing_message' = FALSE
    /\ GoTo("asio", "idle")
    /\ UNCHANGED <<lifeVars, m_has_done_handshake, m_out_queue, writes, outbound, sent,
                   readVars, peerVars>>
-------------------------------------------------------------------------------
(***************************************************************************)
(* Reading: only handlers of the Asio thread, each one step.               *)
(***************************************************************************)
\* m_accepted_messages is never null: create_connection has set it.
validate_header(h) ==
    /\ h.key = "correct"
    /\ \/ h.internal_id # "not_internal"
       \/ /\ h.id \in DOMAIN m_accepted_messages
          /\ h.size >= m_accepted_messages[h.id].m_min
          /\ h.size <= m_accepted_messages[h.id].m_max

\* on_message_received: the message goes to the User, a fresh one is received.
on_message_received(m) ==
    /\ in_queue' = Append(in_queue, m)
    /\ m_received_message' = <<>>
    /\ late' = IF is_connected THEN late ELSE late + 1

\* The outstanding read completes with the next chunk in the stream, whatever it is.
ReadCompletes(part) ==
    /\ Idle("asio")
    /\ read.part = part /\ read.on = "open"
    /\ inbound # <<>>
    /\ inbound' = Tail(inbound)

\* What a chunk is to the handler that reads it.  A body read as a header may be any
\* header, and what is read instead of the right body is some other one: then it is
\* message 0, which nobody sent.
ReadHeader(chunk) == IF chunk.part = "header" THEN {chunk.msg} ELSE [num: {0}, head: Header]
ReadBody(m, chunk) ==
    IF chunk = [part |-> "body", msg |-> m] THEN m ELSE [m EXCEPT !.num = 0]

\* Variant of RejectHeader without the return: the handler goes on with the message.
RejectGoesOn(m) ==
    /\ ~validate_header(m.head) /\ m.head.size = 0
    /\ disconnect
    /\ on_message_received(m)
    /\ read' = [part |-> "header", on |-> socket']

\* The header failed validation.
RejectHeader(m) ==
    /\ ~validate_header(m.head)
    /\ disconnect
    /\ read' = NoRead
    /\ m_received_message' = <<m>>
    /\ UNCHANGED <<in_queue, late>>

\* resize_body throws if there is no memory for a body of the announced size, and
\* nothing catches an exception on the Asio thread.
async_read_header_finished ==
    /\ ReadCompletes("header")
    /\ \E m \in ReadHeader(Head(inbound)) :
       \/ RejectHeader(m)
       \/ /\ validate_header(m.head) /\ m.head.size = 0
          /\ on_message_received(m)
          /\ async_read("header")
          /\ UNCHANGED <<socket, fault>>
       \/ /\ validate_header(m.head) /\ m.head.size > 0
          /\ m_received_message' = <<m>>
          /\ \/ async_read("body") /\ fault' = fault
             \/ read' = NoRead /\ fault' = "terminate"
          /\ UNCHANGED <<socket, in_queue, late>>
    /\ UNCHANGED <<started, alive, handshake, pc, m_has_done_handshake, writeVars, peerVars>>

async_read_body_finished ==
    /\ ReadCompletes("body")
    /\ on_message_received(ReadBody(Head(m_received_message), Head(inbound)))
    /\ async_read("header")
    /\ UNCHANGED <<lifeVars, pc, m_has_done_handshake, writeVars, peerVars>>

\* Either read handler with an error: end of stream, a reset, or an aborted read.
ReadFails ==
    /\ Idle("asio") /\ read # NoRead
    /\ read' = NoRead
    /\ disconnect
    /\ UNCHANGED <<started, alive, handshake, pc, m_has_done_handshake, writeVars,
                   m_received_message, inbound, in_queue, late, peerVars>>

\* User::add_accepted_message on the user's thread: emplace keeps an entry that
\* is already there.
add_accepted_message(id, limits) ==
    /\ Idle("user")
    /\ m_accepted_messages' =
           [i \in DOMAIN m_accepted_messages \cup {id} |->
              IF i \in DOMAIN m_accepted_messages THEN m_accepted_messages[i] ELSE limits]
    /\ UNCHANGED <<lifeVars, pc, m_has_done_handshake, writeVars, readVars, arrived>>

\* The peer writes a message the way this class does: header, then a body if
\* its size is not 0.
PeerSends(h) ==
    /\ fault = "none" /\ arrived < MaxReceives
    /\ arrived' = arrived + 1
    /\ LET m == [num |-> arrived + 1, head |-> h] IN
       inbound' = inbound \o (IF h.size = 0
                              THEN <<[part |-> "header", msg |-> m]>>
                              ELSE <<[part |-> "header", msg |-> m], [part |-> "body", msg |-> m]>>)
    /\ UNCHANGED <<lifeVars, pc, m_has_done_handshake, writeVars, read, m_received_message,
                   in_queue, late, m_accepted_messages>>
-------------------------------------------------------------------------------
WriteHandlers ==
    \E i \in 1 .. Len(writes) :
        \/ async_write_header_finished(i)
        \/ async_write_body_finished(i)
        \/ WriteFails(i)

ReadHandlers == async_read_header_finished \/ async_read_body_finished \/ ReadFails

Sending(t) == start_writing_message(t) \/ SetWriting(t) \/ WriteHeader(t)

Next ==
    \/ start \/ StartThrows \/ async_handshake_finished
    \/ Destroy \/ HandlerOnDestroyed
    \/ send_message \/ \E t \in Threads : Sending(t)
    \/ WriteHandlers \/ TestMore \/ ClearWriting
    \/ ReadHandlers
    \/ \E id \in Ids, limits \in Limits : add_accepted_message(id, limits)
    \/ \E h \in Incoming : PeerSends(h)

Spec == Init /\ [][Next]_vars
-------------------------------------------------------------------------------
(***************************************************************************)
(* Properties of the writing side.                                         *)
(***************************************************************************)
\* async_write is composed of several writes to the stream, so a second one may
\* only start when the first has completed: start_writing_message and the write
\* handlers together keep at most one outstanding.
OneWriteAtATime == Len(writes) <= 1

\* The part of a message that is written last.
LastPart(m) == IF m.head.size = 0 THEN "header" ELSE "body"

\* Chunk b is what the peer must find in the stream right after chunk a.
Follows(a, b) ==
    IF a.part = LastPart(a.msg)
    THEN b.part = "header" /\ b.msg.num = a.msg.num + 1
    ELSE b = [part |-> "body", msg |-> a.msg]

\* The stream holds the messages in the order of the calls of send_message, none
\* skipped or repeated, each header directly followed by its own body.
OutboundFifo ==
    /\ outbound # <<>> => outbound[1].part = "header" /\ outbound[1].msg.num = 1
    /\ \A i \in 1 .. Len(outbound) - 1 : Follows(outbound[i], outbound[i + 1])

\* The last chunk of the n-th message is in the stream.
IsWritten(n) ==
    \E i \in 1 .. Len(outbound) :
        outbound[i].msg.num = n /\ outbound[i].part = LastPart(outbound[i].msg)

\* A message leaves m_out_queue only after it is completely in the stream: the
\* pop_front of a write handler never drops a message that was not written.
NothingDropped ==
    \A n \in 1 .. sent :
        IsWritten(n) \/ \E i \in 1 .. Len(m_out_queue) : m_out_queue[i].num = n

\* No thread reads the front of, or pops, an empty m_out_queue: start_writing_message
\* starts writing only if there is a message.
NoEmptyFront == fault # "empty_front"

\* Only the start_writing_message of a send_message that raced with the end of a write can
\* find m_out_queue empty at its front().  The handlers, which use front() and pop_front()
\* without a test, always have the message they are writing in the queue.
HandlersFindFront ==
    [][fault' = "empty_front" /\ fault # "empty_front" => WriteHeader("user")]_vars

\* No completion handler runs on a connection that has been destroyed.
NoHandlerOnDestroyed == fault # "destroyed"

\* The Asio thread keeps running handlers and a thread that is inside one of the
\* functions goes on; a write completes or fails as long as the peer reads.
Fairness ==
    /\ WF_vars(start) /\ WF_vars(async_handshake_finished)
    /\ \A t \in Threads : WF_vars(Sending(t))
    /\ WF_vars(WriteHandlers) /\ WF_vars(TestMore \/ ClearWriting)

FairSpec == Spec /\ Fairness

\* Every message given to send_message gets into the stream, unless the
\* connection closes first: send_message sends it.
EverySentIsWritten ==
    \A n \in 1 .. MaxSends :
        (sent >= n) ~> (IsWritten(n) \/ ~is_connected \/ fault # "none")
-------------------------------------------------------------------------------
(***************************************************************************)
(* Properties of the reading side.                                         *)
(***************************************************************************)
\* The messages handed to the User are those of the peer, in order, none skipped
\* or repeated, and none put together from a body taken for a header, or from a header and
\* something that is not its body; and when a header announced a body, the next chunk of
\* the stream is that body.
InboundFifo ==
    /\ \A i \in 1 .. Len(in_queue) : in_queue[i].num = i
    /\ read.part = "body" /\ inbound # <<>> =>
           Head(inbound) = [part |-> "body", msg |-> Head(m_received_message)]

\* A header has the key and, unless it is internal, an accepted id and a size
\* within the limits registered for that id.
Respects(h) ==
    /\ h.key = "correct"
    /\ h.internal_id = "not_internal" =>
           /\ h.id \in DOMAIN m_accepted_messages
           /\ h.size \in m_accepted_messages[h.id].m_min .. m_accepted_messages[h.id].m_max

\* Every message handed to the User respects the limits, also those in force now:
\* add_accepted_message can not change them under messages already received, nor
\* between the header that was validated and the end of its body; and after a header that
\* failed validation the handler does not go on with its message.
AcceptedOnly == \A i \in 1 .. Len(in_queue) : Respects(in_queue[i].head)

\* Once the socket is closed at most one more message, whose last read had
\* already completed, still reaches the User.
AtMostOneLate == late <= 1
===============================================================================
