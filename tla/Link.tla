--------------------------------- MODULE Link ---------------------------------
(***************************************************************************)
(* Two Connections, the server's (a) and the client's (b), each writing    *)
(* into the stream that the other one reads: create_client, setup_client   *)
(* and send_message_to_client of Server.h on one side, the connect handler *)
(* and send_message of Client.h on the other.                              *)
(*                                                                         *)
(* The peer of module Connection, which sends whole messages of its own    *)
(* choice, is here the other Connection: a header may arrive without its   *)
(* body, and either program may stop, close or destroy its Connection      *)
(* while the other goes on.  The stream itself is external.                *)
(***************************************************************************)
EXTENDS Integers, Sequences

CONSTANTS
    Ids,            \* the user's message ids (Id_type)
    MaxSize,        \* bound: sizes of bodies
    ServerSends,    \* bound: messages of the server, server_accept included
    ClientSends     \* bound: messages of the client

ASSUME LinkAssumption ==
    Ids # {} /\ MaxSize \in Nat /\ ServerSends \in Nat /\ ClientSends \in Nat

VARIABLES
    a_started, a_socket, a_alive, a_fault, a_pc, a_handshake, a_done, a_writing,
    a_out_queue, a_writes, a_outbound, a_sent, a_read, a_received_message, a_inbound,
    a_in_queue, a_late,
    b_started, b_socket, b_alive, b_fault, b_pc, b_handshake, b_done, b_writing,
    b_out_queue, b_writes, b_outbound, b_sent, b_read, b_received_message, b_inbound,
    b_in_queue, b_late,
    a_given, b_given      \* the messages given to send_message so far

serverVars == <<a_started, a_socket, a_alive, a_fault, a_pc, a_handshake, a_done, a_writing,
                a_out_queue, a_writes, a_outbound, a_sent, a_read, a_received_message,
                a_in_queue, a_late>>
clientVars == <<b_started, b_socket, b_alive, b_fault, b_pc, b_handshake, b_done, b_writing,
                b_out_queue, b_writes, b_outbound, b_sent, b_read, b_received_message,
                b_in_queue, b_late>>
vars == <<serverVars, a_inbound, a_given, clientVars, b_inbound, b_given>>

\* The header of create_server_accept (Message_converter.h), and those of the user.
Accept == [key |-> "correct", internal_id |-> "server_accept", id |-> CHOOSE i \in Ids : TRUE,
           size |-> MaxSize]
UserHeaders == [key: {"correct"}, internal_id: {"not_internal"}, id: Ids, size: 0 .. MaxSize]

\* Both programs have called add_accepted_message for every id before they connect.
A == INSTANCE Connection WITH
    Sizes <- 0 .. MaxSize, Outgoing <- {Accept} \cup UserHeaders, Incoming <- {},
    Ssl <- FALSE, Starter <- "user", FirstSend <- "start",
    MaxSends <- ServerSends, MaxReceives <- 0, arrived <- 0,
    m_accepted_messages <- [i \in Ids |-> [m_min |-> 0, m_max |-> MaxSize]],
    started <- a_started, socket <- a_socket, alive <- a_alive, fault <- a_fault, pc <- a_pc,
    handshake <- a_handshake, m_has_done_handshake <- a_done,
    m_is_writing_message <- a_writing, m_out_queue <- a_out_queue, writes <- a_writes,
    outbound <- a_outbound, sent <- a_sent, read <- a_read,
    m_received_message <- a_received_message, inbound <- a_inbound, in_queue <- a_in_queue,
    late <- a_late

B == INSTANCE Connection WITH
    Sizes <- 0 .. MaxSize, Outgoing <- UserHeaders, Incoming <- {}, Ssl <- FALSE,
    Starter <- "asio", FirstSend <- "server_accept",
    MaxSends <- ClientSends, MaxReceives <- 0, arrived <- 0,
    m_accepted_messages <- [i \in Ids |-> [m_min |-> 0, m_max |-> MaxSize]],
    started <- b_started, socket <- b_socket, alive <- b_alive, fault <- b_fault, pc <- b_pc,
    handshake <- b_handshake, m_has_done_handshake <- b_done,
    m_is_writing_message <- b_writing, m_out_queue <- b_out_queue, writes <- b_writes,
    outbound <- b_outbound, sent <- b_sent, read <- b_read,
    m_received_message <- b_received_message, inbound <- b_inbound, in_queue <- b_in_queue,
    late <- b_late

Init == A!Init /\ B!Init /\ a_given = <<>> /\ b_given = <<>>

\* What a step of one side adds to a queue or a stream.
Added(before, after) == SubSeq(after, Len(before) + 1, Len(after))

\* A step of the server's Connection.  Its first message is that of setup_client.
Server(step) ==
    /\ step
    /\ b_inbound' = b_inbound \o Added(a_outbound, a_outbound')
    /\ a_given' = IF a_sent' = a_sent THEN a_given ELSE a_given \o Added(a_out_queue, a_out_queue')
    /\ a_sent' # a_sent => (a_given'[a_sent'].head = Accept <=> a_sent' = 1)
    /\ UNCHANGED <<clientVars, b_given>>

\* A step of the client's Connection.
Client(step) ==
    /\ step
    /\ a_inbound' = a_inbound \o Added(b_outbound, b_outbound')
    /\ b_given' = IF b_sent' = b_sent THEN b_given ELSE b_given \o Added(b_out_queue, b_out_queue')
    /\ UNCHANGED <<serverVars, a_given>>

Next == Server(A!Next) \/ Client(B!Next)

Spec == Init /\ [][Next]_vars

\* On both sides the threads go on, a write completes or fails, and a read completes when
\* there is something to read; it need not fail when there is nothing.
FairSpec ==
    /\ Spec
    /\ WF_vars(Server(A!start)) /\ WF_vars(Client(B!start))
    /\ WF_vars(Server(A!Sending("user"))) /\ WF_vars(Client(B!Sending("user")))
    /\ WF_vars(Server(A!WriteHandlers)) /\ WF_vars(Client(B!WriteHandlers))
    /\ WF_vars(Server(A!TestMore \/ A!ClearWriting))
    /\ WF_vars(Client(B!TestMore \/ B!ClearWriting))
    /\ WF_vars(Server(A!async_read_header_finished \/ A!async_read_body_finished))
    /\ WF_vars(Client(B!async_read_header_finished \/ B!async_read_body_finished))
-------------------------------------------------------------------------------
Messages == [num: 1 .. ServerSends + ClientSends, head: {Accept} \cup UserHeaders]

ToClient == INSTANCE Channel WITH given <- a_given, received <- b_in_queue
ToServer == INSTANCE Channel WITH given <- b_given, received <- a_in_queue

\* The connection implements a channel in each direction: whatever the interleaving of
\* the four threads, and wherever a side stops, the other side's User gets the messages
\* of send_message in order, whole, and each of them once.
IsChannel == ToClient!Spec /\ ToServer!Spec

\* One of the sockets is closed, or one of the programs has stopped.
Broken == a_socket = "closed" \/ b_socket = "closed" \/ a_fault # "none" \/ b_fault # "none"

\* One side takes chunks from its stream: a read is outstanding, or the first one is to come.
Reading(started, handshake, read) == read.part # "none" \/ ~started \/ handshake

\* m is in the m_out_queue of the one side, in the stream, or its header has been read.
OnTheWay(m, queue, stream, message) ==
    \/ \E i \in 1 .. Len(queue) : queue[i] = m
    \/ \E i \in 1 .. Len(stream) : stream[i].msg = m
    \/ message # <<>> /\ message[1] = m

\* As long as a side reads, no message for it is lost: what was given to send_message on the
\* other side, and has not reached its User, is still on the way.  Between the pop_front of
\* m_out_queue and on_message_received there is no moment when a message is in no place.
UndeliveredOnTheWay ==
    /\ Reading(b_started, b_handshake, b_read) =>
           \A n \in Len(b_in_queue) + 1 .. Len(a_given) :
               OnTheWay(a_given[n], a_out_queue, b_inbound, b_received_message)
    /\ Reading(a_started, a_handshake, a_read) =>
           \A n \in Len(a_in_queue) + 1 .. Len(b_given) :
               OnTheWay(b_given[n], b_out_queue, a_inbound, a_received_message)

\* There are messages in the queue and nobody writes them, or is about to: they were
\* pushed after a write handler had found the queue empty, and their start_writing_message
\* found m_is_writing_message still set.
LeftBehind(queue, writing, pc) ==
    queue # <<>> /\ ~writing /\ pc = [t \in {"user", "asio"} |-> "idle"]

\* Every message given to send_message on either side reaches the other side's User,
\* unless the connection breaks or the message is left behind: none is half written or half
\* read for ever, and m_is_writing_message is never left set.
EverySentIsReceived ==
    /\ \A n \in 1 .. ServerSends : (a_sent >= n) ~>
           (Len(b_in_queue) >= n \/ Broken \/ LeftBehind(a_out_queue, a_writing, a_pc))
    /\ \A n \in 1 .. ClientSends : (b_sent >= n) ~>
           (Len(a_in_queue) >= n \/ Broken \/ LeftBehind(b_out_queue, b_writing, b_pc))
===============================================================================
