-------------------------------- MODULE Client --------------------------------
(***************************************************************************)
(* Net::Client (Client.h): connecting, disconnecting and connecting again, *)
(* with the Asio thread of Asio_base started and stopped each time while   *)
(* asynchronous operations are outstanding.                                *)
(*                                                                         *)
(* A connect() has a number, which is also the number of the Connection    *)
(* its handler creates.  Of the operations of a connection the handshake   *)
(* and the reads are here, of the messages server_accept; Connection.tla   *)
(* has the others.                                                         *)
(***************************************************************************)
EXTENDS Integers, Sequences, Asio_base

CONSTANT MaxConnects     \* bound: calls of async_connect

ASSUME ClientAssumption == MaxConnects \in Nat

VARIABLES
    attempt,                      \* the number of the last connect()
    m_temp_socket,                \* the connect() it is for, and its state
    ops,                          \* the outstanding asynchronous operations
    m_connection,                 \* the number of the Connection, 0 for none
    connected,                    \* is its socket open?
    pc,                           \* what the user's thread does next
    m_in_queue,                   \* the server_accepts received, by connection
    m_remote_id,                  \* the connection that server data is from
    m_has_received_server_data,
    clean,                        \* did each connect() so far find no earlier one at work?
    fault                         \* why the program has stopped, or "none"

socketVars == <<attempt, m_temp_socket, ops>>
connectionVars == <<m_connection, connected>>
dataVars == <<m_in_queue, m_remote_id, m_has_received_server_data>>
vars == <<socketVars, connectionVars, threadVars, pc, dataVars, clean, fault>>

Numbers == 0 .. MaxConnects

\* An async_connect, pending or with its handler queued, or what a connection waits for.
Op == [kind: {"connect"}, n: Numbers, state: {"pending", "ok", "failed"}]
        \cup [kind: {"handshake", "header", "body"}, n: Numbers, state: {"pending"}]

TypeOK ==
    /\ ThreadTypeOK
    /\ attempt \in Numbers
    /\ m_temp_socket \in [n: Numbers, state: {"fresh", "connected", "moved"}]
    /\ ops \subseteq Op
    /\ m_connection \in Numbers
    /\ connected \in BOOLEAN
    /\ connected => m_connection # 0
    /\ pc \in {"out", "start_asio_thread", "stop", "join", "reset"}
    /\ m_in_queue \in Seq(Numbers)
    /\ m_remote_id \in Numbers
    /\ m_has_received_server_data \in BOOLEAN
    /\ clean \in BOOLEAN
    /\ fault \in {"none", "terminate", "destroyed"}

Init ==
    /\ ThreadInit
    /\ attempt = 0
    /\ m_temp_socket = [n |-> 0, state |-> "fresh"]
    /\ ops = {}
    /\ m_connection = 0
    /\ connected = FALSE
    /\ pc = "out"
    /\ m_in_queue = <<>>
    /\ m_remote_id = 0
    /\ m_has_received_server_data = FALSE
    /\ clean = TRUE
    /\ fault = "none"

Running == fault = "none"

Connecting == \E op \in ops : op.kind = "connect"
-------------------------------------------------------------------------------
(***************************************************************************)
(* The user's thread.                                                      *)
(***************************************************************************)
\* The assignment of m_temp_socket closes the old socket: a connect that is still
\* pending on it is aborted.
Aborted == {IF op.kind = "connect" /\ op.state = "pending"
            THEN [op EXCEPT !.state = "failed"] ELSE op : op \in ops}

\* Variant of ForgetServer that keeps what the last connection left.
KeepServer == UNCHANGED m_has_received_server_data

\* m_has_received_server_data = false
ForgetServer == m_has_received_server_data' = FALSE

\* connect() up to the end of async_connect.  resolve throws if the host is unknown;
\* connect() returns false then.
connect ==
    /\ Running /\ pc = "out" /\ attempt < MaxConnects
    /\ ForgetServer
    /\ \/ /\ attempt' = attempt + 1
          /\ m_temp_socket' = [n |-> attempt + 1, state |-> "fresh"]
          /\ ops' = Aborted \cup {[kind |-> "connect", n |-> attempt + 1, state |-> "pending"]}
          /\ pc' = "start_asio_thread"
          /\ clean' = (clean /\ ~Connecting /\ ~connected /\ m_in_queue = <<>>)
       \/ UNCHANGED <<socketVars, pc, clean>>
    /\ UNCHANGED <<connectionVars, threadVars, m_in_queue, m_remote_id, fault>>

\* start_asio_thread throws if the thread runs already, and connect() returns false.
start_asio_thread ==
    /\ Running /\ pc = "start_asio_thread"
    /\ StartThread \/ StartThrows
    /\ pc' = "out"
    /\ UNCHANGED <<socketVars, connectionVars, dataVars, clean, fault>>

\* A step of stop_asio_thread, with which disconnect() begins.
Stopping(at, step, next) ==
    /\ Running /\ pc = at /\ step
    /\ pc' = next
    /\ UNCHANGED <<socketVars, connectionVars, dataVars, clean, fault>>

disconnect ==
    IF m_asio_thread_stop_flag THEN Stopping("out", UNCHANGED threadVars, "reset")
    ELSE Stopping("out", SetStopFlag, "stop")

Stop == Stopping("stop", StopContext, "join")
Join == Stopping("join", JoinThread, "reset")

\* Variant of Close that destroys the connection without closing it.
DestroyOnly == m_connection' = 0 /\ UNCHANGED connected

\* The connection is closed and destroyed.
Close == m_connection' = 0 /\ connected' = FALSE

\* The rest of disconnect().  The operations of the connection are aborted, their
\* handlers stay queued.  If the shutdown throws, the exception leaves disconnect()
\* before the connection is closed.
Reset ==
    /\ Running /\ pc = "reset"
    /\ pc' = "out"
    /\ Close \/ (connected /\ UNCHANGED connectionVars)
    /\ UNCHANGED <<socketVars, threadVars, dataVars, clean, fault>>

\* handle_received_messages takes a server_accept from the back of the queue and
\* handle_server_data broadcasts m_on_connected.  extract_server_accept throws if the body
\* is too short; the exception leaves update(), the message is gone.
handle_server_data ==
    /\ Running /\ pc = "out" /\ m_in_queue # <<>>
    /\ \/ m_remote_id' = m_in_queue[Len(m_in_queue)] /\ m_has_received_server_data' = TRUE
       \/ UNCHANGED <<m_remote_id, m_has_received_server_data>>
    /\ m_in_queue' = SubSeq(m_in_queue, 1, Len(m_in_queue) - 1)
    /\ UNCHANGED <<socketVars, connectionVars, threadVars, pc, clean, fault>>
-------------------------------------------------------------------------------
(***************************************************************************)
(* The Asio thread.                                                        *)
(***************************************************************************)
\* The thread itself.
AsioThread ==
    /\ Running
    /\ asio_thread \/ RunReturns(ops # {})
    /\ UNCHANGED <<socketVars, connectionVars, pc, dataVars, clean, fault>>

\* A pending connect completes and its handler is queued.
ConnectCompletes(op) ==
    /\ Running /\ InRun /\ op.kind = "connect" /\ op.state = "pending"
    /\ \E result \in {"ok", "failed"} :
           /\ ops' = (ops \ {op}) \cup {[op EXCEPT !.state = result]}
           /\ m_temp_socket' = IF result = "ok" THEN [m_temp_socket EXCEPT !.state = "connected"]
                               ELSE m_temp_socket
    /\ UNCHANGED <<attempt, connectionVars, threadVars, pc, dataVars, clean, fault>>

\* The handler of op starts what the connection waits for next.
Waits(op, kind) ==
    ops' = (ops \ {op}) \cup {[kind |-> kind, n |-> op.n, state |-> "pending"]}

\* The handler of async_connect makes a Connection of m_temp_socket, whatever that is by
\* now: start() does nothing on a socket that is not open, and remote_endpoint throws on
\* one that is not connected.  The Connection that was there is destroyed.  The new one
\* waits for the handshake, or for a header where the socket needs none.
ConnectHandler(op) ==
    /\ Running /\ InRun /\ op.kind = "connect" /\ op.state # "pending"
    /\ \/ /\ op.state = "failed"
          /\ ops' = ops \ {op}
          /\ UNCHANGED <<m_temp_socket, connectionVars, fault>>
       \/ /\ op.state = "ok" /\ m_temp_socket.state # "fresh"
          /\ m_connection' = op.n
          /\ connected' = (m_temp_socket.state = "connected")
          /\ IF m_temp_socket.state = "connected"
             THEN \E kind \in {"handshake", "header"} : Waits(op, kind)
             ELSE ops' = ops \ {op}
          /\ m_temp_socket' = [m_temp_socket EXCEPT !.state = "moved"]
          /\ UNCHANGED fault
       \/ /\ op.state = "ok" /\ m_temp_socket.state # "moved"
          /\ fault' = "terminate"
          /\ UNCHANGED <<ops, m_temp_socket, connectionVars>>
    /\ UNCHANGED <<attempt, threadVars, pc, dataVars, clean>>

\* The handler of the handshake or of a read: the next read is started, after a body with
\* the server_accept given to the User (bound: one of each connection at a time), or the
\* connection closes, unless shutdown throws.  A handler whose connection is gone uses it
\* all the same.
ConnectionHandler(op) ==
    /\ Running /\ InRun /\ op.kind # "connect"
    /\ \/ /\ op.n = m_connection /\ connected
          /\ \/ op.kind = "handshake" /\ Waits(op, "header") /\ UNCHANGED m_in_queue
             \/ op.kind = "header" /\ Waits(op, "body") /\ UNCHANGED m_in_queue
             \/ /\ op.kind = "body" /\ Waits(op, "header")
                /\ \A i \in 1 .. Len(m_in_queue) : m_in_queue[i] # op.n
                /\ m_in_queue' = Append(m_in_queue, op.n)
          /\ UNCHANGED <<connected, fault>>
       \/ /\ op.n = m_connection
          /\ ops' = ops \ {op}
          /\ \/ connected' = FALSE /\ UNCHANGED fault
             \/ connected /\ fault' = "terminate" /\ UNCHANGED connected
          /\ UNCHANGED m_in_queue
       \/ /\ op.n # m_connection
          /\ fault' = "destroyed"
          /\ UNCHANGED <<ops, connected, m_in_queue>>
    /\ UNCHANGED <<attempt, m_temp_socket, m_connection, threadVars, pc, m_remote_id,
                   m_has_received_server_data, clean>>

Handlers == \E op \in ops : ConnectCompletes(op) \/ ConnectHandler(op) \/ ConnectionHandler(op)
-------------------------------------------------------------------------------
Disconnecting == Stop \/ Join \/ Reset

Next ==
    \/ connect \/ start_asio_thread \/ disconnect \/ Disconnecting \/ handle_server_data
    \/ AsioThread \/ Handlers

Spec == Init /\ [][Next]_vars

\* Both threads go on with what they are doing, and a connect succeeds or fails.
FairSpec ==
    /\ Spec
    /\ WF_vars(start_asio_thread) /\ WF_vars(Disconnecting) /\ WF_vars(AsioThread)
    /\ \A n \in 1 .. MaxConnects, state \in {"pending", "ok", "failed"} :
           LET op == [kind |-> "connect", n |-> n, state |-> state] IN
           WF_vars(op \in ops /\ (ConnectCompletes(op) \/ ConnectHandler(op)))
-------------------------------------------------------------------------------
\* The Asio thread exists exactly while the stop flag is not set, except while it is
\* being stopped: start_asio_thread throws only if the thread really runs, no thread is
\* started twice, none is left to be joined after disconnect(), and disconnect() destroys
\* the connection when no handler is running.  (Those that are queued run after the next
\* connect().)
ThreadIsStopped ==
    pc \notin {"stop", "join"} => (thread = "none" <=> m_asio_thread_stop_flag) /\ thread # "exited"

\* No handler runs on a connection that has been destroyed.
NoHandlerOnDestroyed == fault # "destroyed"

\* After m_on_connected the server has accepted this connect(), and not an earlier one.
ServerDataIsCurrent == m_has_received_server_data => m_remote_id = attempt

\* If a program calls connect() only when no earlier connect is outstanding, no connection
\* open and no message left to handle, then m_on_connected is about its last connect(), no
\* handler will replace m_connection after it, and the handler of a connect always finds in
\* m_temp_socket the socket that it connected.
CleanConnectIsCurrent ==
    clean =>
        /\ m_has_received_server_data => m_remote_id = attempt /\ ~Connecting
        /\ \A op \in ops : op.kind = "connect" /\ op.state = "ok" =>
               m_temp_socket = [n |-> op.n, state |-> "connected"]

\* disconnect() returns: the Asio thread leaves run() and its loop and can be joined.
DisconnectReturns == (pc = "stop") ~> (pc = "out" \/ ~Running)

\* A connect() that found no Asio thread, and so returns true, is answered unless the
\* program disconnects: whatever state earlier calls left the context in, stopped, out of
\* work or with old handlers queued, the new thread gets to the handler.
ConnectIsAnswered ==
    \A n \in 1 .. MaxConnects :
        (pc = "start_asio_thread" /\ ~joinable /\ attempt = n) ~>
            \/ \A op \in ops : op.kind = "connect" => op.n # n
            \/ pc \in {"stop", "join", "reset"}
            \/ ~Running
===============================================================================
