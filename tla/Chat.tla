--------------------------------- MODULE Chat ---------------------------------
(***************************************************************************)
(* The two example programs, Network_client/Main.cpp with its two threads  *)
(* and Network_server/Main.cpp, on top of the framework.                   *)
(*                                                                         *)
(* A connection is the channel of module Channel, which may break; what    *)
(* the server takes from its User is the newest message, as in module      *)
(* User.  A message is the name of its client or one of its lines, by      *)
(* number; what a client shows of the answers is left out.                 *)
(***************************************************************************)
EXTENDS Integers, Sequences

CONSTANTS
    Clients,
    MaxLines      \* bound: lines typed at each client after the name

ASSUME ChatAssumption == MaxLines \in Nat

VARIABLES
    main,         \* is the main thread of a client in its "loop", or in a "send"?
    thread,       \* what its second thread does next: "none", "name", "send" or "read"
    messages,     \* the deque between the two
    held,         \* the message the main thread is sending, or nothing
    typed,        \* how many lines were typed
    stream,       \* the messages on their way to the server
    up,           \* is the client connected?
    in_queue,     \* m_in_queue of the server
    names,        \* the clients that names has an entry for
    broadcast,    \* the lines sent to all clients
    fault         \* the programs that have stopped

clientVars == <<main, thread, messages, held, typed>>
serverVars == <<in_queue, names, broadcast>>
vars == <<clientVars, stream, up, serverVars, fault>>

Name(c) == [from |-> c, line |-> 0]
Line(c, n) == [from |-> c, line |-> n]

\* Every client has called connect() and the server has accepted it.
Init ==
    /\ main = [c \in Clients |-> "loop"]
    /\ thread = [c \in Clients |-> "none"]
    /\ messages = [c \in Clients |-> <<>>]
    /\ held = [c \in Clients |-> <<>>]
    /\ typed = [c \in Clients |-> 0]
    /\ stream = [c \in Clients |-> <<>>]
    /\ up = [c \in Clients |-> TRUE]
    /\ in_queue = <<>>
    /\ names = {}
    /\ broadcast = <<>>
    /\ fault = {}

Running(p) == p \notin fault

\* The end of Client::send_message, which does nothing if there is no connection.
send_message(c, m) ==
    stream' = IF up[c] THEN [stream EXCEPT ![c] = Append(@, m)] ELSE stream
-------------------------------------------------------------------------------
(***************************************************************************)
(* A client.                                                               *)
(***************************************************************************)
\* Variant of FirstStep: the thread reads lines at once and no name is sent.
SkipName == "read"

\* What send_thread begins with: send_name.
FirstStep == "name"

\* client.update() has received server_accept: m_on_connected starts the thread.
on_connected(c) ==
    /\ Running(c) /\ main[c] = "loop" /\ thread[c] = "none"
    /\ thread' = [thread EXCEPT ![c] = FirstStep]
    /\ UNCHANGED <<main, messages, held, typed, stream, up, serverVars, fault>>

\* send_name on the second thread.  operator<< throws on an empty name, and nothing
\* catches an exception on that thread.
send_name(c) ==
    /\ Running(c) /\ thread[c] = "name"
    /\ \/ thread' = [thread EXCEPT ![c] = "send"] /\ UNCHANGED fault
       \/ fault' = fault \cup {c} /\ UNCHANGED thread
    /\ UNCHANGED <<main, messages, held, typed, stream, up, serverVars>>

NameSent(c) ==
    /\ Running(c) /\ thread[c] = "send"
    /\ send_message(c, Name(c))
    /\ thread' = [thread EXCEPT ![c] = "read"]
    /\ UNCHANGED <<main, messages, held, typed, up, serverVars, fault>>

\* Variant of MayRead: lines are read as soon as a name was entered.
ReadEarly(c) == thread[c] \in {"send", "read"}

MayRead(c) == thread[c] = "read"

\* The loop of send_thread: a line that is not empty is queued for the main thread.
send_thread(c) ==
    /\ Running(c) /\ MayRead(c) /\ typed[c] < MaxLines
    /\ typed' = [typed EXCEPT ![c] = @ + 1]
    /\ messages' = [messages EXCEPT ![c] = Append(@, Line(c, typed[c] + 1))]
    /\ UNCHANGED <<main, thread, held, stream, up, serverVars, fault>>

\* main_loop after update(): the oldest message is taken from the deque and sent.
main_loop(c) ==
    /\ Running(c) /\ main[c] = "loop" /\ messages[c] # <<>>
    /\ main' = [main EXCEPT ![c] = "send"]
    /\ held' = [held EXCEPT ![c] = <<Head(messages[c])>>]
    /\ messages' = [messages EXCEPT ![c] = Tail(@)]
    /\ UNCHANGED <<thread, typed, stream, up, serverVars, fault>>

MainSends(c) ==
    /\ Running(c) /\ main[c] = "send"
    /\ send_message(c, Head(held[c]))
    /\ main' = [main EXCEPT ![c] = "loop"] /\ held' = [held EXCEPT ![c] = <<>>]
    /\ UNCHANGED <<thread, messages, typed, up, serverVars, fault>>
-------------------------------------------------------------------------------
(***************************************************************************)
(* The connections, and the server.                                        *)
(***************************************************************************)
\* The read handlers of the server's connection have read a message and pushed it onto
\* m_in_queue.
Arrives(c) ==
    /\ Running("server") /\ up[c] /\ stream[c] # <<>>
    /\ in_queue' = Append(in_queue, Head(stream[c]))
    /\ stream' = [stream EXCEPT ![c] = Tail(@)]
    /\ UNCHANGED <<clientVars, up, names, broadcast, fault>>

\* A handler of either side fails and disconnects, at any time: what was not read is lost.
Breaks(c) ==
    /\ up[c]
    /\ up' = [up EXCEPT ![c] = FALSE]
    /\ stream' = [stream EXCEPT ![c] = <<>>]
    /\ UNCHANGED <<clientVars, serverVars, fault>>

\* names[client_id] = name.  The answer changes nothing here.
on_set_name(m) == names' = names \cup {m.from} /\ UNCHANGED <<broadcast, fault>>

\* found_name->second is used without a test of found_name.
on_chat_message(m) ==
    IF m.from \in names THEN broadcast' = Append(broadcast, m) /\ UNCHANGED <<names, fault>>
    ELSE fault' = fault \cup {"server"} /\ UNCHANGED <<names, broadcast>>

\* The main loop: update() takes the last message of m_in_queue.
server_on_message ==
    /\ Running("server") /\ in_queue # <<>>
    /\ in_queue' = SubSeq(in_queue, 1, Len(in_queue) - 1)
    /\ LET m == in_queue[Len(in_queue)] IN IF m.line = 0 THEN on_set_name(m) ELSE on_chat_message(m)
    /\ UNCHANGED <<clientVars, stream, up>>
-------------------------------------------------------------------------------
SendThread(c) == send_name(c) \/ NameSent(c)
MainThread(c) == on_connected(c) \/ main_loop(c) \/ MainSends(c)

Next ==
    \/ \E c \in Clients : SendThread(c) \/ send_thread(c) \/ MainThread(c) \/ Arrives(c) \/ Breaks(c)
    \/ server_on_message

Spec == Init /\ [][Next]_vars
-------------------------------------------------------------------------------
\* The two threads of a client are never both in send_message, which is not safe for
\* that: the second thread sends only the name, and the main thread only lines that
\* were queued after the name had been sent.
OneSender == \A c \in Clients : ~(main[c] = "send" /\ thread[c] = "send")

\* The name of a client reaches the server before its lines: it is entered in names, or
\* in front of the line in m_in_queue.  So on_chat_message finds every sender, unless the
\* server takes a line from the back of m_in_queue before the name that is in front of it.
NameArrivesFirst ==
    \A i \in 1 .. Len(in_queue) :
        in_queue[i].line > 0 /\ in_queue[i].from \notin names =>
            \E j \in 1 .. i - 1 : in_queue[j] = Name(in_queue[i].from)
===============================================================================
