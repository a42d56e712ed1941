-------------------------------- MODULE Server --------------------------------
(***************************************************************************)
(* Net::Server (Server.h): which connections are admitted, how they become *)
(* clients, how clients are removed, and start() and stop().               *)
(*                                                                         *)
(* The accept handler runs on the Asio thread and reads m_clients,         *)
(* m_max_connections and m_banned_ip, which the user's thread changes with *)
(* no lock: every access is a step.  Everything else is called on the      *)
(* user's thread.  A Connection is here only connected or not, a socket    *)
(* the address of its peer; notifications are in User.                     *)
(***************************************************************************)
EXTENDS Integers, Sequences, FiniteSets, Asio_base

CONSTANTS
    Ips,              \* the addresses of the peers
    Maxima,           \* the values given to set_max_connections
    FirstId,          \* the first client id, 1000 in the code
    IdModulus,        \* the number of client ids, 2^32 in the code
    IgnoredClients,   \* the values given as ignored_client, whose default is 0
    Reentrant,        \* may callbacks remove clients?
    MaxSockets,       \* bound: connections the acceptor accepts
    MaxStarts         \* bound: calls of start()

ASSUME ServerAssumption ==
    /\ Maxima \subseteq Nat
    /\ IdModulus \in Nat \ {0}
    /\ FirstId \in 1 .. IdModulus - 1
    /\ IgnoredClients \subseteq 0 .. IdModulus - 1
    /\ Reentrant \in BOOLEAN
    /\ MaxSockets \in Nat
    /\ MaxStarts \in Nat

VARIABLES
    m_clients,           \* client id -> is its connection connected?
    m_new_connections,
    m_max_connections, m_banned_ip,
    accepts,             \* the outstanding async_accepts
    accepted,            \* how many connections were accepted
    asio,                \* what the accept handler does next
    socket,              \* its socket
    barred,              \* was that socket's address banned all the time?
    seen,                \* the sizes the handler has read so far
    starts,              \* how many times start() was called
    pc,                  \* what the user's thread does next
    m_id_counter,
    client_id,           \* the id create_client gives its client, 0 when there is none
    loop, ignored,       \* the loop over m_clients, "send" or "check"; ignored_client
    it, todo,            \* its iterator, and the clients behind it
    dangling,            \* has a callback removed the client at the iterator?
    reached,             \* the clients the loop has sent to, or found connected
    back,                \* where m_on_client_disconnect returns to
    fault                \* why the program has stopped, or "none"

settings == <<m_max_connections, m_banned_ip>>
handlerVars == <<accepts, accepted, asio, socket, barred, seen>>
asioVars == <<threadVars, handlerVars>>
createVars == <<m_id_counter, client_id>>
loopVars == <<loop, ignored, it, todo, dangling, reached>>
userVars == <<settings, starts, pc, createVars, loopVars, back>>
vars == <<m_clients, m_new_connections, asioVars, userVars, fault>>

ClientIds == 0 .. IdModulus - 1
End == IdModulus
NoSizes == [which \in {} |-> 0]

\* emplace of a map: an entry that is already there stays.
Emplace(map, key, value) ==
    [k \in DOMAIN map \cup {key} |-> IF k \in DOMAIN map THEN map[k] ELSE value]

TypeOK ==
    /\ ThreadTypeOK
    /\ DOMAIN m_clients \subseteq ClientIds
    /\ m_clients \in [DOMAIN m_clients -> BOOLEAN]
    /\ m_new_connections \in Seq(Ips)
    /\ m_max_connections \in Maxima
    /\ m_banned_ip \subseteq Ips
    /\ accepts \in 0 .. MaxStarts
    /\ accepted \in 0 .. MaxSockets
    /\ asio \in {"idle", "sizes", "test_max", "test_ban", "push", "rearm"}
    /\ socket \in Ips
    /\ barred \in BOOLEAN
    /\ DOMAIN seen \subseteq {"clients", "new"}
    /\ seen \in [DOMAIN seen -> Nat]
    /\ starts \in 0 .. MaxStarts
    /\ pc \in {"out", "start_asio_thread", "stop", "join", "create", "setup", "loop", "callback"}
    /\ m_id_counter \in ClientIds
    /\ client_id \in ClientIds
    /\ loop \in {"send", "check"}
    /\ ignored \in ClientIds
    /\ it \in ClientIds \cup {End}
    /\ todo \subseteq ClientIds
    /\ dangling \in BOOLEAN
    /\ reached \subseteq ClientIds
    /\ back \in {"out", "loop"}
    /\ fault \in {"none", "terminate", "bad_iterator"}

\* set_max_connections and ban_ip may be called before start().
Init ==
    /\ ThreadInit
    /\ m_clients = [id \in {} |-> TRUE]
    /\ m_new_connections = <<>>
    /\ m_max_connections \in Maxima
    /\ m_banned_ip \in SUBSET Ips
    /\ accepts = 0 /\ accepted = 0
    /\ asio = "idle"
    /\ socket \in Ips
    /\ barred = FALSE
    /\ seen = NoSizes
    /\ starts = 0
    /\ pc = "out"
    /\ m_id_counter = FirstId
    /\ client_id = 0
    /\ loop = "check" /\ ignored = 0
    /\ it = End /\ todo = {} /\ dangling = FALSE
    /\ reached = {}
    /\ back = "out"
    /\ fault = "none"

Running == fault = "none"
-------------------------------------------------------------------------------
(***************************************************************************)
(* The Asio thread: the handler of async_accept, and of the connections.   *)
(***************************************************************************)
Idle == Running /\ InRun /\ asio = "idle"

\* A connection from ip is accepted.  remote_endpoint throws if the peer is already
\* gone, and nothing catches an exception on the Asio thread.
AcceptCompletes(ip) ==
    /\ Idle /\ accepts > 0 /\ accepted < MaxSockets
    /\ accepts' = accepts - 1
    /\ accepted' = accepted + 1
    /\ socket' = ip
    /\ barred' = (ip \in m_banned_ip)
    /\ \/ asio' = "sizes" /\ UNCHANGED fault
       \/ UNCHANGED asio /\ fault' = "terminate"
    /\ UNCHANGED <<m_clients, m_new_connections, threadVars, seen, userVars>>

\* Variant of AfterError: the handler returns on an error.
ErrorEndsLoop == "idle"

\* What the handler does after the notification about an error.
AfterError == "rearm"

AcceptFails ==
    /\ Idle /\ accepts > 0
    /\ accepts' = accepts - 1
    /\ asio' = AfterError
    /\ UNCHANGED <<m_clients, m_new_connections, threadVars, accepted, socket, barred, seen,
                   userVars, fault>>

Size(which) == IF which = "clients" THEN Cardinality(DOMAIN m_clients) ELSE Len(m_new_connections)

\* The operands of m_clients.size() + m_new_connections.size(), in either order.
ReadSize(which) ==
    /\ Running /\ asio = "sizes" /\ which \notin DOMAIN seen
    /\ seen' = Emplace(seen, which, Size(which))
    /\ asio' = IF DOMAIN seen = {} THEN "sizes" ELSE "test_max"
    /\ UNCHANGED <<m_clients, m_new_connections, threadVars, accepts, accepted, socket, barred,
                   userVars, fault>>

\* A condition of the handler: when it holds the socket is dropped, which closes it.
Rejects(step, condition, next) ==
    /\ Running /\ asio = step
    /\ asio' = IF condition THEN "rearm" ELSE next
    /\ seen' = NoSizes
    /\ UNCHANGED <<m_clients, m_new_connections, threadVars, accepts, accepted, socket, barred,
                   userVars, fault>>

\* Variant of TestMax with > for >=.
TestMaxOff == Rejects("test_max", seen["clients"] + seen["new"] > m_max_connections, "test_ban")

\* m_clients.size() + m_new_connections.size() >= m_max_connections
TestMax == Rejects("test_max", seen["clients"] + seen["new"] >= m_max_connections, "test_ban")

\* Variant of TestBan that admits every address.
TestBanDropped == Rejects("test_ban", FALSE, "push")

TestBan == Rejects("test_ban", socket \in m_banned_ip, "push")

PushNew ==
    /\ Running /\ asio = "push"
    /\ m_new_connections' = Append(m_new_connections, socket)
    /\ asio' = "rearm"
    /\ UNCHANGED <<m_clients, threadVars, accepts, accepted, socket, barred, seen, userVars, fault>>

\* The handler starts the next accept and returns.
Rearm ==
    /\ Running /\ asio = "rearm"
    /\ accepts' = accepts + 1
    /\ asio' = "idle" /\ barred' = FALSE
    /\ UNCHANGED <<m_clients, m_new_connections, threadVars, accepted, socket, seen, userVars, fault>>

AcceptHandler ==
    (\E which \in {"clients", "new"} : ReadSize(which)) \/ TestMax \/ TestBan \/ PushNew \/ Rearm

\* Another handler of the Asio thread closes the connection of a client.
ConnectionCloses(id) ==
    /\ Idle /\ m_clients[id]
    /\ m_clients' = [m_clients EXCEPT ![id] = FALSE]
    /\ UNCHANGED <<m_new_connections, asioVars, userVars, fault>>

\* The thread itself.  The context always has work: there is an accept, or a handler.
AsioThread ==
    /\ Running /\ asio = "idle"
    /\ asio_thread \/ RunReturns(accepts > 0)
    /\ UNCHANGED <<m_clients, m_new_connections, handlerVars, userVars, fault>>
-------------------------------------------------------------------------------
(***************************************************************************)
(* The user's thread: start() and stop(), the settings, and new clients.   *)
(***************************************************************************)
\* start() first waits for connections, whether or not the server runs already.
start ==
    /\ Running /\ pc = "out" /\ starts < MaxStarts
    /\ starts' = starts + 1
    /\ accepts' = accepts + 1
    /\ pc' = "start_asio_thread"
    /\ UNCHANGED <<m_clients, m_new_connections, threadVars, accepted, asio, socket, barred, seen,
                   settings, createVars, loopVars, back, fault>>

\* start_asio_thread throws if the thread runs already, and start() returns false.
start_asio_thread ==
    /\ Running /\ pc = "start_asio_thread"
    /\ StartThread \/ StartThrows
    /\ pc' = "out"
    /\ UNCHANGED <<m_clients, m_new_connections, handlerVars, settings, starts, createVars,
                   loopVars, back, fault>>

\* stop() is stop_asio_thread: at, then step, then next.
Stopping(at, step, next) ==
    /\ Running /\ pc = at /\ step
    /\ pc' = next
    /\ UNCHANGED <<m_clients, m_new_connections, handlerVars, settings, starts, createVars,
                   loopVars, back, fault>>

stop == ~m_asio_thread_stop_flag /\ Stopping("out", SetStopFlag, "stop")
Stop == Stopping("stop", StopContext, "join")
Join == Stopping("join", JoinThread, "out")

\* The user's code runs: between two calls of the framework, or in a callback.
UsersCode == Running /\ pc \in {"out", "create", "callback"}

set_max_connections(n) ==
    /\ UsersCode
    /\ m_max_connections' = n
    /\ UNCHANGED <<m_clients, m_new_connections, asioVars, m_banned_ip, starts, pc, createVars,
                   loopVars, back, fault>>

ban_ip(ip) ==
    /\ UsersCode
    /\ m_banned_ip' = m_banned_ip \cup {ip}
    /\ UNCHANGED <<m_clients, m_new_connections, asioVars, m_max_connections, starts, pc,
                   createVars, loopVars, back, fault>>

unban_ip(ip) ==
    /\ UsersCode
    /\ m_banned_ip' = m_banned_ip \ {ip}
    /\ barred' = (barred /\ socket # ip)
    /\ UNCHANGED <<m_clients, m_new_connections, threadVars, accepts, accepted, asio, socket, seen,
                   m_max_connections, starts, pc, createVars, loopVars, back, fault>>

\* Variants of NextId: m_id_counter is not incremented, and has no width.
SameId == m_id_counter
UnboundedId == m_id_counter + 1

\* m_id_counter++
NextId == (m_id_counter + 1) % IdModulus

\* handle_new_connections pops a socket and create_client takes the next id; the
\* socket was never closed on this side.  remote_endpoint throws if the peer is gone,
\* and the exception leaves update(); else m_on_client_connect is called.
PopNew ==
    /\ Running /\ pc = "out" /\ m_new_connections # <<>>
    /\ m_new_connections' = Tail(m_new_connections)
    /\ m_id_counter' = NextId
    /\ \/ pc' = pc /\ UNCHANGED client_id
       \/ pc' = "create" /\ client_id' = m_id_counter
    /\ UNCHANGED <<m_clients, asioVars, settings, starts, loopVars, back, fault>>

\* The callback has decided.  A denied socket is dropped; an accepted one becomes a
\* connection, unless start() throws.
create_client ==
    /\ Running /\ pc = "create"
    /\ \/ pc' = "out" /\ client_id' = 0
       \/ pc' = "setup" /\ UNCHANGED client_id
    /\ UNCHANGED <<m_clients, m_new_connections, asioVars, settings, starts, m_id_counter, loopVars,
                   back, fault>>

\* emplace does nothing when the id is taken.  The connection may have closed since
\* it was started.
setup_client ==
    /\ Running /\ pc = "setup"
    /\ \E open \in BOOLEAN : m_clients' = Emplace(m_clients, client_id, open)
    /\ pc' = "out" /\ client_id' = 0
    /\ UNCHANGED <<m_new_connections, asioVars, settings, starts, m_id_counter, loopVars, back,
                   fault>>
-------------------------------------------------------------------------------
(***************************************************************************)
(* The user's thread: removing clients, and the loops over m_clients.      *)
(***************************************************************************)
Erase(id) == m_clients' = [i \in DOMAIN m_clients \ {id} |-> m_clients[i]]

\* remove_client: erase, which destroys the connection; then m_on_client_disconnect.
remove_client(id, return) ==
    /\ Erase(id)
    /\ pc' = "callback"
    /\ back' = return
    /\ UNCHANGED <<m_new_connections, asioVars, settings, starts, createVars, fault>>

\* Also what handle_internal_message does with any internal message.
disconnect_client(id) ==
    /\ Running /\ pc = "out"
    /\ remove_client(id, "out")
    /\ UNCHANGED loopVars

\* To a client that is connected a message is sent, which changes nothing here.
send_message_to_client(id) ==
    /\ Running /\ pc = "out" /\ ~m_clients[id]
    /\ remove_client(id, "out")
    /\ UNCHANGED loopVars

\* The callback calls disconnect_client, or one of the send functions, which removes
\* clients that are not connected; m_on_client_disconnect is called for these as well.
CallbackRemoves(id) ==
    /\ Running /\ Reentrant /\ pc \in {"create", "callback"}
    /\ Erase(id)
    /\ todo' = todo \ {id}
    /\ dangling' = (dangling \/ id = it)
    /\ UNCHANGED <<m_new_connections, asioVars, settings, starts, pc, createVars, loop, ignored,
                   it, reached, back, fault>>

\* The locals of a loop are gone.
LeaveLoop ==
    /\ loop' = "check" /\ ignored' = 0
    /\ it' = End /\ todo' = {}
    /\ dangling' = FALSE /\ reached' = {}

\* m_on_client_disconnect returns, or throws: nothing in the framework catches that on
\* the user's thread, and the exception leaves the loop that removed the client.
CallbackReturns ==
    /\ Running /\ pc = "callback"
    /\ back' = "out"
    /\ \/ pc' = back /\ UNCHANGED loopVars
       \/ pc' = "out" /\ LeaveLoop
    /\ UNCHANGED <<m_clients, m_new_connections, asioVars, settings, starts, createVars, fault>>

\* The iterator moves to the next of the clients S; their order is the map's.
MoveTo(S) ==
    \/ S = {} /\ it' = End /\ todo' = {}
    \/ \E id \in S : it' = id /\ todo' = S \ {id}

StartLoop(kind, except) ==
    /\ Running /\ pc = "out"
    /\ pc' = "loop"
    /\ loop' = kind
    /\ ignored' = except
    /\ MoveTo(DOMAIN m_clients)
    /\ dangling' = FALSE /\ reached' = {}
    /\ UNCHANGED <<m_clients, m_new_connections, asioVars, settings, starts, createVars, back, fault>>

send_message_to_all_clients == \E except \in IgnoredClients : StartLoop("send", except)

check_connections == StartLoop("check", 0)

\* Variant of is_connected: every client counts as connected.
AlwaysConnected(id) == TRUE

is_connected(id) == m_clients[id]

\* A connected client stays and, in send_message_to_all_clients, gets the message
\* unless it is the ignored one.
LoopKeeps ==
    /\ Running /\ pc = "loop" /\ it \in DOMAIN m_clients /\ is_connected(it)
    /\ reached' = IF loop = "send" /\ it = ignored THEN reached ELSE reached \cup {it}
    /\ MoveTo(todo)
    /\ UNCHANGED <<m_clients, m_new_connections, asioVars, settings, starts, pc, createVars, loop,
                   ignored, dangling, back, fault>>

\* Variants of NextIterator: the iterator stays where it was, and it moves once more.
SameIterator == UNCHANGED <<it, todo>>
SkippingIterator == MoveTo(todo) \/ \E id \in todo : MoveTo(todo \ {id})

\* The iterator behind the client that remove_client erases.
NextIterator == MoveTo(todo)

\* The others are removed.
LoopRemoves ==
    /\ Running /\ pc = "loop" /\ it \in DOMAIN m_clients /\ ~is_connected(it)
    /\ remove_client(it, "loop")
    /\ NextIterator
    /\ UNCHANGED <<loop, ignored, dangling, reached>>

\* The iterator points to a client that was erased.
LoopFails ==
    /\ Running /\ pc = "loop" /\ it # End /\ it \notin DOMAIN m_clients
    /\ fault' = "bad_iterator"
    /\ UNCHANGED <<m_clients, m_new_connections, asioVars, userVars>>

LoopEnds ==
    /\ Running /\ pc = "loop" /\ it = End
    /\ pc' = "out"
    /\ LeaveLoop
    /\ UNCHANGED <<m_clients, m_new_connections, asioVars, settings, starts, createVars, back, fault>>
-------------------------------------------------------------------------------
UserThread ==
    \/ start_asio_thread \/ Stop \/ Join
    \/ create_client \/ setup_client \/ CallbackReturns
    \/ LoopKeeps \/ LoopRemoves \/ LoopFails \/ LoopEnds

Next ==
    \/ \E ip \in Ips : AcceptCompletes(ip) \/ ban_ip(ip) \/ unban_ip(ip)
    \/ AcceptFails \/ AcceptHandler \/ AsioThread
    \/ \E id \in DOMAIN m_clients :
           \/ ConnectionCloses(id) \/ disconnect_client(id) \/ send_message_to_client(id)
           \/ CallbackRemoves(id)
    \/ \E n \in Maxima : set_max_connections(n)
    \/ start \/ stop \/ PopNew \/ send_message_to_all_clients \/ check_connections
    \/ UserThread

Spec == Init /\ [][Next]_vars

\* Both threads go on with what they are doing.  The interval of update() passes again
\* and again: the connections are checked between whatever else the program does.
FairSpec ==
    /\ Spec
    /\ WF_vars(UserThread) /\ WF_vars(AsioThread) /\ WF_vars(AcceptHandler)
    /\ SF_vars(check_connections)
-------------------------------------------------------------------------------
\* The connections that are clients, wait to become one, or are becoming one.
Admitted ==
    Cardinality(DOMAIN m_clients) + Len(m_new_connections)
        + (IF pc \in {"create", "setup"} THEN 1 ELSE 0)

\* There are at most m_max_connections clients, as long as the maximum never changes.
ClientLimit == Cardinality(Maxima) = 1 => Cardinality(DOMAIN m_clients) <= m_max_connections

\* The accept handler tests sizes that may be out of date, but by how much is bounded,
\* also when several calls of start() have left several accepts outstanding.
AdmissionBound == \E m \in Maxima : Admitted <= 2 * m + 1

\* No end of the accept handler, a rejection or an error, and no stop() in the middle of it
\* loses the next accept, and none is added but by start(): also a start() that fails, and
\* one after stop(), leaves one more accept outstanding.
AcceptPerStart == accepts + (IF asio = "idle" THEN 0 ELSE 1) = starts \/ ~Running

\* While create_client decides about a client no other client has its id: what
\* m_on_client_connect does with the id has no effect, and setup_client's emplace
\* inserts the client instead of dropping it.
IdIsFree == pc \in {"create", "setup"} => client_id \notin DOMAIN m_clients

\* A connection whose address was banned before it was accepted, and ever since, is
\* not admitted.
BannedStaysOut == asio = "push" => ~barred

\* When a loop over m_clients is done it has sent to, or found connected, every client
\* that is left, except the ignored one, whatever the callbacks removed meanwhile.
EveryClientReached ==
    pc = "loop" /\ it = End =>
        DOMAIN m_clients \ (IF loop = "send" THEN {ignored} ELSE {}) \subseteq reached

\* The iterator of a loop, the one remove_client returned included, points to a client
\* or to the end of m_clients, unless a callback has removed that very client.
NextIsAClient == pc = "loop" /\ ~dangling => it \in DOMAIN m_clients \cup {End}

\* A client whose connection has closed is removed in the end.
ClosedIsRemoved ==
    \A id \in ClientIds :
        (id \in DOMAIN m_clients /\ ~m_clients[id]) ~>
            (id \notin DOMAIN m_clients \/ ~Running)

\* stop() returns, also when it is called while the accept handler runs.
StopReturns == (pc = "stop") ~> (pc = "out" \/ ~Running)
===============================================================================
