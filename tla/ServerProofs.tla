----------------------------- MODULE ServerProofs -----------------------------
(***************************************************************************)
(* Theorems about Server, for every value of its constants.                *)
(***************************************************************************)
EXTENDS Server, TLAPS

USE ServerAssumption, SMTT(30), ZenonT(30), SMTT(60)
-------------------------------------------------------------------------------
\* The facts about sequences that the proofs below cite.
LEMMA SeqEmpty ==
    ASSUME NEW S
    PROVE  <<>> \in Seq(S) /\ Len(<<>>) = 0 /\ \A s \in Seq(S) : s # <<>> => Len(s) \in Nat \ {0}
OBVIOUS

LEMMA SeqLen ==
    ASSUME NEW S, NEW s \in Seq(S)
    PROVE  Len(s) \in Nat /\ s \in [1 .. Len(s) -> S] /\ DOMAIN s = 1 .. Len(s)
OBVIOUS

LEMMA SeqAppend ==
    ASSUME NEW S, NEW s \in Seq(S), NEW e \in S
    PROVE  /\ Append(s, e) \in Seq(S) /\ Append(s, e) # <<>>
           /\ Len(Append(s, e)) = Len(s) + 1 /\ Append(s, e)[Len(s) + 1] = e
           /\ \A i \in 1 .. Len(s) : Append(s, e)[i] = s[i]
OBVIOUS

LEMMA SeqTail ==
    ASSUME NEW S, NEW s \in Seq(S), s # <<>>
    PROVE  /\ Head(s) \in S /\ Tail(s) \in Seq(S) /\ Len(Tail(s)) = Len(s) - 1
           /\ \A i \in 1 .. Len(Tail(s)) : Tail(s)[i] = s[i + 1]
OBVIOUS

\* create_client or setup_client is at work.
Creating == pc \in {"create", "setup"}

BackInv == back \in {"out", "loop"}

\* The steps on clients that are there already.
ClientStep ==
    \/ \E id \in DOMAIN m_clients :
           \/ ConnectionCloses(id) \/ disconnect_client(id) \/ send_message_to_client(id)
           \/ CallbackRemoves(id)
    \/ CallbackReturns \/ send_message_to_all_clients \/ check_connections
    \/ LoopKeeps \/ LoopRemoves \/ LoopFails \/ LoopEnds

\* The steps that start and stop the Asio thread.
ThreadStep == start_asio_thread \/ stop \/ Stop \/ Join \/ AsioThread

LEMMA NextSteps ==
    Next <=> \/ \E ip \in Ips : AcceptCompletes(ip) \/ ban_ip(ip) \/ unban_ip(ip)
             \/ AcceptFails \/ AcceptHandler \/ start
             \/ \E n \in Maxima : set_max_connections(n)
             \/ PopNew \/ create_client \/ setup_client
             \/ ClientStep \/ ThreadStep
BY DEF Next, UserThread, ClientStep, ThreadStep

\* A step on clients changes neither the handler nor the queue, and only removes clients.
ClientFrame ==
    /\ Running
    /\ UNCHANGED <<m_new_connections, asioVars, settings, starts, createVars>>
    /\ Creating' <=> Creating
    /\ BackInv'
    /\ \/ DOMAIN m_clients' = DOMAIN m_clients
       \/ \E id \in DOMAIN m_clients : DOMAIN m_clients' = DOMAIN m_clients \ {id}

LEMMA ClientSteps == ASSUME BackInv, ClientStep PROVE ClientFrame
<1> USE DEF ClientFrame, Creating, BackInv, userVars
<1>1. ASSUME NEW id \in DOMAIN m_clients, ConnectionCloses(id) PROVE ClientFrame
  BY <1>1 DEF ConnectionCloses, Idle
<1>2. ASSUME NEW id \in DOMAIN m_clients, disconnect_client(id) \/ send_message_to_client(id)
      PROVE  ClientFrame
  BY <1>2 DEF disconnect_client, send_message_to_client, remove_client, Erase
<1>3. ASSUME NEW id \in DOMAIN m_clients, CallbackRemoves(id) PROVE ClientFrame
  BY <1>3 DEF CallbackRemoves, Erase
<1>4. CASE CallbackReturns
  BY <1>4 DEF CallbackReturns
<1>5. CASE send_message_to_all_clients \/ check_connections
  BY <1>5 DEF send_message_to_all_clients, check_connections, StartLoop
<1>6. CASE LoopKeeps \/ LoopFails \/ LoopEnds
  BY <1>6 DEF LoopKeeps, LoopFails, LoopEnds
<1>7. CASE LoopRemoves
  BY <1>7 DEF LoopRemoves, remove_client, Erase
<1>8. QED
  BY <1>1, <1>2, <1>3, <1>4, <1>5, <1>6, <1>7, ZenonT(30) DEF ClientStep

\* Starting and stopping the thread touches nothing of what the handler works with.
LEMMA ThreadSteps ==
    ASSUME ThreadStep
    PROVE  /\ UNCHANGED <<m_clients, m_new_connections, handlerVars, settings, starts, createVars,
                          back, fault>>
           /\ ~Creating => ~Creating'
           /\ Creating => UNCHANGED pc
BY DEF ThreadStep, start_asio_thread, stop, Stop, Join, Stopping, AsioThread, userVars, Creating
-------------------------------------------------------------------------------
\* The Asio thread exists exactly while the stop flag is not set, except while stop() ends it:
\* start() fails only if the server runs, and after stop() no handler runs.
ThreadIsStopped ==
    pc \notin {"stop", "join"} => (thread = "none" <=> m_asio_thread_stop_flag) /\ thread # "exited"

\* While stop() waits for the thread nothing keeps that thread: the context is stopped, so run()
\* returns and takes no other handler, and the flag is set, so the loop ends.
JoinIsFree == pc = "join" => m_asio_thread_stop_flag /\ stopped

ThreadInv ==
    /\ ThreadTypeOK /\ BackInv /\ ThreadIsStopped /\ JoinIsFree
    /\ pc = "stop" => m_asio_thread_stop_flag

LEMMA ThreadInvStep == ThreadInv /\ [Next]_vars => ThreadInv'
<1> SUFFICES ASSUME ThreadInv, [Next]_vars PROVE ThreadInv'
  OBVIOUS
<1> USE DEF ThreadInv, BackInv, ThreadTypeOK, ThreadIsStopped, JoinIsFree, threadVars
<1>0. CASE /\ UNCHANGED threadVars /\ back' \in {"out", "loop"}
           /\ pc' = pc \/ (pc \notin {"stop", "join"} /\ pc' \notin {"stop", "join"})
  BY <1>0, ZenonT(30), SMTT(30)
<1>1. CASE start_asio_thread
  <2>1. pc = "start_asio_thread" /\ pc' = "out" /\ back' = back
    BY <1>1 DEF start_asio_thread
  <2>2. CASE StartThread
    <3>1. thread' = "loop" /\ stopped' = FALSE /\ m_asio_thread_stop_flag' = FALSE
      BY <2>2 DEF StartThread
    <3>2. QED
      BY <2>1, <3>1, ZenonT(30)
  <2>3. CASE StartThrows
    BY <1>0, <2>1, <2>3, ZenonT(30), SMTT(30) DEF StartThrows
  <2>4. QED
    BY <1>1, <2>2, <2>3 DEF start_asio_thread
<1>2. CASE stop
  <2>1. /\ pc' = "stop" /\ m_asio_thread_stop_flag' = TRUE
        /\ UNCHANGED <<stopped, thread, back>>
    BY <1>2 DEF stop, Stopping, SetStopFlag
  <2>2. QED
    BY <2>1, ZenonT(30)
<1>3. CASE Stop
  <2>1. /\ pc = "stop" /\ pc' = "join" /\ stopped' = TRUE
        /\ UNCHANGED <<thread, m_asio_thread_stop_flag, back>>
    BY <1>3 DEF Stop, Stopping, StopContext
  <2>2. QED
    BY <2>1, ZenonT(30)
<1>4. CASE Join
  <2>1. /\ pc = "join" /\ pc' = "out" /\ thread' = "none"
        /\ UNCHANGED <<stopped, m_asio_thread_stop_flag, back>>
    BY <1>4 DEF Join, Stopping, JoinThread
  <2>2. QED
    BY <2>1, ZenonT(30)
<1>5. CASE AsioThread
  <2>1. /\ UNCHANGED <<pc, m_asio_thread_stop_flag, back>>
        /\ stopped' = stopped \/ stopped' = TRUE
    BY <1>5, ZenonT(30) DEF AsioThread, asio_thread, RunReturns, userVars
  <2>2. CASE m_asio_thread_stop_flag
    <3>1. thread # "none" /\ thread' \in {"loop", "exited"}
      BY <1>5, <2>2, ZenonT(30) DEF AsioThread, asio_thread, RunReturns
    <3>2. pc \in {"stop", "join"}
      BY <2>2, <3>1, ZenonT(30)
    <3>3. QED
      BY <2>1, <2>2, <3>1, <3>2, ZenonT(30)
  <2>3. CASE ~m_asio_thread_stop_flag
    <3>1. thread' \in {"loop", "run"}
      BY <1>5, <2>3, ZenonT(30) DEF AsioThread, asio_thread, RunReturns
    <3>2. thread # "none" /\ pc \notin {"stop", "join"}
      BY <1>5, <2>3, ZenonT(30) DEF AsioThread, asio_thread, RunReturns
    <3>3. QED
      BY <2>1, <2>3, <3>1, <3>2, ZenonT(30)
  <2>4. QED
    BY <2>2, <2>3, ZenonT(30)
<1>6. CASE \E ip \in Ips : AcceptCompletes(ip) \/ ban_ip(ip) \/ unban_ip(ip)
  BY <1>0, <1>6 DEF AcceptCompletes, ban_ip, unban_ip, asioVars, userVars, UsersCode
<1>7. CASE \E n \in Maxima : set_max_connections(n)
  BY <1>0, <1>7 DEF set_max_connections, asioVars
<1>8. CASE AcceptFails \/ AcceptHandler
  BY <1>0, <1>8 DEF AcceptFails, AcceptHandler, ReadSize, TestMax, TestBan, Rejects, PushNew, Rearm,
                    asioVars, userVars
<1>9. CASE start \/ PopNew \/ create_client \/ setup_client \/ UNCHANGED vars
  BY <1>0, <1>9 DEF start, PopNew, create_client, setup_client, vars, asioVars, userVars
<1>10. CASE ClientStep
  BY <1>0, <1>10 DEF ClientStep, ConnectionCloses, disconnect_client, send_message_to_client,
                     remove_client, CallbackRemoves, CallbackReturns, send_message_to_all_clients,
                     check_connections, StartLoop, LoopKeeps, LoopRemoves, LoopFails, LoopEnds,
                     asioVars, userVars
<1>11. QED
  BY <1>1, <1>2, <1>3, <1>4, <1>5, <1>6, <1>7, <1>8, <1>9, <1>10, NextSteps DEF ThreadStep

\* The part of StopReturns that is a safety property, and what stop() leaves: nothing can keep
\* the thread it waits for, whatever the accept handler is doing, and outside of stop() the
\* thread exists exactly while the flag is not set.
THEOREM ThreadEndsWithStop == Spec => [](ThreadIsStopped /\ JoinIsFree)
<1>1. Init => ThreadInv
  BY ZenonT(30) DEF Init, ThreadInit, ThreadInv, ThreadTypeOK, BackInv, ThreadIsStopped, JoinIsFree
<1>2. ThreadInv => ThreadIsStopped /\ JoinIsFree
  BY DEF ThreadInv
<1>3. QED
  BY <1>1, <1>2, ThreadInvStep, PTL DEF Spec
-------------------------------------------------------------------------------
\* There is always one accept for each call of start(), outstanding or in the handler.
AcceptInv == accepts \in Nat /\ starts \in Nat /\ BackInv /\ AcceptPerStart

LEMMA AcceptStep == AcceptInv /\ [Next]_vars => AcceptInv'
<1> SUFFICES ASSUME AcceptInv, [Next]_vars PROVE AcceptInv'
  OBVIOUS
<1> USE DEF AcceptInv, AcceptPerStart, Running
<1>1. ASSUME NEW ip \in Ips, AcceptCompletes(ip) PROVE AcceptInv'
  BY <1>1 DEF AcceptCompletes, Idle, userVars, BackInv
<1>2. CASE AcceptFails
  BY <1>2 DEF AcceptFails, Idle, AfterError, userVars, BackInv
<1>3. CASE AcceptHandler
  <2>1. UNCHANGED <<starts, back, fault>>
    BY <1>3 DEF AcceptHandler, ReadSize, TestMax, TestBan, Rejects, PushNew, Rearm, userVars
  <2>2. CASE Rearm
    BY <2>1, <2>2 DEF Rearm, BackInv
  <2>3. CASE asio # "idle" /\ asio' # "idle" /\ UNCHANGED accepts
    BY <2>1, <2>3 DEF BackInv
  <2>4. QED
    BY <1>3, <2>2, <2>3 DEF AcceptHandler, ReadSize, TestMax, TestBan, Rejects, PushNew
<1>4. CASE start
  BY <1>4 DEF start, BackInv
<1>5. CASE ClientStep
  BY <1>5, ClientSteps DEF ClientFrame, asioVars, handlerVars
<1>6. CASE ThreadStep
  BY <1>6, ThreadSteps DEF handlerVars, BackInv
<1>7. CASE \/ \E ip \in Ips : ban_ip(ip) \/ unban_ip(ip)
           \/ \E n \in Maxima : set_max_connections(n)
           \/ PopNew \/ create_client \/ setup_client
  BY <1>7 DEF ban_ip, unban_ip, set_max_connections, PopNew, create_client, setup_client,
              asioVars, handlerVars, BackInv
<1>8. CASE UNCHANGED vars
  BY <1>8 DEF vars, asioVars, handlerVars, userVars, BackInv
<1>9. QED
  BY <1>1, <1>2, <1>3, <1>4, <1>5, <1>6, <1>7, <1>8, NextSteps

\* The server never stops to accept connections, and never accepts more of them at a time
\* than start() was called: each end of the accept handler starts the next accept.
THEOREM AcceptsGoOn == Spec => []AcceptPerStart
<1>1. Init => AcceptInv
  BY DEF Init, AcceptInv, AcceptPerStart, BackInv
<1>2. AcceptInv => AcceptPerStart
  BY DEF AcceptInv
<1>3. QED
  BY <1>1, <1>2, AcceptStep, PTL DEF Spec
-------------------------------------------------------------------------------
BanInv == (barred => socket \in m_banned_ip) /\ BackInv /\ BannedStaysOut

\* A ban that is in force before a connection is accepted holds for it: no order of
\* ban_ip, unban_ip and the steps of the handler lets the connection in, unless the
\* address is unbanned meanwhile.
THEOREM BansHold == Spec => []BannedStaysOut
<1>1. Init => BanInv
  BY DEF Init, BanInv, BannedStaysOut, BackInv
<1>2. BanInv /\ [Next]_vars => BanInv'
  <2> SUFFICES ASSUME BanInv, [Next]_vars PROVE BanInv'
    OBVIOUS
  <2> USE DEF BanInv, BannedStaysOut
  <2>1. ASSUME NEW ip \in Ips, AcceptCompletes(ip) PROVE BanInv'
    BY <2>1, ZenonT(30) DEF AcceptCompletes, Idle, userVars, settings, BackInv
  <2>2. CASE AcceptFails
    BY <2>2 DEF AcceptFails, AfterError, userVars, settings, BackInv
  <2>3. CASE AcceptHandler
    BY <2>3 DEF AcceptHandler, ReadSize, TestMax, TestBan, Rejects, PushNew, Rearm, userVars,
                settings, BackInv
  <2>4. ASSUME NEW ip \in Ips, ban_ip(ip) \/ unban_ip(ip) PROVE BanInv'
    <3>1. CASE ban_ip(ip)
      BY <3>1 DEF ban_ip, asioVars, handlerVars, BackInv
    <3>2. CASE unban_ip(ip)
      <4>1. barred' => barred /\ socket # ip
        BY <3>2, ZenonT(30) DEF unban_ip
      <4>2. m_banned_ip' = m_banned_ip \ {ip} /\ UNCHANGED <<asio, socket, back>>
        BY <3>2 DEF unban_ip
      <4>3. QED
        BY <4>1, <4>2 DEF BackInv
    <3>3. QED
      BY <2>4, <3>1, <3>2
  <2>5. CASE ClientStep
    BY <2>5, ClientSteps DEF ClientFrame, asioVars, handlerVars, settings
  <2>6. CASE ThreadStep
    BY <2>6, ThreadSteps DEF handlerVars, settings, BackInv
  <2>7. CASE \/ \E n \in Maxima : set_max_connections(n)
             \/ start \/ PopNew \/ create_client \/ setup_client
    BY <2>7 DEF set_max_connections, start, PopNew, create_client, setup_client,
                asioVars, handlerVars, settings, BackInv
  <2>8. CASE UNCHANGED vars
    BY <2>8 DEF vars, asioVars, handlerVars, userVars, settings, BackInv
  <2>9. QED
    BY <2>1, <2>2, <2>3, <2>4, <2>5, <2>6, <2>7, <2>8, NextSteps
<1>3. BanInv => BannedStaysOut
  BY DEF BanInv
<1>4. QED
  BY <1>1, <1>2, <1>3, PTL DEF Spec
-------------------------------------------------------------------------------
\* Fewer connections are accepted than there are ids from FirstId on.
EnoughIds == MaxSockets < IdModulus - FirstId

\* The connection that is in the accept handler, before it is rejected or queued.
InHandler == IF asio \in {"sizes", "test_max", "test_ban", "push"} THEN 1 ELSE 0

\* The ids given out so far are those from FirstId up to m_id_counter; one was given out for
\* each connection that was accepted and is no longer on its way.
IdInv ==
    /\ BackInv
    /\ accepted \in 0 .. MaxSockets
    /\ m_id_counter \in Nat /\ m_id_counter >= FirstId
    /\ m_new_connections \in Seq(Ips) /\ socket \in Ips
    /\ (m_id_counter - FirstId) + Len(m_new_connections) + InHandler <= accepted
    /\ DOMAIN m_clients \subseteq FirstId .. m_id_counter - 1
    /\ Creating => client_id \in FirstId .. m_id_counter - 1 /\ client_id \notin DOMAIN m_clients

LEMMA IdStep == EnoughIds /\ IdInv /\ [Next]_vars => IdInv'
<1> SUFFICES ASSUME EnoughIds, IdInv, [Next]_vars PROVE IdInv'
  OBVIOUS
<1> USE DEF IdInv
<1>0. Len(m_new_connections) \in Nat
  BY SeqLen
<1>1. ASSUME NEW ip \in Ips, AcceptCompletes(ip) PROVE IdInv'
  BY <1>0, <1>1 DEF AcceptCompletes, Idle, InHandler, userVars, createVars, Creating, BackInv
<1>2. CASE AcceptFails
  BY <1>0, <1>2 DEF AcceptFails, Idle, AfterError, InHandler, userVars, createVars, Creating, BackInv
<1>3. CASE AcceptHandler
  <2>1. UNCHANGED <<m_clients, accepted, socket, userVars>>
    BY <1>3 DEF AcceptHandler, ReadSize, TestMax, TestBan, Rejects, PushNew, Rearm
  <2>2. CASE PushNew
    <3>1. m_new_connections' \in Seq(Ips) /\ Len(m_new_connections') = Len(m_new_connections) + 1
      BY <2>2, SeqAppend DEF PushNew
    <3>2. InHandler = 1 /\ InHandler' = 0
      BY <2>2 DEF PushNew, InHandler
    <3>3. QED
      BY <1>0, <2>1, <3>1, <3>2 DEF userVars, createVars, Creating, BackInv
  <2>3. CASE UNCHANGED m_new_connections /\ InHandler' <= InHandler
    BY <1>0, <2>1, <2>3 DEF InHandler, userVars, createVars, Creating, BackInv
  <2>4. QED
    BY <1>3, <2>2, <2>3
       DEF AcceptHandler, ReadSize, TestMax, TestBan, Rejects, Rearm, InHandler
<1>4. CASE PopNew
  <2>1. /\ m_new_connections # <<>> /\ m_new_connections' = Tail(m_new_connections)
        /\ m_id_counter' = (m_id_counter + 1) % IdModulus
        /\ UNCHANGED <<m_clients, asioVars, back>>
        /\ Creating' => client_id' = m_id_counter
    BY <1>4 DEF PopNew, NextId, Creating
  <2>2. m_new_connections' \in Seq(Ips) /\ Len(m_new_connections') = Len(m_new_connections) - 1
    BY <2>1, SeqTail
  <2>3. Len(m_new_connections) > 0 /\ InHandler \in {0, 1} /\ UNCHANGED <<accepted, socket, InHandler>>
    BY <1>0, <2>1, SeqEmpty DEF InHandler, asioVars, handlerVars
  <2>4. m_id_counter + 1 < IdModulus
    BY <1>0, <2>3 DEF EnoughIds
  <2>5. m_id_counter' = m_id_counter + 1
    BY <2>1, <2>4
  <2>6. QED
    BY <1>0, <2>1, <2>2, <2>3, <2>5 DEF BackInv
<1>5. CASE create_client
  BY <1>5 DEF create_client, Creating, InHandler, asioVars, handlerVars, BackInv
<1>6. CASE setup_client
  <2>1. DOMAIN m_clients' = DOMAIN m_clients \cup {client_id} /\ Creating /\ ~Creating'
    BY <1>6 DEF setup_client, Emplace, Creating
  <2>2. QED
    BY <1>6, <2>1 DEF setup_client, InHandler, asioVars, handlerVars, BackInv
<1>7. CASE ClientStep
  BY <1>7, ClientSteps, ZenonT(30) DEF ClientFrame, InHandler, asioVars, handlerVars, createVars
<1>8. CASE ThreadStep
  BY <1>8, ThreadSteps DEF InHandler, handlerVars, createVars, Creating, BackInv
<1>9. CASE \/ \E ip \in Ips : ban_ip(ip) \/ unban_ip(ip)
           \/ \E n \in Maxima : set_max_connections(n)
           \/ start
  BY <1>9 DEF ban_ip, unban_ip, set_max_connections, start, InHandler, asioVars, handlerVars,
              createVars, Creating, BackInv
<1>10. CASE UNCHANGED vars
  BY <1>10 DEF vars, InHandler, asioVars, handlerVars, userVars, createVars, Creating, BackInv
<1>11. QED
  BY <1>1, <1>2, <1>3, <1>4, <1>5, <1>6, <1>7, <1>8, <1>9, <1>10, NextSteps

\* As long as fewer than 2^32 - 1000 connections are accepted, no client gets the id of
\* another one, and setup_client never drops a client because its id is taken.
THEOREM IdsAreFree == EnoughIds => (Spec => []IdIsFree)
<1> SUFFICES ASSUME EnoughIds PROVE Spec => []IdIsFree
  OBVIOUS
<1>1. Init => IdInv
  BY SeqEmpty DEF Init, IdInv, InHandler, Creating, BackInv
<1>2. IdInv => IdIsFree
  BY DEF IdInv, IdIsFree, Creating
<1>3. IdInv /\ [Next]_vars => IdInv'
  BY IdStep
<1>4. QED
  BY <1>1, <1>2, <1>3, PTL DEF Spec
-------------------------------------------------------------------------------
\* What bounds the admitted connections in terms of M, the greatest maximum.  The sizes that
\* the handler has read may be out of date, but meanwhile nothing is pushed and a connection
\* can only move on, from the queue to the clients: a number of clients that was read is
\* short by at most the queue and the one that is being created.
AdmissionInv(M) ==
    /\ BackInv
    /\ IsFiniteSet(DOMAIN m_clients) /\ m_new_connections \in Seq(Ips) /\ socket \in Ips
    /\ m_max_connections \in Maxima
    /\ Len(m_new_connections) <= M /\ Admitted <= 2 * M + 1
    /\ "clients" \in DOMAIN seen => seen["clients"] \in Nat /\ Admitted <= seen["clients"] + M + 1
    /\ "new" \in DOMAIN seen => seen["new"] \in Nat /\ Len(m_new_connections) <= seen["new"]
    /\ DOMAIN seen # {} => asio \in {"sizes", "test_max"}
    /\ DOMAIN seen \subseteq {"clients", "new"}
    /\ asio = "test_max" => DOMAIN seen = {"clients", "new"}
    /\ asio \in {"test_ban", "push"} => Len(m_new_connections) < M /\ Admitted <= 2 * M

\* The user's thread never adds to what is admitted.
Shrinks ==
    /\ UNCHANGED <<asio, socket, seen>> /\ BackInv'
    /\ IsFiniteSet(DOMAIN m_clients') /\ m_new_connections' \in Seq(Ips)
    /\ Len(m_new_connections') <= Len(m_new_connections) /\ Admitted' <= Admitted
    /\ m_max_connections' \in Maxima

\* How the number of elements of a finite set changes; shown at the end of the module.
Counting ==
    \A S : IsFiniteSet(S) =>
        /\ Cardinality(S) \in Nat
        /\ \A x : /\ IsFiniteSet(S \cup {x})
                 /\ Cardinality(S \cup {x}) \in {Cardinality(S), Cardinality(S) + 1}
        /\ \A x \in S : IsFiniteSet(S \ {x}) /\ Cardinality(S \ {x}) = Cardinality(S) - 1

LEMMA AdmittedType ==
    ASSUME Counting, IsFiniteSet(DOMAIN m_clients), m_new_connections \in Seq(Ips)
    PROVE  /\ Cardinality(DOMAIN m_clients) \in Nat /\ Len(m_new_connections) \in Nat
           /\ Admitted \in Nat
BY SeqLen DEF Counting, Admitted

LEMMA ShrinkingIsSafe ==
    ASSUME Counting, NEW M \in Nat, AdmissionInv(M), Shrinks
    PROVE  AdmissionInv(M)'
<1>1. Admitted \in Nat /\ Len(m_new_connections) \in Nat
  BY AdmittedType DEF AdmissionInv
<1>2. Admitted' \in Nat /\ Len(m_new_connections') \in Nat
  <2>1. IsFiniteSet(DOMAIN m_clients') /\ m_new_connections' \in Seq(Ips)
    BY DEF Shrinks
  <2>2. Cardinality(DOMAIN m_clients') \in Nat /\ Len(m_new_connections') \in Nat
    BY <2>1, SeqLen DEF Counting
  <2>3. QED
    BY <2>2 DEF Admitted
<1> HIDE DEF Admitted
<1>3. QED
  BY <1>1, <1>2 DEF AdmissionInv, Shrinks

LEMMA UserShrinks ==
    ASSUME Counting, NEW M \in Nat, AdmissionInv(M),
           \/ \E ip \in Ips : ban_ip(ip) \/ unban_ip(ip)
           \/ \E n \in Maxima : set_max_connections(n)
           \/ start \/ PopNew \/ create_client \/ setup_client \/ ClientStep \/ ThreadStep
           \/ UNCHANGED vars
    PROVE  Shrinks
<1> DEFINE c == Cardinality(DOMAIN m_clients)
           n == Len(m_new_connections)
<1>0. /\ BackInv /\ IsFiniteSet(DOMAIN m_clients) /\ m_new_connections \in Seq(Ips)
      /\ m_max_connections \in Maxima
  BY DEF AdmissionInv
<1>1. c \in Nat /\ n \in Nat
  BY <1>0, AdmittedType
<1>2. ASSUME UNCHANGED <<asio, socket, seen, m_new_connections, m_max_connections>>, BackInv',
             DOMAIN m_clients' = DOMAIN m_clients, Creating' => Creating
      PROVE  Shrinks
  <2>1. Admitted' <= Admitted
    BY <1>0, <1>1, <1>2 DEF Admitted, Creating
  <2>2. QED
    BY <1>0, <1>1, <1>2, <2>1 DEF Shrinks
<1>3. CASE \/ \E ip \in Ips : ban_ip(ip) \/ unban_ip(ip)
           \/ start \/ create_client \/ UNCHANGED vars
  BY <1>0, <1>2, <1>3 DEF ban_ip, unban_ip, start, create_client, Creating, asioVars, handlerVars,
                    settings, userVars, vars, BackInv
<1>4. ASSUME NEW k \in Maxima, set_max_connections(k) PROVE Shrinks
  <2>1. Admitted' <= Admitted
    BY <1>0, <1>1, <1>4 DEF set_max_connections, Admitted
  <2>2. QED
    BY <1>0, <1>1, <1>4, <2>1 DEF set_max_connections, Shrinks, asioVars, handlerVars, BackInv
<1>5. CASE ThreadStep
  BY <1>0, <1>2, <1>5, ThreadSteps DEF handlerVars, settings, BackInv
<1>6. CASE ClientStep
  <2>1. ClientFrame
    BY <1>0, <1>6, ClientSteps
  <2>2. CASE DOMAIN m_clients' = DOMAIN m_clients
    BY <1>0, <1>2, <2>1, <2>2 DEF ClientFrame, asioVars, handlerVars, settings
  <2>3. ASSUME NEW id \in DOMAIN m_clients, DOMAIN m_clients' = DOMAIN m_clients \ {id}
        PROVE  Shrinks
    <3>1. IsFiniteSet(DOMAIN m_clients') /\ Cardinality(DOMAIN m_clients') = c - 1
      <4>1. IsFiniteSet(DOMAIN m_clients \ {id}) /\ Cardinality(DOMAIN m_clients \ {id}) = c - 1
        BY <1>0, <2>3 DEF Counting
      <4>2. QED
        BY <2>3, <4>1, ZenonT(30), SMTT(30)
    <3>2. Admitted' <= Admitted
      BY <1>0, <1>1, <2>1, <3>1 DEF ClientFrame, Admitted, Creating
    <3>3. QED
      BY <1>0, <1>1, <2>1, <3>1, <3>2 DEF ClientFrame, Shrinks, asioVars, handlerVars, settings
  <2>4. QED
    BY <1>0, <2>1, <2>2, <2>3, ZenonT(30) DEF ClientFrame
<1>7. CASE PopNew
  <2>1. /\ m_new_connections # <<>> /\ m_new_connections' = Tail(m_new_connections)
        /\ pc = "out"
        /\ UNCHANGED <<m_clients, asio, socket, seen, m_max_connections, back>>
    BY <1>0, <1>7 DEF PopNew, asioVars, handlerVars, settings
  <2>2. m_new_connections' \in Seq(Ips) /\ Len(m_new_connections') = n - 1
    BY <1>0, <2>1, SeqTail
  <2>3. Admitted' <= Admitted
    BY <1>0, <1>1, <2>1, <2>2 DEF Admitted
  <2>4. QED
    BY <1>0, <1>1, <2>1, <2>2, <2>3 DEF Shrinks, BackInv
<1>8. CASE setup_client
  <2>1. /\ DOMAIN m_clients' = DOMAIN m_clients \cup {client_id}
        /\ pc = "setup" /\ pc' = "out"
        /\ UNCHANGED <<m_new_connections, asio, socket, seen, m_max_connections, back>>
    BY <1>0, <1>8 DEF setup_client, Emplace, asioVars, handlerVars, settings
  <2>2. IsFiniteSet(DOMAIN m_clients') /\ Cardinality(DOMAIN m_clients') \in {c, c + 1}
    <3>1. /\ IsFiniteSet(DOMAIN m_clients \cup {client_id})
          /\ Cardinality(DOMAIN m_clients \cup {client_id}) \in {c, c + 1}
      BY <1>0, ZenonT(30), SMTT(30) DEF Counting
    <3>2. QED
      BY <2>1, <3>1, ZenonT(30), SMTT(30)
  <2>3. Admitted' <= Admitted
    BY <1>0, <1>1, <2>1, <2>2 DEF Admitted
  <2>4. QED
    BY <1>0, <1>1, <2>1, <2>2, <2>3 DEF Shrinks, BackInv
<1>9. QED
  BY <1>0, <1>3, <1>4, <1>5, <1>6, <1>7, <1>8

LEMMA HandlerIsSafe ==
    ASSUME Counting, NEW M \in Nat, \A n \in Maxima : n <= M, AdmissionInv(M),
           AcceptFails \/ AcceptHandler \/ \E ip \in Ips : AcceptCompletes(ip)
    PROVE  AdmissionInv(M)'
<1> DEFINE c == Cardinality(DOMAIN m_clients)
           n == Len(m_new_connections)
<1>1. c \in Nat /\ n \in Nat /\ Admitted \in Nat
  BY AdmittedType DEF AdmissionInv
<1>2. Admitted <= c + n + 1
  BY <1>1 DEF Admitted
<1>3. UNCHANGED <<m_clients, userVars>>
  BY DEF AcceptFails, AcceptHandler, ReadSize, TestMax, TestBan, Rejects, PushNew, Rearm,
         AcceptCompletes
<1>4. UNCHANGED m_new_connections => Admitted' = Admitted
  BY <1>3 DEF Admitted, userVars
<1>5. UNCHANGED <<m_max_connections, BackInv>>
  BY <1>3 DEF userVars, settings, BackInv
<1>6. ASSUME NEW ip \in Ips, AcceptCompletes(ip) PROVE AdmissionInv(M)'
  BY <1>3, <1>4, <1>5, <1>6 DEF AdmissionInv, AcceptCompletes, Idle
<1>7. CASE AcceptFails
  BY <1>3, <1>4, <1>5, <1>7 DEF AdmissionInv, AcceptFails, Idle, AfterError
<1>8. ASSUME NEW which \in {"clients", "new"}, ReadSize(which) PROVE AdmissionInv(M)'
  <2>1. /\ asio = "sizes" /\ which \notin DOMAIN seen
        /\ DOMAIN seen' = DOMAIN seen \cup {which}
        /\ seen'[which] = Size(which)
        /\ \A w \in DOMAIN seen : seen'[w] = seen[w]
        /\ asio' = IF DOMAIN seen = {} THEN "sizes" ELSE "test_max"
        /\ UNCHANGED <<m_new_connections, socket>>
    BY <1>8 DEF ReadSize, Emplace
  <2>2. CASE which = "clients"
    <3>1. seen'["clients"] = c
      BY <2>1, <2>2 DEF Size
    <3>2. Admitted <= c + M + 1
      BY <1>1, <1>2 DEF AdmissionInv
    <3>3. QED
      BY <1>1, <1>3, <1>4, <1>5, <2>1, <2>2, <3>1, <3>2, ZenonT(30) DEF AdmissionInv
  <2>3. CASE which = "new"
    <3>1. seen'["new"] = n
      BY <2>1, <2>3 DEF Size
    <3>2. "clients" \in DOMAIN seen' =>
              seen'["clients"] \in Nat /\ Admitted' <= seen'["clients"] + M + 1
      BY <1>4, <2>1, <2>3 DEF AdmissionInv
    <3>3. /\ DOMAIN seen' \subseteq {"clients", "new"} /\ asio' \in {"sizes", "test_max"}
          /\ asio' = "test_max" => DOMAIN seen' = {"clients", "new"}
      BY <2>1, <2>3, ZenonT(30) DEF AdmissionInv
    <3>4. QED
      BY <1>1, <1>3, <1>4, <1>5, <2>1, <3>1, <3>2, <3>3 DEF AdmissionInv
  <2>4. QED
    BY <2>2, <2>3
<1>9. CASE TestMax
  <2>1. /\ asio = "test_max" /\ seen' = NoSizes
        /\ asio' = IF seen["clients"] + seen["new"] >= m_max_connections THEN "rearm" ELSE "test_ban"
        /\ UNCHANGED <<m_new_connections, socket>>
    BY <1>9 DEF TestMax, Rejects
  <2>2. /\ seen["clients"] \in Nat /\ Admitted <= seen["clients"] + M + 1
        /\ seen["new"] \in Nat /\ n <= seen["new"]
        /\ m_max_connections \in Nat /\ m_max_connections <= M
    BY <2>1 DEF AdmissionInv
  <2>3. asio' = "test_ban" => n < M /\ Admitted <= 2 * M
    BY <1>1, <2>1, <2>2
  <2>4. DOMAIN seen' = {} /\ asio' \in {"rearm", "test_ban"}
    BY <2>1 DEF NoSizes
  <2>5. QED
    BY <1>3, <1>4, <1>5, <2>1, <2>3, <2>4 DEF AdmissionInv
<1>10. CASE TestBan \/ Rearm
  <2>1. /\ UNCHANGED <<m_new_connections, socket>>
        /\ DOMAIN seen' = {}
        /\ asio' \in {"idle", "rearm", "push"}
        /\ asio' = "push" => asio = "test_ban"
    BY <1>10, ZenonT(30) DEF TestBan, Rearm, Rejects, NoSizes, AdmissionInv
  <2>2. QED
    BY <1>3, <1>4, <1>5, <2>1 DEF AdmissionInv
<1>11. CASE PushNew
  <2>1. /\ asio = "push" /\ asio' = "rearm" /\ UNCHANGED <<seen, socket>>
        /\ m_new_connections' = Append(m_new_connections, socket)
    BY <1>11 DEF PushNew
  <2>2. m_new_connections' \in Seq(Ips) /\ Len(m_new_connections') = n + 1
    BY <2>1, SeqAppend DEF AdmissionInv
  <2>3. Admitted' = Admitted + 1
    BY <1>1, <1>3, <2>2 DEF Admitted, userVars
  <2>4. n < M /\ Admitted <= 2 * M /\ DOMAIN seen = {}
    BY <2>1, ZenonT(30) DEF AdmissionInv
  <2>5. Len(m_new_connections') <= M /\ Admitted' <= 2 * M + 1
    BY <1>1, <2>2, <2>3, <2>4
  <2>6. QED
    BY <1>3, <1>5, <2>1, <2>2, <2>4, <2>5 DEF AdmissionInv
<1>12. QED
  BY <1>6, <1>7, <1>8, <1>9, <1>10, <1>11 DEF AcceptHandler

-------------------------------------------------------------------------------
\* A loop over m_clients is at work, also while a callback runs that it has called.
InLoop == pc = "loop" \/ (pc = "callback" /\ back = "loop")

Skipped == IF loop = "send" THEN {ignored} ELSE {}

IdsInRange == DOMAIN m_clients \subseteq ClientIds /\ m_id_counter \in ClientIds /\ client_id \in ClientIds

\* What the loop has done and what is before it, together, are all clients.
LoopInv ==
    InLoop =>
        /\ todo \subseteq DOMAIN m_clients /\ it \notin todo
        /\ it = End => todo = {}
        /\ ~dangling => it \in DOMAIN m_clients \cup {End}
        /\ DOMAIN m_clients \ Skipped \subseteq reached \cup todo \cup {it}

\* Moving on to one of the clients S, or to the end if there is none.
LEMMA MovedTo ==
    ASSUME NEW S, End \notin S, MoveTo(S)
    PROVE  /\ todo' \cup {it'} \subseteq S \cup {End} /\ S \subseteq todo' \cup {it'}
           /\ todo' \subseteq S /\ it' \notin todo'
           /\ it' = End => todo' = {}
BY DEF MoveTo

LEMMA RangeStep == BackInv /\ IdsInRange /\ [Next]_vars => IdsInRange'
<1> SUFFICES ASSUME BackInv, IdsInRange, [Next]_vars PROVE IdsInRange'
  OBVIOUS
<1> USE DEF IdsInRange
<1>1. CASE PopNew
  <2>1. m_id_counter' = (m_id_counter + 1) % IdModulus /\ client_id' \in {client_id, m_id_counter}
    BY <1>1 DEF PopNew, NextId
  <2>2. m_id_counter' \in ClientIds
    BY <2>1 DEF ClientIds
  <2>3. QED
    BY <1>1, <2>1, <2>2 DEF PopNew
<1>2. CASE create_client
  BY <1>2 DEF create_client, ClientIds
<1>3. CASE setup_client
  BY <1>3 DEF setup_client, Emplace, ClientIds
<1>4. CASE ClientStep
  BY <1>4, ClientSteps, ZenonT(30) DEF ClientFrame, createVars
<1>5. CASE ThreadStep
  BY <1>5, ThreadSteps DEF createVars
<1>6. CASE \/ \E ip \in Ips : AcceptCompletes(ip) \/ ban_ip(ip) \/ unban_ip(ip)
           \/ \E n \in Maxima : set_max_connections(n)
           \/ AcceptFails \/ AcceptHandler \/ start \/ UNCHANGED vars
  BY <1>6, ZenonT(30) DEF AcceptCompletes, ban_ip, unban_ip, set_max_connections, AcceptFails, AcceptHandler,
              ReadSize, TestMax, TestBan, Rejects, PushNew, Rearm, start, vars, userVars, createVars
<1>7. QED
  BY <1>1, <1>2, <1>3, <1>4, <1>5, <1>6, NextSteps

LEMMA LoopStep == BackInv /\ IdsInRange /\ LoopInv /\ [Next]_vars => BackInv' /\ LoopInv'
<1> SUFFICES ASSUME BackInv, IdsInRange, LoopInv, [Next]_vars PROVE BackInv' /\ LoopInv'
  OBVIOUS
<1>0. End \notin DOMAIN m_clients
  BY DEF IdsInRange, ClientIds, End
<1>1. BackInv'
  <2>1. CASE ClientStep
    BY <2>1, ClientSteps DEF ClientFrame
  <2>2. CASE ThreadStep
    BY <2>2, ThreadSteps DEF BackInv
  <2>3. CASE \/ \E ip \in Ips : AcceptCompletes(ip) \/ ban_ip(ip) \/ unban_ip(ip)
             \/ \E n \in Maxima : set_max_connections(n)
             \/ AcceptFails \/ AcceptHandler \/ start \/ PopNew \/ create_client \/ setup_client
             \/ UNCHANGED vars
    BY <2>3, ZenonT(30) DEF AcceptCompletes, ban_ip, unban_ip, set_max_connections, AcceptFails, AcceptHandler,
                ReadSize, TestMax, TestBan, Rejects, PushNew, Rearm, start, PopNew, create_client,
                setup_client, vars, userVars, BackInv
  <2>4. QED
    BY <2>1, <2>2, <2>3, NextSteps
<1> SUFFICES LoopInv'
  BY <1>1
<1>2. ASSUME UNCHANGED loopVars, InLoop' => InLoop, InLoop => DOMAIN m_clients' = DOMAIN m_clients
      PROVE  LoopInv'
  BY <1>2, ZenonT(30) DEF LoopInv, loopVars, Skipped
<1>3. CASE \/ \E ip \in Ips : AcceptCompletes(ip) \/ ban_ip(ip) \/ unban_ip(ip)
           \/ \E n \in Maxima : set_max_connections(n)
           \/ AcceptFails \/ AcceptHandler \/ UNCHANGED vars
  BY <1>2, <1>3 DEF AcceptCompletes, ban_ip, unban_ip, set_max_connections, AcceptFails,
                    AcceptHandler, ReadSize, TestMax, TestBan, Rejects, PushNew, Rearm, vars, userVars,
                    InLoop
<1>4. CASE start \/ PopNew \/ create_client \/ setup_client \/ start_asio_thread \/ stop \/ Stop \/ Join
  BY <1>2, <1>4 DEF start, PopNew, create_client, setup_client, start_asio_thread, stop, Stop, Join,
                    Stopping, InLoop
<1>5. CASE AsioThread
  BY <1>2, <1>5 DEF AsioThread, userVars, InLoop
<1>6. ASSUME NEW id \in DOMAIN m_clients, ConnectionCloses(id) PROVE LoopInv'
  BY <1>2, <1>6 DEF ConnectionCloses, userVars, InLoop
<1>7. ASSUME NEW id \in DOMAIN m_clients, disconnect_client(id) \/ send_message_to_client(id)
      PROVE  LoopInv'
  BY <1>7 DEF disconnect_client, send_message_to_client, remove_client, LoopInv, InLoop
<1>8. ASSUME NEW id \in DOMAIN m_clients, CallbackRemoves(id) PROVE LoopInv'
  <2>1. /\ DOMAIN m_clients' = DOMAIN m_clients \ {id} /\ todo' = todo \ {id}
        /\ dangling' = (dangling \/ id = it)
        /\ UNCHANGED <<pc, back, it, loop, ignored, reached>>
    BY <1>8 DEF CallbackRemoves, Erase
  <2>2. ~dangling' => ~dangling /\ id # it
    BY <2>1, ZenonT(30)
  <2>3. QED
    BY <2>1, <2>2 DEF LoopInv, InLoop, Skipped
<1>9. CASE CallbackReturns
  <2>1. CASE pc' = back /\ UNCHANGED loopVars
    BY <1>2, <1>9, <2>1 DEF CallbackReturns, InLoop
  <2>2. CASE pc' = "out" /\ LeaveLoop
    BY <1>9, <2>2 DEF CallbackReturns, LoopInv, InLoop
  <2>3. QED
    BY <1>9, <2>1, <2>2 DEF CallbackReturns
<1>10. CASE send_message_to_all_clients \/ check_connections
  <2>1. MoveTo(DOMAIN m_clients) /\ UNCHANGED m_clients
    BY <1>10 DEF send_message_to_all_clients, check_connections, StartLoop
  <2>2. QED
    BY <1>0, <2>1, MovedTo DEF LoopInv
<1>11. CASE LoopKeeps
  <2>1. /\ InLoop /\ it \in DOMAIN m_clients /\ MoveTo(todo)
        /\ reached' = IF loop = "send" /\ it = ignored THEN reached ELSE reached \cup {it}
        /\ UNCHANGED <<m_clients, loop, ignored, dangling>>
    BY <1>11 DEF LoopKeeps, InLoop
  <2>2. End \notin todo
    BY <1>0, <2>1 DEF LoopInv
  <2>3. QED
    BY <2>1, <2>2, MovedTo DEF LoopInv, Skipped
<1>12. CASE LoopRemoves
  <2>1. /\ InLoop /\ it \in DOMAIN m_clients /\ MoveTo(todo)
        /\ DOMAIN m_clients' = DOMAIN m_clients \ {it}
        /\ UNCHANGED <<loop, ignored, dangling, reached>>
    BY <1>12 DEF LoopRemoves, NextIterator, remove_client, Erase, InLoop
  <2>2. End \notin todo
    BY <1>0, <2>1 DEF LoopInv
  <2>3. QED
    BY <2>1, <2>2, MovedTo DEF LoopInv, Skipped
<1>13. CASE LoopFails
  BY <1>2, <1>13 DEF LoopFails, userVars, InLoop
<1>14. CASE LoopEnds
  BY <1>14 DEF LoopEnds, LoopInv, InLoop
<1>15. QED
  BY <1>3, <1>4, <1>5, <1>6, <1>7, <1>8, <1>9, <1>10, <1>11, <1>12, <1>13, <1>14, NextSteps
     DEF ClientStep, ThreadStep

\* A loop over m_clients reaches every client that is left when it is done, and follows no
\* iterator to an erased client unless a callback erased that very client, for any number
\* of clients, any order of the map and whatever else the callbacks remove.
THEOREM LoopsReachAll == Spec => [](EveryClientReached /\ NextIsAClient)
<1>1. Init => BackInv /\ IdsInRange /\ LoopInv
  BY DEF Init, BackInv, IdsInRange, ClientIds, LoopInv, InLoop
<1>2. IdsInRange /\ LoopInv => EveryClientReached /\ NextIsAClient
  BY DEF IdsInRange, ClientIds, End, LoopInv, InLoop, Skipped, EveryClientReached, NextIsAClient
<1>3. QED
  BY <1>1, <1>2, RangeStep, LoopStep, PTL DEF Spec
-------------------------------------------------------------------------------
\* The accept handler's part of the state.  An accept that ends the program is not started
\* again, so there may be fewer accepts than calls of start(), but never more.
HandlerType ==
    /\ m_new_connections \in Seq(Ips)
    /\ accepts \in Nat /\ starts \in 0 .. MaxStarts
    /\ accepts + (IF asio = "idle" THEN 0 ELSE 1) <= starts
    /\ accepted \in 0 .. MaxSockets
    /\ asio \in {"idle", "sizes", "test_max", "test_ban", "push", "rearm"}
    /\ socket \in Ips
    /\ barred \in BOOLEAN
    /\ DOMAIN seen \subseteq {"clients", "new"}
    /\ seen \in [DOMAIN seen -> Nat]

ClientsType ==
    /\ IdsInRange
    /\ m_clients \in [DOMAIN m_clients -> BOOLEAN]

\* The rest of the user's thread.
UserType ==
    /\ m_max_connections \in Maxima
    /\ m_banned_ip \subseteq Ips
    /\ pc \in {"out", "start_asio_thread", "stop", "join", "create", "setup", "loop", "callback"}
    /\ loop \in {"send", "check"}
    /\ ignored \in ClientIds
    /\ it \in ClientIds \cup {End}
    /\ todo \subseteq ClientIds
    /\ dangling \in BOOLEAN
    /\ reached \subseteq ClientIds
    /\ fault \in {"none", "terminate", "bad_iterator"}

LEMMA HandlerTypeStep ==
    ASSUME BackInv, HandlerType, [Next]_vars,
           \A which \in {"clients", "new"} : Size(which) \in Nat
    PROVE  HandlerType'
<1>1. ASSUME NEW ip \in Ips, AcceptCompletes(ip) PROVE HandlerType'
  <2>1. barred' \in BOOLEAN
    <3>1. barred' = (ip \in m_banned_ip)
      BY <1>1 DEF AcceptCompletes
    <3>2. (ip \in m_banned_ip) \in BOOLEAN
      OBVIOUS
    <3>3. QED
      BY <3>1, <3>2
  <2>2. /\ accepts > 0 /\ accepts' = accepts - 1 /\ asio = "idle" /\ asio' \in {"idle", "sizes"}
        /\ accepted < MaxSockets /\ accepted' = accepted + 1 /\ socket' = ip
        /\ UNCHANGED <<m_new_connections, seen, starts>>
    BY <1>1 DEF AcceptCompletes, Idle, userVars
  <2>3. QED
    BY <2>1, <2>2 DEF HandlerType
<1>2. CASE AcceptFails
  BY <1>2 DEF AcceptFails, Idle, AfterError, userVars, HandlerType
<1>3. ASSUME NEW which \in {"clients", "new"}, ReadSize(which) PROVE HandlerType'
  <2>1. /\ DOMAIN seen' = DOMAIN seen \cup {which}
        /\ seen' = [w \in DOMAIN seen \cup {which} |-> IF w \in DOMAIN seen THEN seen[w] ELSE Size(which)]
        /\ asio # "idle" /\ asio' \in {"sizes", "test_max"}
        /\ UNCHANGED <<m_new_connections, accepts, starts, accepted, socket, barred>>
    BY <1>3 DEF ReadSize, Emplace, userVars
  <2>2. seen' \in [DOMAIN seen' -> Nat]
    BY <2>1 DEF HandlerType
  <2>3. QED
    BY <2>1, <2>2 DEF HandlerType
<1>4. CASE TestMax \/ TestBan
  <2>1. /\ asio # "idle" /\ asio' \in {"rearm", "test_ban", "push"} /\ seen' = NoSizes
        /\ UNCHANGED <<m_new_connections, accepts, starts, accepted, socket, barred>>
    BY <1>4 DEF TestMax, TestBan, Rejects, userVars
  <2>2. DOMAIN seen' = {} /\ seen' \in [{} -> Nat]
    BY <2>1 DEF NoSizes
  <2>3. QED
    BY <2>1, <2>2 DEF HandlerType
<1>5. CASE PushNew
  <2>1. m_new_connections' \in Seq(Ips)
    BY <1>5, SeqAppend DEF PushNew, HandlerType
  <2>2. QED
    BY <1>5, <2>1 DEF PushNew, userVars, HandlerType
<1>6. CASE Rearm
  <2>1. barred' \in BOOLEAN
    BY <1>6, ZenonT(30) DEF Rearm
  <2>2. QED
    BY <1>6, <2>1 DEF Rearm, userVars, HandlerType
<1>7. CASE start
  <2>1. /\ starts < MaxStarts /\ starts' = starts + 1 /\ accepts' = accepts + 1
        /\ UNCHANGED <<m_new_connections, accepted, asio, socket, barred, seen>>
    BY <1>7 DEF start
  <2>2. QED
    BY <2>1 DEF HandlerType
<1>8. CASE PopNew
  <2>1. m_new_connections' \in Seq(Ips)
    BY <1>8, SeqTail DEF PopNew, HandlerType
  <2>2. QED
    BY <1>8, <2>1 DEF PopNew, asioVars, handlerVars, HandlerType
<1>9. ASSUME NEW ip \in Ips, unban_ip(ip) PROVE HandlerType'
  <2>1. barred' \in BOOLEAN
    BY <1>9, ZenonT(30) DEF unban_ip
  <2>2. QED
    BY <1>9, <2>1 DEF unban_ip, HandlerType
<1>10. ASSUME UNCHANGED <<m_new_connections, handlerVars, starts>> PROVE HandlerType'
  BY <1>10 DEF handlerVars, HandlerType
<1>11. CASE \/ \E ip \in Ips : ban_ip(ip)
            \/ \E n \in Maxima : set_max_connections(n)
            \/ create_client \/ setup_client \/ UNCHANGED vars
  BY <1>10, <1>11 DEF ban_ip, set_max_connections, create_client, setup_client, vars, asioVars, userVars
<1>12. CASE ClientStep
  BY <1>10, <1>12, ClientSteps, ZenonT(30), SMTT(30) DEF ClientFrame, asioVars
<1>13. CASE ThreadStep
  BY <1>10, <1>13, ThreadSteps
<1>14. QED
  BY <1>1, <1>2, <1>3, <1>4, <1>5, <1>6, <1>7, <1>8, <1>9, <1>11, <1>12, <1>13, NextSteps
     DEF AcceptHandler

LEMMA ThreadTypeStep == ThreadTypeOK /\ [Next]_vars => ThreadTypeOK'
<1> SUFFICES ASSUME ThreadTypeOK, [Next]_vars PROVE ThreadTypeOK'
  OBVIOUS
<1>1. ASSUME UNCHANGED threadVars PROVE ThreadTypeOK'
  BY <1>1 DEF ThreadTypeOK, threadVars
<1>2. CASE start_asio_thread
  <2>1. CASE StartThread
    BY <2>1, ZenonT(30) DEF StartThread, ThreadTypeOK
  <2>2. CASE StartThrows
    BY <1>1, <2>2 DEF StartThrows
  <2>3. QED
    BY <1>2, <2>1, <2>2 DEF start_asio_thread
<1>3. CASE stop
  BY <1>3, ZenonT(30) DEF stop, Stopping, SetStopFlag, ThreadTypeOK
<1>4. CASE Stop
  BY <1>4, ZenonT(30) DEF Stop, Stopping, StopContext, ThreadTypeOK
<1>5. CASE Join
  BY <1>5, ZenonT(30) DEF Join, Stopping, JoinThread, ThreadTypeOK
<1>6. CASE AsioThread
  <2>1. UNCHANGED m_asio_thread_stop_flag /\ stopped' \in BOOLEAN
    BY <1>6, ZenonT(30) DEF AsioThread, asio_thread, RunReturns, ThreadTypeOK
  <2>2. thread' \in {"loop", "run", "exited"}
    BY <1>6, ZenonT(30) DEF AsioThread, asio_thread, RunReturns, ThreadTypeOK
  <2>3. QED
    BY <2>1, <2>2 DEF ThreadTypeOK
<1>7. CASE \/ \E ip \in Ips : AcceptCompletes(ip) \/ ban_ip(ip) \/ unban_ip(ip)
           \/ \E n \in Maxima : set_max_connections(n)
           \/ AcceptFails \/ AcceptHandler \/ start \/ PopNew \/ create_client \/ setup_client
           \/ UNCHANGED vars
  <2>1. CASE \E ip \in Ips : AcceptCompletes(ip) \/ ban_ip(ip) \/ unban_ip(ip)
    BY <1>1, <2>1 DEF AcceptCompletes, ban_ip, unban_ip, asioVars
  <2>2. CASE \E n \in Maxima : set_max_connections(n)
    BY <1>1, <2>2 DEF set_max_connections, asioVars
  <2>3. CASE AcceptFails \/ AcceptHandler
    BY <1>1, <2>3 DEF AcceptFails, AcceptHandler, ReadSize, TestMax, TestBan, Rejects, PushNew, Rearm, asioVars
  <2>4. CASE start \/ PopNew \/ create_client \/ setup_client \/ UNCHANGED vars
    BY <1>1, <2>4 DEF start, PopNew, create_client, setup_client, vars, asioVars
  <2>5. QED
    BY <1>7, <2>1, <2>2, <2>3, <2>4, ZenonT(30)
<1>8. CASE ClientStep
  <2>1. UNCHANGED asioVars
    BY <1>8, ZenonT(30) DEF ClientStep, ConnectionCloses, disconnect_client, send_message_to_client,
                remove_client, CallbackRemoves, CallbackReturns, send_message_to_all_clients,
                check_connections, StartLoop, LoopKeeps, LoopRemoves, LoopFails, LoopEnds
  <2>2. QED
    BY <1>1, <2>1 DEF asioVars
<1>9. QED
  BY <1>2, <1>3, <1>4, <1>5, <1>6, <1>7, <1>8, NextSteps DEF ThreadStep

LEMMA ClientsTypeStep == ClientsType /\ [Next]_vars => m_clients' \in [DOMAIN m_clients' -> BOOLEAN]
<1> DEFINE Typed == m_clients \in [DOMAIN m_clients -> BOOLEAN]
<1> SUFFICES ASSUME Typed, [Next]_vars PROVE Typed'
  BY DEF ClientsType
<1>1. ASSUME UNCHANGED m_clients PROVE Typed'
  BY <1>1
<1>2. ASSUME NEW id, Erase(id) PROVE Typed'
  BY <1>2 DEF Erase
<1>3. CASE setup_client
  <2>1. PICK open \in BOOLEAN : m_clients' = Emplace(m_clients, client_id, open)
    BY <1>3 DEF setup_client
  <2>2. QED
    BY <2>1 DEF Emplace
<1>4. ASSUME NEW id \in DOMAIN m_clients, ConnectionCloses(id) PROVE Typed'
  BY <1>4, ZenonT(30), SMTT(30) DEF ConnectionCloses
<1> HIDE DEF Typed
<1>5. CASE ClientStep
  BY <1>1, <1>2, <1>4, <1>5, ZenonT(30), SMTT(30)
     DEF ClientStep, disconnect_client, send_message_to_client, remove_client, CallbackRemoves,
         CallbackReturns, send_message_to_all_clients, check_connections, StartLoop, LoopKeeps,
         LoopRemoves, LoopFails, LoopEnds
<1>6. CASE ThreadStep
  BY <1>1, <1>6, ThreadSteps
<1>7. CASE \/ \E ip \in Ips : AcceptCompletes(ip) \/ ban_ip(ip) \/ unban_ip(ip)
           \/ \E n \in Maxima : set_max_connections(n)
           \/ AcceptFails \/ AcceptHandler \/ start \/ PopNew \/ create_client \/ UNCHANGED vars
  <2>1. CASE \E ip \in Ips : AcceptCompletes(ip) \/ ban_ip(ip) \/ unban_ip(ip)
    BY <1>1, <2>1 DEF AcceptCompletes, ban_ip, unban_ip
  <2>2. CASE \E n \in Maxima : set_max_connections(n)
    BY <1>1, <2>2 DEF set_max_connections
  <2>3. CASE AcceptFails \/ AcceptHandler
    BY <1>1, <2>3 DEF AcceptFails, AcceptHandler, ReadSize, TestMax, TestBan, Rejects, PushNew, Rearm
  <2>4. CASE start \/ PopNew \/ create_client \/ UNCHANGED vars
    BY <1>1, <2>4 DEF start, PopNew, create_client, vars
  <2>5. QED
    BY <1>7, <2>1, <2>2, <2>3, <2>4, ZenonT(30)
<1>8. QED
  BY <1>3, <1>5, <1>6, <1>7, NextSteps

LEMMA UserTypeStep == BackInv /\ IdsInRange /\ UserType /\ [Next]_vars => UserType'
<1> SUFFICES ASSUME BackInv, IdsInRange, UserType, [Next]_vars PROVE UserType'
  OBVIOUS
<1> DEFINE Pcs == {"out", "start_asio_thread", "stop", "join", "create", "setup", "loop", "callback"}
<1>0. DOMAIN m_clients \subseteq ClientIds /\ End \notin ClientIds /\ 0 \in ClientIds
  BY DEF IdsInRange, ClientIds, End
<1>1. ASSUME UNCHANGED <<settings, loopVars, fault>>, pc' \in Pcs PROVE UserType'
  BY <1>1 DEF UserType, settings, loopVars
<1>2. ASSUME NEW ip \in Ips, AcceptCompletes(ip) PROVE UserType'
  BY <1>2 DEF AcceptCompletes, userVars, settings, loopVars, UserType
<1>3. CASE AcceptFails \/ AcceptHandler \/ AsioThread \/ UNCHANGED vars
  BY <1>1, <1>3, ZenonT(30) DEF AcceptFails, AcceptHandler, ReadSize, TestMax, TestBan, Rejects, PushNew, Rearm,
                    AsioThread, vars, userVars, UserType
<1>4. CASE \/ start \/ PopNew \/ create_client \/ setup_client \/ start_asio_thread \/ stop \/ Stop \/ Join
           \/ (CallbackReturns /\ UNCHANGED loopVars)
  BY <1>1, <1>4 DEF start, PopNew, create_client, setup_client, start_asio_thread, stop, Stop, Join,
                    Stopping, CallbackReturns, BackInv, UserType
<1>5. ASSUME NEW ip \in Ips, ban_ip(ip) \/ unban_ip(ip) PROVE UserType'
  BY <1>5 DEF ban_ip, unban_ip, loopVars, UserType
<1>6. ASSUME NEW n \in Maxima, set_max_connections(n) PROVE UserType'
  BY <1>6 DEF set_max_connections, loopVars, UserType
<1>7. ASSUME NEW id \in DOMAIN m_clients,
             ConnectionCloses(id) \/ disconnect_client(id) \/ send_message_to_client(id)
      PROVE  UserType'
  BY <1>1, <1>7 DEF ConnectionCloses, disconnect_client, send_message_to_client, remove_client,
                    userVars, UserType
<1>8. ASSUME NEW id \in DOMAIN m_clients, CallbackRemoves(id) PROVE UserType'
  <2>1. dangling' \in BOOLEAN
    <3>1. dangling' = (dangling \/ id = it)
      BY <1>8 DEF CallbackRemoves
    <3>2. QED
      BY <3>1, ZenonT(30)
  <2>2. QED
    BY <1>8, <2>1 DEF CallbackRemoves, settings, UserType
<1>9. ASSUME NEW S \in SUBSET ClientIds, MoveTo(S) PROVE it' \in ClientIds \cup {End} /\ todo' \subseteq ClientIds
  BY <1>9 DEF MoveTo
<1>10. CASE send_message_to_all_clients \/ check_connections
  <2>1. PICK kind \in {"send", "check"}, except \in ClientIds : StartLoop(kind, except)
    BY <1>0, <1>10 DEF send_message_to_all_clients, check_connections, ClientIds
  <2>2. it' \in ClientIds \cup {End} /\ todo' \subseteq ClientIds
    BY <1>0, <1>9, <2>1 DEF StartLoop
  <2>3. dangling' \in BOOLEAN /\ reached' = {}
    BY <2>1, ZenonT(30) DEF StartLoop
  <2>4. QED
    BY <2>1, <2>2, <2>3 DEF StartLoop, settings, UserType
<1>11. CASE LoopKeeps
  <2>1. it' \in ClientIds \cup {End} /\ todo' \subseteq ClientIds
    BY <1>9, <1>11 DEF LoopKeeps, UserType
  <2>2. reached' \subseteq ClientIds
    BY <1>0, <1>11 DEF LoopKeeps, UserType
  <2>3. QED
    BY <1>11, <2>1, <2>2 DEF LoopKeeps, settings, UserType
<1>12. CASE LoopRemoves
  <2>1. it' \in ClientIds \cup {End} /\ todo' \subseteq ClientIds
    BY <1>9, <1>12 DEF LoopRemoves, NextIterator, UserType
  <2>2. QED
    BY <1>12, <2>1 DEF LoopRemoves, remove_client, settings, UserType
<1>13. CASE LoopFails
  BY <1>13 DEF LoopFails, userVars, settings, loopVars, UserType
<1>14. CASE LoopEnds \/ (CallbackReturns /\ LeaveLoop)
  <2>1. /\ loop' = "check" /\ ignored' = 0 /\ it' = End /\ todo' = {} /\ dangling' = FALSE
        /\ reached' = {}
    BY <1>14 DEF LoopEnds, LeaveLoop
  <2>2. UNCHANGED <<settings, fault>> /\ pc' \in {"out", back}
    BY <1>14 DEF LoopEnds, CallbackReturns
  <2>3. dangling' \in BOOLEAN
    BY <2>1, ZenonT(30)
  <2>4. QED
    BY <1>0, <2>1, <2>2, <2>3 DEF settings, BackInv, UserType
<1>15. CallbackReturns => UNCHANGED loopVars \/ LeaveLoop
  BY DEF CallbackReturns
<1>16. QED
  BY <1>2, <1>3, <1>4, <1>5, <1>6, <1>7, <1>8, <1>10, <1>11, <1>12, <1>13, <1>14, <1>15, NextSteps
     DEF ClientStep, ThreadStep

-------------------------------------------------------------------------------
(***************************************************************************)
(* The theorems that depend on the number of elements of m_clients.        *)
(***************************************************************************)
INSTANCE FiniteSetTheorems

LEMMA Counts == Counting
BY FS_CardinalityType, FS_AddElement, FS_RemoveElement, ZenonT(30) DEF Counting

\* The number of clients is a number: there are only finitely many ids.
LEMMA SizeType ==
    ASSUME IdsInRange, m_new_connections \in Seq(Ips), NEW which \in {"clients", "new"}
    PROVE  Size(which) \in Nat
<1>1. IsFiniteSet(0 .. IdModulus - 1)
  BY FS_Interval
<1>2. IsFiniteSet(DOMAIN m_clients)
  BY <1>1, FS_Subset DEF IdsInRange, ClientIds
<1>3. QED
  BY <1>2, FS_CardinalityType, SeqLen DEF Size

\* If the maxima that are ever set have a greatest one, M, then never more than 2M + 1
\* connections are clients or on their way to become one.
THEOREM AdmissionIsBounded ==
    (\E m \in Maxima : \A k \in Maxima : k <= m) => (Spec => []AdmissionBound)
<1> SUFFICES ASSUME NEW M \in Maxima, \A k \in Maxima : k <= M PROVE Spec => []AdmissionBound
  OBVIOUS
<1>1. Init => AdmissionInv(M)
  <2> SUFFICES ASSUME Init PROVE AdmissionInv(M)
    OBVIOUS
  <2>1. DOMAIN m_clients = {} /\ m_new_connections = <<>> /\ pc = "out" /\ DOMAIN seen = {}
    BY DEF Init, NoSizes
  <2>2. Admitted = 0 /\ IsFiniteSet(DOMAIN m_clients) /\ Len(m_new_connections) = 0
    BY <2>1, FS_EmptySet DEF Admitted
  <2>3. QED
    BY <2>1, <2>2 DEF Init, AdmissionInv, BackInv
<1>2. AdmissionInv(M) /\ [Next]_vars => AdmissionInv(M)'
  BY Counts, NextSteps, HandlerIsSafe, UserShrinks, ShrinkingIsSafe
<1>3. AdmissionInv(M) => AdmissionBound
  BY DEF AdmissionInv, AdmissionBound
<1>4. QED
  BY <1>1, <1>2, <1>3, PTL DEF Spec

\* The server's state is well formed for any number of clients and any width of their ids:
\* m_id_counter wraps around, accepts never outnumber the calls of start(), and the iterator
\* of a loop is a client id or the end.
THEOREM TypeCorrect == Spec => []TypeOK
<1> DEFINE TypeInv == BackInv /\ ThreadTypeOK /\ ClientsType /\ HandlerType /\ LoopInv /\ UserType
<1>1. Init => TypeInv
  <2> SUFFICES ASSUME Init PROVE TypeInv
    OBVIOUS
  <2>1. BackInv /\ IdsInRange /\ LoopInv
    BY DEF Init, BackInv, IdsInRange, ClientIds, LoopInv, InLoop
  <2>2. ThreadTypeOK
    BY ZenonT(30) DEF Init, ThreadInit, ThreadTypeOK
  <2>3. ClientsType
    BY <2>1 DEF Init, ClientsType
  <2>4. barred \in BOOLEAN /\ dangling \in BOOLEAN
    BY ZenonT(30) DEF Init
  <2>5. HandlerType
    BY <2>4, SeqEmpty DEF Init, NoSizes, HandlerType
  <2>6. UserType
    BY <2>4 DEF Init, ClientIds, UserType
  <2>7. QED
    BY <2>1, <2>2, <2>3, <2>5, <2>6
<1>2. TypeInv => TypeOK
  <2> SUFFICES ASSUME TypeInv PROVE TypeOK
    OBVIOUS
  <2>1. accepts \in 0 .. MaxStarts
    BY DEF HandlerType
  <2>2. QED
    BY <2>1, ZenonT(30) DEF BackInv, ClientsType, IdsInRange, HandlerType, UserType, TypeOK
<1>3. TypeInv /\ [Next]_vars => TypeInv'
  <2>1. ClientsType => IdsInRange
    BY DEF ClientsType
  <2>2. IdsInRange' /\ m_clients' \in [DOMAIN m_clients' -> BOOLEAN] => ClientsType'
    BY DEF ClientsType
  <2>3. ClientsType /\ HandlerType => \A which \in {"clients", "new"} : Size(which) \in Nat
    BY <2>1, SizeType DEF HandlerType
  <2>4. QED
    BY <2>1, <2>2, <2>3, LoopStep, RangeStep, HandlerTypeStep, ThreadTypeStep, ClientsTypeStep, UserTypeStep
<1>4. QED
  BY <1>1, <1>2, <1>3, PTL DEF Spec
===============================================================================
