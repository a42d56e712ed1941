----------------------------- MODULE ClientProofs -----------------------------
(***************************************************************************)
(* Theorems about Client, for any number of connects.                      *)
(***************************************************************************)
EXTENDS Client, TLAPS

USE ClientAssumption, SMTT(30), ZenonT(30), SMTT(60)
-------------------------------------------------------------------------------
\* The facts about sequences that the proofs below cite.
LEMMA SeqElement == ASSUME NEW S, NEW s \in Seq(S), NEW i \in 1 .. Len(s) PROVE s[i] \in S
OBVIOUS

LEMMA SeqEmpty ==
    ASSUME NEW S
    PROVE  <<>> \in Seq(S) /\ Len(<<>>) = 0 /\ \A s \in Seq(S) : s # <<>> => Len(s) \in Nat \ {0}
OBVIOUS

LEMMA SeqLen ==
    ASSUME NEW S, NEW s \in Seq(S)
    PROVE  Len(s) \in Nat /\ s \in [1 .. Len(s) -> S] /\ DOMAIN s = 1 .. Len(s)
OBVIOUS

LEMMA SeqAppend ==
    ASSUME NEW S, NEW s \in Seq(S), NEW e \in S
    PROVE  /\ Append(s, e) \in Seq(S) /\ Append(s, e) # <<>>
           /\ Len(Append(s, e)) = Len(s) + 1 /\ Append(s, e)[Len(s) + 1] = e
           /\ \A i \in 1 .. Len(s) : Append(s, e)[i] = s[i]
OBVIOUS

LEMMA SubSeqType ==
    ASSUME NEW S, NEW s, NEW m \in Int, NEW n \in Int, \A i \in m .. n : s[i] \in S
    PROVE  /\ SubSeq(s, m, n) \in Seq(S)
           /\ Len(SubSeq(s, m, n)) = IF m <= n THEN n - m + 1 ELSE 0
           /\ \A i \in 1 .. n - m + 1 : SubSeq(s, m, n)[i] = s[m + i - 1]
OBVIOUS

\* While disconnect() stops the thread the flag stays set.
FlagStaysSet == pc \in {"stop", "join"} => m_asio_thread_stop_flag

\* While disconnect() waits for the thread nothing keeps that thread: the context is stopped,
\* so run() returns and takes no other handler, and the flag is set, so the loop ends.
JoinIsFree == pc = "join" => m_asio_thread_stop_flag /\ stopped

ThreadInv == ThreadTypeOK /\ ThreadIsStopped /\ FlagStaysSet /\ JoinIsFree

LEMMA ThreadStep == ThreadInv /\ [Next]_vars => ThreadInv'
<1> SUFFICES ASSUME ThreadInv, [Next]_vars PROVE ThreadInv'
  OBVIOUS
<1> USE DEF ThreadInv, ThreadTypeOK, ThreadIsStopped, FlagStaysSet, JoinIsFree, threadVars
<1>1. CASE connect
  BY <1>1 DEF connect
<1>2. CASE start_asio_thread
  <2>1. pc = "start_asio_thread" /\ pc' = "out"
    BY <1>2 DEF start_asio_thread
  <2>2. CASE StartThread
    <3>1. thread' = "loop" /\ stopped' = FALSE /\ m_asio_thread_stop_flag' = FALSE
      BY <2>2 DEF StartThread
    <3>2. QED
      BY <2>1, <3>1, Zenon
  <2>3. CASE StartThrows
    BY <2>1, <2>3 DEF StartThrows
  <2>4. QED
    BY <1>2, <2>2, <2>3 DEF start_asio_thread
<1>3. CASE disconnect
  BY <1>3, Zenon DEF disconnect, Stopping, SetStopFlag
<1>4. CASE Stop
  BY <1>4 DEF Stop, Stopping, StopContext
<1>5. CASE Join
  BY <1>5 DEF Join, Stopping, JoinThread
<1>6. CASE Reset
  BY <1>6 DEF Reset
<1>7. CASE AsioThread
  <2>1. UNCHANGED <<pc, m_asio_thread_stop_flag>> /\ (stopped' = stopped \/ stopped' = TRUE)
    BY <1>7, Zenon DEF AsioThread, asio_thread, RunReturns
  <2>2. CASE m_asio_thread_stop_flag
    <3>1. pc \in {"stop", "join"} \/ thread = "none"
      BY <2>2
    <3>2. thread # "none" /\ thread' \in {"loop", "exited"}
      BY <1>7, <2>2, Zenon DEF AsioThread, asio_thread, RunReturns
    <3>3. QED
      BY <2>1, <2>2, <3>1, <3>2, ZenonT(30), SMTT(30)
  <2>3. CASE ~m_asio_thread_stop_flag
    <3>1. thread' \in {"loop", "run"}
      BY <1>7, <2>3 DEF AsioThread, asio_thread, RunReturns
    <3>2. QED
      BY <2>1, <2>3, <3>1, ZenonT(30), SMTT(30)
  <2>4. QED
    BY <2>2, <2>3
<1>8. CASE Handlers
  BY <1>8 DEF Handlers, ConnectCompletes, ConnectHandler, ConnectionHandler
<1>9. CASE handle_server_data \/ UNCHANGED vars
  BY <1>9 DEF handle_server_data, vars
<1>10. QED
  BY <1>1, <1>2, <1>3, <1>4, <1>5, <1>6, <1>7, <1>8, <1>9 DEF Next, Disconnecting

\* After disconnect() there is no Asio thread, and outside of it the thread exists exactly
\* while the flag is not set, whatever calls and handlers came before.
THEOREM ThreadEndsWithDisconnect == Spec => []ThreadIsStopped
<1>1. Init => ThreadInv
  BY Zenon DEF Init, ThreadInit, ThreadInv, ThreadTypeOK, ThreadIsStopped, FlagStaysSet, JoinIsFree
<1>2. ThreadInv => ThreadIsStopped
  BY DEF ThreadInv
<1>3. QED
  BY <1>1, <1>2, ThreadStep, PTL DEF Spec

\* The part of DisconnectReturns that is a safety property: no handler, and no state earlier
\* calls left the context in, can keep the thread that disconnect() waits for.
THEOREM JoinWaitsForNothing == Spec => []JoinIsFree
<1>1. Init => ThreadInv
  BY Zenon DEF Init, ThreadInit, ThreadInv, ThreadTypeOK, ThreadIsStopped, FlagStaysSet, JoinIsFree
<1>2. ThreadInv => JoinIsFree
  BY DEF ThreadInv
<1>3. QED
  BY <1>1, <1>2, ThreadStep, PTL DEF Spec

-------------------------------------------------------------------------------
\* The connect that is outstanding, if there is one, is that of the last connect(), and
\* m_temp_socket is its socket.
ConnectIsLast ==
    /\ \A op \in ops : op.kind = "connect" =>
           /\ op.n = attempt
           /\ op.state = "pending" => m_temp_socket = [n |-> attempt, state |-> "fresh"]
           /\ op.state = "ok" => m_temp_socket = [n |-> attempt, state |-> "connected"]
    /\ \A op1, op2 \in ops : op1.kind = "connect" /\ op2.kind = "connect" => op1 = op2

\* What the last connect() has brought about: an open connection, a server_accept that was
\* received, and server data.  All of them come after its handler.
OnlyFromLast ==
    /\ connected => m_connection = attempt
    /\ \A i \in 1 .. Len(m_in_queue) : m_in_queue[i] = attempt
    /\ m_has_received_server_data => m_remote_id = attempt
    /\ connected \/ m_in_queue # <<>> \/ m_has_received_server_data => ~Connecting

AnyOp == [kind: {"connect", "handshake", "header", "body"}, n: Nat,
          state: {"pending", "ok", "failed"}]

CleanInv ==
    /\ ops \subseteq AnyOp
    /\ m_in_queue \in Seq(Nat) /\ attempt \in Nat
    /\ clean => ConnectIsLast /\ OnlyFromLast

\* The operation that a handler starts is not a connect.
LEMMA NewOps ==
    ASSUME ops \subseteq AnyOp, NEW op \in ops,
           NEW kind \in {"handshake", "header", "body"}, Waits(op, kind)
    PROVE  ops' \subseteq AnyOp /\ \A o \in ops' : o.kind = "connect" => o \in ops \ {op}
BY DEF Waits, AnyOp

LEMMA CleanStep == CleanInv /\ [Next]_vars => CleanInv'
<1> SUFFICES ASSUME CleanInv, [Next]_vars PROVE CleanInv'
  OBVIOUS
<1> USE DEF CleanInv, AnyOp, socketVars, connectionVars, dataVars
<1>1. ASSUME UNCHANGED <<attempt, ops, m_temp_socket, dataVars, clean>>,
             connected' => connected /\ m_connection' = m_connection
      PROVE  CleanInv'
  BY <1>1 DEF ConnectIsLast, OnlyFromLast, Connecting
<1>2. CASE connect
  <2>1. CASE UNCHANGED <<socketVars, pc, clean>>
    <3>1. m_has_received_server_data' = FALSE /\ UNCHANGED <<connectionVars, m_in_queue>>
      BY <1>2 DEF connect, ForgetServer
    <3>2. QED
      BY <2>1, <3>1 DEF ConnectIsLast, OnlyFromLast, Connecting
  <2>2. CASE attempt' = attempt + 1
    <3> DEFINE new == [kind |-> "connect", n |-> attempt + 1, state |-> "pending"]
    <3>1. /\ m_temp_socket' = [n |-> attempt + 1, state |-> "fresh"]
          /\ ops' = Aborted \cup {new}
          /\ clean' = (clean /\ ~Connecting /\ ~connected /\ m_in_queue = <<>>)
          /\ m_has_received_server_data' = FALSE
          /\ UNCHANGED <<connectionVars, m_in_queue>>
      BY <1>2, <2>2 DEF connect, ForgetServer
    <3>2. m_in_queue' \in Seq(Nat) /\ attempt' \in Nat
      BY <2>2, <3>1
    <3>3. ops' \subseteq AnyOp
      BY <3>1 DEF Aborted
    <3>4. ASSUME clean' PROVE ConnectIsLast' /\ OnlyFromLast'
      <4>1. ~Connecting /\ ~connected' /\ m_in_queue' = <<>>
        BY <3>1, <3>4, Zenon
      <4>2. \A op \in Aborted : op.kind # "connect"
        BY <4>1 DEF Aborted, Connecting
      <4>3. ConnectIsLast'
        BY <2>2, <3>1, <4>2 DEF ConnectIsLast
      <4>4. OnlyFromLast'
        BY <3>1, <4>1 DEF OnlyFromLast
      <4>5. QED
        BY <4>3, <4>4
    <3>5. QED
      BY <3>2, <3>3, <3>4
  <2>3. QED
    BY <1>2, <2>1, <2>2 DEF connect
<1>3. CASE start_asio_thread \/ disconnect \/ Disconnecting \/ AsioThread \/ UNCHANGED vars
  <2>1. UNCHANGED <<attempt, ops, m_temp_socket, dataVars, clean>>
    BY <1>3 DEF start_asio_thread, disconnect, Disconnecting, Stop, Join, Reset, Stopping,
                AsioThread, vars
  <2>2. connected' => connected /\ m_connection' = m_connection
    BY <1>3, Zenon DEF start_asio_thread, disconnect, Disconnecting, Stop, Join, Reset, Close, Stopping,
                AsioThread, vars
  <2>3. QED
    BY <1>1, <2>1, <2>2
<1>4. CASE handle_server_data
  <2> DEFINE last == Len(m_in_queue)
  <2>1. /\ m_in_queue # <<>> /\ m_in_queue' = SubSeq(m_in_queue, 1, last - 1)
        /\ \/ m_remote_id' = m_in_queue[last]
           \/ UNCHANGED <<m_remote_id, m_has_received_server_data>>
        /\ UNCHANGED <<socketVars, connectionVars, clean>>
    BY <1>4 DEF handle_server_data
  <2>2. last \in Nat \ {0}
    BY <2>1, SeqLen, SeqEmpty
  <2>3. /\ m_in_queue' \in Seq(Nat)
        /\ Len(m_in_queue') = last - 1
        /\ \A i \in 1 .. last - 1 : m_in_queue'[i] = m_in_queue[i]
    <3>1. PICK n \in Nat : n = last - 1
      BY <2>2
    <3>2. \A i \in 1 .. n : m_in_queue[i] \in Nat
      BY <2>2, <3>1, SeqElement
    <3>3. /\ SubSeq(m_in_queue, 1, n) \in Seq(Nat)
          /\ Len(SubSeq(m_in_queue, 1, n)) = IF 1 <= n THEN n - 1 + 1 ELSE 0
          /\ \A i \in 1 .. n - 1 + 1 : SubSeq(m_in_queue, 1, n)[i] = m_in_queue[1 + i - 1]
      BY <3>2, SubSeqType
    <3>4. /\ Len(SubSeq(m_in_queue, 1, n)) = n
          /\ \A i \in 1 .. n : SubSeq(m_in_queue, 1, n)[i] = m_in_queue[i]
      BY <3>3
    <3>5. QED
      BY <2>1, <3>1, <3>3, <3>4
  <2>4. ASSUME clean PROVE OnlyFromLast'
    <3>1. m_in_queue[last] = attempt /\ ~Connecting
      BY <2>1, <2>2, <2>4 DEF OnlyFromLast
    <3>2. \A i \in 1 .. Len(m_in_queue') : m_in_queue'[i] = attempt
      BY <2>2, <2>3, <2>4 DEF OnlyFromLast
    <3>3. QED
      BY <2>1, <2>4, <3>1, <3>2 DEF OnlyFromLast, Connecting
  <2>5. QED
    BY <2>1, <2>3, <2>4 DEF ConnectIsLast
<1>5. ASSUME NEW op \in ops, ConnectCompletes(op) PROVE CleanInv'
  <2>1. PICK result \in {"ok", "failed"} :
           /\ ops' = (ops \ {op}) \cup {[op EXCEPT !.state = result]}
           /\ m_temp_socket' = IF result = "ok" THEN [m_temp_socket EXCEPT !.state = "connected"]
                               ELSE m_temp_socket
    BY <1>5 DEF ConnectCompletes
  <2>2. /\ op.kind = "connect" /\ op.state = "pending" /\ Connecting
        /\ UNCHANGED <<attempt, connectionVars, dataVars, clean>>
    BY <1>5 DEF ConnectCompletes, Connecting
  <2>3. ASSUME clean PROVE ConnectIsLast' /\ OnlyFromLast'
    <3>1. op.n = attempt /\ m_temp_socket = [n |-> attempt, state |-> "fresh"]
      BY <2>2, <2>3 DEF ConnectIsLast
    <3>2. \A o \in ops \ {op} : o.kind # "connect"
      BY <2>2, <2>3 DEF ConnectIsLast
    <3>3. ConnectIsLast'
      <4> DEFINE new == [kind |-> "connect", n |-> attempt, state |-> result]
      <4>1. [op EXCEPT !.state = result] = new
        BY <2>2, <3>1
      <4>2. result = "ok" => m_temp_socket' = [n |-> attempt, state |-> "connected"]
        BY <2>1, <3>1
      <4>3. QED
        BY <2>1, <2>2, <3>2, <4>1, <4>2 DEF ConnectIsLast
    <3>4. OnlyFromLast'
      BY <2>2, <2>3 DEF OnlyFromLast
    <3>5. QED
      BY <3>3, <3>4
  <2>4. ops' \subseteq AnyOp
    BY <2>1
  <2>5. QED
    BY <2>2, <2>3, <2>4
<1>6. ASSUME NEW op \in ops, ConnectHandler(op) PROVE CleanInv'
  <2>1. op.kind = "connect" /\ Connecting /\ UNCHANGED <<attempt, dataVars, clean>>
    BY <1>6 DEF ConnectHandler, Connecting
  <2>2. CASE UNCHANGED <<ops, m_temp_socket, connectionVars>>
    BY <1>1, <2>1, <2>2
  <2>3. CASE ops' = ops \ {op} /\ UNCHANGED <<m_temp_socket, connectionVars>>
    BY <2>1, <2>3 DEF ConnectIsLast, OnlyFromLast, Connecting
  <2>4. CASE /\ m_connection' = op.n
             /\ \/ \E kind \in {"handshake", "header"} : Waits(op, kind)
                \/ ops' = ops \ {op}
    <3>1. ops' \subseteq AnyOp
      BY <2>4, NewOps
    <3>2. ASSUME clean PROVE ConnectIsLast' /\ OnlyFromLast'
      <4>1. \A o \in ops' : o.kind # "connect"
        <5>1. \A o \in ops \ {op} : o.kind # "connect"
          BY <2>1, <3>2 DEF ConnectIsLast
        <5>2. QED
          BY <2>4, <5>1, NewOps
      <4>2. op.n = attempt
        BY <2>1, <3>2 DEF ConnectIsLast
      <4>3. QED
        BY <2>1, <2>4, <3>2, <4>1, <4>2 DEF ConnectIsLast, OnlyFromLast, Connecting
    <3>3. QED
      BY <2>1, <3>1, <3>2
  <2>5. QED
    BY <1>6, <2>2, <2>3, <2>4 DEF ConnectHandler
<1>7. ASSUME NEW op \in ops, ConnectionHandler(op) PROVE CleanInv'
  <2>1. op.kind # "connect" /\ UNCHANGED <<attempt, m_temp_socket, m_connection, m_remote_id,
                                           m_has_received_server_data, clean>>
    BY <1>7 DEF ConnectionHandler
  <2>2. op.n \in Nat
    OBVIOUS
  <2>3. CASE UNCHANGED <<ops, connected, m_in_queue>>
    BY <1>1, <2>1, <2>3
  <2>4. ASSUME ops' \subseteq AnyOp, \A o \in ops' : o.kind = "connect" => o \in ops,
               connected' => connected,
               \/ UNCHANGED m_in_queue
               \/ op.n = m_connection /\ connected /\ m_in_queue' = Append(m_in_queue, op.n)
        PROVE  CleanInv'
    <3>1. Connecting' => Connecting
      BY <2>4 DEF Connecting
    <3>2. clean => ConnectIsLast'
      BY <2>1, <2>4 DEF ConnectIsLast
    <3>3. CASE UNCHANGED m_in_queue
      BY <2>1, <2>4, <3>1, <3>2, <3>3 DEF OnlyFromLast
    <3>4. CASE op.n = m_connection /\ connected /\ m_in_queue' = Append(m_in_queue, op.n)
      <4>1. /\ m_in_queue' \in Seq(Nat)
            /\ Len(m_in_queue') = Len(m_in_queue) + 1 /\ Len(m_in_queue) \in Nat
            /\ \A i \in 1 .. Len(m_in_queue) : m_in_queue'[i] = m_in_queue[i]
            /\ m_in_queue'[Len(m_in_queue) + 1] = op.n
        BY <2>2, <3>4, SeqAppend, SeqLen
      <4>2. ASSUME clean PROVE OnlyFromLast'
        <5>1. op.n = attempt /\ ~Connecting
          BY <3>4, <4>2 DEF OnlyFromLast
        <5>2. \A i \in 1 .. Len(m_in_queue') : m_in_queue'[i] = attempt
          BY <4>1, <4>2, <5>1 DEF OnlyFromLast
        <5>3. QED
          BY <2>1, <2>4, <3>1, <4>2, <5>1, <5>2 DEF OnlyFromLast
      <4>3. QED
        BY <2>1, <2>4, <3>2, <4>1, <4>2
    <3>5. QED
      BY <2>4, <3>3, <3>4
  <2>5. CASE \E kind \in {"header", "body"} :
                 /\ Waits(op, kind) /\ op.n = m_connection /\ UNCHANGED connected
                 /\ UNCHANGED m_in_queue \/ (connected /\ m_in_queue' = Append(m_in_queue, op.n))
    BY <2>4, <2>5, NewOps
  <2>6. CASE ops' = ops \ {op} /\ (connected' = FALSE \/ UNCHANGED connected) /\ UNCHANGED m_in_queue
    BY <2>4, <2>6
  <2>7. QED
    BY <1>7, <2>3, <2>5, <2>6, ZenonT(30) DEF ConnectionHandler
<1>8. QED
  BY <1>2, <1>3, <1>4, <1>5, <1>6, <1>7 DEF Next, Handlers

\* A program that connects only when nothing of an earlier connect() is left is told about
\* its last connect(), and the handler of a connect finds its own socket.
THEOREM CleanConnects == Spec => []CleanConnectIsCurrent
<1>1. Init => CleanInv
  BY DEF Init, CleanInv, ConnectIsLast, OnlyFromLast
<1>2. CleanInv => CleanConnectIsCurrent
  BY DEF CleanInv, ConnectIsLast, OnlyFromLast, CleanConnectIsCurrent
<1>3. QED
  BY <1>1, <1>2, CleanStep, PTL DEF Spec
-------------------------------------------------------------------------------
\* A connect() is numbered from 1 on, so 0 stands for no connection.
OpInv ==
    /\ attempt \in Numbers
    /\ m_temp_socket \in [n: Numbers, state: {"fresh", "connected", "moved"}]
    /\ ops \subseteq Op /\ \A op \in ops : op.n # 0
    /\ m_connection \in Numbers
    /\ connected \in BOOLEAN
    /\ connected => m_connection # 0

DataInv ==
    /\ pc \in {"out", "start_asio_thread", "stop", "join", "reset"}
    /\ m_in_queue \in Seq(Numbers)
    /\ m_remote_id \in Numbers
    /\ m_has_received_server_data \in BOOLEAN
    /\ clean \in BOOLEAN
    /\ fault \in {"none", "terminate", "destroyed"}

\* The parts of an operation, and what becomes of a connect.
LEMMA OpParts ==
    ASSUME NEW op \in Op
    PROVE  /\ op.n \in Numbers
           /\ op.kind = "connect" => \A s \in {"pending", "ok", "failed"} :
                  [op EXCEPT !.state = s] \in Op /\ [op EXCEPT !.state = s].n = op.n
BY DEF Op

LEMMA WaitsType ==
    ASSUME OpInv, NEW op \in ops, NEW kind \in {"handshake", "header", "body"}, Waits(op, kind)
    PROVE  ops' \subseteq Op /\ \A o \in ops' : o.n # 0
<1>1. op.n \in Numbers /\ op.n # 0
  BY OpParts, Zenon DEF OpInv
<1>2. PICK new : new = [kind |-> kind, n |-> op.n, state |-> "pending"]
  BY Zenon
<1>3. new \in Op /\ new.n # 0
  BY <1>1, <1>2 DEF Op
<1>4. QED
  BY <1>2, <1>3, Zenon DEF OpInv, Waits

LEMMA OpStep == OpInv /\ [Next]_vars => OpInv'
<1> SUFFICES ASSUME OpInv, [Next]_vars PROVE OpInv'
  OBVIOUS
<1>1. CASE connect
  <2>1. CASE UNCHANGED socketVars
    BY <1>1, <2>1 DEF connect, OpInv, socketVars, connectionVars
  <2>2. CASE attempt' = attempt + 1
    <3> DEFINE new == [kind |-> "connect", n |-> attempt + 1, state |-> "pending"]
    <3>1. /\ m_temp_socket' = [n |-> attempt + 1, state |-> "fresh"]
          /\ ops' = Aborted \cup {new}
          /\ UNCHANGED connectionVars
      BY <1>1, <2>2 DEF connect, socketVars, OpInv, Numbers
    <3>2. attempt + 1 \in Numbers /\ attempt + 1 # 0
      BY <1>1 DEF connect, OpInv, Numbers
    <3>3. new \in Op /\ new.n # 0
      BY <3>2 DEF Op
    <3>4. Aborted \subseteq Op /\ \A op \in Aborted : op.n # 0
      <4> SUFFICES ASSUME NEW op \in ops
                   PROVE  LET o == IF op.kind = "connect" /\ op.state = "pending"
                                   THEN [op EXCEPT !.state = "failed"] ELSE op
                          IN  o \in Op /\ o.n # 0
        BY Zenon DEF Aborted
      <4>1. op \in Op /\ op.n # 0
        BY DEF OpInv
      <4>2. QED
        BY <4>1, OpParts, Zenon
    <3>5. QED
      BY <2>2, <3>1, <3>2, <3>3, <3>4 DEF OpInv, connectionVars
  <2>3. QED
    BY <1>1, <2>1, <2>2 DEF connect
<1>2. CASE start_asio_thread \/ disconnect \/ Stop \/ Join \/ handle_server_data \/ AsioThread \/ UNCHANGED vars
  BY <1>2 DEF start_asio_thread, disconnect, Stop, Join, Stopping, handle_server_data, AsioThread, vars,
              OpInv, socketVars, connectionVars
<1>3. CASE Reset
  <2>1. 0 \in Numbers
    BY DEF Numbers
  <2>2. QED
    BY <1>3, <2>1, Zenon DEF Reset, Close, OpInv, socketVars, connectionVars
<1>4. ASSUME NEW op \in ops, ConnectCompletes(op) PROVE OpInv'
  <2>1. PICK result \in {"ok", "failed"} :
           /\ ops' = (ops \ {op}) \cup {[op EXCEPT !.state = result]}
           /\ m_temp_socket' = IF result = "ok" THEN [m_temp_socket EXCEPT !.state = "connected"]
                               ELSE m_temp_socket
    BY <1>4 DEF ConnectCompletes
  <2>2. op.kind = "connect" /\ UNCHANGED <<attempt, connectionVars>>
    BY <1>4 DEF ConnectCompletes
  <2>3. [op EXCEPT !.state = result] \in Op /\ [op EXCEPT !.state = result].n # 0
    BY <2>2, OpParts, Zenon DEF OpInv
  <2>4. m_temp_socket' \in [n: Numbers, state: {"fresh", "connected", "moved"}]
    BY <2>1 DEF OpInv
  <2>5. QED
    BY <2>1, <2>2, <2>3, <2>4, Zenon DEF OpInv, connectionVars
<1>5. ASSUME NEW op \in ops, ConnectHandler(op) PROVE OpInv'
  <2>1. op \in Op /\ op.n \in Numbers /\ op.n # 0 /\ UNCHANGED attempt
    BY <1>5, OpParts, Zenon DEF ConnectHandler, OpInv
  <2>2. CASE ops' \subseteq ops /\ UNCHANGED <<m_temp_socket, connectionVars>>
    BY <2>1, <2>2 DEF OpInv, connectionVars
  <2>3. CASE /\ m_connection' = op.n
             /\ connected' = (m_temp_socket.state = "connected")
             /\ ops' \subseteq ops \/ \E kind \in {"handshake", "header"} : Waits(op, kind)
             /\ m_temp_socket' = [m_temp_socket EXCEPT !.state = "moved"]
    <3>1. connected' \in BOOLEAN
      BY <2>3, Zenon
    <3>2. m_temp_socket' \in [n: Numbers, state: {"fresh", "connected", "moved"}]
      BY <2>3 DEF OpInv
    <3>3. ops' \subseteq Op /\ \A o \in ops' : o.n # 0
      BY <2>3, WaitsType DEF OpInv
    <3>4. QED
      BY <2>1, <2>3, <3>1, <3>2, <3>3 DEF OpInv
  <2>4. QED
    BY <1>5, <2>2, <2>3 DEF ConnectHandler
<1>6. ASSUME NEW op \in ops, ConnectionHandler(op) PROVE OpInv'
  <2>0. UNCHANGED <<attempt, m_temp_socket, m_connection>>
    BY <1>6 DEF ConnectionHandler
  <2>1. ops' \subseteq Op /\ \A o \in ops' : o.n # 0
    <3>1. ops' \subseteq ops \/ \E kind \in {"header", "body"} : Waits(op, kind)
      BY <1>6, ZenonT(30) DEF ConnectionHandler
    <3>2. QED
      BY <3>1, WaitsType DEF OpInv
  <2>2. UNCHANGED connected \/ connected' = FALSE
    BY <1>6 DEF ConnectionHandler
  <2>3. connected' \in BOOLEAN /\ (connected' => m_connection' # 0)
    <3>1. CASE UNCHANGED connected
      BY <2>0, <3>1 DEF OpInv
    <3>2. CASE connected' = FALSE
      BY <3>2, Zenon
    <3>3. QED
      BY <2>2, <3>1, <3>2, Zenon
  <2>4. QED
    BY <2>0, <2>1, <2>3 DEF OpInv
<1>7. QED
  BY <1>1, <1>2, <1>3, <1>4, <1>5, <1>6 DEF Next, Handlers, Disconnecting

LEMMA DataStep == OpInv /\ DataInv /\ [Next]_vars => DataInv'
<1> SUFFICES ASSUME OpInv, DataInv, [Next]_vars PROVE DataInv'
  OBVIOUS
<1>1. CASE connect
  <2>1. m_has_received_server_data' = FALSE /\ UNCHANGED <<m_in_queue, m_remote_id, fault>>
    BY <1>1 DEF connect, ForgetServer
  <2>2. pc' \in {pc, "start_asio_thread"}
    BY <1>1 DEF connect
  <2>3. clean' \in BOOLEAN
    BY <1>1, Zenon DEF connect, DataInv
  <2>4. QED
    BY <2>1, <2>2, <2>3, Zenon DEF DataInv
<1>2. CASE start_asio_thread \/ disconnect \/ Stop \/ Join \/ Reset \/ AsioThread \/ UNCHANGED vars
  BY <1>2 DEF start_asio_thread, disconnect, Stop, Join, Reset, Stopping, AsioThread, vars, DataInv, dataVars
<1>3. CASE handle_server_data
  <2> DEFINE n == Len(m_in_queue)
  <2>1. m_in_queue \in Seq(Numbers) /\ m_in_queue # <<>>
    BY <1>3 DEF handle_server_data, DataInv
  <2>2. n \in Nat \ {0} /\ \A i \in 1 .. n : m_in_queue[i] \in Numbers
    BY <2>1, SeqLen, SeqEmpty, SeqElement
  <2>3. SubSeq(m_in_queue, 1, n - 1) \in Seq(Numbers) /\ m_in_queue[n] \in Numbers
    <3> HIDE DEF n
    <3>1. n - 1 \in Int /\ n \in 1 .. n /\ \A i \in 1 .. n - 1 : m_in_queue[i] \in Numbers
      BY <2>2
    <3>2. QED
      BY <2>2, <3>1, SubSeqType
  <2>4. QED
    BY <1>3, <2>3, ZenonT(30), SMTT(30) DEF handle_server_data, DataInv
<1>4. ASSUME NEW op \in ops, ConnectCompletes(op) \/ ConnectHandler(op) PROVE DataInv'
  BY <1>4 DEF ConnectCompletes, ConnectHandler, DataInv, dataVars
<1>5. ASSUME NEW op \in ops, ConnectionHandler(op) PROVE DataInv'
  <2>1. op.n \in Numbers
    BY OpParts, Zenon DEF OpInv
  <2>2. UNCHANGED m_in_queue \/ m_in_queue' = Append(m_in_queue, op.n)
    BY <1>5 DEF ConnectionHandler
  <2>3. m_in_queue' \in Seq(Numbers)
    BY <2>1, <2>2, SeqAppend DEF DataInv
  <2>4. UNCHANGED fault \/ fault' \in {"terminate", "destroyed"}
    BY <1>5 DEF ConnectionHandler
  <2>5. QED
    BY <1>5, <2>3, <2>4 DEF ConnectionHandler, DataInv
<1>6. QED
  BY <1>1, <1>2, <1>3, <1>4, <1>5 DEF Next, Handlers, Disconnecting

\* The client's state is well formed for any number of connects: in particular a client that
\* is connected has a Connection, also when handlers of earlier connects come late.
THEOREM TypeCorrect == Spec => []TypeOK
<1>1. Init => ThreadInv /\ OpInv /\ DataInv
  <2> SUFFICES ASSUME Init PROVE ThreadInv /\ OpInv /\ DataInv
    OBVIOUS
  <2>1. ThreadInv
    BY Zenon DEF Init, ThreadInit, ThreadInv, ThreadTypeOK, ThreadIsStopped, FlagStaysSet, JoinIsFree
  <2>2. 0 \in Numbers /\ <<>> \in Seq(Numbers)
    BY DEF Numbers
  <2>3. m_temp_socket \in [n: Numbers, state: {"fresh", "connected", "moved"}]
    BY <2>2 DEF Init
  <2>4. OpInv
    BY <2>2, <2>3, Zenon DEF Init, OpInv
  <2>5. DataInv
    BY <2>2, Zenon DEF Init, DataInv
  <2>6. QED
    BY <2>1, <2>4, <2>5
<1>2. ThreadInv /\ OpInv /\ DataInv => TypeOK
  BY DEF ThreadInv, OpInv, DataInv, TypeOK
<1>3. QED
  BY <1>1, <1>2, ThreadStep, OpStep, DataStep, PTL DEF Spec
===============================================================================
