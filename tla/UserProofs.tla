------------------------------ MODULE UserProofs ------------------------------
(***************************************************************************)
(* Theorems about User, for every value of its constants.                  *)
(***************************************************************************)
EXTENDS User, TLAPS

USE UserAssumption, SMTT(30), ZenonT(30), SMTT(60)
-------------------------------------------------------------------------------
\* The facts about sequences that the proofs below cite.
LEMMA SeqElement == ASSUME NEW S, NEW s \in Seq(S), NEW i \in 1 .. Len(s) PROVE s[i] \in S
OBVIOUS

LEMMA SeqEmpty ==
    ASSUME NEW S
    PROVE  <<>> \in Seq(S) /\ Len(<<>>) = 0 /\ \A s \in Seq(S) : s # <<>> => Len(s) \in Nat \ {0}
OBVIOUS

LEMMA SeqLen ==
    ASSUME NEW S, NEW s \in Seq(S)
    PROVE  Len(s) \in Nat /\ s \in [1 .. Len(s) -> S] /\ DOMAIN s = 1 .. Len(s)
OBVIOUS

LEMMA SeqAppend ==
    ASSUME NEW S, NEW s \in Seq(S), NEW e \in S
    PROVE  /\ Append(s, e) \in Seq(S) /\ Append(s, e) # <<>>
           /\ Len(Append(s, e)) = Len(s) + 1 /\ Append(s, e)[Len(s) + 1] = e
           /\ \A i \in 1 .. Len(s) : Append(s, e)[i] = s[i]
OBVIOUS

LEMMA SeqTail ==
    ASSUME NEW S, NEW s \in Seq(S), s # <<>>
    PROVE  /\ Head(s) \in S /\ Tail(s) \in Seq(S) /\ Len(Tail(s)) = Len(s) - 1
           /\ \A i \in 1 .. Len(Tail(s)) : Tail(s)[i] = s[i + 1]
OBVIOUS

LEMMA SubSeqType ==
    ASSUME NEW S, NEW s, NEW m \in Int, NEW n \in Int, \A i \in m .. n : s[i] \in S
    PROVE  /\ SubSeq(s, m, n) \in Seq(S)
           /\ Len(SubSeq(s, m, n)) = IF m <= n THEN n - m + 1 ELSE 0
           /\ \A i \in 1 .. n - m + 1 : SubSeq(s, m, n)[i] = s[m + i - 1]
OBVIOUS

\* Items 1 to p are handled (h) or queued (u), each of them once.
Kept(h, u, p) ==
    /\ Len(h) + Len(u) = p
    /\ \A n \in 1 .. p : \/ \E i \in 1 .. Len(h) : h[i] = n
                         \/ \E i \in 1 .. Len(u) : u[i] = n

\* They were handled, and are queued, in the order of their arrival.
InOrder(h, u) ==
    /\ \A i \in 1 .. Len(h) : h[i] = i
    /\ \A i \in 1 .. Len(u) : u[i] = Len(h) + i

\* push_back of item p + 1.
LEMMA PushKeeps ==
    ASSUME NEW h \in Seq(Nat), NEW u \in Seq(Nat), NEW p \in Nat, Kept(h, u, p)
    PROVE  /\ Append(u, p + 1) \in Seq(Nat)
           /\ Kept(h, Append(u, p + 1), p + 1)
           /\ InOrder(h, u) => InOrder(h, Append(u, p + 1))
<1>1. PICK v : v = Append(u, p + 1)
  BY Zenon
<1>2. Len(h) \in Nat /\ Len(u) \in Nat
  BY SeqLen
<1>3. /\ v \in Seq(Nat) /\ Len(v) = Len(u) + 1
      /\ \A i \in 1 .. Len(u) : v[i] = u[i]
      /\ v[Len(u) + 1] = p + 1
  BY <1>1, SeqAppend
<1>4. Kept(h, v, p + 1)
  <2>1. Len(h) + Len(v) = p + 1
    <3>1. Len(h) + Len(u) = p
      BY DEF Kept
    <3>2. QED
      BY <1>2, <1>3, <3>1
  <2>2. ASSUME NEW n \in 1 .. p + 1
        PROVE  (\E i \in 1 .. Len(h) : h[i] = n) \/ \E i \in 1 .. Len(v) : v[i] = n
    <3>1. CASE n = p + 1
      <4>1. Len(u) + 1 \in 1 .. Len(v)
        BY <1>2, <1>3
      <4>2. v[Len(u) + 1] = n
        BY <1>3, <3>1, <4>1
      <4>3. QED
        BY <4>1, <4>2, Zenon
    <3>2. CASE n # p + 1
      <4>1. n \in 1 .. p
        BY <3>2
      <4>2. 1 .. Len(u) \subseteq 1 .. Len(v)
        BY <1>2, <1>3
      <4>3. (\E i \in 1 .. Len(h) : h[i] = n) \/ \E i \in 1 .. Len(u) : u[i] = n
        BY <4>1, Zenon DEF Kept
      <4>4. QED
        BY <1>3, <4>2, <4>3
    <3>3. QED
      BY <3>1, <3>2
  <2>3. QED
    BY <2>1, <2>2 DEF Kept
<1>5. ASSUME InOrder(h, u) PROVE InOrder(h, v)
  <2>1. ASSUME NEW i \in 1 .. Len(v) PROVE v[i] = Len(h) + i
    <3>1. CASE i = Len(u) + 1
      BY <1>2, <1>3, <3>1 DEF Kept
    <3>2. CASE i # Len(u) + 1
      <4>1. i \in 1 .. Len(u)
        BY <1>2, <1>3, <3>2
      <4>2. QED
        BY <1>3, <1>5, <4>1 DEF InOrder
    <3>3. QED
      BY <3>1, <3>2
  <2>2. QED
    BY <1>5, <2>1 DEF InOrder
<1>6. QED
  BY <1>1, <1>3, <1>4, <1>5

\* An item is taken from the queue and handled: t is the item, v the rest.
LEMMA TakeKeeps ==
    ASSUME NEW h \in Seq(Nat), NEW u \in Seq(Nat), NEW p \in Nat, NEW t \in Nat, NEW v \in Seq(Nat),
           Kept(h, u, p), Len(v) = Len(u) - 1,
           \A i \in 1 .. Len(u) : u[i] = t \/ \E j \in 1 .. Len(v) : v[j] = u[i]
    PROVE  Append(h, t) \in Seq(Nat) /\ Kept(Append(h, t), v, p)
<1>1. PICK g : g = Append(h, t)
  BY Zenon
<1>2. Len(h) \in Nat /\ Len(u) \in Nat
  BY SeqLen
<1>3. /\ g \in Seq(Nat) /\ Len(g) = Len(h) + 1
      /\ \A i \in 1 .. Len(h) : g[i] = h[i]
      /\ g[Len(h) + 1] = t
  BY <1>1, SeqAppend
<1>4. ASSUME NEW n \in 1 .. p
      PROVE  (\E i \in 1 .. Len(g) : g[i] = n) \/ \E i \in 1 .. Len(v) : v[i] = n
  <2>0. 1 .. Len(h) \subseteq 1 .. Len(g) /\ Len(h) + 1 \in 1 .. Len(g)
    BY <1>2, <1>3
  <2>1. CASE \E i \in 1 .. Len(h) : h[i] = n
    BY <1>3, <2>0, <2>1
  <2>2. CASE \E i \in 1 .. Len(u) : u[i] = n
    BY <1>3, <2>0, <2>2, Zenon
  <2>3. QED
    BY <2>1, <2>2, Zenon DEF Kept
<1>5. Len(g) + Len(v) = p
  BY <1>2, <1>3 DEF Kept
<1>6. QED
  BY <1>1, <1>3, <1>4, <1>5, Zenon DEF Kept

\* pop_front
LEMMA FrontKeeps ==
    ASSUME NEW h \in Seq(Nat), NEW u \in Seq(Nat), NEW p \in Nat, Kept(h, u, p), u # <<>>
    PROVE  /\ Append(h, Head(u)) \in Seq(Nat) /\ Tail(u) \in Seq(Nat)
           /\ Kept(Append(h, Head(u)), Tail(u), p)
           /\ InOrder(h, u) => InOrder(Append(h, Head(u)), Tail(u))
<1>1. PICK v : v = Tail(u)
  BY Zenon
<1>2. Len(h) \in Nat /\ Len(u) \in Nat \ {0}
  BY SeqLen, SeqEmpty
<1>3. /\ Head(u) = u[1] /\ Head(u) \in Nat
      /\ v \in Seq(Nat) /\ Len(v) = Len(u) - 1
      /\ \A i \in 1 .. Len(u) - 1 : v[i] = u[i + 1]
  BY <1>1, SeqTail
<1>4. ASSUME NEW i \in 1 .. Len(u) PROVE u[i] = Head(u) \/ \E j \in 1 .. Len(v) : v[j] = u[i]
  <2>1. CASE i = 1
    BY <1>3, <2>1
  <2>2. CASE i # 1
    <3>1. i - 1 \in 1 .. Len(v) /\ i - 1 \in 1 .. Len(u) - 1 /\ (i - 1) + 1 = i
      BY <1>2, <1>3, <2>2
    <3>2. v[i - 1] = u[i]
      BY <1>3, <3>1
    <3>3. QED
      BY <3>1, <3>2
  <2>3. QED
    BY <2>1, <2>2
<1>5. Append(h, Head(u)) \in Seq(Nat) /\ Kept(Append(h, Head(u)), v, p)
  BY <1>3, <1>4, TakeKeeps
<1>6. ASSUME InOrder(h, u) PROVE InOrder(Append(h, Head(u)), v)
  <2>1. PICK g : g = Append(h, Head(u))
    BY Zenon
  <2>2. /\ Len(g) = Len(h) + 1
        /\ \A i \in 1 .. Len(h) : g[i] = h[i]
        /\ g[Len(h) + 1] = Head(u)
    BY <1>3, <2>1, SeqAppend
  <2>3. Head(u) = Len(h) + 1
    <3>1. 1 \in 1 .. Len(u)
      BY <1>2
    <3>2. QED
      BY <1>3, <1>6, <3>1 DEF InOrder
  <2>4. ASSUME NEW i \in 1 .. Len(g) PROVE g[i] = i
    <3>1. CASE i = Len(h) + 1
      BY <2>2, <2>3, <3>1
    <3>2. CASE i # Len(h) + 1
      <4>1. i \in 1 .. Len(h)
        BY <1>2, <2>2, <3>2
      <4>2. QED
        BY <1>6, <2>2, <4>1 DEF InOrder
    <3>3. QED
      BY <3>1, <3>2
  <2>5. \A i \in 1 .. Len(v) : v[i] = Len(g) + i
    <3> SUFFICES ASSUME NEW i \in 1 .. Len(v) PROVE v[i] = Len(g) + i
      OBVIOUS
    <3>1. i \in 1 .. Len(u) - 1 /\ i + 1 \in 1 .. Len(u)
      BY <1>2, <1>3
    <3>2. v[i] = Len(h) + (i + 1)
      BY <1>3, <1>6, <3>1 DEF InOrder
    <3>3. QED
      BY <1>2, <2>2, <3>2
  <2>6. QED
    BY <2>1, <2>4, <2>5 DEF InOrder
<1>7. QED
  BY <1>1, <1>3, <1>5, <1>6

\* pop_back
LEMMA BackKeeps ==
    ASSUME NEW h \in Seq(Nat), NEW u \in Seq(Nat), NEW p \in Nat, Kept(h, u, p), u # <<>>
    PROVE  /\ Append(h, u[Len(u)]) \in Seq(Nat) /\ SubSeq(u, 1, Len(u) - 1) \in Seq(Nat)
           /\ Kept(Append(h, u[Len(u)]), SubSeq(u, 1, Len(u) - 1), p)
<1>1. Len(u) \in Nat \ {0}
  BY SeqLen, SeqEmpty
<1>2. PICK k \in Nat : k = Len(u) - 1
  BY <1>1
<1>3. \A i \in 1 .. Len(u) : u[i] \in Nat
  BY SeqElement
<1>4. \A i \in 1 .. k : u[i] \in Nat
  BY <1>1, <1>2, <1>3
<1>5. PICK v : v = SubSeq(u, 1, k)
  BY Zenon
<1>6. /\ v \in Seq(Nat)
      /\ Len(v) = IF 1 <= k THEN k - 1 + 1 ELSE 0
      /\ \A i \in 1 .. k - 1 + 1 : v[i] = u[1 + i - 1]
  BY <1>4, <1>5, SubSeqType
<1>7. Len(v) = Len(u) - 1 /\ \A i \in 1 .. k : v[i] = u[i]
  BY <1>1, <1>2, <1>6
<1>8. ASSUME NEW i \in 1 .. Len(u) PROVE u[i] = u[Len(u)] \/ \E j \in 1 .. Len(v) : v[j] = u[i]
  <2>1. CASE i = Len(u)
    BY <2>1
  <2>2. CASE i # Len(u)
    <3>1. i \in 1 .. k /\ i \in 1 .. Len(v)
      BY <1>1, <1>2, <1>7, <2>2
    <3>2. QED
      BY <1>7, <3>1
  <2>3. QED
    BY <2>1, <2>2
<1>9. u[Len(u)] \in Nat
  BY <1>1, <1>3
<1>10. Append(h, u[Len(u)]) \in Seq(Nat) /\ Kept(Append(h, u[Len(u)]), v, p)
  BY <1>6, <1>7, <1>8, <1>9, TakeKeeps, Zenon
<1>11. QED
  BY <1>2, <1>5, <1>6, <1>10
-------------------------------------------------------------------------------
\* Of one queue: nothing is lost, and all but m_in_queue keep their order.
QueueOK(h, u, p, q) ==
    /\ h \in Seq(Nat) /\ u \in Seq(Nat) /\ p \in Nat
    /\ Kept(h, u, p)
    /\ q # "messages" => InOrder(h, u)

QueueInv ==
    /\ DOMAIN handled = Queues /\ DOMAIN queue = Queues /\ DOMAIN pushed = Queues
    /\ \A q \in Queues : QueueOK(handled[q], queue[q], pushed[q], q)

LEMMA PushOK ==
    ASSUME NEW h, NEW u, NEW p, NEW q, QueueOK(h, u, p, q)
    PROVE  QueueOK(h, Append(u, p + 1), p + 1, q)
BY PushKeeps DEF QueueOK

LEMMA TakeOK ==
    ASSUME QueueInv, NEW q \in Queues, queue[q] # <<>>
    PROVE  QueueOK(Append(handled[q], Taken(q)), Rest(q), pushed[q], q)
<1>1. QueueOK(handled[q], queue[q], pushed[q], q)
  BY DEF QueueInv
<1>2. CASE q = "messages"
  BY <1>1, <1>2, BackKeeps DEF QueueOK, Taken, Rest
<1>3. CASE q # "messages"
  BY <1>1, <1>3, FrontKeeps DEF QueueOK, Taken, Rest
<1>4. QED
  BY <1>2, <1>3

LEMMA PushStep == ASSUME QueueInv, NEW q \in Queues, push_back(q), UNCHANGED handled PROVE QueueInv'
<1>1. QueueOK(handled'[q], queue'[q], pushed'[q], q)
  BY PushOK DEF QueueInv, push_back
<1>2. \A r \in Queues \ {q} : queue'[r] = queue[r] /\ pushed'[r] = pushed[r]
  BY DEF QueueInv, push_back
<1>3. DOMAIN handled' = Queues /\ DOMAIN queue' = Queues /\ DOMAIN pushed' = Queues
  BY DEF QueueInv, push_back
<1>4. QED
  BY <1>1, <1>2, <1>3 DEF QueueInv

LEMMA QueueStep == QueueInv /\ [Next]_vars => QueueInv'
<1> SUFFICES ASSUME QueueInv, [Next]_vars PROVE QueueInv'
  OBVIOUS
<1>0. "notifications" \in Queues
  OBVIOUS
<1>1. ASSUME NEW q \in Queues, Push(q) PROVE QueueInv'
  BY <1>1, PushStep DEF Push
<1>2. ASSUME UNCHANGED <<queue, pushed, handled>> PROVE QueueInv'
  BY <1>2 DEF QueueInv
<1>3. CASE handle_check_connections_delay
  <2>1. UNCHANGED handled
    BY <1>3 DEF handle_check_connections_delay
  <2>2. CASE UNCHANGED <<queue, pushed>>
    BY <1>2, <2>1, <2>2
  <2>3. CASE push_back("notifications")
    BY <1>0, <2>1, <2>3, PushStep
  <2>4. QED
    BY <1>3, <2>2, <2>3 DEF handle_check_connections_delay
<1>4. ASSUME NEW q \in Queues, Handle(q) PROVE QueueInv'
  <2>1. queue[q] # <<>> /\ handled' = [handled EXCEPT ![q] = Append(@, Taken(q))]
    BY <1>4 DEF Handle, MayHandle
  <2>2. QueueOK(Append(handled[q], Taken(q)), Rest(q), pushed[q], q)
    BY <2>1, TakeOK
  <2>3. CASE queue' = [queue EXCEPT ![q] = Rest(q)] /\ UNCHANGED pushed
    BY <2>1, <2>2, <2>3 DEF QueueInv
  <2>4. CASE /\ q # "notifications"
             /\ pushed' = [pushed EXCEPT !["notifications"] = @ + 1]
             /\ queue' = [queue EXCEPT ![q] = Rest(q),
                                       !["notifications"] = Append(@, pushed["notifications"] + 1)]
    <3> DEFINE r == "notifications"
    <3>1. /\ handled'[q] = Append(handled[q], Taken(q)) /\ queue'[q] = Rest(q)
          /\ pushed'[q] = pushed[q]
      BY <1>0, <2>1, <2>4 DEF QueueInv
    <3>2. /\ handled'[r] = handled[r] /\ queue'[r] = Append(queue[r], pushed[r] + 1)
          /\ pushed'[r] = pushed[r] + 1
      BY <1>0, <2>1, <2>4 DEF QueueInv
    <3>3. QueueOK(handled'[r], queue'[r], pushed'[r], r)
      BY <1>0, <3>2, PushOK DEF QueueInv
    <3>4. \A s \in Queues \ {q, r} :
              handled'[s] = handled[s] /\ queue'[s] = queue[s] /\ pushed'[s] = pushed[s]
      BY <1>0, <2>1, <2>4 DEF QueueInv
    <3>5. DOMAIN handled' = Queues /\ DOMAIN queue' = Queues /\ DOMAIN pushed' = Queues
      BY <2>1, <2>4 DEF QueueInv
    <3>6. QED
      BY <2>2, <3>1, <3>3, <3>4, <3>5, Zenon DEF QueueInv
  <2>5. QED
    BY <1>4, <2>3, <2>4 DEF Handle
<1>5. CASE \/ notify_wait \/ Tick \/ update \/ should_stop_waiting \/ Sleep \/ WakeUp \/ Timeout
           \/ \E q \in Queues : LoopEnds(q)
           \/ UNCHANGED vars
  BY <1>2, <1>5 DEF notify_wait, Tick, update, should_stop_waiting, Sleep, WakeUp, Timeout, LoopEnds,
                    queueVars, vars
<1>6. QED
  BY <1>1, <1>3, <1>4, <1>5 DEF Next, UserThread

\* No interleaving of the pushes with the loops of update() loses an item, handles one twice,
\* or changes the order of the notifications or of the new connections; also not when a
\* handler throws, pushes another item, or the limit ends a loop.
THEOREM ItemsAreKept == Spec => [](NothingLost /\ HandledInOrder)
<1>1. Init => QueueInv
  BY SeqEmpty DEF Init, QueueInv, QueueOK, Kept, InOrder
<1>2. QueueInv => NothingLost /\ HandledInOrder
  BY Zenon DEF QueueInv, QueueOK, Kept, InOrder, NothingLost, HandledInOrder
<1>3. QED
  BY <1>1, <1>2, QueueStep, PTL DEF Spec
-------------------------------------------------------------------------------
(***************************************************************************)
(* The notifications and the new connections of a User, each seen as the   *)
(* Channel from the Asio thread to the handlers that update() calls: item  *)
(* i is the i-th that was pushed.                                          *)
(***************************************************************************)
Arrivals(n) == [i \in 1 .. n |-> i]

Fifo(q) == INSTANCE Channel WITH Messages <- Nat, given <- Arrivals(pushed[q]), received <- handled[q]

\* What one step may do to a queue: nothing, a push_back, or update() handles its oldest item.
LEMMA FifoStep ==
    ASSUME QueueInv, NEW q \in Queues, q # "messages", [Next]_vars
    PROVE  \/ UNCHANGED <<pushed[q], handled[q]>>
           \/ pushed'[q] = pushed[q] + 1 /\ handled'[q] = handled[q]
           \/ /\ pushed'[q] = pushed[q] /\ queue[q] # <<>>
              /\ handled'[q] = Append(handled[q], Head(queue[q]))
<1>0. /\ DOMAIN handled = Queues /\ DOMAIN pushed = Queues /\ "notifications" \in Queues
  BY DEF QueueInv
<1>1. ASSUME NEW r \in Queues, push_back(r), UNCHANGED handled
      PROVE  \/ UNCHANGED <<pushed[q], handled[q]>>
             \/ pushed'[q] = pushed[q] + 1 /\ handled'[q] = handled[q]
  BY <1>0, <1>1 DEF push_back
<1>2. ASSUME NEW r \in Queues, Push(r)
      PROVE  \/ UNCHANGED <<pushed[q], handled[q]>>
             \/ pushed'[q] = pushed[q] + 1 /\ handled'[q] = handled[q]
  BY <1>1, <1>2 DEF Push
<1>3. CASE handle_check_connections_delay
  BY <1>0, <1>1, <1>3 DEF handle_check_connections_delay
<1>4. ASSUME NEW r \in Queues, Handle(r)
      PROVE  \/ UNCHANGED <<pushed[q], handled[q]>>
             \/ pushed'[q] = pushed[q] + 1 /\ handled'[q] = handled[q]
             \/ /\ pushed'[q] = pushed[q] /\ queue[q] # <<>>
                /\ handled'[q] = Append(handled[q], Head(queue[q]))
  <2>1. queue[r] # <<>> /\ handled' = [handled EXCEPT ![r] = Append(@, Taken(r))]
    BY <1>4 DEF Handle, MayHandle
  <2>2. \/ UNCHANGED pushed
        \/ r # "notifications" /\ pushed' = [pushed EXCEPT !["notifications"] = @ + 1]
    BY <1>4 DEF Handle
  <2>3. CASE r = q
    <3>1. handled'[q] = Append(handled[q], Head(queue[q]))
      BY <1>0, <2>1, <2>3 DEF Taken
    <3>2. pushed'[q] = pushed[q]
      BY <1>0, <2>2, <2>3
    <3>3. QED
      BY <2>1, <2>3, <3>1, <3>2
  <2>4. CASE r # q
    <3>1. handled'[q] = handled[q]
      BY <1>0, <2>1, <2>4
    <3>2. pushed'[q] = pushed[q] \/ pushed'[q] = pushed[q] + 1
      BY <1>0, <2>2
    <3>3. QED
      BY <3>1, <3>2
  <2>5. QED
    BY <2>3, <2>4
<1>5. CASE \/ notify_wait \/ Tick \/ update \/ should_stop_waiting \/ Sleep \/ WakeUp \/ Timeout
           \/ \E r \in Queues : LoopEnds(r)
           \/ UNCHANGED vars
  BY <1>5 DEF notify_wait, Tick, update, should_stop_waiting, Sleep, WakeUp, Timeout, LoopEnds,
              queueVars, vars
<1>6. QED
  BY <1>2, <1>3, <1>4, <1>5 DEF Next, UserThread

\* The queues of notifications and of new connections implement Channel: whatever the two
\* threads do, and whatever the handlers throw or push themselves, each step of update() that
\* handles an item handles the oldest one not handled yet.
THEOREM QueuesAreChannels ==
    ASSUME NEW q \in Queues, q # "messages"
    PROVE  Spec => Fifo(q)!Spec
<1>1. Init => QueueInv /\ Fifo(q)!Init
  <2>1. Init => QueueInv
    BY SeqEmpty DEF Init, QueueInv, QueueOK, Kept, InOrder
  <2>2. Init => Arrivals(pushed[q]) = <<>> /\ handled[q] = <<>>
    BY DEF Init, Arrivals
  <2>3. QED
    BY <2>1, <2>2 DEF Fifo!Init
<1>2. QueueInv /\ [Next]_vars =>
          [Fifo(q)!Send \/ Fifo(q)!Receive]_<<Arrivals(pushed[q]), handled[q]>>
  <2> SUFFICES ASSUME QueueInv, [Next]_vars
               PROVE  [Fifo(q)!Send \/ Fifo(q)!Receive]_<<Arrivals(pushed[q]), handled[q]>>
    OBVIOUS
  <2>1. QueueOK(handled[q], queue[q], pushed[q], q)
    BY DEF QueueInv
  <2>2. CASE UNCHANGED <<pushed[q], handled[q]>>
    BY <2>2
  <2>3. CASE pushed'[q] = pushed[q] + 1 /\ handled'[q] = handled[q]
    <3>1. Arrivals(pushed'[q]) = Append(Arrivals(pushed[q]), pushed[q] + 1)
      BY <2>1, <2>3 DEF QueueOK, Arrivals
    <3>2. QED
      BY <2>1, <2>3, <3>1 DEF Fifo!Send, QueueOK
  <2>4. CASE /\ pushed'[q] = pushed[q] /\ queue[q] # <<>>
             /\ handled'[q] = Append(handled[q], Head(queue[q]))
    <3>1. /\ Len(handled[q]) \in Nat /\ pushed[q] \in Nat
          /\ Len(queue[q]) \in Nat \ {0} /\ Len(handled[q]) + Len(queue[q]) = pushed[q]
      BY <2>1, <2>4, SeqLen, SeqEmpty, ZenonT(30), SMTT(30) DEF QueueOK, Kept
    <3>2. Len(handled[q]) < pushed[q] /\ Len(handled[q]) + 1 \in 1 .. pushed[q]
      <4>1. \A h, p \in Nat : \A u \in Nat \ {0} : h + u = p => h < p /\ h + 1 \in 1 .. p
        OBVIOUS
      <4>2. QED
        BY <3>1, <4>1, ZenonT(30), SMTT(30)
    <3>3. Head(queue[q]) = Len(handled[q]) + 1
      <4>1. queue[q][1] = Len(handled[q]) + 1
        BY <2>1, <3>1 DEF QueueOK, InOrder
      <4>2. Head(queue[q]) = queue[q][1]
        BY <2>1, <2>4 DEF QueueOK
      <4>3. QED
        BY <4>1, <4>2
    <3>4. Len(Arrivals(pushed[q])) = pushed[q]
      BY <3>1 DEF Arrivals
    <3>5. Arrivals(pushed[q])[Len(handled[q]) + 1] = Len(handled[q]) + 1
      BY <3>2 DEF Arrivals
    <3>6. handled'[q] = Append(handled[q], Arrivals(pushed[q])[Len(handled[q]) + 1])
      BY <2>4, <3>3, <3>5
    <3>7. Arrivals(pushed'[q]) = Arrivals(pushed[q])
      BY <2>4
    <3>8. QED
      BY <3>2, <3>4, <3>6, <3>7 DEF Fifo!Receive
  <2>5. QED
    BY <2>2, <2>3, <2>4, FifoStep
<1>3. QED
  BY <1>1, <1>2, QueueStep, PTL DEF Spec, Fifo!Spec
-------------------------------------------------------------------------------
\* duration_cast cuts off less than a second.
LEMMA WholeSeconds ==
    ASSUME NEW s \in Nat, NEW t \in Nat \ {0}
    PROVE  /\ s \div t \in Nat
           /\ (s \div t) * t <= s
           /\ s < (s \div t) * t + t
OBVIOUS

\* Whole seconds compare as the ticks in them do.
LEMMA SecondsOrder ==
    ASSUME NEW a \in Nat, NEW b \in Nat, NEW t \in Nat \ {0}
    PROVE  /\ a >= b => a * t >= b * t
           /\ a < b => a * t + t <= b * t
           /\ a <= b => (b - a) * t = b * t - a * t
OBVIOUS

\* The time read before the wait is never ahead of the clock, and without a wait it is
\* still the time when the check is decided on.
TimeInv ==
    /\ since \in Nat /\ elapsed \in Nat /\ left \in Nat
    /\ elapsed * TicksPerSecond <= since
    /\ WaitIsBounded
    /\ pc \in {"test", "sleep", "asleep"} => Wait
    /\ pc = "check" /\ ~Wait => elapsed = Seconds

LEMMA TimeInit == Init => TimeInv
BY DEF Init, TimeInv, WaitIsBounded, MaxTicks

\* What update() computes from the clock.
LEMMA WaitEndsInTime ==
    ASSUME since \in Nat
    PROVE  /\ Seconds \in Nat /\ Seconds * TicksPerSecond <= since
           /\ WaitTime \in Nat
           /\ WaitTime > 0 => since + WaitTime * TicksPerSecond < MaxTicks
<1>1. /\ Seconds \in Nat /\ Seconds * TicksPerSecond <= since
      /\ since < Seconds * TicksPerSecond + TicksPerSecond
  BY WholeSeconds DEF Seconds
<1>2. WaitTime \in Nat
  BY <1>1 DEF WaitTime
<1>3. ASSUME Seconds < Interval
      PROVE  since + (Interval - Seconds) * TicksPerSecond < (Interval + 1) * TicksPerSecond
  <2>1. (Interval - Seconds) * TicksPerSecond = Interval * TicksPerSecond - Seconds * TicksPerSecond
    BY <1>1, <1>3, SecondsOrder
  <2>2. (Interval + 1) * TicksPerSecond = Interval * TicksPerSecond + TicksPerSecond
    OBVIOUS
  <2>3. /\ Interval * TicksPerSecond \in Nat
        /\ Seconds * TicksPerSecond \in Nat
    BY <1>1
  <2>4. QED
    BY <1>1, <2>1, <2>2, <2>3
<1>4. QED
  BY <1>1, <1>2, <1>3 DEF WaitTime, MaxTicks

LEMMA TimeStep == TimeInv /\ [Next]_vars => TimeInv'
<1> SUFFICES ASSUME TimeInv, [Next]_vars PROVE TimeInv'
  OBVIOUS
<1>1. ASSUME UNCHANGED timeVars, UNCHANGED pc \/ pc' \in {"out", "handle"} PROVE TimeInv'
  BY <1>1 DEF TimeInv, WaitIsBounded, Seconds, timeVars
<1>2. CASE Tick
  BY <1>2 DEF Tick, TimeInv, WaitIsBounded
<1>3. CASE update
  <2>1. /\ Seconds \in Nat /\ Seconds * TicksPerSecond <= since
        /\ WaitTime \in Nat
        /\ WaitTime > 0 => since + WaitTime * TicksPerSecond < MaxTicks
    BY WaitEndsInTime DEF TimeInv
  <2>2. since' = since /\ since' \in Nat /\ Seconds' = Seconds
    BY <1>3 DEF update, TimeInv, Seconds
  <2>3. /\ elapsed' \in Nat /\ elapsed' * TicksPerSecond <= since'
        /\ pc' \in {"test", "sleep", "asleep"} => Wait
        /\ pc' = "check" /\ ~Wait => elapsed' = Seconds'
    BY <1>3, <2>1, <2>2 DEF update, TimeInv, StartTest, AfterWait, StartHandling
  <2>4. left' \in Nat /\ WaitIsBounded'
    <3>1. CASE ~Timed
      BY <1>3, <2>2, <3>1 DEF update, TimeInv, WaitIsBounded
    <3>2. CASE Timed /\ ~Wait
      <4>1. left' = 0
        BY <1>3, <3>2 DEF update
      <4>2. QED
        BY <4>1 DEF WaitIsBounded
    <3>3. CASE Timed /\ Wait
      <4>1. left' = WaitTime * TicksPerSecond
        BY <1>3, <3>3 DEF update
      <4>2. left' \in Nat /\ (left' > 0 => WaitTime > 0)
        BY <2>1, <4>1
      <4>3. QED
        BY <2>1, <2>2, <4>1, <4>2 DEF WaitIsBounded
    <3>4. QED
      BY <3>1, <3>2, <3>3
  <2>5. QED
    BY <2>2, <2>3, <2>4, Zenon DEF TimeInv
<1>4. CASE handle_check_connections_delay
  <2>1. elapsed' = 0 /\ left' = 0 /\ since' \in Nat /\ pc' \in {"out", "handle"}
    BY <1>4 DEF handle_check_connections_delay, StartHandling, TimeInv
  <2>2. QED
    BY <2>1 DEF TimeInv, WaitIsBounded
<1>5. CASE \E q \in Queues : Push(q) \/ Handle(q) \/ LoopEnds(q)
  BY <1>1, <1>5 DEF Push, Handle, LoopEnds
<1>6. CASE notify_wait \/ should_stop_waiting \/ Sleep \/ WakeUp \/ Timeout
  <2>1. UNCHANGED timeVars
    BY <1>6 DEF notify_wait, should_stop_waiting, Sleep, WakeUp, Timeout
  <2>2. pc' \in {"test", "sleep", "asleep"} \/ (pc' = "check" /\ Wait)
        \/ UNCHANGED pc \/ pc' \in {"out", "handle"}
    BY <1>6 DEF notify_wait, should_stop_waiting, Sleep, WakeUp, Timeout, StartTest, AfterWait,
                StartHandling, TimeInv
  <2>3. pc' \in {"test", "sleep", "asleep"} => Wait
    BY <1>6 DEF notify_wait, should_stop_waiting, Sleep, WakeUp, Timeout, StartTest, AfterWait,
                StartHandling, TimeInv
  <2>4. QED
    BY <1>1, <2>1, <2>2, <2>3 DEF TimeInv, WaitIsBounded, Seconds, timeVars
<1>7. CASE UNCHANGED vars
  BY <1>1, <1>7 DEF vars
<1>8. QED
  BY <1>2, <1>3, <1>4, <1>5, <1>6, <1>7 DEF Next, UserThread

\* What the test against the interval says about the clock.
LEMMA CheckIsDue ==
    ASSUME TimeInv, pc = "check"
    PROVE  /\ TimeSinceCheck < Interval => since < Interval * TicksPerSecond
           /\ TimeSinceCheck >= Interval => since >= Interval * TicksPerSecond
<1>1. /\ since \in Nat /\ elapsed \in Nat /\ Seconds \in Nat
      /\ elapsed * TicksPerSecond <= since
      /\ Seconds * TicksPerSecond <= since
      /\ since < Seconds * TicksPerSecond + TicksPerSecond
  BY WholeSeconds DEF TimeInv, Seconds
<1>2. TimeSinceCheck \in Nat /\ TimeSinceCheck * TicksPerSecond <= since
  BY <1>1 DEF TimeSinceCheck
<1>3. ASSUME TimeSinceCheck < Interval PROVE since < Interval * TicksPerSecond
  <2>1. TimeSinceCheck = Seconds
    BY <1>3 DEF TimeInv, TimeSinceCheck
  <2>2. Seconds * TicksPerSecond + TicksPerSecond <= Interval * TicksPerSecond
    BY <1>1, <1>3, <2>1, SecondsOrder
  <2>3. Seconds * TicksPerSecond \in Nat /\ Interval * TicksPerSecond \in Nat
    BY <1>1
  <2>4. QED
    BY <1>1, <2>2, <2>3
<1>4. ASSUME TimeSinceCheck >= Interval PROVE since >= Interval * TicksPerSecond
  <2>1. TimeSinceCheck * TicksPerSecond >= Interval * TicksPerSecond
    BY <1>2, <1>4, SecondsOrder
  <2>2. TimeSinceCheck * TicksPerSecond \in Nat /\ Interval * TicksPerSecond \in Nat
    BY <1>2
  <2>3. QED
    BY <1>1, <1>2, <2>1, <2>2
<1>5. QED
  BY <1>3, <1>4

\* handle_check_connections_delay gives wait_for a time that ends less than a second after
\* the next check is due, whatever the interval and the resolution of the clock.
THEOREM WaitsAreBounded == Spec => []WaitIsBounded
<1>1. TimeInv => WaitIsBounded
  BY DEF TimeInv
<1>2. QED
  BY <1>1, TimeInit, TimeStep, PTL DEF Spec

\* update() never starts to handle items while a check of the connections is due, and
\* never makes one before the interval has passed.
THEOREM ChecksAreMade == Spec => DueIsChecked
<1> DEFINE Made == Timed /\ pc # "handle" /\ pc' = "handle" =>
                       /\ since' < Interval * TicksPerSecond
                       /\ since' # since => since >= Interval * TicksPerSecond
<1>1. TimeInv /\ [Next]_vars => [Made]_vars
  <2> SUFFICES ASSUME TimeInv, Next, Timed, pc # "handle", pc' = "handle" PROVE Made
    OBVIOUS
  <2>1. handle_check_connections_delay
    BY DEF Next, UserThread, Push, notify_wait, Tick, update, should_stop_waiting, Sleep, WakeUp,
           Timeout, Handle, LoopEnds, StartTest, AfterWait
  <2>2. pc = "check" /\ Interval * TicksPerSecond > 0
    BY <2>1 DEF handle_check_connections_delay, Timed
  <2>3. \/ TimeSinceCheck < Interval /\ since' = since
        \/ TimeSinceCheck >= Interval /\ since' = 0
    BY <2>1 DEF handle_check_connections_delay
  <2>4. QED
    BY <2>2, <2>3, CheckIsDue
<1>2. QED
  BY <1>1, TimeInit, TimeStep, PTL DEF Spec, DueIsChecked
-------------------------------------------------------------------------------
\* Where the two threads are, and how far the loops of this update() have got.
ControlInv ==
    /\ asio \in {"push", "notify"}
    /\ pc \in {"out", "test", "sleep", "asleep", "check", "handle"}
    /\ at \in Queues
    /\ found \in BOOLEAN
    /\ count \in [Queues -> 0 .. max_handled_items]

\* The clock and the times derived from it stay within the interval and a second.
ClockInv ==
    /\ since \in 0 .. MaxTicks
    /\ elapsed \in 0 .. Interval + 1
    /\ left \in 0 .. Interval * TicksPerSecond

QueuesType ==
    queue \in [Queues -> Seq(Nat)] /\ pushed \in [Queues -> Nat] /\ handled \in [Queues -> Seq(Nat)]

LEMMA QueuesStep == QueueInv' /\ QueuesType /\ [Next]_vars => QueuesType'
<1> SUFFICES ASSUME QueueInv', QueuesType, [Next]_vars PROVE QueuesType'
  OBVIOUS
<1>0. "notifications" \in Queues
  OBVIOUS
<1>1. ASSUME NEW q \in Queues
      PROVE  queue'[q] \in Seq(Nat) /\ pushed'[q] \in Nat /\ handled'[q] \in Seq(Nat)
  BY DEF QueueInv, QueueOK
<1>2. ASSUME UNCHANGED <<queue, pushed, handled>> PROVE QueuesType'
  BY <1>2 DEF QueuesType
<1>3. ASSUME NEW q \in Queues, push_back(q), UNCHANGED handled PROVE QueuesType'
  BY <1>1, <1>3 DEF push_back, QueuesType
<1>4. ASSUME NEW q \in Queues, Handle(q) PROVE QueuesType'
  <2>1. handled' \in [Queues -> Seq(Nat)]
    BY <1>1, <1>4 DEF Handle, QueuesType
  <2>2. pushed' \in [Queues -> Nat]
    BY <1>0, <1>1, <1>4 DEF Handle, QueuesType
  <2>3. queue' \in [Queues -> Seq(Nat)]
    <3>1. \A r \in Queues : queue'[r] \in Seq(Nat)
      BY <1>1
    <3>2. queue' = [r \in Queues |-> queue'[r]]
      BY <1>4 DEF Handle, QueuesType
    <3>3. QED
      BY <3>1, <3>2, Zenon
  <2>4. QED
    BY <2>1, <2>2, <2>3 DEF QueuesType
<1>5. CASE \/ notify_wait \/ Tick \/ update \/ should_stop_waiting \/ Sleep \/ WakeUp \/ Timeout
           \/ \E q \in Queues : LoopEnds(q)
           \/ UNCHANGED vars
  BY <1>2, <1>5 DEF notify_wait, Tick, update, should_stop_waiting, Sleep, WakeUp, Timeout, LoopEnds,
                    queueVars, vars
<1>6. CASE handle_check_connections_delay
  BY <1>0, <1>2, <1>3, <1>6 DEF handle_check_connections_delay
<1>7. QED
  BY <1>3, <1>4, <1>5, <1>6 DEF Next, UserThread, Push

LEMMA ControlStep == ControlInv /\ [Next]_vars => ControlInv'
<1> SUFFICES ASSUME ControlInv, [Next]_vars PROVE ControlInv'
  OBVIOUS
<1>1. "messages" \in Queues /\ "notifications" \in Queues
  OBVIOUS
<1>2. ASSUME UNCHANGED count, asio' \in {"push", "notify"},
             \/ UNCHANGED <<pc, at, found>>
             \/ StartTest \/ AfterWait \/ StartHandling
             \/ pc' \in {"out", "sleep", "asleep"} /\ UNCHANGED <<at, found>>
      PROVE  ControlInv'
  <2>1. CASE UNCHANGED <<pc, at, found>>
    BY <1>2, <2>1 DEF ControlInv
  <2>2. CASE pc' \in {"out", "sleep", "asleep"} /\ UNCHANGED <<at, found>>
    BY <1>2, <2>2 DEF ControlInv
  <2>3. CASE StartTest \/ AfterWait \/ StartHandling
    <3>1. pc' \in {"test", "check", "handle"} /\ at' \in {"messages", "notifications"} /\ found' = FALSE
      BY <2>3, Zenon DEF StartTest, AfterWait, StartHandling
    <3>2. at' \in Queues /\ found' \in BOOLEAN
      BY <1>1, <3>1, Zenon
    <3>3. QED
      BY <1>2, <3>1, <3>2 DEF ControlInv
  <2>4. QED
    BY <1>2, <2>1, <2>2, <2>3
<1>3. CASE \/ \E q \in Queues : Push(q)
           \/ notify_wait \/ Sleep \/ WakeUp \/ Timeout \/ Tick \/ handle_check_connections_delay
           \/ UNCHANGED vars
  <2>1. UNCHANGED count
    BY <1>3 DEF Push, notify_wait, Sleep, WakeUp, Timeout, Tick, handle_check_connections_delay, vars,
                queueVars
  <2>2. asio' \in {"push", "notify"}
    BY <1>3 DEF Push, notify_wait, Sleep, WakeUp, Timeout, Tick, handle_check_connections_delay, vars,
                ControlInv
  <2>3. \/ UNCHANGED <<pc, at, found>>
        \/ StartTest \/ AfterWait \/ StartHandling
        \/ pc' \in {"out", "sleep", "asleep"} /\ UNCHANGED <<at, found>>
    BY <1>3, Zenon DEF Push, notify_wait, Sleep, WakeUp, Timeout, Tick, handle_check_connections_delay,
                vars
  <2>4. QED
    BY <1>2, <2>1, <2>2, <2>3
<1>4. CASE update
  <2>1. count' \in [Queues -> 0 .. max_handled_items]
    BY <1>4 DEF update
  <2>2. StartTest \/ AfterWait
    BY <1>4 DEF update
  <2>3. pc' \in {"test", "check", "handle"} /\ at' \in {"messages", "notifications"} /\ found' = FALSE
    BY <2>2, Zenon DEF StartTest, AfterWait, StartHandling
  <2>4. at' \in Queues /\ found' \in BOOLEAN
    BY <1>1, <2>3, Zenon
  <2>5. QED
    BY <1>4, <2>1, <2>3, <2>4 DEF update, ControlInv
<1>5. CASE should_stop_waiting
  <2> DEFINE last == IF IsServer THEN "connections" ELSE "notifications"
             stop == found \/ queue[at] # <<>>
  <2>1. UNCHANGED <<count, asio>>
    BY <1>5 DEF should_stop_waiting, queueVars
  <2>2. CASE /\ at # last /\ found' = stop /\ pc' = pc
             /\ at' = IF at = "messages" THEN "notifications" ELSE "connections"
    <3>1. found' \in BOOLEAN
      BY <2>2, Zenon
    <3>2. at' \in Queues
      <4>1. at # "messages" /\ at # last => "connections" \in Queues
        BY DEF ControlInv, IsServer
      <4>2. QED
        BY <1>1, <2>2, <4>1
    <3>3. QED
      BY <2>1, <2>2, <3>1, <3>2 DEF ControlInv
  <2>3. CASE AfterWait \/ (pc' = "sleep" /\ UNCHANGED <<at, found>>)
    BY <1>2, <2>1, <2>3 DEF ControlInv
  <2>4. QED
    BY <1>5, <2>2, <2>3 DEF should_stop_waiting
<1>6. ASSUME NEW q \in Queues, Handle(q) PROVE ControlInv'
  <2>1. count' = [count EXCEPT ![q] = @ + 1] /\ count[q] < max_handled_items
    BY <1>6 DEF Handle, MayHandle
  <2>2. count' \in [Queues -> 0 .. max_handled_items]
    <3>1. count \in [Queues -> 0 .. max_handled_items]
      BY DEF ControlInv
    <3>2. count[q] + 1 \in 0 .. max_handled_items
      BY <2>1, <3>1
    <3>3. QED
      BY <2>1, <3>1, <3>2
  <2>3. pc' \in {pc, "out"} /\ UNCHANGED <<asio, at, found>>
    BY <1>6 DEF Handle
  <2>4. QED
    BY <2>2, <2>3 DEF ControlInv
<1>7. ASSUME NEW q \in Queues, LoopEnds(q) PROVE ControlInv'
  <2>1. at = q /\ UNCHANGED <<count, asio, found>> /\ pc' \in {pc, "out"}
    BY <1>7 DEF LoopEnds, queueVars
  <2>2. at' \in Queues
    <3>1. CASE UNCHANGED at
      BY <2>1, <3>1
    <3>2. CASE /\ q # LastQueue
               /\ at' = IF q = "notifications" THEN "messages" ELSE "connections"
      <4>1. q # "notifications" /\ q # LastQueue => "connections" \in Queues
        BY DEF LastQueue, IsServer
      <4>2. QED
        BY <1>1, <3>2, <4>1
    <3>3. QED
      BY <1>7, <3>1, <3>2 DEF LoopEnds
  <2>3. QED
    BY <2>1, <2>2 DEF ControlInv
<1>8. QED
  BY <1>3, <1>4, <1>5, <1>6, <1>7 DEF Next, UserThread

LEMMA ClockStep == ClockInv /\ [Next]_vars => ClockInv'
<1> SUFFICES ASSUME ClockInv, [Next]_vars PROVE ClockInv'
  OBVIOUS
<1>1. MaxTicks \in Nat /\ Interval * TicksPerSecond \in Nat
  BY DEF MaxTicks
<1>2. since \in Nat /\ since <= MaxTicks /\ left \in Nat /\ left <= Interval * TicksPerSecond
  BY <1>1 DEF ClockInv
<1>3. ASSUME UNCHANGED timeVars PROVE ClockInv'
  BY <1>3 DEF ClockInv, timeVars
<1>4. CASE Tick
  <2>1. since' \in 0 .. MaxTicks
    BY <1>1, <1>2, <1>4 DEF Tick
  <2>2. left' \in 0 .. Interval * TicksPerSecond
    BY <1>1, <1>2, <1>4 DEF Tick
  <2>3. QED
    BY <1>4, <2>1, <2>2 DEF Tick, ClockInv
<1>5. CASE update
  <2>1. Seconds \in 0 .. Interval + 1
    <3>1. Seconds \in Nat /\ Seconds * TicksPerSecond <= since
      BY <1>2, WholeSeconds DEF Seconds
    <3>2. ASSUME Seconds > Interval + 1 PROVE FALSE
      <4>1. (Interval + 1) * TicksPerSecond + TicksPerSecond <= Seconds * TicksPerSecond
        BY <3>1, <3>2, SecondsOrder
      <4>2. Seconds * TicksPerSecond \in Nat
        BY <3>1
      <4>3. QED
        BY <1>1, <1>2, <3>1, <4>1, <4>2 DEF MaxTicks
    <3>3. QED
      BY <3>1, <3>2
  <2>2. WaitTime \in Nat /\ WaitTime <= Interval
    BY <2>1 DEF WaitTime
  <2>3. WaitTime * TicksPerSecond \in 0 .. Interval * TicksPerSecond
    <3>1. Interval * TicksPerSecond >= WaitTime * TicksPerSecond
      BY <2>2, SecondsOrder
    <3>2. WaitTime * TicksPerSecond \in Nat
      BY <2>2
    <3>3. QED
      BY <1>1, <3>1, <3>2
  <2>4. since' = since
    BY <1>5 DEF update
  <2>5. CASE UNCHANGED <<elapsed, left>>
    BY <2>4, <2>5 DEF ClockInv
  <2>6. CASE elapsed' = Seconds /\ left' = (IF Wait THEN WaitTime ELSE 0) * TicksPerSecond
    <3>1. left' \in 0 .. Interval * TicksPerSecond
      BY <1>1, <2>3, <2>6
    <3>2. QED
      BY <2>1, <2>4, <2>6, <3>1 DEF ClockInv
  <2>7. QED
    BY <1>5, <2>5, <2>6 DEF update
<1>6. CASE handle_check_connections_delay
  <2>1. elapsed' = 0 /\ left' = 0 /\ (since' = 0 \/ since' = since)
    BY <1>6 DEF handle_check_connections_delay
  <2>2. QED
    BY <1>1, <1>2, <2>1 DEF ClockInv
<1>7. CASE \/ \E q \in Queues : Push(q) \/ Handle(q) \/ LoopEnds(q)
           \/ notify_wait \/ should_stop_waiting \/ Sleep \/ WakeUp \/ Timeout \/ UNCHANGED vars
  BY <1>3, <1>7 DEF Push, Handle, LoopEnds, notify_wait, should_stop_waiting, Sleep, WakeUp, Timeout, vars
<1>8. QED
  BY <1>4, <1>5, <1>6, <1>7 DEF Next, UserThread

\* update() is always in one of its loops' queues, and handles at most max_handled_items of
\* each; no time it computes is negative or leaves its bound.
THEOREM TypeCorrect == Spec => []TypeOK
<1> DEFINE TypeInv == QueueInv /\ QueuesType /\ ControlInv /\ ClockInv
<1>1. Init => TypeInv
  <2> SUFFICES ASSUME Init PROVE TypeInv
    OBVIOUS
  <2>1. QueueInv
    BY SeqEmpty DEF Init, QueueInv, QueueOK, Kept, InOrder
  <2>2. QueuesType
    BY SeqEmpty DEF Init, QueuesType
  <2>3. "notifications" \in Queues /\ [q \in Queues |-> 0] \in [Queues -> 0 .. max_handled_items]
    OBVIOUS
  <2>4. ControlInv
    BY <2>3, Zenon DEF Init, ControlInv
  <2>5. ClockInv
    BY DEF Init, ClockInv
  <2>6. QED
    BY <2>1, <2>2, <2>4, <2>5
<1>2. TypeInv => TypeOK
  BY Zenon DEF QueuesType, ControlInv, ClockInv, TypeOK
<1>3. TypeInv /\ [Next]_vars => TypeInv'
  BY QueueStep, QueuesStep, ControlStep, ClockStep
<1>4. QED
  BY <1>1, <1>2, <1>3, PTL DEF Spec
===============================================================================
