------------------------------ MODULE LinkProofs ------------------------------
(***************************************************************************)
(* The refinement of Channel by Link, for every value of the constants.    *)
(* What one Connection does is taken from the lemmas about Connection; the *)
(* rest relates what one side writes to what the other reads.              *)
(***************************************************************************)
EXTENDS Link, TLAPS

USE LinkAssumption, SMTT(30), ZenonT(30), SMTT(60)
-------------------------------------------------------------------------------
\* The facts about sequences that the proofs below cite.
LEMMA SeqEmpty ==
    ASSUME NEW S
    PROVE  <<>> \in Seq(S) /\ Len(<<>>) = 0 /\ \A s \in Seq(S) : s # <<>> => Len(s) \in Nat \ {0}
OBVIOUS

LEMMA SeqLen ==
    ASSUME NEW S, NEW s \in Seq(S)
    PROVE  Len(s) \in Nat /\ s \in [1 .. Len(s) -> S] /\ DOMAIN s = 1 .. Len(s)
OBVIOUS

LEMMA SeqAppend ==
    ASSUME NEW S, NEW s \in Seq(S), NEW e \in S
    PROVE  /\ Append(s, e) \in Seq(S) /\ Append(s, e) # <<>>
           /\ Len(Append(s, e)) = Len(s) + 1 /\ Append(s, e)[Len(s) + 1] = e
           /\ \A i \in 1 .. Len(s) : Append(s, e)[i] = s[i]
OBVIOUS

LEMMA SeqTail ==
    ASSUME NEW S, NEW s \in Seq(S), s # <<>>
    PROVE  /\ Head(s) \in S /\ Tail(s) \in Seq(S) /\ Len(Tail(s)) = Len(s) - 1
           /\ \A i \in 1 .. Len(Tail(s)) : Tail(s)[i] = s[i + 1]
OBVIOUS

LEMMA ConcatEmpty == ASSUME NEW S, NEW s \in Seq(S) PROVE s \o <<>> = s /\ <<>> \o s = s
OBVIOUS

LEMMA SubSeqType ==
    ASSUME NEW S, NEW s, NEW m \in Int, NEW n \in Int, \A i \in m .. n : s[i] \in S
    PROVE  /\ SubSeq(s, m, n) \in Seq(S)
           /\ Len(SubSeq(s, m, n)) = IF m <= n THEN n - m + 1 ELSE 0
           /\ \A i \in 1 .. n - m + 1 : SubSeq(s, m, n)[i] = s[m + i - 1]
OBVIOUS

LEMMA SubSeqNone == ASSUME NEW s, NEW m \in Int, NEW n \in Int, n < m PROVE SubSeq(s, m, n) = <<>>
OBVIOUS

LastPart(m) == A!LastPart(m)
-------------------------------------------------------------------------------
(***************************************************************************)
(* One direction.  The parameters are, on the side that sends: what was    *)
(* given to send_message, m_out_queue and the chunks written; on the side  *)
(* that reads: the chunks not read yet, whether a header or a body comes   *)
(* next, m_received_message and the User's queue.                          *)
(***************************************************************************)
\* The stream is in order.
Fifo(outbound) ==
    /\ outbound # <<>> => outbound[1].part = "header" /\ outbound[1].msg.num = 1
    /\ \A i \in 1 .. Len(outbound) - 1 : A!Follows(outbound[i], outbound[i + 1])

\* Along the stream the numbers do not decrease, and none is above that of the queue's front.
Growing(given, queue, outbound) ==
    /\ \A i \in 1 .. Len(outbound) : outbound[i].msg.num <= Len(given) - Len(queue) + 1
    /\ \A j \in 1 .. Len(outbound) : \A i \in 1 .. j : outbound[i].msg.num <= outbound[j].msg.num

\* The queue holds the last of the messages that were given, the stream others of them.
FromGiven(given, queue, outbound) ==
    /\ \A n \in 1 .. Len(given) : given[n].num = n
    /\ Len(queue) <= Len(given)
    /\ \A i \in 1 .. Len(queue) : queue[i] = given[Len(given) - Len(queue) + i]
    /\ \A i \in 1 .. Len(outbound) : \E n \in 1 .. Len(given) : outbound[i].msg = given[n]
    /\ Growing(given, queue, outbound)

\* All chunks of the stream after the first r are not read yet.
Unread(outbound, inbound, r) ==
    /\ r \in Nat /\ r + Len(inbound) = Len(outbound)
    /\ \A i \in 1 .. Len(inbound) : inbound[i] = outbound[r + i]

\* The first r chunks end with the last message of the User's queue.
HeaderNext(outbound, r, in_queue) ==
    IF r = 0 THEN in_queue = <<>>
    ELSE outbound[r].part = LastPart(outbound[r].msg) /\ outbound[r].msg.num = Len(in_queue)

\* The first r chunks are the messages of the User's queue, and the header of one more
\* when its body comes next.
ReadSoFar(given, outbound, r, next, message, in_queue) ==
    /\ Len(in_queue) <= Len(given)
    /\ \A i \in 1 .. Len(in_queue) : in_queue[i] = given[i]
    /\ next = "header" => HeaderNext(outbound, r, in_queue)
    /\ next = "body" =>
               /\ r > 0 /\ outbound[r].part = "header" /\ outbound[r].msg = message[1]
               /\ message[1].num = Len(in_queue) + 1
               /\ message[1].head.size > 0

Direction(given, queue, outbound, inbound, next, message, in_queue) ==
    /\ FromGiven(given, queue, outbound)
    /\ \E r \in Nat : /\ Unread(outbound, inbound, r)
                      /\ ReadSoFar(given, outbound, r, next, message, in_queue)

\* A message is given to send_message.
LEMMA GivenStep ==
    ASSUME NEW M, NEW C, NEW given \in Seq(M), NEW queue \in Seq(M), NEW outbound \in Seq(C),
           NEW inbound \in Seq(C), NEW next, NEW message, NEW in_queue \in Seq(M),
           NEW m \in M, m.num = Len(given) + 1,
           Direction(given, queue, outbound, inbound, next, message, in_queue)
    PROVE  Direction(Append(given, m), Append(queue, m), outbound, inbound, next, message, in_queue)
<1>1. PICK g \in Seq(M) : g = Append(given, m)
  BY SeqAppend, ZenonT(40)
<1>2. PICK q \in Seq(M) : q = Append(queue, m)
  BY SeqAppend, ZenonT(40)
<1>3. Len(given) \in Nat /\ Len(queue) \in Nat /\ Len(in_queue) \in Nat
  BY SeqLen
<1>4. /\ Len(g) = Len(given) + 1 /\ g[Len(given) + 1] = m
      /\ \A n \in 1 .. Len(given) : g[n] = given[n]
  BY <1>1, SeqAppend
<1>5. /\ Len(q) = Len(queue) + 1 /\ q[Len(queue) + 1] = m
      /\ \A n \in 1 .. Len(queue) : q[n] = queue[n]
  BY <1>2, SeqAppend
<1>6. FromGiven(given, queue, outbound)
  BY DEF Direction
<1>7. FromGiven(g, q, outbound)
  <2>1. ASSUME NEW n \in 1 .. Len(g) PROVE g[n].num = n
    <3>1. CASE n \in 1 .. Len(given)
      BY <1>4, <1>6, <3>1, ZenonT(40), SMTT(30) DEF FromGiven
    <3>2. CASE n = Len(given) + 1
      BY <1>4, <3>2
    <3>3. QED
      BY <1>3, <1>4, <3>1, <3>2
  <2>2. Len(q) <= Len(g)
    BY <1>3, <1>4, <1>5, <1>6 DEF FromGiven
  <2>3. ASSUME NEW i \in 1 .. Len(q) PROVE q[i] = g[Len(g) - Len(q) + i]
    <3>1. CASE i = Len(queue) + 1
      BY <1>3, <1>4, <1>5, <3>1
    <3>2. CASE i # Len(queue) + 1
      <4>1. i \in 1 .. Len(queue) /\ Len(g) - Len(q) + i = Len(given) - Len(queue) + i
        BY <1>3, <1>4, <1>5, <3>2
      <4>2. Len(given) - Len(queue) + i \in 1 .. Len(given)
        BY <1>3, <1>6, <4>1 DEF FromGiven
      <4>3. QED
        BY <1>4, <1>5, <1>6, <4>1, <4>2, ZenonT(40) DEF FromGiven
    <3>3. QED
      BY <3>1, <3>2
  <2>4. ASSUME NEW i \in 1 .. Len(outbound) PROVE \E n \in 1 .. Len(g) : outbound[i].msg = g[n]
    <3>1. PICK n \in 1 .. Len(given) : outbound[i].msg = given[n]
      BY <1>6 DEF FromGiven
    <3>2. n \in 1 .. Len(g) /\ g[n] = given[n]
      BY <1>3, <1>4
    <3>3. QED
      BY <3>1, <3>2
  <2>5. Growing(g, q, outbound)
    <3>1. Len(g) - Len(q) = Len(given) - Len(queue)
      BY <1>3, <1>4, <1>5
    <3>2. Growing(given, queue, outbound)
      BY <1>6 DEF FromGiven
    <3>3. QED
      BY <3>1, <3>2 DEF Growing
  <2>6. QED
    BY <2>1, <2>2, <2>3, <2>4, <2>5, ZenonT(40), SMTT(30) DEF FromGiven
<1>8. PICK r \in Nat : /\ Unread(outbound, inbound, r)
                       /\ ReadSoFar(given, outbound, r, next, message, in_queue)
  BY DEF Direction
<1>9. ReadSoFar(g, outbound, r, next, message, in_queue)
  <2>1. Len(in_queue) <= Len(g)
    BY <1>3, <1>4, <1>8 DEF ReadSoFar
  <2>2. ASSUME NEW i \in 1 .. Len(in_queue) PROVE in_queue[i] = g[i]
    <3>1. i \in 1 .. Len(given)
      BY <1>3, <1>8 DEF ReadSoFar
    <3>2. QED
      BY <1>4, <1>8, <3>1 DEF ReadSoFar
  <2>3. QED
    BY <1>8, <2>1, <2>2 DEF ReadSoFar
<1>10. QED
  BY <1>1, <1>2, <1>7, <1>8, <1>9 DEF Direction

\* A chunk of the front of the queue is written, and that is popped with its last one.
LEMMA WrittenStep ==
    ASSUME NEW M, NEW C, NEW given \in Seq(M), NEW queue \in Seq(M), NEW outbound \in Seq(C),
           NEW inbound \in Seq(C), NEW next, NEW message, NEW in_queue \in Seq(M),
           NEW c \in C, queue # <<>>, c.msg = queue[1], NEW q, q = queue \/ q = Tail(queue),
           Direction(given, queue, outbound, inbound, next, message, in_queue)
    PROVE  Direction(given, q, Append(outbound, c), Append(inbound, c), next, message, in_queue)
<1>1. PICK o \in Seq(C) : o = Append(outbound, c)
  BY SeqAppend, ZenonT(40)
<1>2. PICK u \in Seq(C) : u = Append(inbound, c)
  BY SeqAppend, ZenonT(40)
<1>3. /\ Len(given) \in Nat /\ Len(queue) \in Nat \ {0} /\ Len(outbound) \in Nat
      /\ Len(inbound) \in Nat
  BY SeqLen, SeqEmpty
<1>4. /\ Len(o) = Len(outbound) + 1 /\ o[Len(outbound) + 1] = c
      /\ \A n \in 1 .. Len(outbound) : o[n] = outbound[n]
  BY <1>1, SeqAppend
<1>5. /\ Len(u) = Len(inbound) + 1 /\ u[Len(inbound) + 1] = c
      /\ \A n \in 1 .. Len(inbound) : u[n] = inbound[n]
  BY <1>2, SeqAppend
<1>6. FromGiven(given, queue, outbound)
  BY DEF Direction
<1>7. FromGiven(given, q, o)
  <2>1. /\ Len(q) <= Len(given)
        /\ \A i \in 1 .. Len(q) : q[i] = given[Len(given) - Len(q) + i]
    <3>1. CASE q = queue
      BY <1>6, <3>1 DEF FromGiven
    <3>2. CASE q = Tail(queue)
      <4>1. Len(q) = Len(queue) - 1 /\ \A i \in 1 .. Len(q) : q[i] = queue[i + 1]
        BY <1>3, <3>2, SeqTail
      <4>2. ASSUME NEW i \in 1 .. Len(q) PROVE q[i] = given[Len(given) - Len(q) + i]
        <5>1. i + 1 \in 1 .. Len(queue) /\ Len(given) - Len(queue) + (i + 1) = Len(given) - Len(q) + i
          BY <1>3, <4>1
        <5>2. queue[i + 1] = given[Len(given) - Len(queue) + (i + 1)]
          BY <1>6, <5>1 DEF FromGiven
        <5>3. QED
          BY <4>1, <5>1, <5>2
      <4>3. Len(q) <= Len(given)
        BY <1>3, <1>6, <4>1 DEF FromGiven
      <4>4. QED
        BY <4>2, <4>3
    <3>3. QED
      BY <3>1, <3>2
  <2>2. ASSUME NEW i \in 1 .. Len(o) PROVE \E n \in 1 .. Len(given) : o[i].msg = given[n]
    <3>1. CASE i \in 1 .. Len(outbound)
      BY <1>4, <1>6, <3>1, ZenonT(40) DEF FromGiven
    <3>2. CASE i = Len(outbound) + 1
      <4>1. /\ queue[1] = given[Len(given) - Len(queue) + 1]
            /\ Len(given) - Len(queue) + 1 \in 1 .. Len(given)
        BY <1>3, <1>6 DEF FromGiven
      <4>2. QED
        BY <1>4, <3>2, <4>1
    <3>3. QED
      BY <1>3, <1>4, <3>1, <3>2
  <2>3. Growing(given, q, o)
    <3> DEFINE L == Len(given) - Len(queue) + 1
    <3>1. L \in Int /\ L \in 1 .. Len(given) /\ L <= Len(given) - Len(q) + 1
      <4>1. Len(q) = Len(queue) \/ Len(q) = Len(queue) - 1
        BY SeqTail
      <4>2. QED
        BY <1>3, <1>6, <4>1 DEF FromGiven
    <3>2. c.msg.num = L
      <4>1. queue[1] = given[L]
        BY <1>3, <1>6 DEF FromGiven
      <4> HIDE DEF L
      <4>2. given[L].num = L
        BY <1>6, <3>1, ZenonT(40), SMTT(30) DEF FromGiven
      <4>3. QED
        BY <4>1, <4>2
    <3>3. ASSUME NEW i \in 1 .. Len(outbound) PROVE outbound[i].msg.num \in Int
      <4>1. PICK n \in 1 .. Len(given) : outbound[i].msg = given[n]
        BY <1>6 DEF FromGiven
      <4>2. QED
        BY <1>3, <1>6, <4>1 DEF FromGiven
    <3>4. Growing(given, queue, outbound)
      BY <1>6 DEF FromGiven
    <3> HIDE DEF L
    <3>5. ASSUME NEW i \in 1 .. Len(outbound) PROVE o[i].msg.num \in Int /\ o[i].msg.num <= L
      BY <1>4, <3>3, <3>4 DEF Growing, L
    <3>6. ASSUME NEW i \in 1 .. Len(o) PROVE i \in 1 .. Len(outbound) \/ o[i].msg.num = L
      BY <1>3, <1>4, <3>2
    <3>7. ASSUME NEW i \in 1 .. Len(o) PROVE o[i].msg.num <= Len(given) - Len(q) + 1
      <4>1. o[i].msg.num \in Int /\ o[i].msg.num <= L
        BY <3>1, <3>5, <3>6
      <4>2. Len(given) - Len(q) + 1 \in Int
        <5>1. Len(q) \in Int
          BY <1>3, SeqTail
        <5>2. QED
          BY <1>3, <5>1
      <4>3. QED
        BY <3>1, <4>1, <4>2
    <3>8. ASSUME NEW j \in 1 .. Len(o), NEW i \in 1 .. j PROVE o[i].msg.num <= o[j].msg.num
      <4>1. CASE j \in 1 .. Len(outbound)
        <5>1. i \in 1 .. Len(outbound)
          BY <1>3, <4>1
        <5>2. QED
          BY <1>4, <3>4, <4>1, <5>1, ZenonT(40), SMTT(30) DEF Growing
      <4>2. CASE j \notin 1 .. Len(outbound)
        <5>1. o[j].msg.num = L
          BY <3>6, <4>2
        <5>2. i \in 1 .. Len(o)
          BY <1>3, <1>4
        <5>3. QED
          BY <3>1, <3>5, <3>6, <5>1, <5>2
      <4>3. QED
        BY <4>1, <4>2
    <3>9. QED
      BY <3>7, <3>8 DEF Growing
  <2>4. QED
    BY <1>6, <2>1, <2>2, <2>3 DEF FromGiven
<1>8. PICK r \in Nat : /\ Unread(outbound, inbound, r)
                       /\ ReadSoFar(given, outbound, r, next, message, in_queue)
  BY DEF Direction
<1>9. Unread(o, u, r)
  <2>1. r + Len(u) = Len(o)
    BY <1>3, <1>4, <1>5, <1>8 DEF Unread
  <2>2. ASSUME NEW i \in 1 .. Len(u) PROVE u[i] = o[r + i]
    <3>1. CASE i \in 1 .. Len(inbound)
      <4>1. r + i \in 1 .. Len(outbound)
        BY <1>3, <1>8, <3>1 DEF Unread
      <4>2. QED
        BY <1>4, <1>5, <1>8, <3>1, <4>1 DEF Unread
    <3>2. CASE i = Len(inbound) + 1
      BY <1>3, <1>4, <1>5, <2>1, <3>2
    <3>3. QED
      BY <1>3, <1>5, <3>1, <3>2
  <2>3. QED
    BY <2>1, <2>2 DEF Unread
<1>10. ReadSoFar(given, o, r, next, message, in_queue)
  <2>1. r > 0 => o[r] = outbound[r]
    BY <1>3, <1>4, <1>8 DEF Unread
  <2>2. QED
    BY <1>8, <2>1 DEF ReadSoFar, HeaderNext
<1>11. QED
  BY <1>1, <1>2, <1>7, <1>8, <1>9, <1>10 DEF Direction

\* The reading side does not touch the stream.
LEMMA UntouchedStep ==
    ASSUME NEW given, NEW queue, NEW outbound, NEW inbound, NEW next, NEW message,
           NEW in_queue, NEW next2, NEW message2,
           next2 = "header" => next = "header",
           next2 = "body" => next = "body" /\ message2 = message,
           Direction(given, queue, outbound, inbound, next, message, in_queue)
    PROVE  Direction(given, queue, outbound, inbound, next2, message2, in_queue)
BY DEF Direction, ReadSoFar

\* The chunk that is read is the next one of the stream.
LEMMA NextChunk ==
    ASSUME NEW C, NEW outbound \in Seq(C), NEW inbound \in Seq(C), inbound # <<>>,
           NEW r \in Nat, Unread(outbound, inbound, r)
    PROVE  /\ r + 1 \in 1 .. Len(outbound) /\ inbound[1] = outbound[r + 1]
           /\ Unread(outbound, Tail(inbound), r + 1)
<1>1. PICK u \in Seq(C) : u = Tail(inbound)
  BY SeqTail, ZenonT(40)
<1>2. Len(inbound) \in Nat \ {0} /\ Len(outbound) \in Nat
  BY SeqLen, SeqEmpty
<1>3. Len(u) = Len(inbound) - 1 /\ \A i \in 1 .. Len(u) : u[i] = inbound[i + 1]
  BY <1>1, <1>2, SeqTail
<1>4. r + Len(inbound) = Len(outbound) /\ Len(u) = Len(inbound) - 1
  BY <1>3 DEF Unread
<1>5. r + 1 \in 1 .. Len(outbound) /\ inbound[1] = outbound[r + 1]
  BY <1>2, <1>4 DEF Unread
<1>6. ASSUME NEW i \in 1 .. Len(u) PROVE u[i] = outbound[(r + 1) + i]
  <2>1. i + 1 \in 1 .. Len(inbound) /\ r + (i + 1) = (r + 1) + i
    BY <1>2, <1>3
  <2>2. inbound[i + 1] = outbound[r + (i + 1)]
    BY <2>1 DEF Unread
  <2>3. QED
    BY <1>3, <2>1, <2>2
<1>7. (r + 1) + Len(u) = Len(outbound)
  BY <1>2, <1>4
<1>8. QED
  BY <1>1, <1>5, <1>6, <1>7 DEF Unread

\* A header is read after the messages of the User's queue: it is that of the next one.
LEMMA NextHeader ==
    ASSUME NEW M, NEW C, NEW given \in Seq(M), NEW queue, NEW outbound \in Seq(C),
           NEW in_queue \in Seq(M), NEW r \in Nat, r + 1 \in 1 .. Len(outbound),
           Fifo(outbound), FromGiven(given, queue, outbound), HeaderNext(outbound, r, in_queue)
    PROVE  /\ Len(in_queue) + 1 \in 1 .. Len(given)
           /\ outbound[r + 1].msg = given[Len(in_queue) + 1]
           /\ outbound[r + 1].msg.num = Len(in_queue) + 1
<1>1. Len(in_queue) \in Nat /\ Len(given) \in Nat /\ Len(outbound) \in Nat
  BY SeqLen
<1>2. outbound[r + 1].msg.num = Len(in_queue) + 1
  <2>1. CASE r = 0
    <3>1. in_queue = <<>> /\ outbound # <<>>
      BY <1>1, <2>1 DEF HeaderNext
    <3>2. QED
      BY <2>1, <3>1 DEF Fifo
  <2>2. CASE r # 0
    <3>1. r \in 1 .. Len(outbound) - 1
      BY <1>1, <2>2
    <3>2. A!Follows(outbound[r], outbound[r + 1])
      BY <3>1 DEF Fifo
    <3>3. outbound[r].part = LastPart(outbound[r].msg) /\ outbound[r].msg.num = Len(in_queue)
      BY <2>2 DEF HeaderNext
    <3>4. QED
      BY <3>2, <3>3 DEF A!Follows, LastPart, A!LastPart
  <2>3. QED
    BY <2>1, <2>2
<1>3. PICK n \in 1 .. Len(given) : outbound[r + 1].msg = given[n]
  BY DEF FromGiven
<1>4. n = Len(in_queue) + 1
  BY <1>2, <1>3 DEF FromGiven
<1>5. QED
  BY <1>2, <1>3, <1>4

\* What is next in the stream is what is read next: a header, or the body of the message
\* whose header was read.
InStep(inbound, next, message) ==
    inbound # <<>> =>
        /\ next = "header" => inbound[1].part = "header"
        /\ next = "body" => inbound[1] = [part |-> "body", msg |-> message[1]]

LEMMA NextPartIsNext ==
    ASSUME NEW C, NEW given, NEW queue, NEW outbound \in Seq(C), NEW inbound \in Seq(C),
           NEW next, NEW message, NEW in_queue, Fifo(outbound),
           Direction(given, queue, outbound, inbound, next, message, in_queue)
    PROVE  InStep(inbound, next, message)
<1> SUFFICES ASSUME inbound # <<>>
             PROVE  /\ next = "header" => inbound[1].part = "header"
                    /\ next = "body" => inbound[1] = [part |-> "body", msg |-> message[1]]
  BY ZenonT(40) DEF InStep
<1>1. PICK r \in Nat : /\ Unread(outbound, inbound, r)
                       /\ ReadSoFar(given, outbound, r, next, message, in_queue)
  BY DEF Direction
<1>2. r + 1 \in 1 .. Len(outbound) /\ inbound[1] = outbound[r + 1] /\ Len(outbound) \in Nat
  BY <1>1, NextChunk, SeqLen
<1>3. r # 0 => A!Follows(outbound[r], outbound[r + 1])
  <2>1. r # 0 => r \in 1 .. Len(outbound) - 1
    BY <1>2
  <2>2. QED
    BY <2>1 DEF Fifo
<1>4. ASSUME next = "header" PROVE inbound[1].part = "header"
  <2>1. CASE r = 0
    <3>1. outbound # <<>>
      BY <1>2
    <3>2. QED
      BY <1>2, <2>1, <3>1 DEF Fifo
  <2>2. CASE r # 0
    <3>1. outbound[r].part = LastPart(outbound[r].msg)
      BY <1>1, <1>4, <2>2 DEF ReadSoFar, HeaderNext
    <3>2. QED
      BY <1>2, <1>3, <2>2, <3>1 DEF A!Follows, LastPart
  <2>3. QED
    BY <2>1, <2>2
<1>5. ASSUME next = "body" PROVE inbound[1] = [part |-> "body", msg |-> message[1]]
  <2>1. r # 0 /\ outbound[r].part = "header" /\ outbound[r].msg = message[1] /\ message[1].head.size > 0
    BY <1>1, <1>5 DEF ReadSoFar
  <2>2. outbound[r].part # A!LastPart(outbound[r].msg)
    BY <2>1 DEF A!LastPart
  <2>3. QED
    BY <1>2, <1>3, <2>1, <2>2, ZenonT(40) DEF A!Follows
<1>6. QED
  BY <1>4, <1>5

\* A header is read, and its body comes next or reading ends.
LEMMA HeaderStep ==
    ASSUME NEW M, NEW C, NEW given \in Seq(M), NEW queue, NEW outbound \in Seq(C),
           NEW inbound \in Seq(C), NEW next, NEW message, NEW in_queue \in Seq(M),
           NEW next2, NEW message2, next = "header", next2 # "header", Fifo(outbound),
           inbound # <<>>, inbound[1].part = "header",
           next2 = "body" => message2[1] = inbound[1].msg /\ inbound[1].msg.head.size > 0,
           Direction(given, queue, outbound, inbound, next, message, in_queue)
    PROVE  Direction(given, queue, outbound, Tail(inbound), next2, message2, in_queue)
<1>1. FromGiven(given, queue, outbound)
  BY DEF Direction
<1>2. PICK r \in Nat : /\ Unread(outbound, inbound, r)
                       /\ ReadSoFar(given, outbound, r, next, message, in_queue)
  BY DEF Direction
<1>3. /\ r + 1 \in 1 .. Len(outbound) /\ inbound[1] = outbound[r + 1]
      /\ Unread(outbound, Tail(inbound), r + 1)
  BY <1>2, NextChunk
<1>4. HeaderNext(outbound, r, in_queue)
  BY <1>2 DEF ReadSoFar
<1>5. outbound[r + 1].msg.num = Len(in_queue) + 1
  BY <1>1, <1>3, <1>4, NextHeader
<1>6. ReadSoFar(given, outbound, r + 1, next2, message2, in_queue)
  BY <1>2, <1>3, <1>5 DEF ReadSoFar
<1>7. QED
  BY <1>1, <1>3, <1>6 DEF Direction

\* The last chunk of a message is read, which is given to the User.
Completes(next, inbound, message, m) ==
    \/ next = "header" /\ inbound[1].part = "header" /\ inbound[1].msg = m /\ m.head.size = 0
    \/ next = "body" /\ inbound[1].part = "body" /\ m = message[1]

LEMMA MessageStep ==
    ASSUME NEW M, NEW C, NEW given \in Seq(M), NEW queue, NEW outbound \in Seq(C),
           NEW inbound \in Seq(C), NEW next, NEW message, NEW in_queue \in Seq(M),
           NEW next2, NEW message2, next2 # "body", Fifo(outbound), inbound # <<>>,
           NEW m \in M, Completes(next, inbound, message, m),
           Direction(given, queue, outbound, inbound, next, message, in_queue)
    PROVE  /\ Len(in_queue) < Len(given) /\ m = given[Len(in_queue) + 1]
           /\ Direction(given, queue, outbound, Tail(inbound), next2, message2,
                        Append(in_queue, m))
<1>0. Len(in_queue) \in Nat /\ Len(given) \in Nat /\ Len(outbound) \in Nat
  BY SeqLen
<1>1. FromGiven(given, queue, outbound)
  BY DEF Direction
<1>2. PICK r \in Nat : /\ Unread(outbound, inbound, r)
                       /\ ReadSoFar(given, outbound, r, next, message, in_queue)
  BY DEF Direction
<1>3. /\ r + 1 \in 1 .. Len(outbound) /\ inbound[1] = outbound[r + 1]
      /\ Unread(outbound, Tail(inbound), r + 1)
  BY <1>2, NextChunk
<1>4. /\ Len(in_queue) + 1 \in 1 .. Len(given) /\ m = given[Len(in_queue) + 1]
      /\ outbound[r + 1].msg = m /\ outbound[r + 1].part = LastPart(m)
      /\ m.num = Len(in_queue) + 1
  <2>1. CASE next = "header" /\ inbound[1].part = "header" /\ inbound[1].msg = m /\ m.head.size = 0
    <3>1. HeaderNext(outbound, r, in_queue)
      BY <1>2, <2>1 DEF ReadSoFar
    <3>2. QED
      BY <1>1, <1>3, <2>1, <3>1, NextHeader DEF LastPart, A!LastPart
  <2>2. CASE next = "body" /\ inbound[1].part = "body" /\ m = message[1]
    <3>1. /\ r > 0 /\ outbound[r].part = "header" /\ outbound[r].msg = m
          /\ m.num = Len(in_queue) + 1 /\ m.head.size > 0
      BY <1>2, <2>2 DEF ReadSoFar
    <3>2. r \in 1 .. Len(outbound) - 1 /\ r \in 1 .. Len(outbound)
      BY <1>0, <1>3, <3>1
    <3>3. A!Follows(outbound[r], outbound[r + 1])
      BY <3>2 DEF Fifo
    <3>4. outbound[r + 1].msg = m /\ outbound[r + 1].part = LastPart(m)
      BY <3>1, <3>3 DEF A!Follows, LastPart, A!LastPart
    <3>5. PICK n \in 1 .. Len(given) : m = given[n]
      BY <1>1, <3>1, <3>2 DEF FromGiven
    <3>6. n = Len(in_queue) + 1
      BY <1>1, <3>1, <3>5 DEF FromGiven
    <3>7. QED
      BY <3>1, <3>4, <3>5, <3>6
  <2>3. QED
    BY <2>1, <2>2 DEF Completes
<1>5. PICK u \in Seq(M) : u = Append(in_queue, m)
  BY SeqAppend, ZenonT(40)
<1>6. /\ Len(u) = Len(in_queue) + 1 /\ u[Len(in_queue) + 1] = m
      /\ \A i \in 1 .. Len(in_queue) : u[i] = in_queue[i]
  BY <1>5, SeqAppend
<1>7. ReadSoFar(given, outbound, r + 1, next2, message2, u)
  <2>1. ASSUME NEW i \in 1 .. Len(u) PROVE u[i] = given[i]
    <3>1. CASE i \in 1 .. Len(in_queue)
      BY <1>2, <1>6, <3>1 DEF ReadSoFar
    <3>2. CASE i = Len(in_queue) + 1
      BY <1>4, <1>6, <3>2
    <3>3. QED
      BY <1>0, <1>6, <3>1, <3>2
  <2>2. Len(u) <= Len(given) /\ r + 1 # 0
    BY <1>0, <1>4, <1>6
  <2>3. HeaderNext(outbound, r + 1, u)
    BY <1>4, <1>6, <2>2 DEF HeaderNext
  <2>4. QED
    BY <2>1, <2>2, <2>3 DEF ReadSoFar
<1>8. Len(in_queue) < Len(given)
  BY <1>0, <1>4
<1>9. QED
  BY <1>1, <1>3, <1>4, <1>5, <1>7, <1>8 DEF Direction

\* What a step adds at the end of a sequence goes to the end of another one.
LEMMA AddsNothing ==
    ASSUME NEW S, NEW s \in Seq(S), NEW t \in Seq(S)
    PROVE  t \o Added(s, s) = t
<1>1. Added(s, s) = <<>>
  BY SeqLen, SubSeqNone DEF Added
<1>2. QED
  BY <1>1, ConcatEmpty

LEMMA AddsOne ==
    ASSUME NEW S, NEW s \in Seq(S), NEW t \in Seq(S), NEW x \in S
    PROVE  t \o Added(s, Append(s, x)) = Append(t, x)
<1>1. PICK u \in Seq(S) : u = Append(s, x)
  BY SeqAppend, ZenonT(40)
<1>2. PICK n \in Nat : n = Len(s) + 1
  BY SeqLen
<1>3. Len(u) = n /\ u[n] = x
  BY <1>1, <1>2, SeqAppend
<1>4. \A i \in n .. n : u[i] \in S
  BY <1>3
<1>5. PICK v : v = SubSeq(u, n, n)
  BY ZenonT(40)
<1>6. v \in Seq(S) /\ Len(v) = 1 /\ v[1] = x
  BY <1>3, <1>4, <1>5, SubSeqType
<1>7. v = <<x>>
  BY <1>6
<1>8. QED
  BY <1>1, <1>2, <1>3, <1>5, <1>7 DEF Added

LEMMA NothingGiven ==
    ASSUME NEW message
    PROVE  Direction(<<>>, <<>>, <<>>, <<>>, "header", message, <<>>)
<1>1. Unread(<<>>, <<>>, 0) /\ ReadSoFar(<<>>, <<>>, 0, "header", message, <<>>)
  BY DEF Unread, ReadSoFar, HeaderNext
<1>2. FromGiven(<<>>, <<>>, <<>>)
  BY DEF FromGiven, Growing
<1>3. QED
  BY <1>1, <1>2 DEF Direction

Headers == {Accept} \cup UserHeaders

LEMMA HeadersType == Headers \subseteq A!Header
<1>1. (CHOOSE i \in Ids : TRUE) \in Ids
  OBVIOUS
<1>2. QED
  BY <1>1 DEF Headers, Accept, UserHeaders, A!Header

\* A step of the Connection that writes: it leaves this direction alone, or is one of
\* send_message, or a chunk is written.
Puts(queue, queue2, outbound, outbound2, sent, sent2) ==
    \/ queue2 = queue /\ outbound2 = outbound /\ sent2 = sent
    \/ /\ \E h \in Headers : queue2 = Append(queue, [num |-> sent + 1, head |-> h])
       /\ outbound2 = outbound /\ sent2 = sent + 1
    \/ /\ queue # <<>> /\ queue2 \in {queue, Tail(queue)} /\ sent2 = sent
       /\ \E part \in {"header", "body"} :
              outbound2 = Append(outbound, [part |-> part, msg |-> queue[1]])

\* Such a step, with what it adds to the messages given and to the stream of the other side.
Writes(given, given2, queue, queue2, outbound, outbound2, inbound, inbound2, sent, sent2) ==
    /\ given2 = IF sent2 = sent THEN given ELSE given \o Added(queue, queue2)
    /\ inbound2 = inbound \o Added(outbound, outbound2)
    /\ Puts(queue, queue2, outbound, outbound2, sent, sent2)

Gives(given, given2, sent2) ==
    given2 = given \/ \E h \in Headers : given2 = Append(given, [num |-> sent2, head |-> h])

Counted(given, sent) == sent \in Nat /\ Len(given) = sent

LEMMA WriterStep ==
    ASSUME NEW given, NEW given2, NEW queue, NEW queue2, NEW outbound, NEW outbound2,
           NEW inbound, NEW inbound2, NEW sent, NEW sent2,
           NEW next, NEW message, NEW in_queue,
           Writes(given, given2, queue, queue2, outbound, outbound2, inbound, inbound2,
                  sent, sent2),
           Direction(given, queue, outbound, inbound, next, message, in_queue),
           given \in Seq(A!Message), queue \in Seq(A!Message), in_queue \in Seq(A!Message),
           outbound \in Seq(A!Chunk), inbound \in Seq(A!Chunk),
           Counted(given, sent)
    PROVE  /\ given2 \in Seq(A!Message) /\ Len(given2) = sent2 /\ inbound2 \in Seq(A!Chunk)
           /\ Direction(given2, queue2, outbound2, inbound2, next, message, in_queue)
           /\ Gives(given, given2, sent2)
<1> USE DEF Counted, Gives
<1>0. /\ given2 = IF sent2 = sent THEN given ELSE given \o Added(queue, queue2)
      /\ inbound2 = inbound \o Added(outbound, outbound2)
  BY DEF Writes
<1>1. CASE queue2 = queue /\ outbound2 = outbound /\ sent2 = sent
  <2>1. inbound2 = inbound /\ given2 = given
    BY <1>0, <1>1, AddsNothing, ZenonT(40)
  <2>2. QED
    BY <1>1, <2>1
<1>2. ASSUME NEW h \in Headers, queue2 = Append(queue, [num |-> sent + 1, head |-> h]),
             outbound2 = outbound, sent2 = sent + 1
      PROVE  /\ given2 \in Seq(A!Message) /\ Len(given2) = sent2 /\ inbound2 = inbound
             /\ Direction(given2, queue2, outbound2, inbound2, next, message, in_queue)
             /\ given2 = Append(given, [num |-> sent2, head |-> h])
  <2>1. PICK m : m = [num |-> sent + 1, head |-> h]
    BY ZenonT(40)
  <2>2. m \in A!Message /\ m.num = Len(given) + 1
    BY <2>1, HeadersType DEF A!Message
  <2>3. inbound2 = inbound
    BY <1>0, <1>2, AddsNothing, ZenonT(40)
  <2>4. given2 = Append(given, m)
    <3>1. sent2 # sent
      BY <1>2
    <3>2. given2 = given \o Added(queue, Append(queue, m))
      BY <1>0, <1>2, <2>1, <3>1
    <3>3. QED
      BY <2>2, <3>2, AddsOne
  <2>5. Append(given, m) \in Seq(A!Message) /\ Len(Append(given, m)) = sent + 1
    BY <2>2, SeqAppend
  <2>6. Direction(Append(given, m), Append(queue, m), outbound, inbound, next, message, in_queue)
    BY <2>2, GivenStep
  <2>7. QED
    BY <1>2, <2>1, <2>3, <2>4, <2>5, <2>6
<1>3. ASSUME NEW part \in {"header", "body"}, queue # <<>>, queue2 \in {queue, Tail(queue)},
             outbound2 = Append(outbound, [part |-> part, msg |-> queue[1]]), sent2 = sent
      PROVE  /\ given2 = given /\ inbound2 \in Seq(A!Chunk)
             /\ Direction(given2, queue2, outbound2, inbound2, next, message, in_queue)
  <2>1. PICK c : c = [part |-> part, msg |-> queue[1]]
    BY ZenonT(40)
  <2>2. c \in A!Chunk /\ c.msg = queue[1]
    <3>1. queue[1] \in A!Message
      BY <1>3, SeqTail
    <3>2. QED
      BY <2>1, <3>1 DEF A!Chunk
  <2>3. outbound2 = Append(outbound, c) /\ inbound2 = inbound \o Added(outbound, Append(outbound, c))
    BY <1>0, <1>3, <2>1
  <2>4. inbound2 = Append(inbound, c)
    BY <2>2, <2>3, AddsOne
  <2>5. inbound2 \in Seq(A!Chunk)
    BY <2>2, <2>4, SeqAppend
  <2>6. Direction(given, queue2, Append(outbound, c), Append(inbound, c), next, message, in_queue)
    BY <1>3, <2>2, WrittenStep
  <2>7. QED
    BY <1>0, <1>3, <2>3, <2>4, <2>5, <2>6, ZenonT(40)
<1>4. QED
  <2>1. CASE \E h \in Headers : /\ queue2 = Append(queue, [num |-> sent + 1, head |-> h])
                                /\ outbound2 = outbound /\ sent2 = sent + 1
    BY <1>2, <2>1
  <2>2. CASE \E part \in {"header", "body"} :
                 /\ queue # <<>> /\ queue2 \in {queue, Tail(queue)}
                 /\ outbound2 = Append(outbound, [part |-> part, msg |-> queue[1]]) /\ sent2 = sent
    BY <1>3, <2>2
  <2>3. QED
    BY <1>1, <2>1, <2>2, ZenonT(40) DEF Writes, Puts

\* A step of the Connection that reads: it reads nothing, or a header and no message, or
\* what completes a message.
Reads(inbound, inbound2, next, next2, message, message2, in_queue, in_queue2) ==
    \/ /\ inbound2 = inbound /\ in_queue2 = in_queue
       /\ next2 = "header" => next = "header"
       /\ next2 = "body" => next = "body" /\ message2 = message
    \/ /\ inbound # <<>> /\ inbound[1].part = "header" /\ inbound2 = Tail(inbound)
       /\ next = "header" /\ next2 # "header" /\ in_queue2 = in_queue
       /\ next2 = "body" => message2[1] = inbound[1].msg /\ inbound[1].msg.head.size > 0
    \/ /\ inbound # <<>> /\ inbound2 = Tail(inbound) /\ next2 # "body"
       /\ \E m \in A!Message :
              in_queue2 = Append(in_queue, m) /\ Completes(next, inbound, message, m)

LEMMA ReaderStep ==
    ASSUME NEW given, NEW queue, NEW outbound, NEW inbound, NEW inbound2, NEW next, NEW next2,
           NEW message, NEW message2, NEW in_queue, NEW in_queue2,
           Reads(inbound, inbound2, next, next2, message, message2, in_queue, in_queue2),
           Direction(given, queue, outbound, inbound, next, message, in_queue),
           given \in Seq(A!Message), in_queue \in Seq(A!Message),
           outbound \in Seq(A!Chunk), inbound \in Seq(A!Chunk), Fifo(outbound)
    PROVE  /\ Direction(given, queue, outbound, inbound2, next2, message2, in_queue2)
           /\ \/ in_queue2 = in_queue
              \/ /\ Len(in_queue) < Len(given)
                 /\ in_queue2 = Append(in_queue, given[Len(in_queue) + 1])
<1>1. CASE /\ inbound2 = inbound /\ in_queue2 = in_queue
           /\ next2 = "header" => next = "header"
           /\ next2 = "body" => next = "body" /\ message2 = message
  BY <1>1, UntouchedStep
<1>2. CASE /\ inbound # <<>> /\ inbound[1].part = "header" /\ inbound2 = Tail(inbound)
           /\ next = "header" /\ next2 # "header" /\ in_queue2 = in_queue
           /\ next2 = "body" => message2[1] = inbound[1].msg /\ inbound[1].msg.head.size > 0
  BY <1>2, HeaderStep, ZenonT(40)
<1>3. ASSUME inbound # <<>>, inbound2 = Tail(inbound), next2 # "body",
             NEW m \in A!Message, in_queue2 = Append(in_queue, m),
             Completes(next, inbound, message, m)
      PROVE  /\ Direction(given, queue, outbound, inbound2, next2, message2, in_queue2)
             /\ Len(in_queue) < Len(given) /\ in_queue2 = Append(in_queue, given[Len(in_queue) + 1])
  BY <1>3, MessageStep
<1>4. QED
  BY <1>1, <1>2, <1>3 DEF Reads
-------------------------------------------------------------------------------
(***************************************************************************)
(* Where the messages of one direction are.                                *)
(***************************************************************************)
\* The message with the number n is in the queue or was written, as a whole or in part.
Kept(queue, outbound, n) ==
    \/ \E i \in 1 .. Len(outbound) : outbound[i].msg.num = n
    \/ \E i \in 1 .. Len(queue) : queue[i].num = n

IsPending(m, queue, inbound, next, message) ==
    \/ \E i \in 1 .. Len(queue) : queue[i] = m
    \/ \E i \in 1 .. Len(inbound) : inbound[i].msg = m
    \/ next = "body" /\ message[1] = m

\* A message that was given and not received is in the queue or the stream, or it is the one
\* whose header was read last.
LEMMA Undelivered ==
    ASSUME NEW given, NEW queue, NEW outbound, NEW inbound, NEW next, NEW message, NEW in_queue,
           NEW n, given \in Seq(A!Message), queue \in Seq(A!Message), in_queue \in Seq(A!Message),
           outbound \in Seq(A!Chunk), inbound \in Seq(A!Chunk), Fifo(outbound),
           Direction(given, queue, outbound, inbound, next, message, in_queue),
           next \in {"header", "body"}, n \in Len(in_queue) + 1 .. Len(given),
           Kept(queue, outbound, n)
    PROVE  IsPending(given[n], queue, inbound, next, message)
<1>1. /\ Len(given) \in Nat /\ Len(queue) \in Nat /\ Len(outbound) \in Nat
      /\ Len(inbound) \in Nat /\ Len(in_queue) \in Nat
  BY SeqLen
<1>2. FromGiven(given, queue, outbound)
  BY DEF Direction
<1>3. PICK r \in Nat : /\ Unread(outbound, inbound, r)
                       /\ ReadSoFar(given, outbound, r, next, message, in_queue)
  BY DEF Direction
<1>4. ASSUME NEW i \in 1 .. Len(queue), queue[i].num = n PROVE queue[i] = given[n]
  <2>1. Len(queue) <= Len(given)
    BY <1>2 DEF FromGiven
  <2>2. Len(given) - Len(queue) + i \in 1 .. Len(given)
    BY <1>1, <2>1
  <2>3. PICK k \in 1 .. Len(given) : k = Len(given) - Len(queue) + i
    BY <2>2, ZenonT(40)
  <2>4. queue[i] = given[k]
    BY <1>2, <2>3 DEF FromGiven
  <2>5. given[k].num = k
    BY <1>2, ZenonT(40) DEF FromGiven
  <2>6. QED
    BY <1>4, <2>4, <2>5
<1>5. ASSUME NEW i \in 1 .. Len(outbound), NEW k \in 1 .. Len(given), outbound[i].msg.num = k
      PROVE  outbound[i].msg = given[k]
  <2>1. PICK l \in 1 .. Len(given) : outbound[i].msg = given[l]
    BY <1>2 DEF FromGiven
  <2>2. l = k
    BY <1>2, <1>5, <2>1 DEF FromGiven
  <2>3. QED
    BY <2>1, <2>2
<1>6. ASSUME NEW i \in 1 .. Len(outbound), outbound[i].msg.num = n, i > r
      PROVE  \E j \in 1 .. Len(inbound) : inbound[j].msg = given[n]
  <2>1. PICK j \in Nat : j = i - r
    BY <1>6
  <2>2. j \in 1 .. Len(inbound) /\ r + j = i
    BY <1>1, <1>3, <1>6, <2>1 DEF Unread
  <2>3. inbound[j] = outbound[i]
    <3>1. inbound[j] = outbound[r + j]
      BY <1>3, <2>2, ZenonT(40) DEF Unread
    <3>2. QED
      BY <2>2, <3>1, ZenonT(40)
  <2>4. n \in 1 .. Len(given)
    BY <1>1
  <2>5. outbound[i].msg = given[n]
    BY <1>5, <1>6, <2>4
  <2>6. QED
    BY <2>2, <2>3, <2>5
<1>7. ASSUME NEW i \in 1 .. Len(outbound), outbound[i].msg.num = n, i <= r
      PROVE  next = "body" /\ message[1] = given[n]
  <2>1. r \in 1 .. Len(outbound) /\ r \in i .. Len(outbound) /\ r # 0
    BY <1>1, <1>3, <1>7 DEF Unread
  <2>2. outbound[i].msg.num <= outbound[r].msg.num
    BY <1>2, <2>1 DEF FromGiven, Growing
  <2>3. n <= outbound[r].msg.num
    BY <1>7, <2>2
  <2>4. next # "header"
    <3> SUFFICES ASSUME next = "header" PROVE FALSE
      OBVIOUS
    <3>1. outbound[r].msg.num = Len(in_queue)
      BY <1>3, <2>1 DEF ReadSoFar, HeaderNext
    <3>2. QED
      BY <1>1, <2>3, <3>1
  <2>5. outbound[r].msg = message[1] /\ message[1].num = Len(in_queue) + 1
    BY <1>3, <2>4 DEF ReadSoFar
  <2>6. n = Len(in_queue) + 1 /\ n \in 1 .. Len(given)
    BY <1>1, <2>3, <2>5
  <2>7. outbound[r].msg = given[n]
    BY <1>5, <2>1, <2>5, <2>6
  <2>8. QED
    BY <2>4, <2>5, <2>7
<1>8. ASSUME NEW i \in 1 .. Len(outbound) PROVE i > r \/ i <= r
  OBVIOUS
<1>9. QED
  BY <1>4, <1>6, <1>7, <1>8 DEF Kept, IsPending

\* Whether a header or a body is read next; NextPart of a Connection.
NextPart(started, handshake, read) ==
    IF read.part = "header" \/ ~started \/ handshake THEN "header" ELSE read.part

\* What is known of one side, apart from the other.
Side(queue, outbound, sent, inbound, in_queue, read, message) ==
    /\ queue \in Seq(A!Message) /\ in_queue \in Seq(A!Message) /\ sent \in Nat
    /\ outbound \in Seq(A!Chunk) /\ inbound \in Seq(A!Chunk) /\ Fifo(outbound)
    /\ \A n \in 1 .. sent : Kept(queue, outbound, n)
    /\ read.part \in {"none", "header", "body"}
    /\ read.part = "body" => message # <<>>

\* As long as the other side reads, what one side was given and the other has not received
\* is on the way.
LEMMA UndeliveredSide ==
    ASSUME NEW given, NEW queue, NEW outbound, NEW sent, NEW inbound, NEW in_queue, NEW message,
           NEW started, NEW handshake, NEW read,
           given \in Seq(A!Message), Len(given) = sent,
           queue \in Seq(A!Message), outbound \in Seq(A!Chunk), Fifo(outbound),
           \A n \in 1 .. sent : Kept(queue, outbound, n),
           inbound \in Seq(A!Chunk), in_queue \in Seq(A!Message),
           read.part \in {"none", "header", "body"}, read.part = "body" => message # <<>>,
           Reading(started, handshake, read),
           Direction(given, queue, outbound, inbound, NextPart(started, handshake, read),
                     message, in_queue)
    PROVE  \A n \in Len(in_queue) + 1 .. Len(given) : OnTheWay(given[n], queue, inbound, message)
<1>1. PICK next : next = NextPart(started, handshake, read)
  BY ZenonT(40)
<1>2. next \in {"header", "body"} /\ (next = "body" => message # <<>>)
  BY <1>1, ZenonT(40), SMTT(30) DEF NextPart, Reading
<1>3. TAKE n \in Len(in_queue) + 1 .. Len(given)
<1>4. Len(in_queue) \in Nat /\ Len(given) \in Nat
  BY SeqLen
<1>5. n \in 1 .. sent
  BY <1>4
<1>6. IsPending(given[n], queue, inbound, next, message)
  BY <1>1, <1>2, <1>5, Undelivered, ZenonT(40), SMTT(30)
<1>7. QED
  BY <1>2, <1>6, ZenonT(40) DEF OnTheWay, IsPending
-------------------------------------------------------------------------------
(***************************************************************************)
(* The two directions.                                                     *)
(***************************************************************************)
ServerSide ==
    Side(a_out_queue, a_outbound, a_sent, a_inbound, a_in_queue, a_read, a_received_message)
ClientSide ==
    Side(b_out_queue, b_outbound, b_sent, b_inbound, b_in_queue, b_read, b_received_message)

ServerNext == NextPart(a_started, a_handshake, a_read)
ClientNext == NextPart(b_started, b_handshake, b_read)

ToClientInv ==
    /\ a_given \in Seq(A!Message) /\ Len(a_given) = a_sent
    /\ Direction(a_given, a_out_queue, a_outbound, b_inbound, ClientNext, b_received_message, b_in_queue)

ToServerInv ==
    /\ b_given \in Seq(A!Message) /\ Len(b_given) = b_sent
    /\ Direction(b_given, b_out_queue, b_outbound, a_inbound, ServerNext, a_received_message, a_in_queue)

\* What a step of one side's Connection does to its queue, its stream and its User.
ServerMoves ==
    /\ Puts(a_out_queue, a_out_queue', a_outbound, a_outbound', a_sent, a_sent')
    /\ a_sent' \in 0 .. ServerSends
    /\ Reads(a_inbound, a_inbound', ServerNext, ServerNext', a_received_message,
             a_received_message', a_in_queue, a_in_queue')
ClientMoves ==
    /\ Puts(b_out_queue, b_out_queue', b_outbound, b_outbound', b_sent, b_sent')
    /\ b_sent' \in 0 .. ClientSends
    /\ Reads(b_inbound, b_inbound', ClientNext, ClientNext', b_received_message,
             b_received_message', b_in_queue, b_in_queue')

\* What is given is a message.
LEMMA GivenMessage ==
    ASSUME NEW given, NEW given2, NEW sent2, given2 \in Seq(A!Message), Len(given2) = sent2,
           sent2 \in 0 .. ServerSends \/ sent2 \in 0 .. ClientSends,
           Gives(given, given2, sent2)
    PROVE  given2 = given \/ \E x \in Messages : given2 = Append(given, x)
<1> SUFFICES ASSUME NEW h \in Headers, given2 = Append(given, [num |-> sent2, head |-> h])
             PROVE  [num |-> sent2, head |-> h] \in Messages
  BY ZenonT(40) DEF Gives
<1>1. given2 # <<>>
  OBVIOUS
<1>2. sent2 # 0
  BY <1>1, SeqEmpty
<1>3. QED
  BY <1>2 DEF Messages, Headers

LEMMA ServerDirections ==
    ASSUME ServerSide, ClientSide, ToClientInv, ToServerInv, Server(A!Next), ServerMoves
    PROVE  /\ ToClientInv' /\ ToServerInv' /\ b_inbound' \in Seq(A!Chunk)
           /\ [ToClient!Send]_<<a_given, b_in_queue>>
           /\ [ToServer!Receive]_<<b_given, a_in_queue>>
<1>1. /\ Writes(a_given, a_given', a_out_queue, a_out_queue', a_outbound, a_outbound',
                b_inbound, b_inbound', a_sent, a_sent')
      /\ UNCHANGED <<clientVars, b_given>>
  BY ZenonT(40) DEF Writes, Server, ServerMoves
<1>2. UNCHANGED <<b_out_queue, b_outbound, b_sent, b_received_message, b_in_queue, b_given, ClientNext>>
  BY <1>1 DEF clientVars, ClientNext
<1>3. /\ a_given' \in Seq(A!Message) /\ Len(a_given') = a_sent' /\ b_inbound' \in Seq(A!Chunk)
      /\ Direction(a_given', a_out_queue', a_outbound', b_inbound', ClientNext, b_received_message,
                   b_in_queue)
      /\ Gives(a_given, a_given', a_sent')
  BY <1>1, WriterStep, ZenonT(40), SMTT(30) DEF ToClientInv, ServerSide, ClientSide, Side, Counted
<1>4. /\ Direction(b_given, b_out_queue, b_outbound, a_inbound', ServerNext', a_received_message',
                   a_in_queue')
      /\ \/ a_in_queue' = a_in_queue
         \/ /\ Len(a_in_queue) < Len(b_given)
            /\ a_in_queue' = Append(a_in_queue, b_given[Len(a_in_queue) + 1])
  BY ReaderStep, SMTT(30), ZenonT(40) DEF ServerMoves, ToServerInv, ServerSide, ClientSide, Side
<1>5. a_given' = a_given \/ \E x \in Messages : a_given' = Append(a_given, x)
  BY <1>3, GivenMessage DEF ServerMoves
<1>6. ToClientInv' /\ ToServerInv'
  BY <1>2, <1>3, <1>4, ZenonT(40), SMTT(30) DEF ToClientInv, ToServerInv
<1>7. QED
  BY <1>2, <1>3, <1>4, <1>5, <1>6, ZenonT(40), SMTT(30) DEF ToClient!Send, ToServer!Receive

LEMMA ClientDirections ==
    ASSUME ServerSide, ClientSide, ToClientInv, ToServerInv, Client(B!Next), ClientMoves
    PROVE  /\ ToClientInv' /\ ToServerInv' /\ a_inbound' \in Seq(A!Chunk)
           /\ [ToServer!Send]_<<b_given, a_in_queue>>
           /\ [ToClient!Receive]_<<a_given, b_in_queue>>
<1>1. /\ Writes(b_given, b_given', b_out_queue, b_out_queue', b_outbound, b_outbound',
                a_inbound, a_inbound', b_sent, b_sent')
      /\ UNCHANGED <<serverVars, a_given>>
  BY ZenonT(40) DEF Writes, Client, ClientMoves
<1>2. UNCHANGED <<a_out_queue, a_outbound, a_sent, a_received_message, a_in_queue, a_given, ServerNext>>
  BY <1>1 DEF serverVars, ServerNext
<1>3. /\ b_given' \in Seq(A!Message) /\ Len(b_given') = b_sent' /\ a_inbound' \in Seq(A!Chunk)
      /\ Direction(b_given', b_out_queue', b_outbound', a_inbound', ServerNext, a_received_message,
                   a_in_queue)
      /\ Gives(b_given, b_given', b_sent')
  BY <1>1, WriterStep, ZenonT(40), SMTT(30) DEF ToServerInv, ServerSide, ClientSide, Side, Counted
<1>4. /\ Direction(a_given, a_out_queue, a_outbound, b_inbound', ClientNext', b_received_message',
                   b_in_queue')
      /\ \/ b_in_queue' = b_in_queue
         \/ /\ Len(b_in_queue) < Len(a_given)
            /\ b_in_queue' = Append(b_in_queue, a_given[Len(b_in_queue) + 1])
  BY ReaderStep, SMTT(30), ZenonT(40) DEF ClientMoves, ToClientInv, ServerSide, ClientSide, Side
<1>5. b_given' = b_given \/ \E x \in Messages : b_given' = Append(b_given, x)
  BY <1>3, GivenMessage DEF ClientMoves
<1>6. ToClientInv' /\ ToServerInv'
  BY <1>2, <1>3, <1>4, ZenonT(40), SMTT(30) DEF ToClientInv, ToServerInv
<1>7. QED
  BY <1>2, <1>3, <1>4, <1>5, <1>6, ZenonT(40), SMTT(30) DEF ToServer!Send, ToClient!Receive

LEMMA NoDirection ==
    ASSUME a_given = <<>>, a_out_queue = <<>>, a_outbound = <<>>, a_inbound = <<>>,
           a_in_queue = <<>>, a_sent = 0, ServerNext = "header",
           b_given = <<>>, b_out_queue = <<>>, b_outbound = <<>>, b_inbound = <<>>,
           b_in_queue = <<>>, b_sent = 0, ClientNext = "header"
    PROVE  ToClientInv /\ ToServerInv
BY NothingGiven, SeqEmpty, ZenonT(40), SMTT(30) DEF ToClientInv, ToServerInv

LEMMA SameDirections ==
    ASSUME ToClientInv, ToServerInv,
           UNCHANGED <<serverVars, a_inbound, a_given, clientVars, b_inbound, b_given>>
    PROVE  ToClientInv' /\ ToServerInv' /\ UNCHANGED <<a_given, b_in_queue, b_given, a_in_queue>>
BY DEF ToClientInv, ToServerInv, ServerNext, ClientNext, serverVars, clientVars

\* What the assumptions of Connection come to on either side.
LEMMA BothAssumptions ==
    /\ 0 .. MaxSize \subseteq Nat /\ 0 \in Nat /\ FALSE \in BOOLEAN /\ {} \subseteq A!Header
    /\ {Accept} \cup UserHeaders \subseteq A!Header /\ UserHeaders \subseteq A!Header
    /\ "user" \in {"user", "asio"} /\ "asio" \in {"user", "asio"}
    /\ "start" \in {"start", "server_accept"} /\ "server_accept" \in {"start", "server_accept"}
BY HeadersType DEF Headers

LEMMA NoneLost ==
    ASSUME ServerSide, ClientSide, ToClientInv, ToServerInv
    PROVE  UndeliveredOnTheWay
<1>1. ASSUME Reading(b_started, b_handshake, b_read)
      PROVE  \A n \in Len(b_in_queue) + 1 .. Len(a_given) :
                 OnTheWay(a_given[n], a_out_queue, b_inbound, b_received_message)
  BY <1>1, UndeliveredSide, ZenonT(40), SMTT(30) DEF ServerSide, ClientSide, Side, ToClientInv, ClientNext
<1>2. ASSUME Reading(a_started, a_handshake, a_read)
      PROVE  \A n \in Len(a_in_queue) + 1 .. Len(b_given) :
                 OnTheWay(b_given[n], b_out_queue, a_inbound, a_received_message)
  BY <1>2, UndeliveredSide, ZenonT(40), SMTT(30) DEF ServerSide, ClientSide, Side, ToServerInv, ServerNext
<1>3. QED
  BY <1>1, <1>2, ZenonT(40) DEF UndeliveredOnTheWay
-------------------------------------------------------------------------------
\* The server's Connection again, with what is proved about Connection.
AP == INSTANCE ConnectionWriteProofs WITH
    Sizes <- 0 .. MaxSize, Outgoing <- {Accept} \cup UserHeaders, Incoming <- {},
    Ssl <- FALSE, Starter <- "user", FirstSend <- "start",
    MaxSends <- ServerSends, MaxReceives <- 0, arrived <- 0,
    m_accepted_messages <- [i \in Ids |-> [m_min |-> 0, m_max |-> MaxSize]],
    started <- a_started, socket <- a_socket, alive <- a_alive, fault <- a_fault, pc <- a_pc,
    handshake <- a_handshake, m_has_done_handshake <- a_done,
    m_is_writing_message <- a_writing, m_out_queue <- a_out_queue, writes <- a_writes,
    outbound <- a_outbound, sent <- a_sent, read <- a_read,
    m_received_message <- a_received_message, inbound <- a_inbound, in_queue <- a_in_queue,
    late <- a_late

LEMMA ServerAssumptions ==
    /\ AP!ConnectionAssumption /\ AP!Disciplined
    /\ A!Header = AP!Header /\ A!Message = AP!Message /\ A!Chunk = AP!Chunk
<1>1. A!Header = AP!Header
  BY ZenonT(40), SMTT(30) DEF A!Header, AP!Header
<1>2. AP!ConnectionAssumption /\ AP!Disciplined
  BY <1>1, BothAssumptions, LinkAssumption, ZenonT(40), SMTT(30)
     DEF LinkAssumption, AP!ConnectionAssumption, AP!Threads, AP!Disciplined
<1>3. QED
  BY <1>1, <1>2, ZenonT(40), SMTT(30) DEF A!Message, AP!Message, A!Chunk, AP!Chunk

LEMMA ServerSteps == (A!Next <=> AP!Next) /\ (A!Init <=> AP!Init)
BY ZenonT(40) DEF A!Next, AP!Next, A!vars, AP!vars, A!lifeVars, AP!lifeVars, A!writeVars, AP!writeVars,
       A!readVars, AP!readVars, A!peerVars, AP!peerVars, A!start, AP!start,
       A!StartThrows, AP!StartThrows, A!async_handshake_finished, AP!async_handshake_finished,
       A!Destroy, AP!Destroy, A!HandlerOnDestroyed, AP!HandlerOnDestroyed,
       A!send_message, AP!send_message, A!Sending, AP!Sending, A!WriteHandlers, AP!WriteHandlers,
       A!TestMore, AP!TestMore, A!ClearWriting, AP!ClearWriting, A!ReadHandlers, AP!ReadHandlers,
       A!add_accepted_message, AP!add_accepted_message, A!PeerSends, AP!PeerSends,
       A!async_handshake, AP!async_handshake, A!HandshakeSucceeded, AP!HandshakeSucceeded,
       A!async_read, AP!async_read, A!async_write, AP!async_write, A!disconnect, AP!disconnect,
       A!is_connected, AP!is_connected, A!Running, AP!Running, A!Idle, AP!Idle, A!GoTo, AP!GoTo,
       A!Remove, AP!Remove, A!NoRead, AP!NoRead, A!MaySend, AP!MaySend,
       A!StartCondition, AP!StartCondition, A!start_writing_message, AP!start_writing_message,
       A!SetWriting, AP!SetWriting, A!WriteHeader, AP!WriteHeader,
       A!WriteCompletes, AP!WriteCompletes, A!PopWritten, AP!PopWritten, A!PopEmpty, AP!PopEmpty,
       A!async_write_header_finished, AP!async_write_header_finished,
       A!async_write_body_finished, AP!async_write_body_finished, A!WriteFails, AP!WriteFails,
       A!validate_header, AP!validate_header, A!on_message_received, AP!on_message_received,
       A!ReadCompletes, AP!ReadCompletes, A!ReadHeader, AP!ReadHeader,
       A!ReadBody, AP!ReadBody, A!RejectHeader, AP!RejectHeader, A!Header, AP!Header,
       A!async_read_header_finished, AP!async_read_header_finished,
       A!async_read_body_finished, AP!async_read_body_finished, A!ReadFails, AP!ReadFails,
       A!Threads, AP!Threads, A!Limits, AP!Limits, A!Init, AP!Init,
       A!AcceptedMessages, AP!AcceptedMessages

LEMMA ServerParts == ServerNext = AP!NextPart /\ ServerNext' = AP!NextPart'
BY ZenonT(40), SMTT(30) DEF ServerNext, NextPart, AP!NextPart, AP!AwaitsHeader

LEMMA ServerFacts == ASSUME AP!ConnectionInv PROVE ServerSide
BY ServerAssumptions, AP!ConnectionFacts, ZenonT(40), SMTT(30)
   DEF ServerSide, Side, Fifo, Kept, A!Follows, A!LastPart, AP!Follows, AP!LastPart

LEMMA ServerStepFacts ==
    ASSUME AP!ConnectionInv, A!Next, InStep(a_inbound, ServerNext, a_received_message)
    PROVE  AP!ConnectionInv' /\ ServerMoves
<1>0. AP!NextAligned
  BY ServerParts, ZenonT(40) DEF InStep, AP!NextAligned
<1>1. /\ AP!ConnectionInv' /\ AP!WriteEffect /\ AP!ReadEffect
      /\ a_sent' \in 0 .. ServerSends
  BY <1>0, ServerAssumptions, ServerSteps, AP!ConnectionStep, ZenonT(40), SMTT(30)
<1>2. Puts(a_out_queue, a_out_queue', a_outbound, a_outbound', a_sent, a_sent')
  BY <1>1, ZenonT(40), SMTT(30) DEF Puts, AP!WriteEffect, Headers
<1>3. Reads(a_inbound, a_inbound', ServerNext, ServerNext', a_received_message,
            a_received_message', a_in_queue, a_in_queue')
  BY <1>1, ServerAssumptions, ServerParts, ZenonT(40), SMTT(30)
     DEF Reads, AP!ReadEffect, Completes, AP!Completes
<1>4. QED
  BY <1>1, <1>2, <1>3, ZenonT(40) DEF ServerMoves

LEMMA ServerArrival ==
    ASSUME AP!ConnectionInv, UNCHANGED serverVars, a_inbound' \in Seq(A!Chunk)
    PROVE  AP!ConnectionInv'
BY ServerAssumptions, AP!ConnectionArrival, ZenonT(40), SMTT(30)
   DEF serverVars, AP!lifeVars, AP!writeVars, AP!peerVars

LEMMA ServerInit == ASSUME A!Init PROVE AP!ConnectionInv /\ ServerNext = "header"
BY ServerAssumptions, ServerSteps, ServerParts, AP!ConnectionInit, ZenonT(40), SMTT(30)
-------------------------------------------------------------------------------
\* The client's Connection again, with what is proved about Connection.
BP == INSTANCE ConnectionWriteProofs WITH
    Sizes <- 0 .. MaxSize, Outgoing <- UserHeaders, Incoming <- {}, Ssl <- FALSE,
    Starter <- "asio", FirstSend <- "server_accept",
    MaxSends <- ClientSends, MaxReceives <- 0, arrived <- 0,
    m_accepted_messages <- [i \in Ids |-> [m_min |-> 0, m_max |-> MaxSize]],
    started <- b_started, socket <- b_socket, alive <- b_alive, fault <- b_fault, pc <- b_pc,
    handshake <- b_handshake, m_has_done_handshake <- b_done,
    m_is_writing_message <- b_writing, m_out_queue <- b_out_queue, writes <- b_writes,
    outbound <- b_outbound, sent <- b_sent, read <- b_read,
    m_received_message <- b_received_message, inbound <- b_inbound, in_queue <- b_in_queue,
    late <- b_late

LEMMA ClientAssumptions ==
    /\ BP!ConnectionAssumption /\ BP!Disciplined
    /\ A!Header = BP!Header /\ A!Message = BP!Message /\ A!Chunk = BP!Chunk
<1>1. A!Header = BP!Header
  BY ZenonT(40), SMTT(30) DEF A!Header, BP!Header
<1>2. BP!ConnectionAssumption /\ BP!Disciplined
  BY <1>1, BothAssumptions, LinkAssumption, ZenonT(40), SMTT(30)
     DEF LinkAssumption, BP!ConnectionAssumption, BP!Threads, BP!Disciplined
<1>3. QED
  BY <1>1, <1>2, ZenonT(40), SMTT(30) DEF A!Message, BP!Message, A!Chunk, BP!Chunk

LEMMA ClientSteps == (B!Next <=> BP!Next) /\ (B!Init <=> BP!Init)
BY ZenonT(40) DEF B!Next, BP!Next, B!vars, BP!vars, B!lifeVars, BP!lifeVars, B!writeVars, BP!writeVars,
       B!readVars, BP!readVars, B!peerVars, BP!peerVars, B!start, BP!start,
       B!StartThrows, BP!StartThrows, B!async_handshake_finished, BP!async_handshake_finished,
       B!Destroy, BP!Destroy, B!HandlerOnDestroyed, BP!HandlerOnDestroyed,
       B!send_message, BP!send_message, B!Sending, BP!Sending, B!WriteHandlers, BP!WriteHandlers,
       B!TestMore, BP!TestMore, B!ClearWriting, BP!ClearWriting, B!ReadHandlers, BP!ReadHandlers,
       B!add_accepted_message, BP!add_accepted_message, B!PeerSends, BP!PeerSends,
       B!async_handshake, BP!async_handshake, B!HandshakeSucceeded, BP!HandshakeSucceeded,
       B!async_read, BP!async_read, B!async_write, BP!async_write, B!disconnect, BP!disconnect,
       B!is_connected, BP!is_connected, B!Running, BP!Running, B!Idle, BP!Idle, B!GoTo, BP!GoTo,
       B!Remove, BP!Remove, B!NoRead, BP!NoRead, B!MaySend, BP!MaySend,
       B!StartCondition, BP!StartCondition, B!start_writing_message, BP!start_writing_message,
       B!SetWriting, BP!SetWriting, B!WriteHeader, BP!WriteHeader,
       B!WriteCompletes, BP!WriteCompletes, B!PopWritten, BP!PopWritten, B!PopEmpty, BP!PopEmpty,
       B!async_write_header_finished, BP!async_write_header_finished,
       B!async_write_body_finished, BP!async_write_body_finished, B!WriteFails, BP!WriteFails,
       B!validate_header, BP!validate_header, B!on_message_received, BP!on_message_received,
       B!ReadCompletes, BP!ReadCompletes, B!ReadHeader, BP!ReadHeader,
       B!ReadBody, BP!ReadBody, B!RejectHeader, BP!RejectHeader, B!Header, BP!Header,
       B!async_read_header_finished, BP!async_read_header_finished,
       B!async_read_body_finished, BP!async_read_body_finished, B!ReadFails, BP!ReadFails,
       B!Threads, BP!Threads, B!Limits, BP!Limits, B!Init, BP!Init,
       B!AcceptedMessages, BP!AcceptedMessages

LEMMA ClientParts == ClientNext = BP!NextPart /\ ClientNext' = BP!NextPart'
BY ZenonT(40), SMTT(30) DEF ClientNext, NextPart, BP!NextPart, BP!AwaitsHeader

LEMMA ClientFacts == ASSUME BP!ConnectionInv PROVE ClientSide
BY ClientAssumptions, BP!ConnectionFacts, ZenonT(40), SMTT(30)
   DEF ClientSide, Side, Fifo, Kept, A!Follows, A!LastPart, BP!Follows, BP!LastPart

LEMMA ClientStepFacts ==
    ASSUME BP!ConnectionInv, B!Next, InStep(b_inbound, ClientNext, b_received_message)
    PROVE  BP!ConnectionInv' /\ ClientMoves
<1>0. BP!NextAligned
  BY ClientParts, ZenonT(40) DEF InStep, BP!NextAligned
<1>1. /\ BP!ConnectionInv' /\ BP!WriteEffect /\ BP!ReadEffect
      /\ b_sent' \in 0 .. ClientSends
  BY <1>0, ClientAssumptions, ClientSteps, BP!ConnectionStep, ZenonT(40), SMTT(30)
<1>2. Puts(b_out_queue, b_out_queue', b_outbound, b_outbound', b_sent, b_sent')
  BY <1>1, ZenonT(40), SMTT(30) DEF Puts, BP!WriteEffect, Headers
<1>3. Reads(b_inbound, b_inbound', ClientNext, ClientNext', b_received_message,
            b_received_message', b_in_queue, b_in_queue')
  BY <1>1, ClientAssumptions, ClientParts, ZenonT(40), SMTT(30)
     DEF Reads, BP!ReadEffect, Completes, BP!Completes
<1>4. QED
  BY <1>1, <1>2, <1>3, ZenonT(40) DEF ClientMoves

LEMMA ClientArrival ==
    ASSUME BP!ConnectionInv, UNCHANGED clientVars, b_inbound' \in Seq(A!Chunk)
    PROVE  BP!ConnectionInv'
BY ClientAssumptions, BP!ConnectionArrival, ZenonT(40), SMTT(30)
   DEF clientVars, BP!lifeVars, BP!writeVars, BP!peerVars

LEMMA ClientInit == ASSUME B!Init PROVE BP!ConnectionInv /\ ClientNext = "header"
BY ClientAssumptions, ClientSteps, ClientParts, BP!ConnectionInit, ZenonT(40), SMTT(30)
-------------------------------------------------------------------------------
(***************************************************************************)
(* The two Connections.                                                    *)
(***************************************************************************)
LinkInv == AP!ConnectionInv /\ BP!ConnectionInv /\ ToClientInv /\ ToServerInv

LEMMA LinkInit == ASSUME Init PROVE LinkInv /\ ToClient!Init /\ ToServer!Init
<1>1. /\ a_given = <<>> /\ a_out_queue = <<>> /\ a_outbound = <<>> /\ a_inbound = <<>>
      /\ a_in_queue = <<>> /\ a_sent = 0
      /\ b_given = <<>> /\ b_out_queue = <<>> /\ b_outbound = <<>> /\ b_inbound = <<>>
      /\ b_in_queue = <<>> /\ b_sent = 0
  BY ZenonT(40), SMTT(30) DEF Init, A!Init, B!Init
<1>2. AP!ConnectionInv /\ ServerNext = "header" /\ BP!ConnectionInv /\ ClientNext = "header"
  BY ServerInit, ClientInit, ZenonT(40), SMTT(30) DEF Init
<1>3. ToClientInv /\ ToServerInv
  BY <1>1, <1>2, NoDirection, ZenonT(40), SMTT(30)
<1>4. QED
  BY <1>1, <1>2, <1>3, ZenonT(40) DEF LinkInv, ToClient!Init, ToServer!Init

LEMMA LinkStep ==
    ASSUME LinkInv, [Next]_vars
    PROVE  /\ LinkInv'
           /\ [ToClient!Send \/ ToClient!Receive]_<<a_given, b_in_queue>>
           /\ [ToServer!Send \/ ToServer!Receive]_<<b_given, a_in_queue>>
<1>1. /\ AP!ConnectionInv /\ BP!ConnectionInv /\ ToClientInv /\ ToServerInv
      /\ ServerSide /\ ClientSide
  BY ServerFacts, ClientFacts, ZenonT(40) DEF LinkInv
<1>6. /\ InStep(a_inbound, ServerNext, a_received_message)
      /\ InStep(b_inbound, ClientNext, b_received_message)
  BY <1>1, NextPartIsNext, ZenonT(40) DEF ToServerInv, ToClientInv, ServerSide, ClientSide, Side
<1>2. CASE Server(A!Next)
  <2>1. A!Next /\ UNCHANGED clientVars
    BY <1>2, ZenonT(40) DEF Server
  <2>2. AP!ConnectionInv' /\ ServerMoves
    BY <1>1, <2>1, <1>6, ServerStepFacts, ZenonT(40)
  <2>3. QED
    BY <1>1, <1>2, <2>1, <2>2, ServerDirections, ClientArrival, ZenonT(40) DEF LinkInv
<1>3. CASE Client(B!Next)
  <2>1. B!Next /\ UNCHANGED serverVars
    BY <1>3, ZenonT(40) DEF Client
  <2>2. BP!ConnectionInv' /\ ClientMoves
    BY <1>1, <2>1, <1>6, ClientStepFacts, ZenonT(40)
  <2>3. QED
    BY <1>1, <1>3, <2>1, <2>2, ClientDirections, ServerArrival, ZenonT(40) DEF LinkInv
<1>4. CASE UNCHANGED vars
  <2>1. UNCHANGED <<serverVars, a_inbound, a_given, clientVars, b_inbound, b_given>>
    BY <1>4, ZenonT(40) DEF vars
  <2>2. AP!ConnectionInv' /\ BP!ConnectionInv'
    BY <1>1, <2>1, ServerArrival, ClientArrival, ZenonT(40) DEF ServerSide, ClientSide, Side
  <2>3. QED
    BY <1>1, <2>1, <2>2, SameDirections, ZenonT(40) DEF LinkInv
<1>5. QED
  BY <1>2, <1>3, <1>4, ZenonT(40) DEF Next

\* Two Connections over a plain socket implement a channel in each direction: the other
\* side's User gets the messages given to send_message in order, whole and once, for any
\* number of messages of any sizes, in every interleaving of the four threads, and
\* wherever one of the sides fails, closes its socket or is destroyed.
THEOREM LinkIsChannel == Spec => IsChannel
BY LinkInit, LinkStep, PTL, LS4 DEF Spec, IsChannel, ToClient!Spec, ToServer!Spec

\* As long as one side reads, no message the other side's program has given to send_message is
\* lost: it has reached the User or is on the way, in m_out_queue, in the stream or as the
\* message whose body is read next.  For any number of messages and in every interleaving.
THEOREM NoneIsLost == Spec => []UndeliveredOnTheWay
<1>1. ASSUME LinkInv PROVE UndeliveredOnTheWay
  BY <1>1, ServerFacts, ClientFacts, NoneLost, ZenonT(40) DEF LinkInv
<1>2. QED
  BY <1>1, LinkInit, LinkStep, PTL, LS4 DEF Spec
===============================================================================
