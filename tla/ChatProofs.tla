------------------------------ MODULE ChatProofs ------------------------------
(***************************************************************************)
(* Theorems about the example programs, for any number of clients.         *)
(***************************************************************************)
EXTENDS Chat, TLAPS

USE SMTT(30), ZenonT(30), SMTT(60)
-------------------------------------------------------------------------------
\* The facts about sequences that the proofs below cite.
LEMMA SeqElement == ASSUME NEW S, NEW s \in Seq(S), NEW i \in 1 .. Len(s) PROVE s[i] \in S
OBVIOUS

LEMMA SeqEmpty ==
    ASSUME NEW S
    PROVE  <<>> \in Seq(S) /\ Len(<<>>) = 0 /\ \A s \in Seq(S) : s # <<>> => Len(s) \in Nat \ {0}
OBVIOUS

LEMMA SeqLen ==
    ASSUME NEW S, NEW s \in Seq(S)
    PROVE  Len(s) \in Nat /\ s \in [1 .. Len(s) -> S] /\ DOMAIN s = 1 .. Len(s)
OBVIOUS

LEMMA SeqAppend ==
    ASSUME NEW S, NEW s \in Seq(S), NEW e \in S
    PROVE  /\ Append(s, e) \in Seq(S) /\ Append(s, e) # <<>>
           /\ Len(Append(s, e)) = Len(s) + 1 /\ Append(s, e)[Len(s) + 1] = e
           /\ \A i \in 1 .. Len(s) : Append(s, e)[i] = s[i]
OBVIOUS

LEMMA SeqTail ==
    ASSUME NEW S, NEW s \in Seq(S), s # <<>>
    PROVE  /\ Head(s) \in S /\ Tail(s) \in Seq(S) /\ Len(Tail(s)) = Len(s) - 1
           /\ \A i \in 1 .. Len(Tail(s)) : Tail(s)[i] = s[i + 1]
OBVIOUS

LEMMA SubSeqType ==
    ASSUME NEW S, NEW s, NEW m \in Int, NEW n \in Int, \A i \in m .. n : s[i] \in S
    PROVE  /\ SubSeq(s, m, n) \in Seq(S)
           /\ Len(SubSeq(s, m, n)) = IF m <= n THEN n - m + 1 ELSE 0
           /\ \A i \in 1 .. n - m + 1 : SubSeq(s, m, n)[i] = s[m + i - 1]
OBVIOUS

\* The messages of client c.
Own(c) == [from: {c}, line: Nat]

\* Where the two threads of each client are, and what they pass to each other.
ClientType ==
    /\ main \in [Clients -> {"loop", "send"}]
    /\ thread \in [Clients -> {"none", "name", "send", "read"}]
    /\ DOMAIN messages = Clients /\ DOMAIN held = Clients
    /\ typed \in [Clients -> Nat]
    /\ \A c \in Clients :
           /\ messages[c] \in Seq(Own(c))
           /\ held[c] \in Seq(Own(c))
           /\ main[c] = "send" => held[c] # <<>>

\* The main thread has nothing to send before the second thread has sent the name.
Turns ==
    \A c \in Clients : thread[c] # "read" => main[c] = "loop" /\ messages[c] = <<>>

SendInv == ClientType /\ Turns

\* What is left of a deque after pop_back.
LEMMA PoppedBack ==
    ASSUME NEW S, NEW s \in Seq(S), s # <<>>
    PROVE  /\ SubSeq(s, 1, Len(s) - 1) \in Seq(S)
           /\ Len(SubSeq(s, 1, Len(s) - 1)) = Len(s) - 1
           /\ \A i \in 1 .. Len(s) - 1 : SubSeq(s, 1, Len(s) - 1)[i] = s[i]
<1>1. Len(s) \in Nat \ {0}
  BY SeqLen, SeqEmpty
<1>2. PICK n \in Nat : n = Len(s) - 1
  BY <1>1
<1>3. \A i \in 1 .. n : s[i] \in S
  BY <1>1, <1>2, SeqElement
<1>4. /\ SubSeq(s, 1, n) \in Seq(S)
      /\ Len(SubSeq(s, 1, n)) = IF 1 <= n THEN n - 1 + 1 ELSE 0
      /\ \A i \in 1 .. n - 1 + 1 : SubSeq(s, 1, n)[i] = s[1 + i - 1]
  BY <1>3, SubSeqType
<1>5. Len(SubSeq(s, 1, n)) = n /\ \A i \in 1 .. n : SubSeq(s, 1, n)[i] = s[i]
  BY <1>4
<1>6. QED
  BY <1>2, <1>4, <1>5

LEMMA SendInit == Init => SendInv
BY DEF Init, SendInv, ClientType, Turns

LEMMA SendStep == SendInv /\ [Next]_vars => SendInv'
<1> SUFFICES ASSUME SendInv, [Next]_vars PROVE SendInv'
  OBVIOUS
<1> USE DEF SendInv, ClientType, Turns
<1>1. ASSUME NEW c \in Clients, on_connected(c) PROVE SendInv'
  BY <1>1 DEF on_connected, FirstStep
<1>2. ASSUME NEW c \in Clients, send_name(c) PROVE SendInv'
  BY <1>2 DEF send_name
<1>3. ASSUME NEW c \in Clients, NameSent(c) PROVE SendInv'
  BY <1>3 DEF NameSent
<1>4. ASSUME NEW c \in Clients, send_thread(c) PROVE SendInv'
  <2>1. Line(c, typed[c] + 1) \in Own(c)
    BY DEF Line, Own
  <2>2. Append(messages[c], Line(c, typed[c] + 1)) \in Seq(Own(c))
    BY <2>1, SeqAppend
  <2>3. QED
    BY <1>4, <2>2 DEF send_thread, MayRead
<1>5. ASSUME NEW c \in Clients, main_loop(c) PROVE SendInv'
  <2>1. Head(messages[c]) \in Own(c) /\ Tail(messages[c]) \in Seq(Own(c))
    BY <1>5, SeqTail DEF main_loop
  <2>2. <<Head(messages[c])>> \in Seq(Own(c)) /\ <<Head(messages[c])>> # <<>>
    BY <2>1
  <2>3. thread[c] = "read"
    BY <1>5 DEF main_loop
  <2>4. QED
    BY <1>5, <2>1, <2>2, <2>3 DEF main_loop
<1>6. ASSUME NEW c \in Clients, MainSends(c) PROVE SendInv'
  BY <1>6 DEF MainSends
<1>7. ASSUME UNCHANGED clientVars PROVE SendInv'
  BY <1>7 DEF clientVars
<1>8. QED
  BY <1>1, <1>2, <1>3, <1>4, <1>5, <1>6, <1>7
     DEF Next, SendThread, MainThread, Arrives, Breaks, server_on_message, vars

\* The two threads of a client never call send_message at the same time, whatever the
\* user types and however slow either thread is.
THEOREM NeverTwoSenders == Spec => []OneSender
<1>1. SendInv => OneSender
  BY Zenon DEF SendInv, Turns, OneSender
<1>2. QED
  BY <1>1, SendInit, SendStep, PTL DEF Spec
-------------------------------------------------------------------------------
\* The name of client c has got as far as the server.
NamePassed(c) == c \in names \/ \E j \in 1 .. Len(in_queue) : in_queue[j] = Name(c)

ServerType ==
    /\ DOMAIN stream = Clients /\ \A c \in Clients : stream[c] \in Seq(Own(c))
    /\ up \in [Clients -> BOOLEAN]
    /\ in_queue \in Seq([from: Clients, line: Nat])

\* In the stream as well the name is in front of the lines, and once the second thread
\* reads lines the name is at least in the stream.
NameInFront ==
    \A c \in Clients :
        /\ \A i \in 1 .. Len(stream[c]) : stream[c][i].line > 0 =>
               NamePassed(c) \/ \E j \in 1 .. i - 1 : stream[c][j] = Name(c)
        /\ up[c] /\ thread[c] = "read" =>
               NamePassed(c) \/ \E j \in 1 .. Len(stream[c]) : stream[c][j] = Name(c)

NameInv == ServerType /\ NameInFront /\ NameArrivesFirst

LEMMA NameInit == Init => NameInv
BY DEF Init, NameInv, ServerType, NameInFront, NameArrivesFirst

\* A message that is sent keeps the name in front, if it is the name or sent after it.
LEMMA SendKeepsName ==
    ASSUME NameInv, NEW c \in Clients, NEW m \in Own(c), send_message(c, m),
           UNCHANGED <<up, serverVars>>, thread \in [Clients -> {"none", "name", "send", "read"}],
           \/ m = Name(c) /\ thread' = [thread EXCEPT ![c] = "read"]
           \/ UNCHANGED thread /\ thread[c] = "read"
    PROVE  NameInv'
<1> USE DEF NameInv
<1>1. \A d \in Clients : NamePassed(d)' <=> NamePassed(d)
  BY DEF NamePassed, serverVars
<1>2. NameArrivesFirst'
  BY DEF NameArrivesFirst, serverVars
<1>3. CASE ~up[c]
  BY <1>1, <1>2, <1>3 DEF send_message, ServerType, NameInFront, serverVars
<1>4. CASE up[c]
  <2>1. stream' = [stream EXCEPT ![c] = Append(@, m)]
    BY <1>4 DEF send_message
  <2>2. stream[c] \in Seq(Own(c))
    BY DEF ServerType
  <2>3. /\ stream'[c] \in Seq(Own(c))
        /\ Len(stream'[c]) = Len(stream[c]) + 1
        /\ \A i \in 1 .. Len(stream[c]) : stream'[c][i] = stream[c][i]
        /\ stream'[c][Len(stream[c]) + 1] = m
    BY <2>1, <2>2, SeqAppend DEF ServerType
  <2>4. ServerType'
    BY <2>1, <2>3 DEF ServerType, serverVars
  <2>5. ASSUME NEW i \in 1 .. Len(stream'[c]), stream'[c][i].line > 0
        PROVE  NamePassed(c) \/ \E j \in 1 .. i - 1 : stream'[c][j] = Name(c)
    <3>1. CASE i \in 1 .. Len(stream[c])
      <4>1. stream[c][i].line > 0
        BY <2>3, <2>5, <3>1
      <4>2. NamePassed(c) \/ \E j \in 1 .. i - 1 : stream[c][j] = Name(c)
        BY <3>1, <4>1 DEF NameInFront
      <4>3. 1 .. i - 1 \subseteq 1 .. Len(stream[c])
        BY <2>2, <3>1, SeqLen
      <4>4. QED
        BY <2>3, <4>2, <4>3
    <3>2. CASE i = Len(stream[c]) + 1
      <4>1. m # Name(c)
        BY <2>3, <2>5, <3>2 DEF Name
      <4>2. NamePassed(c) \/ \E j \in 1 .. Len(stream[c]) : stream[c][j] = Name(c)
        BY <1>4, <4>1 DEF NameInFront
      <4>3. QED
        BY <2>2, <2>3, <3>2, <4>2, SeqLen
    <3>3. QED
      BY <2>2, <2>3, <3>1, <3>2, SeqLen
  <2>6. NamePassed(c) \/ \E j \in 1 .. Len(stream'[c]) : stream'[c][j] = Name(c)
    <3>1. CASE m = Name(c)
      BY <2>2, <2>3, <3>1, SeqLen
    <3>2. CASE m # Name(c)
      BY <1>4, <2>2, <2>3, <3>2, SeqLen DEF NameInFront
    <3>3. QED
      BY <3>1, <3>2
  <2>7. ASSUME NEW d \in Clients, d # c PROVE stream'[d] = stream[d] /\ thread'[d] = thread[d]
    BY <2>1, <2>7 DEF ServerType
  <2>8. NameInFront'
    BY <1>1, <2>5, <2>6, <2>7 DEF NameInFront
  <2>9. QED
    BY <1>2, <2>4, <2>8
<1>5. QED
  BY <1>3, <1>4

\* Moving the front of a stream to the back of m_in_queue keeps the name in front.
LEMMA ArrivesKeepsName ==
    ASSUME NameInv, NEW c \in Clients, Arrives(c)
    PROVE  NameInv'
<1> DEFINE m == Head(stream[c])
<1> USE DEF NameInv
<1>1. /\ stream[c] \in Seq(Own(c)) /\ stream[c] # <<>>
      /\ in_queue \in Seq([from: Clients, line: Nat])
      /\ stream' = [stream EXCEPT ![c] = Tail(@)]
      /\ in_queue' = Append(in_queue, m)
      /\ UNCHANGED <<thread, up, names>>
  BY DEF Arrives, ServerType, clientVars
<1>2. /\ m = stream[c][1] /\ m \in Own(c)
      /\ stream'[c] \in Seq(Own(c))
      /\ Len(stream'[c]) = Len(stream[c]) - 1
      /\ \A i \in 1 .. Len(stream[c]) - 1 : stream'[c][i] = stream[c][i + 1]
  BY <1>1, SeqTail DEF ServerType
<1>3. m \in [from: Clients, line: Nat] /\ m.from = c
  BY <1>2 DEF Own
<1> HIDE DEF m
<1>4. /\ in_queue' \in Seq([from: Clients, line: Nat])
      /\ Len(in_queue') = Len(in_queue) + 1
      /\ \A i \in 1 .. Len(in_queue) : in_queue'[i] = in_queue[i]
      /\ in_queue'[Len(in_queue) + 1] = m
  BY <1>1, <1>3, SeqAppend
<1>5. Len(in_queue) \in Nat /\ Len(stream[c]) \in Nat \ {0}
  BY <1>1, SeqLen, SeqEmpty
<1>6. ServerType'
  BY <1>1, <1>2, <1>4 DEF ServerType
<1>7. \A d \in Clients : NamePassed(d) => NamePassed(d)'
  BY <1>1, <1>4, <1>5 DEF NamePassed
<1>8. m = Name(c) => NamePassed(c)'
  BY <1>4, <1>5 DEF NamePassed
<1>9. m.line > 0 => NamePassed(c)
  <2>1. m.line > 0 => NamePassed(c) \/ \E j \in 1 .. 1 - 1 : stream[c][j] = Name(c)
    BY <1>2, <1>5 DEF NameInFront
  <2>2. QED
    BY <2>1
<1>10. ASSUME NEW i \in 1 .. Len(stream'[c]), stream'[c][i].line > 0
       PROVE  NamePassed(c)' \/ \E j \in 1 .. i - 1 : stream'[c][j] = Name(c)
  <2>1. i \in 1 .. Len(stream[c]) - 1 /\ i + 1 \in 1 .. Len(stream[c])
    BY <1>2, <1>5
  <2>2. NamePassed(c) \/ \E j \in 1 .. i + 1 - 1 : stream[c][j] = Name(c)
    BY <1>2, <1>10, <2>1 DEF NameInFront
  <2>3. ASSUME NEW j \in 1 .. i + 1 - 1, stream[c][j] = Name(c), j # 1
        PROVE  j - 1 \in 1 .. i - 1 /\ stream'[c][j - 1] = Name(c)
    <3>1. j - 1 \in 1 .. i - 1 /\ j - 1 \in 1 .. Len(stream[c]) - 1 /\ (j - 1) + 1 = j
      BY <1>5, <2>1, <2>3
    <3>2. QED
      BY <1>2, <2>3, <3>1
  <2>4. QED
    BY <1>2, <1>7, <1>8, <2>2, <2>3
<1>11. ASSUME NEW j \in 1 .. Len(stream[c]), stream[c][j] = Name(c)
       PROVE  NamePassed(c)' \/ \E k \in 1 .. Len(stream'[c]) : stream'[c][k] = Name(c)
  <2>1. CASE j = 1
    BY <1>2, <1>8, <1>11, <2>1
  <2>2. CASE j # 1
    <3>1. j - 1 \in 1 .. Len(stream'[c]) /\ stream'[c][j - 1] = Name(c)
      BY <1>2, <1>5, <1>11, <2>2
    <3>2. QED
      BY <3>1
  <2>3. QED
    BY <2>1, <2>2
<1>12. NameInFront'
  <2>1. \A d \in Clients : d # c => stream'[d] = stream[d]
    BY <1>1 DEF ServerType
  <2>2. ASSUME NEW d \in Clients, d # c
        PROVE  /\ \A i \in 1 .. Len(stream'[d]) : stream'[d][i].line > 0 =>
                      NamePassed(d)' \/ \E j \in 1 .. i - 1 : stream'[d][j] = Name(d)
               /\ up'[d] /\ thread'[d] = "read" =>
                      NamePassed(d)' \/ \E j \in 1 .. Len(stream'[d]) : stream'[d][j] = Name(d)
    BY <1>1, <1>7, <2>1, <2>2 DEF NameInFront
  <2>3. up'[c] /\ thread'[c] = "read" =>
            NamePassed(c)' \/ \E j \in 1 .. Len(stream'[c]) : stream'[c][j] = Name(c)
    BY <1>1, <1>7, <1>11, Zenon DEF NameInFront
  <2>4. QED
    BY <1>10, <2>2, <2>3 DEF NameInFront
<1>13. NameArrivesFirst'
  <2> SUFFICES ASSUME NEW i \in 1 .. Len(in_queue'), in_queue'[i].line > 0,
                      in_queue'[i].from \notin names'
               PROVE  \E j \in 1 .. i - 1 : in_queue'[j] = Name(in_queue'[i].from)
    BY DEF NameArrivesFirst
  <2>1. CASE i = Len(in_queue) + 1
    <3>1. \E j \in 1 .. Len(in_queue) : in_queue[j] = Name(c)
      BY <1>1, <1>3, <1>4, <1>9, <2>1 DEF NamePassed
    <3>2. QED
      BY <1>3, <1>4, <1>5, <2>1, <3>1
  <2>2. CASE i # Len(in_queue) + 1
    <3>1. i \in 1 .. Len(in_queue) /\ 1 .. i - 1 \subseteq 1 .. Len(in_queue)
      BY <1>4, <1>5, <2>2
    <3>2. \E j \in 1 .. i - 1 : in_queue[j] = Name(in_queue[i].from)
      BY <1>1, <1>4, <3>1 DEF NameArrivesFirst
    <3>3. QED
      BY <1>4, <3>1, <3>2
  <2>3. QED
    BY <2>1, <2>2
<1>14. QED
  BY <1>6, <1>12, <1>13

\* Taking a message from the back of m_in_queue does not take a name from in front of a
\* line, and a name that is taken is entered.
LEMMA TakeKeepsName ==
    ASSUME NameInv, server_on_message
    PROVE  NameInv'
<1> DEFINE n == Len(in_queue)
           m == in_queue[n]
<1> USE DEF NameInv
<1>1. /\ in_queue \in Seq([from: Clients, line: Nat]) /\ in_queue # <<>>
      /\ in_queue' = SubSeq(in_queue, 1, n - 1)
      /\ IF m.line = 0 THEN names' = names \cup {m.from} ELSE names' = names
      /\ UNCHANGED <<thread, stream, up>>
  BY DEF server_on_message, on_set_name, on_chat_message, ServerType, clientVars
<1>2. n \in Nat \ {0}
  BY <1>1, SeqLen, SeqEmpty
<1>3. /\ in_queue' \in Seq([from: Clients, line: Nat])
      /\ Len(in_queue') = n - 1
      /\ \A i \in 1 .. n - 1 : in_queue'[i] = in_queue[i]
  BY <1>1, PoppedBack, Zenon
<1> HIDE DEF n, m
<1>4. ASSUME NEW d \in Clients, NamePassed(d) PROVE NamePassed(d)'
  <2>1. CASE d \in names
    BY <1>1, <2>1 DEF NamePassed
  <2>2. CASE d \notin names
    <3>1. PICK j \in 1 .. n : in_queue[j] = Name(d)
      BY <1>4, <2>2 DEF NamePassed, n
    <3>2. CASE j = n
      BY <1>1, <3>1, <3>2 DEF NamePassed, Name, m
    <3>3. CASE j # n
      <4>1. j \in 1 .. n - 1
        BY <1>2, <3>3
      <4>2. QED
        BY <1>3, <3>1, <4>1 DEF NamePassed
    <3>4. QED
      BY <3>2, <3>3
  <2>3. QED
    BY <2>1, <2>2
<1>5. ServerType'
  BY <1>1, <1>3 DEF ServerType
<1>6. NameInFront'
  BY <1>1, <1>4 DEF NameInFront
<1>7. NameArrivesFirst'
  <2> SUFFICES ASSUME NEW i \in 1 .. Len(in_queue'), in_queue'[i].line > 0,
                      in_queue'[i].from \notin names'
               PROVE  \E j \in 1 .. i - 1 : in_queue'[j] = Name(in_queue'[i].from)
    BY DEF NameArrivesFirst
  <2>1. i \in 1 .. n /\ i \in 1 .. n - 1 /\ 1 .. i - 1 \subseteq 1 .. n - 1
    BY <1>2, <1>3
  <2>2. in_queue[i].from \notin names
    BY <1>1, <1>3, <2>1
  <2>3. \E j \in 1 .. i - 1 : in_queue[j] = Name(in_queue[i].from)
    BY <1>3, <2>1, <2>2 DEF NameArrivesFirst, n
  <2>4. QED
    BY <1>3, <2>1, <2>3
<1>8. QED
  BY <1>5, <1>6, <1>7

LEMMA NameStep == SendInv /\ NameInv /\ [Next]_vars => NameInv'
<1> SUFFICES ASSUME SendInv, NameInv, [Next]_vars PROVE NameInv'
  OBVIOUS
<1> USE DEF NameInv
<1>1. ASSUME UNCHANGED <<stream, up, serverVars>>,
             \A c \in Clients : thread'[c] = "read" => thread[c] = "read"
      PROVE  NameInv'
  BY <1>1, Zenon DEF ServerType, NameInFront, NamePassed, NameArrivesFirst, serverVars
<1>2. ASSUME NEW c \in Clients, NameSent(c) PROVE NameInv'
  <2>1. Name(c) \in Own(c)
    BY DEF Name, Own
  <2>2. QED
    BY <1>2, <2>1, SendKeepsName, Zenon DEF NameSent, SendInv, ClientType
<1>3. ASSUME NEW c \in Clients, MainSends(c) PROVE NameInv'
  <2>1. Head(held[c]) \in Own(c)
    BY <1>3, SeqTail DEF MainSends, SendInv, ClientType
  <2>2. thread[c] = "read"
    BY <1>3 DEF MainSends, SendInv, Turns
  <2>3. QED
    BY <1>3, <2>1, <2>2, SendKeepsName DEF MainSends, SendInv, ClientType
<1>4. ASSUME NEW c \in Clients, on_connected(c) \/ send_name(c) PROVE NameInv'
  <2>1. \A d \in Clients : thread'[d] = "read" => thread[d] = "read"
    BY <1>4 DEF on_connected, send_name, FirstStep, SendInv, ClientType
  <2>2. QED
    BY <1>1, <1>4, <2>1 DEF on_connected, send_name
<1>5. ASSUME NEW c \in Clients, send_thread(c) \/ main_loop(c) PROVE NameInv'
  BY <1>1, <1>5 DEF send_thread, main_loop
<1>6. ASSUME NEW c \in Clients, Breaks(c) PROVE NameInv'
  <2>1. /\ \A d \in Clients : NamePassed(d)' <=> NamePassed(d)
        /\ NameArrivesFirst'
    BY <1>6 DEF Breaks, NamePassed, NameArrivesFirst, serverVars
  <2>2. ServerType'
    BY <1>6 DEF Breaks, ServerType, serverVars
  <2>3. NameInFront'
    BY <1>6, <2>1 DEF Breaks, NameInFront, ServerType, clientVars
  <2>4. QED
    BY <2>1, <2>2, <2>3
<1>7. CASE UNCHANGED vars
  BY <1>1, <1>7 DEF vars, clientVars
<1>8. QED
  BY <1>2, <1>3, <1>4, <1>5, <1>6, <1>7, ArrivesKeepsName, TakeKeepsName
     DEF Next, SendThread, MainThread

\* The name of a client always reaches the server in front of its lines, although another
\* thread sends it, the server takes messages from the back, and connections may break.
THEOREM NamesArriveFirst == Spec => []NameArrivesFirst
<1>1. NameInv => NameArrivesFirst
  BY DEF NameInv
<1>2. QED
  BY <1>1, SendInit, SendStep, NameInit, NameStep, PTL DEF Spec
===============================================================================
