--------------------------------- MODULE User ---------------------------------
(***************************************************************************)
(* Net::User (User.h): the queues that the Asio thread fills and update()  *)
(* empties on the user's thread, the condition variable on which update()  *)
(* sleeps, and the interval between two checks of the connections.  The    *)
(* new connections of Server are a third queue.                            *)
(*                                                                         *)
(* Every queue has a lock of its own (Thread_safe_deque), so each access   *)
(* is one step.  m_wait_mutex is taken by the waiting thread only: no      *)
(* other thread ever waits for it, and it is left out.  Time passes in     *)
(* ticks, while update() sleeps and while code of the program runs; the    *)
(* other steps of the framework take none.                                 *)
(***************************************************************************)
EXTENDS Integers, Sequences, FiniteSetsExt

CONSTANTS
    Queues,             \* the queues of a Server (all three) or a Client (two)
    Wait,               \* the argument wait of update()
    Interval,           \* its check_connections_interval in seconds, 0 for none
    TicksPerSecond,
    max_handled_items,
    MaxItems            \* bound: items the Asio thread pushes onto each queue

ASSUME UserAssumption ==
    /\ {"messages", "notifications"} \subseteq Queues
    /\ Queues \subseteq {"messages", "notifications", "connections"}
    /\ Wait \in BOOLEAN
    /\ Interval \in Nat
    /\ TicksPerSecond \in Nat \ {0}
    /\ max_handled_items \in Nat \ {0}
    /\ MaxItems \in Nat

IsServer == "connections" \in Queues
Timed == Interval > 0

\* Bound: the clock stops here, a second after a check is due.
MaxTicks == (Interval + 1) * TicksPerSecond

VARIABLES
    queue,      \* m_in_queue, m_notifications and m_new_connections
    pushed,     \* how many items were pushed onto each queue
    handled,    \* the items of each queue in the order update() handled them
    asio,       \* what the Asio thread does next: "push" or "notify"
    pc,         \* what the user's thread does next
    at,         \* the queue it looks at
    found,      \* the part of should_stop_waiting evaluated so far
    count,      \* items of each queue handled by this call of update()
    since,      \* ticks since m_last_connection_check
    elapsed,    \* time_since_last_check, in whole seconds
    left        \* ticks until wait_for gives up

queueVars == <<queue, pushed, handled, count>>
timeVars == <<since, elapsed, left>>
vars == <<queueVars, asio, pc, at, found, timeVars>>

TypeOK ==
    /\ queue \in [Queues -> Seq(Nat)]
    /\ pushed \in [Queues -> Nat]
    /\ handled \in [Queues -> Seq(Nat)]
    /\ asio \in {"push", "notify"}
    /\ pc \in {"out", "test", "sleep", "asleep", "check", "handle"}
    /\ at \in Queues
    /\ found \in BOOLEAN
    /\ count \in [Queues -> 0 .. max_handled_items]
    /\ since \in 0 .. MaxTicks
    /\ elapsed \in 0 .. Interval + 1
    /\ left \in 0 .. Interval * TicksPerSecond

\* m_last_connection_check is the epoch of the clock, which may be long ago or not.
Init ==
    /\ queue = [q \in Queues |-> <<>>]
    /\ pushed = [q \in Queues |-> 0]
    /\ handled = [q \in Queues |-> <<>>]
    /\ asio = "push"
    /\ pc = "out"
    /\ at = "notifications"
    /\ found = FALSE
    /\ count = [q \in Queues |-> 0]
    /\ since \in 0 .. MaxTicks
    /\ elapsed = 0
    /\ left = 0

\* Variant of push_back that is a push_front.
push_front(q) ==
    /\ pushed' = [pushed EXCEPT ![q] = @ + 1]
    /\ queue' = [queue EXCEPT ![q] = <<pushed[q] + 1>> \o @]

\* push_back of the next item of queue q.
push_back(q) ==
    /\ pushed' = [pushed EXCEPT ![q] = @ + 1]
    /\ queue' = [queue EXCEPT ![q] = Append(@, pushed[q] + 1)]
-------------------------------------------------------------------------------
(***************************************************************************)
(* The Asio thread.                                                        *)
(***************************************************************************)
\* in_queue_push_back, notifications_push_back (m_on_notification is set) and the
\* accept handler: the item is pushed, then the waiting thread is notified.
Push(q) ==
    /\ asio = "push" /\ pushed[q] < MaxItems
    /\ push_back(q)
    /\ asio' = "notify"
    /\ UNCHANGED <<handled, pc, at, found, count, timeVars>>

\* The predicate is evaluated from its first queue on.
StartTest == pc' = "test" /\ at' = "messages" /\ found' = FALSE

\* notify_one: wakes the user's thread if it sleeps, else it does nothing.
notify_wait ==
    /\ asio = "notify"
    /\ asio' = "push"
    /\ IF pc = "asleep" THEN StartTest ELSE UNCHANGED <<pc, at, found>>
    /\ UNCHANGED <<queueVars, timeVars>>
-------------------------------------------------------------------------------
(***************************************************************************)
(* The user's thread.                                                      *)
(***************************************************************************)
\* Time passes in the program's code, and while the thread sleeps.
Tick ==
    /\ Timed /\ pc \in {"out", "asleep", "handle"}
    /\ since < MaxTicks
    /\ since' = since + 1
    /\ left' = IF left > 0 THEN left - 1 ELSE 0
    /\ UNCHANGED <<queueVars, asio, pc, at, found, elapsed>>

StartHandling == pc' = "handle" /\ at' = "notifications" /\ found' = FALSE

\* The wait is over, or there was none.
AfterWait == IF Timed THEN pc' = "check" /\ at' = "notifications" /\ found' = FALSE
             ELSE StartHandling

\* duration_cast to seconds of the time since the last check.
Seconds == since \div TicksPerSecond

\* Variant of WaitTime that waits for the whole interval.
WholeInterval == Interval

\* interval - time_since_last_check, no time if that is negative.
WaitTime == IF Seconds < Interval THEN Interval - Seconds ELSE 0

\* update() is called: it waits first, if it is told to.
update ==
    /\ pc = "out"
    /\ count' = [q \in Queues |-> 0]
    /\ IF Timed THEN elapsed' = Seconds /\ left' = (IF Wait THEN WaitTime ELSE 0) * TicksPerSecond
       ELSE UNCHANGED <<elapsed, left>>
    /\ IF Wait THEN StartTest ELSE AfterWait
    /\ UNCHANGED <<queue, pushed, handled, asio, since>>

\* should_stop_waiting, User's part and then Server's: the queues are looked at one
\* after the other.  When all were empty the thread goes to sleep.
should_stop_waiting ==
    LET last == IF IsServer THEN "connections" ELSE "notifications"
        stop == found \/ queue[at] # <<>>
    IN
    /\ pc = "test"
    /\ \/ /\ at # last
          /\ found' = stop
          /\ at' = IF at = "messages" THEN "notifications" ELSE "connections"
          /\ pc' = pc
       \/ /\ at = last /\ stop
          /\ AfterWait
       \/ /\ at = last /\ ~stop
          /\ pc' = "sleep"
          /\ UNCHANGED <<at, found>>
    /\ UNCHANGED <<queueVars, asio, timeVars>>

\* The thread is a waiter of m_wait_condition from here on.
Sleep ==
    /\ pc = "sleep"
    /\ pc' = "asleep"
    /\ UNCHANGED <<queueVars, asio, at, found, timeVars>>

\* A spurious wakeup: the predicate is evaluated again.
WakeUp ==
    /\ pc = "asleep"
    /\ StartTest
    /\ UNCHANGED <<queueVars, asio, timeVars>>

\* wait_for gives up; update() goes on whatever the predicate says then.
Timeout ==
    /\ Timed /\ pc = "asleep" /\ left = 0
    /\ AfterWait
    /\ UNCHANGED <<queueVars, asio, timeVars>>

\* Variant of TimeSinceCheck that is the time before the wait.
TimeBeforeWait == elapsed

\* The time is read again if there was time to wait.
TimeSinceCheck == IF Wait /\ elapsed < Interval THEN Seconds ELSE elapsed

\* The rest of handle_check_connections_delay.  When check_connections removes a client
\* there is a notification, and an exception of m_on_client_disconnect leaves update()
\* before m_last_connection_check is set.
handle_check_connections_delay ==
    /\ pc = "check"
    /\ \/ /\ TimeSinceCheck < Interval
          /\ StartHandling
          /\ UNCHANGED <<queue, pushed, since>>
       \/ /\ TimeSinceCheck >= Interval
          /\ StartHandling
          /\ since' = 0
          /\ UNCHANGED <<queue, pushed>>
       \/ /\ TimeSinceCheck >= Interval /\ IsServer /\ pushed["notifications"] < MaxItems
          /\ push_back("notifications")
          /\ \/ StartHandling /\ since' = 0
             \/ pc' = "out" /\ UNCHANGED <<at, found, since>>
    /\ elapsed' = 0 /\ left' = 0
    /\ UNCHANGED <<handled, asio, count>>

\* The item of a queue that update() takes: pop_front of the notifications and the
\* new connections, but in_queue_pop_front is a pop_back.
Taken(q) == IF q = "messages" THEN queue[q][Len(queue[q])] ELSE Head(queue[q])

\* Variant of Rest that pops the front of every queue.
RestOfFront(q) == Tail(queue[q])

Rest(q) == IF q = "messages" THEN SubSeq(queue[q], 1, Len(queue[q]) - 1) ELSE Tail(queue[q])

\* Variant of MayHandle with <= for <.
MayHandleOneMore(q) == count[q] <= max_handled_items /\ queue[q] # <<>>

\* The condition of the loop over queue q.
MayHandle(q) == count[q] < max_handled_items /\ queue[q] # <<>>

\* One round of the loop: the item goes to its handler.  create_client and
\* remove_client push a notification, on this thread, which nobody waits for.
\* An exception of the handler leaves update().
Handle(q) ==
    /\ pc = "handle" /\ at = q /\ MayHandle(q)
    /\ handled' = [handled EXCEPT ![q] = Append(@, Taken(q))]
    /\ count' = [count EXCEPT ![q] = @ + 1]
    /\ \/ /\ queue' = [queue EXCEPT ![q] = Rest(q)]
          /\ pc' \in {pc, "out"}
          /\ UNCHANGED pushed
       \/ /\ q # "notifications" /\ IsServer
          /\ pushed' = [pushed EXCEPT !["notifications"] = @ + 1]
          /\ queue' = [queue EXCEPT ![q] = Rest(q),
                                    !["notifications"] = Append(@, pushed["notifications"] + 1)]
          /\ UNCHANGED pc
    /\ UNCHANGED <<asio, at, found, timeVars>>

\* Variant of LastQueue: Server::update without handle_new_connections.
NoNewConnections == "messages"

\* The queue that update() of a Server or a Client handles last.
LastQueue == IF IsServer THEN "connections" ELSE "messages"

\* The end of the loop over queue q: the next loop, or update() returns.
LoopEnds(q) ==
    /\ pc = "handle" /\ at = q /\ ~MayHandle(q)
    /\ \/ /\ q # LastQueue
          /\ at' = IF q = "notifications" THEN "messages" ELSE "connections"
          /\ pc' = pc
       \/ /\ q = LastQueue
          /\ pc' = "out"
          /\ UNCHANGED at
    /\ UNCHANGED <<queueVars, asio, found, timeVars>>

UserThread ==
    \/ update \/ should_stop_waiting \/ Sleep \/ handle_check_connections_delay
    \/ \E q \in Queues : Handle(q) \/ LoopEnds(q)

Next == \/ \E q \in Queues : Push(q)
        \/ notify_wait
        \/ UserThread \/ WakeUp \/ Timeout \/ Tick

Spec == Init /\ [][Next]_vars

\* The program calls update() again and again, as the loop of the example server
\* does, the Asio thread goes on after a push, and time passes.
FairSpec ==
    /\ Spec
    /\ WF_vars(UserThread) /\ WF_vars(notify_wait) /\ WF_vars(Timeout) /\ WF_vars(Tick)
-------------------------------------------------------------------------------
\* Everything pushed is either still queued or was handled, once: no interleaving of
\* the pushes with the loops of update() loses or repeats an item.
NothingLost ==
    \A q \in Queues :
        /\ Len(handled[q]) + Len(queue[q]) = pushed[q]
        /\ \A n \in 1 .. pushed[q] :
               \/ \E i \in 1 .. Len(handled[q]) : handled[q][i] = n
               \/ \E i \in 1 .. Len(queue[q]) : queue[q][i] = n

\* Notifications and new connections are handled in the order of their arrival.
HandledInOrder ==
    \A q \in Queues \ {"messages"} : \A i \in 1 .. Len(handled[q]) : handled[q][i] = i

\* Messages are handled in the order of their arrival: in_queue_pop_front takes the
\* front of m_in_queue, as its name and its comment say.
MessagesInOrder ==
    \A i, j \in 1 .. Len(handled["messages"]) :
        i < j => handled["messages"][i] < handled["messages"][j]

\* update() waits only if there is nothing to handle: it does not sleep on an item
\* about which no notification is on its way.
SleepsOnlyWhenEmpty ==
    pc = "asleep" /\ asio # "notify" => \A q \in Queues : queue[q] = <<>>

\* One call of update() handles at most max_handled_items items, all queues together.
UpdateLimit == MapThenSumSet(LAMBDA q : count[q], Queues) <= max_handled_items

\* A wait ends before the next check of the connections is more than a second overdue:
\* cutting the time since the last one to whole seconds only ever adds that much.
WaitIsBounded == left > 0 => since + left < MaxTicks

\* When update() starts to handle items a check that was due has been made, also one
\* that became due during the wait; and none was made before the interval had passed.
DueIsChecked ==
    [][Timed /\ pc # "handle" /\ pc' = "handle" =>
           /\ since' < Interval * TicksPerSecond
           /\ since' # since => since >= Interval * TicksPerSecond]_vars

\* The handler of a notification or a message throws, and update() does not get to the
\* new connections.
HandlerThrows == pc = "handle" /\ at # LastQueue /\ pc' = "out"

\* Every notification and every new connection is handled in the end, also one whose
\* notification came when the user's thread had looked at the queue but did not sleep
\* yet; a new connection unless the handlers before it throw again and again.  Messages
\* are left out: update() takes the last one, so that later ones can keep the first
\* waiting for ever.
InOrderIsHandled ==
    \A q \in Queues \ {"messages"} : \A n \in 1 .. MaxItems :
        \/ (pushed[q] >= n) ~> (\E i \in 1 .. Len(handled[q]) : handled[q][i] = n)
        \/ q = "connections" /\ []<><<HandlerThrows>>_vars
===============================================================================
