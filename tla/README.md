# Network_framework: TLA+ models, model checking and proofs

Network_framework is a C++ library for clients and servers that exchange messages over TCP,
plain or with SSL. It is built on asio. All paths below are relative to
`src/Network_framework/Source/`.

## 1. The system

Two threads matter. The **Asio thread** (`Asio_base::asio_thread`) runs completion handlers, one
after the other. The **user's thread** calls `update()`, the send functions, and through
`update()` the program's callbacks. They share objects and only the deques have locks.

| Part | State | Operations | Thread |
|---|---|---|---|
| `Connection` | socket, `m_out_queue`, `m_is_writing_message`, `m_has_done_handshake`, `m_received_message` | start, handshake, send, four transfer handlers, disconnect | handlers on Asio; `start` and `send_message` on either |
| `Template_socket` | an asio stream | async read/write of header and body, `disconnect` | both |
| `User` | `m_in_queue`, `m_notifications`, condition variable | pushes, `update`, waiting | pushes on Asio; `update` on the user's |
| `Server` | `m_clients`, `m_new_connections`, `m_id_counter`, maximum, banned addresses | accept handler, create and remove clients, loops over clients | accept on Asio; the rest on the user's |
| `Client` | `m_connection`, `m_temp_socket`, server data | connect, disconnect, connect handler | connect handler on Asio; the rest on the user's |
| `Asio_base` | io_context, thread, stop flag | start, stop, thread loop | both |
| `Message` | header size, body | push, extract, clear | none shared |
| `Thread_safe_deque` | deque and lock | each operation is atomic | both |
| Example client and server (`src/Network_client`, `src/Network_server`) | deque of typed lines, `names` | sending thread, main loops, message handlers | main and a second thread of their own |
| `Delegate`, `Ssl_*`, records | | see section 8 | |

How they interact: the accept handler puts a socket into `m_new_connections`; `update()` turns it
into a `Connection` and sends it `server_accept`; the client's `update()` receives that message
and broadcasts `m_on_connected`. From then on each side's `Connection` moves messages from
`m_out_queue` to the stream and from the stream to the other side's `m_in_queue`.

What is hard to test here: `send_message` on the user's thread against the write handlers;
destroying a connection whose handlers are queued; a notification between the test and the sleep;
sizes read by the accept handler while a connection moves between two containers; callbacks that
change the map being iterated; stopping and restarting the context with operations outstanding;
a check of the connections that becomes due during a wait, measured in whole seconds; two threads of a
program that both send; exceptions on a thread where nothing catches them. `PROJECT.json` lists
every hazard at its line.

## 2. Modules

| Module | Models | Size of a step |
|---|---|---|
| `Connection` | `Connection.h`, `Socket.h` | one access to shared state in `start_writing_message` and at the end of a write handler; one whole handler otherwise |
| `MCConnection` | the messages of the instances | |
| `ConnectionProofs`, `ConnectionWriteProofs` | theorems about `Connection`: types and reading; writing | |
| `LinkProofs` | the theorems that `Link` implements `Channel` and loses nothing | |
| `UserProofs`, `ServerProofs`, `ClientProofs`, `ChatProofs`, `MessageProofs` | theorems about these modules | |
| `Channel` | what a connection promises, and a queue of `User` (abstract) | one message |
| `Link` | two instances of `Connection` and the streams between them | a step of `Connection` |
| `User` | `User.h` queues, waiting and the interval of the checks, `update` of Server and Client | one access to a queue; a tick of the clock |
| `Asio_base` | `Asio_base.h`; extended by `Server` and `Client` | one statement of `stop_asio_thread` |
| `Server` | `Server.h` | one access of the accept handler; one iteration of a loop; callbacks are a state of their own |
| `Client` | `Client.h` | one handler, one statement of `connect` and `disconnect` that the Asio thread can tell apart |
| `Chat` | the two example programs | a call of `send_message`, one access to a deque, one handled message |
| `Message`, `MCMessage` | `Message.h` | one call |

Operators keep the names of the functions they model; variables those of the members. `PROJECT.json`
maps every definition to its lines. Operators called "Variant of ..." are wrong versions of
the operator below them. No specification uses them. Putting one in place of the
original must make a property fail, which shows the property depends on that code.

Abstractions:

- **Connection.** A message is its header and a number; a body is one chunk of the stream. An
  outstanding operation remembers whether the socket was open when it started. `disconnect` may
  throw because `shutdown` is the throwing overload; on the Asio thread that ends the program
  (`fault = "terminate"`). `Ssl`, `Starter` and `FirstSend` choose between server and client, plain and SSL. Messages are
  sent on the user's thread, because every caller in `Server` and `Client` is there. A read handler takes whatever chunk is
  next in the stream: a body read as a header is an arbitrary header, and a message put together from the wrong chunks has
  number 0, which no message sent has.
- **Link.** The peer of `Connection`, which sends whole messages of its own choice, is replaced by a
  second `Connection` (`MaxReceives = 0`): what one side writes is appended to what the other reads. Both
  programs accept every id. `a_given` and `b_given` are history variables.
- **User.** An item is its number of arrival. `m_wait_mutex` is left out: only the
  waiting thread takes it. Time passes in ticks of a fraction of a second, in the program's code and
  while the thread sleeps; `Interval = 0` stands for "no interval".
- **Server.** A connection is connected or not, a socket is an address. The order of the map is
  arbitrary. A callback may remove clients (`Reentrant`), and it may throw, which leaves the loop that called it. `barred`, `dangling` and
  `reached` are history variables.
- **Client.** Of the operations of a connection the handshake and the reads of header and body are present, of the
  messages only `server_accept`, whose body may be too short to extract. `clean` records that no earlier connect was left over.
- **Chat.** A connection is the channel of `Channel`, which may break; the server takes the newest
  message, as `User` does. A message is a name or the number of a line.
- **Message.** A value is its bytes. Each transfer yields the body and the size in the header separately, in the order of the
  code, and may throw before, between or after the two. `items` records what was pushed, to compare with what comes out.

External, modelled from its use: asio completions, `io_context::run`, `condition_variable`,
iterators of `unordered_map`, the peer, callbacks of the program.

## 3. Runs

| Run | Instance | Result |
|---|---|---|
| `ConnectionClient` | SSL client, the user's thread sends after `server_accept`, 3 sends, 3 receives | passes: `TypeOK`, `OneWriteAtATime`, `OutboundFifo`, `NothingDropped`, `HandlersFindFront`, `InboundFifo`, `AcceptedOnly`, `AtMostOneLate` |
| `ConnectionSslRace` | SSL server, user's thread sends during the handshake | violates `OneWriteAtATime` |
| `ConnectionDestroyed` | a plain server connection is removed | violates `NoHandlerOnDestroyed` |
| `ConnectionLeftBehind` | plain client, 2 sends, fair | violates `EverySentIsWritten` |
| `LinkChannel` | plain connection, the server sends `server_accept` and one message, the client one, fair | passes: `IsChannel` (refinement of `Channel`, both directions), `EverySentIsReceived` |
| `UserTimed` | server, wait with an interval of 2 seconds of 2 ticks, limit of one item per loop, fair | passes: `TypeOK`, `NothingLost`, `HandledInOrder`, `WaitIsBounded`, `DueIsChecked`, `InOrderIsHandled` |
| `UserOrder` | two waiting messages | violates `MessagesInOrder` |
| `UserLostWakeup` | untimed wait | violates `SleepsOnlyWhenEmpty` |
| `ServerClients` | maximum 1, 4 sockets, 2 calls of `start()`, callbacks that remove clients or throw, fair | passes: `TypeOK`, `AdmissionBound`, `AcceptPerStart`, `IdIsFree`, `BannedStaysOut`, `EveryClientReached`, `NextIsAClient`, `ClosedIsRemoved`, `StopReturns` |
| `ClientThread` | 3 connects, fair | passes: `TypeOK`, `ThreadIsStopped`, `CleanConnectIsCurrent`, `DisconnectReturns`, `ConnectIsAnswered` |
| `ChatLines` | 2 clients with 2 lines each | passes: `OneSender`, `NameArrivesFirst` |
| `MessageStack` | 3 byte values, sizes of 2 bytes, bodies up to 8 bytes | passes: `TypeOK`, `HeaderMatchesBody`, `RoundTrip` |

`CHECK_DEADLOCK FALSE` is given where a program may stop: the connection is closed, the bound is
used up, or an uncaught exception ended it.

**Bounds.** Two messages suffice for every race between a send and a write handler (one being
written, one being pushed); three add a queue that is not empty afterwards. Three received
messages are `server_accept`, which lets the client send, and two that can be accepted, rejected, or left over behind a rejected one. Four sockets are one more than the
bound of `AdmissionBound` for a maximum of 1, so exceeding it is possible; they also give up to three
clients at once, so that a loop has a first, a middle and a last element. Two calls of `start()` give a
second outstanding accept and a restart after `stop()`. Three connects give a stale handler a
connection before and after it. Two ticks per second are the least for which whole seconds
round, and an interval of two seconds the least of which a part can have passed. In `LinkChannel` the
server's second message is pushed while its first is written, read, or handled by the other side.
Sizes of two bytes are the least in which byte order matters.

**Fairness.** Weak fairness of handlers: the Asio thread runs what is ready. Weak fairness of a
thread inside a function: it is not stopped there. `WriteHandlers` fair means that a write
completes or fails, so the peer reads or the connection breaks. `User`: the program calls
`update()` in a loop, as `src/Network_server/Main.cpp:102` does, time passes, and a timed wait ends.
`Server`: strong fairness of `check_connections`, because `update` runs it whenever the interval has
passed and no other call can be in progress for ever; the accept handler and the Asio thread go on. `Client`:
a connect succeeds or fails. `Link`: as `Connection`, on both sides, and a read of bytes that
have arrived completes, but it need not fail when there are none.

**Bounded arrivals.** In a run the Asio thread pushes only `MaxItems` items onto a queue. `InOrderIsHandled` does not depend on
that: an item of a queue that is taken from the front has a fixed number of items before it. Of `m_in_queue` nothing like it
is claimed. `update()` takes the last message, at most `max_handled_items` in a call, so with steady arrivals the first one
can wait for ever, and the same goes for the lines of the example server, which calls `update(10, ...)`.

**Refinement.** `IsChannel` maps `given` of `Channel` to the messages given to `send_message` on one
side and `received` to the other side's `m_in_queue`. Queueing a message is `Send`, the handler
that hands a message over is `Receive`, and every other step of the two connections stutters:
handshakes, partial writes, a header without its body, closing and destroying either side.

## 4. What the violated properties show

1. **`ConnectionSslRace`.** `Server::setup_client` sends on the user's thread. If the SSL handshake
   ends at that moment, both threads pass the test of `m_is_writing_message` and start a
   write. The comment at `Connection/Connection.h:76` asks for the Asio thread.
2. **`ConnectionDestroyed`.** `remove_client` destroys a connection while the read of the next header and a write are
   outstanding; their handlers run afterwards.
3. **`ConnectionLeftBehind`.** A message pushed between the last `empty()` of a write handler and
   `m_is_writing_message = false` (`Connection/Connection.h:233-236`) finds the flag set and is left in the queue of an open connection until
   another message is sent. `EverySentIsReceived` of `Link` makes an exception for it (`LeftBehind`); without that it fails.
4. **`UserOrder`.** `in_queue_pop_front` is a `pop_back`.
5. **`UserLostWakeup`.** `notify_wait` does not hold the mutex, so a notification may be missed.
   `UserTimed` shows that with an interval notifications and new connections are handled all the same.

The models show more, each by changing one constant or property of a configuration:

- `ConnectionLeftBehind` with `NoEmptyFront` as an invariant: `send_message` finds its message in the queue, the write handlers
  write and pop it and clear the flag, and `start_writing_message` then goes on to read `front()` of an empty queue
  (`Connection/Connection.h:197-200`). `HandlersFindFront` is what remains true: no other step meets an empty queue.
- `ClientThread` with `ServerDataIsCurrent`: `m_in_queue` survives `disconnect()`; an old
  `server_accept` then announces a connection that the server has not accepted. `CleanConnectIsCurrent` is what
  remains true: a program that empties the queue and connects when nothing is outstanding is told the truth.
- `ClientThread` with `NoHandlerOnDestroyed`: the handlers that `disconnect()` left queued run after
  the next `connect()`.
- `ServerClients` with `ClientLimit`: with a maximum of 1 there can be 2 clients, because
  a socket is in neither container while it becomes a client.
- `ServerClients` and `NextIsAClient` without `~dangling`: a callback that removes the next client leaves
  the loop with an invalid iterator.
- `ServerClients` with `IdModulus = 2` and `IdIsFree`: after the counter has wrapped, an id in use is
  given out again.
- `UserTimed` with `UpdateLimit`: the limit applies to each queue and not to a call.
- `ChatLines` with `"server" \notin fault` as an invariant: because of `UserOrder` the server can take a line before
  the name in front of it, and `on_chat_message` then dereferences the end of `names`.
- `MessageStack` with `PushThrowsOnlyTooLarge`: pushing an empty string throws.

## 5. What is proved

For all values of the constants that satisfy the assumption of the module (`ConnectionAssumption`,
`LinkAssumption`, `UserAssumption`, `ServerAssumption`, `ClientAssumption`, `MessageAssumption`; they give the constants their types, and
`MessageAssumption` says that a `Size_type` can hold the size of every body):

| Theorem | Module | Statement |
|---|---|---|
| `TypeCorrect` | `ConnectionProofs` | `Spec => []TypeOK` |
| `WritingCorrect` | `ConnectionWriteProofs` | `Disciplined` implies `Spec => [](OneWriteAtATime /\ OutboundFifo /\ NothingDropped)` |
| `HandlersHaveFront` | `ConnectionWriteProofs` | `Disciplined` implies `Spec => HandlersFindFront` |
| `FlagIsNotLeftSet` | `ConnectionWriteProofs` | `Disciplined` implies `Spec => []FlagIsHeld` |
| `OnlyAcceptedReachTheUser` | `ConnectionProofs` | `Spec => []AcceptedOnly` |
| `LateMessages` | `ConnectionProofs` | `Spec => []AtMostOneLate` |
| `ReadingInOrder` | `ConnectionProofs` | `Spec => []InboundFifo` |
| `LinkIsChannel` | `LinkProofs` | `Spec => IsChannel` |
| `NoneIsLost` | `LinkProofs` | `Spec => []UndeliveredOnTheWay` |
| `ItemsAreKept` | `UserProofs` | `Spec => [](NothingLost /\ HandledInOrder)` |
| `QueuesAreChannels` | `UserProofs` | `Spec => Fifo(q)!Spec` for every queue `q` but `m_in_queue`: it implements `Channel` |
| `WaitsAreBounded` | `UserProofs` | `Spec => []WaitIsBounded` |
| `ChecksAreMade` | `UserProofs` | `Spec => DueIsChecked` |
| `TypeCorrect` | `UserProofs` | `Spec => []TypeOK` |
| `ThreadEndsWithStop` | `ServerProofs` | `Spec => [](ThreadIsStopped /\ JoinIsFree)` |
| `AcceptsGoOn` | `ServerProofs` | `Spec => []AcceptPerStart` |
| `BansHold` | `ServerProofs` | `Spec => []BannedStaysOut` |
| `IdsAreFree` | `ServerProofs` | `EnoughIds` implies `Spec => []IdIsFree` |
| `AdmissionIsBounded` | `ServerProofs` | `Maxima` has a greatest element implies `Spec => []AdmissionBound` |
| `LoopsReachAll` | `ServerProofs` | `Spec => [](EveryClientReached /\ NextIsAClient)` |
| `TypeCorrect` | `ServerProofs` | `Spec => []TypeOK` |
| `ThreadEndsWithDisconnect` | `ClientProofs` | `Spec => []ThreadIsStopped` |
| `JoinWaitsForNothing` | `ClientProofs` | `Spec => []JoinIsFree` |
| `CleanConnects` | `ClientProofs` | `Spec => []CleanConnectIsCurrent` |
| `TypeCorrect` | `ClientProofs` | `Spec => []TypeOK` |
| `NeverTwoSenders` | `ChatProofs` | `Spec => []OneSender` |
| `NamesArriveFirst` | `ChatProofs` | `Spec => []NameArrivesFirst` |
| `Invariance` | `MessageProofs` | `Spec => []Inv`: the body is the packed items, one behind the other |
| `TypeCorrect` | `MessageProofs` | `Spec => []TypeOK` |
| `HeaderMatches` | `MessageProofs` | `Spec => []HeaderMatchesBody` |
| `RoundTrips` | `MessageProofs` | `Spec => RoundTrip` |

**Connection.** `Disciplined` is: the socket is plain, or sending starts only after `server_accept`. So plain connections, and SSL clients that
wait for `m_on_connected`, put a correct stream out as long as the program runs; the empty queue and the message left behind of section 4 happen to them as
well. An SSL server sends from `setup_client` on and is not covered: `ConnectionSslRace` shows that the condition is needed.

The argument for the writing side: `WriteInv` is the conjunction of `OnlySender` (only one thread
ever starts writes), `WriteTurn` (at most one of: an outstanding write, a thread about to start
one, a handler deciding on the next; `m_is_writing_message` marks it), `WritesFront` (the
outstanding write is of the front of the queue, and the queue holds the last messages sent) and the
correctness of the stream so far together with what comes next. None of the three properties is
inductive alone: that a pop removes a written message needs `WritesFront`, which needs
`WriteTurn`, which needs `OnlySender`. `HandshakeOnce` says that the handshake is started
and ends once, that nothing is read before, and that a client that waits sends nothing before.

`HandlersHaveFront` follows from `WritesFront` and `OnlySender`: when a write completes its message is still the front, and only the user's thread ever
gets to the unguarded `front()` of `start_writing_message`. `FlagIsHeld` says that on a
connection that lives a set `m_is_writing_message` is never forgotten: a write is outstanding, or a thread is about to start one or to clear the flag. So the
only way in which a message is left in the queue of such a connection is the race of `ConnectionLeftBehind`.

For the reading side: a message is validated when its header is read and handed over when its
body is. `BodyAccepted` says that the header whose body is being read still respects the limits;
it is kept because `add_accepted_message` never changes an entry. `LateInv` says that nothing is late
as long as the socket is open or the outstanding read was started on the open socket, so the first
late message is also the last. Both need `TypeOK`. For `ReadingInOrder` the invariant `OrderInv` says
where in the stream the reading is: the first chunk not read yet is the header after the last message handed
over, or the body of the message whose header was read. `InboundFifo` alone does not say that. It also shows that the two
read handlers never read each other's chunk, which the model allows them to do.

**Link.** `LinkIsChannel` combines two copies of `Connection`. Each side has the invariants
above (`ConnectionInv`); `ConnectionStep` condenses a step of one side to what it does to its stream (`WriteEffect`, `ReadEffect`).
`Direction` is the invariant of one direction: the messages in the queue are the last ones given to
`send_message`, the chunks not read yet are the end of the stream, and the chunks read so far are the messages handed over and
perhaps one header. `InStep` says that the next chunk is the part that is read next. The stream is in order by `OutboundFifo`, so the next message to be completed is the next one that was
given: the step is `Receive` of `Channel`. Lemmas about one direction are stated for arbitrary sequences, and used
for both. That the message is accepted is not needed: if it is not, the reading ends.

`NoneIsLost` is the safe half of `EverySentIsReceived`: while a side reads, a message for it that has not reached the `User` is in the
other side's `m_out_queue`, in the stream, or is the one whose header was read. It follows from the same invariant. `NothingDropped` says that the message
is in the queue or was written, and `Growing`, a part of the invariant, that the numbers along the stream never decrease, so a chunk that was read belongs to a message
handed over or to the current one. What fairness adds, and TLC checks, is that a message on the way moves on. No run lists
`UndeliveredOnTheWay`; it holds as an invariant of `LinkChannel`'s instance.

**User.** `QueueInv` follows one queue through the pushes of the Asio thread and the loops: items handled and items queued
are together all that were pushed (`Kept`), and for the queues taken from the front they are in order. From it `QueuesAreChannels` shows that the
notifications and the new connections each implement `Channel`: `given` are the numbers of the items pushed, `received` the items handled,
a `push_back` of either thread is `Send`, a round of the loop is `Receive`, and every other step stutters. The check
of the connections needs `TimeInv`: the time in seconds read before the wait is never ahead of the clock, so the rest
of the interval computed from it is too long by less than a second. `TypeOK` is proved in three parts: the queues
(`QueuesType`, from `QueueInv`), the position of the two threads and the counts of the loops (`ControlInv`), and the clock (`ClockInv`).
That a count never exceeds `max_handled_items` and that no time becomes negative is what has to be shown there.

**Server.** `ThreadInv` says that the thread exists exactly while the flag is not set, outside of `stop()`, and that when `stop()` waits for
it the context is stopped and the flag set. Nothing then keeps the thread: this is the part of `StopReturns` that does not need fairness.
`AcceptInv` counts the accepts, outstanding or in the handler: there is one per call of `start()`. `BanInv` says that
the address of a connection marked as barred is still banned. `IdInv` counts connections: each id given out belongs to one that was
accepted and has left the handler and `m_new_connections`, so ids do not repeat while `m_id_counter` cannot wrap (`EnoughIds`).
`AdmissionInv` bounds what the handler has read: until it decides nothing else is pushed, so a number of clients that is out of date
is short by at most the queue and the connection that is being created. `LoopInv`
says that what the loop has done, what it has still to do and its current client are together all clients. For `TypeOK`,
`HandlerType` adds that the accepts, outstanding or in the handler, are never more than the calls of `start()`; without it the bound on `accepts`
is not kept by the handler's last step. `AcceptPerStart` says that they are equal, but only while the program has not ended.

**Client.** `ThreadInv` adds that the flag stays set while `disconnect` waits for the thread, and that the context is stopped then (`JoinIsFree`, the
part of `DisconnectReturns` that does not need fairness). `CleanInv` says that on a clean
connect every pending connect is the last one, and that the connection, the queued `server_accept` and the server data all come from it. For `TypeOK`, `OpInv` adds that outstanding
operations are numbered from 1: a handler that comes late can then never install connection 0, which stands for none.

**Chat.** `Turns` says that the main thread has nothing to send before the second thread has sent the name. `NameInFront`
carries the order of name and lines from there through the stream to the queue of the server.

**Message.** The theorems hold for any number of values of a byte, any `sizeof(Size_type)` and bodies of any length. There are three layers.
*Sizes*: `Power` is shown to satisfy its recursive equation, and a number is determined by its digits (`DigitsDiffer`) and every sequence
of digits is a number (`DigitsExist`); hence `Decode(Encode(n)) = n` for every size of a body (`EncodeDecode`), and `Decode` is a
number for every sequence of bytes (`DecodeType`), also for bytes that never were a size. *Calls*: one lemma
for each of `push_back_buffer`, the push of a string and both extractions says what becomes of the body and of the size in the header, whether
it throws or not: from a header that matches its body each of them gets to one that does. *Stack*: `IsStack(items, m_body)` says that there is a sequence of bodies, from the empty one to `m_body`, each the one before it
and one packed item. `RoundTrip` needs it, because what comes out after an extraction is what was below. A push adds a body to the sequence,
an extraction of the last item takes one away, and whatever else is left counts as one raw item.

## 6. What is only model-checked

- All liveness properties of the passing runs (`EverySentIsReceived`, `InOrderIsHandled`, `ClosedIsRemoved`, `StopReturns`, `DisconnectReturns`,
  `ConnectIsAnswered`): the prover has no rules for fairness.

For three of them a theorem gives the part that is a safety property: `NoneIsLost` for
`EverySentIsReceived`, and `JoinWaitsForNothing` and `ThreadEndsWithStop` for `DisconnectReturns` and `StopReturns`. The invariants these and `FlagIsNotLeftSet` state
(`FlagIsHeld`, `UndeliveredOnTheWay`, `JoinIsFree`, and `ThreadIsStopped` of `ServerProofs`) are not in a run's list.

Every invariant and every action property of the passing runs is proved, some of them under the condition that the table names.
The few facts about sequences that a module needs are lemmas at its beginning. `MessageProofs` proves by induction what it says about numbers of any size: `SetInduction`
derives induction over a set of numbers from the existence of a least element, and `Recursion` the existence of a function defined by recursion; the library's rules with
an operator as a parameter are not used. `ServerProofs` takes the sizes of finite sets from `FiniteSetTheorems`, in its last section only: up to there, the lemmas
on admission assume `Counting`, the three facts about sizes that they need. In `LinkProofs` what does not speak about a single step of `Connection` comes
before the two copies of `ConnectionWriteProofs`.

## 7. What could be added

- The part of `ConnectIsAnswered` that does not need fairness: it takes a history variable that tells the `connect()` that
  started the thread from one that found it running.
- A `Link` with SSL sockets, whose handshake `Connection` models and `Link` leaves out, and one whose programs accept only
  some ids.
- A composition of `Server` with several `Link`s. The states of `Server` alone are near the bound of what TLC explores in minutes.

## 8. What is not modelled

- **Delegates and callbacks** (`Events/`, `Utility/Delegate.h`): a delegate calls the callback it
  holds. Its effect is part of the action that broadcasts.
- **`Ssl_server`, `Ssl_client`**: certificates and verification belong to OpenSSL. Which socket is
  used is the constant `Ssl`.
- **Records** (`Owned_message`, `Client_information`, `Common.h`): no operations.
- **Example programs**: the text they print, and the client's reaction to a lost connection (its
  `main_loop` never returns, so the code behind it is not reached).
- **`src/Libraries`**: asio and OpenSSL, vendored, which are nearly all of the lines under `src/`. They are
  used through their documented interface and are external here.
- **Undefined behaviour of unlocked containers**: `m_clients.size()`, `m_banned_ip` and
  `m_accepted_messages` are read on the Asio thread while the user's thread changes them. The
  models take the value before or after the change; they do not model a torn read.
- **`m_connection` of `Client`** is assigned on the Asio thread in one step, although the
  user's thread may read it meanwhile.
- **Destructors of `Server` and `Client`**: they call `stop()` and `disconnect()`, which are modelled; what
  happens to the members afterwards is not.
