# A TLA+ verification project for Coconut

Coconut (`src/` in this tree; the library's sources are `src/src/`) is a C++
network framework over libevent: event loops in threads, sockets with
reconnection, controllers that applications derive from, and clients and servers
for HTTP, redis and a few framing protocols. This directory holds TLA+ models of
its concurrent and stateful core, the configurations that TLC checks, and
theorems that TLAPS proves. `PROJECT.json` is the machine-readable index: for
each definition the lines it models, for each property a mutation it must
detect, the findings, and the list of hazards.

## 1. The system: inventory

| Part | State | Operations | What is hard | What makes it correct |
|---|---|---|---|---|
| **Deferred calls** `IOServiceImpl.h`, `LibeventIOServiceImpl.h`, `DeferredCallerImpl.h` | `deferredCallbacks_`, a recursive mutex, a libevent event, `loopExitFlag_` | `deferredCall` from any thread, `fireDeferredEvent` on the loop, `run`, `stop` | wake-up after the unlock, callbacks that defer calls while the vector is iterated over, the mutex held during callbacks | each accepted call runs once, in order; no wake-up is lost; no deadlock |
| **Stream socket** `LibeventTcpSocketImpl.h`, `BaseSocket.cpp`, `dep/kbuffer.c` | `state_`, bufferevent or two events, `errorDetected_`, `expired_`, connection timer, pending-write buffer | `connect`, `write`, `close`, `closeAfterAllSent`, callbacks for connect, read, write, error, timeout | partial sends, failures and timeouts in any state, reconnection with data left over | state, handles and timer agree; bytes arrive in order, once; a graceful close sends everything and happens |
| **Client controller** `ClientController.cpp` | `reconnectable_`, reconnection timer, protocol object | handler calls of the socket, `setReconnectable`, timer | some notifications are deferred, others immediate; `connect` may throw inside the timer | the application's view follows the socket; lost connections come back |
| **Server controller** `ServerController.cpp` | `clients_`, `delay_remove_clients_set_`, `lockClients_`, a timer | accept, close event, delayed removal, deferred removal on the client's thread | two mutexes, two threads, shared ownership | what closes is removed on the right thread and destroyed, nothing else is |
| **Controller events** `BaseControllerEvent.*` | sets of observers per event | register, unregister, fire (direct or deferred) | raw pointers used after the unlock | an observer is called on its own thread |
| **IOService container** `IOServiceContainer.cpp` | list of services, their threads | `initialize`, `run`, `stop` | `stop` by any thread, before, while and after threads are started | `run` returns after `stop`, and only when all loops have ended |
| **Timer** `LibeventTimerImpl.h` | map of ids to libevent timers, a recursive mutex | `setTimer`, `killTimer`, fire | the mutex is held during the handler, which takes others; two timers due in one pass | the handler is called for the last setting of an id, after its time, and not after `killTimer`; nobody waits for ever |
| **Protocols** `FrameProtocol.cpp`, `LineProtocol.cpp`, `StringListProtocol.cpp`, `JSONProtocol.cpp`, `BufferedTransport.cpp`, read loop of `ClientController.cpp` | reading buffer, position, parse state | add to buffer, parse, remaining buffer | packets split anywhere between reads, several in one read | the packets found do not depend on the split, none is held back |
| **Redis client** `RedisRequest.cpp` | hiredis context, state, map of tickets, reserved commands, three timers | `connect`, `command`, `cancel`, hiredis callbacks | reconnection with commands in flight, duplicate tickets, timers left running | each command is answered once |
| **HTTP client** `LibeventHttpClientImpl.h` | five libevent handles, state, parameters, body | `request`, `cancelRequest`, callbacks for pieces and the end, destruction | the connection owns the request; cancellation halfway; failure inside of the start | one outcome per request; handles agree with the state; bodies are not mixed |
| **UDP socket, DNS resolver** `LibeventUdpSocketImpl.h`, `LibeventDNSResolverImpl.h` | event, last sender; map of hosts to queries | `bind`, `close`, `write`, `writeTo` a host name, `resolve`, answers | answers at once, later, after `close`; several addresses | a datagram leaves once at most; nothing outlives its query |
| **HTTP server, fd passing, listener, multipart parser** | | | strings and single system calls | not modelled, see section 5 |

How they interact: every object belongs to an `IOService`, whose thread runs the
libevent loop. Socket and timer callbacks run on that thread under the
`IOService`'s mutex; calls from other threads take the same mutex. Whatever has
to happen on another loop, or later on the same one, goes through
`deferredCall`. A socket tells its controller through `BaseSocket::fire_*`; a
client controller tells the server controller through `eventClosedConnection`,
directly on the server's thread and through a deferred call from any other.

`PROJECT.json` lists every component, the ones that are not modelled too, and the
hazards of the code, each at its line.

## 2. Modules

`DeferredQueue` is the abstract specification: per loop the sequence of the calls
accepted and the sequence of the calls run, the second always a prefix of the
first, extended one call at a time.

`DeferredCaller` models `deferredCall` in its three steps (lock, push and unlock,
trigger) and `fireDeferredEvent` in its steps (lock, loop test, callback, clear
and unlock), for any number of loops and of other threads. The mutex is
recursive: `owner` and `depth`. `active` is libevent's mark that the event is in
the active queue; `DeferredEventCb` clears it before the callback runs, as
libevent does. While a callback runs its thread may defer further calls, to its
own loop and to those that the constant `CrossPost` allows. `Stop` sets
`loopExitFlag_`, `Dispatch_Exit` is the return of `event_base_dispatch`.
`DeferredCallerImpl.h` is the same code with its own vector and mutex.

`TcpSocket` models `LibeventTcpSocketImpl`. `kind`, fixed by the initial state, is
a TCP client, a unix-domain client or an accepted connection. `handle` says whether there is a
bufferevent (`"bev"`: TCP clients), a pair of plain events (`"ev"`: unix-domain
clients and accepted connections) or nothing, `armed` which plain events are
added. `kbuf` is `write_kbuffer_`: the bytes of its chunks, of which a partial send
removes the first ones; each byte knows its place in its chunk. `out` is the
bufferevent's output. Each action is one callback or
one call, which the code serialises by the `IOService`'s mutex. `upcall'` names
the handler call that the step makes. `crashed` is the end of the program: the
error path asks `bev_` for the DNS error of every socket that is Connecting, and a
unix-domain socket, whose read event is added while it connects, has none.
`wire`, `issued`, `owed`, `asked` and `closedBy` are history for the properties.

`ClientController` extends it with what the controller does in the handler call
of the same step (`Handler`), the reconnection timer, and the deferred `onError`
and `onClosed`. `deferred` is the part of the loop's queue that belongs to this
controller; that it is FIFO and loses nothing is what `DeferredCaller` shows. A
notification is deferred in the iteration of the loop in which the previous
handle was freed, so libevent runs it before any event of the new handle
(`Polled`); calls of the application are not bound to that. A program that has
ended stays so (`Terminated`, here and in `RedisRequest`).

`ServerController` models accept in four steps (up to `clients_.insert`, insert,
observer registration, install), close events, and the delayed removal with the
unlock and the relock in the middle. Clients live on any loop. A controller is
alive while one of the sets, a functor in a queue, or a local variable refers to
it (`Held`); the thread whose step drops the last reference destroys it (`Drop`).
That need not be the client's own thread: the clear at the end of the processing
of the removal set can come after the deferred removal has run.

`RedisRequest` models `RedisRequest.cpp`. `command` has four steps on the thread
that calls it: `issueTicket` increments the counter and reads it again, the
context goes into `mapCallback_`, and `_command` is called on the loop's thread
or deferred to it. The callbacks of hiredis and the three timers are one action
each on the loop's thread; `LoopFree` keeps them apart from a `command` on that
thread and from a context that is being freed, during which hiredis answers what
is outstanding with null replies, one action each, and ends with the disconnect
callback or, in `close`, without. hiredis is external: it answers in order and
may lose the connection at any time. The application closes and connects whenever
the code lets it, which tests `redisContext_` and no timer. `sends`, `heard`,
`cancelled` and `overlap` are history; `overlap` says that the application made the
present context while the reconnect timer was running. `assertFailed` is the end of
the program by the assertion of that timer.
Handlers that issue further commands, refusals by `redisAsyncCommandArgv`, the
splitting of a command line into arguments and the conversion of replies are left
out.

`Container` extends `DeferredCaller` by `IOServiceContainer` in thread mode: the
main thread creates one thread per service and joins them in the same order, and
any thread, a callback's too, walks through the services in `stop`, one step
each. A loop whose thread does not exist yet may already be stopped; `run` then
finds `loopExitFlag_` set and returns.

`Timer` models a `LibeventTimerImpl`. A context is named by the `setTimer` that
allocated it; `pending` are the events whose timeout has not passed, `queue` is
libevent's active queue, and `firing` the context that `timer_cb` was given and
has not read yet because `timerLock_` is taken after it (`TimerCb`, `Fire_Repeat`,
`Fire_Single`). Until `Fire_Return` the loop's thread holds `timerLock_`; the
handler may set and kill timers and use a socket, which takes the `IOService`'s
mutex (`service`). Other threads use sockets and the timer: `RemoteOps` says how.
`due`, `fired` and `live` are history.

`Protocols` has the four protocol objects as records and each method as an
operator on them: a byte is a digit, a word of a header has two of them, lines
end with 6, 7 and JSON documents are enclosed by 6 and 7. A document is found as
libjson's `JSONStream` does it, without the counting of brackets and the skipping
of quotes. `processRead` keeps
the buffer, the position and the state of the parser as the code does, including
the bytes that `readInt32` consumes before it throws. `ProtocolReader` puts the
writing controller, a stream or datagrams that may be lost, and the handlers
`onSocket_ReadEvent` (with its loop over the remaining buffer) and
`onSocket_ReadFrom` around them. `before` is the byte in front of the line
buffer that `LineProtocol` reads at index -1, an arbitrary one. `SafeCut` says
where reads may end in the passing run. A loop of the code is `Repeat`: as many
turns (`ReadString`, `JsonWindow`, `ReadTurn`) as there can be, where a turn leaves
alone what is finished. The packets of each kind are constants;
`PacketsAssumption` says that a header's words can describe them, that a line
holds no delimiter and that a document ends with its first closing brace.

`SingleRequest` is the abstract specification of an HTTP client: one request at
a time, pieces of its response, exactly one outcome. `HttpClient` models
`LibeventHttpClientImpl` with one Boolean per handle, the pieces received, the code
and the body of the last response, and where `param_` comes from (a caller may give
parameters or `NULL`); the callbacks of libevent, `request`, `cancelRequest`
(two steps: the handler is called in the middle) and destruction are actions.
`response` is history: which response was the last, and of how many pieces.
`S == INSTANCE SingleRequest WITH ...` maps the state to the stage.

`UdpSocket` models the socket together with its resolver. A datagram to a host
name is refused (a query for the host is under way), answered inside of
`evdns_getaddrinfo`, or queried; the query enters `mapcontext_` in a step of its
own. An answer has no, one or several addresses of which one is picked. `close` and
a second `bind` (which leaks the first event) may come at any time; `failed` is the
end of the program by `assert(ev_)`. The branch of `LibeventDNSResolverImpl.h:149-152`
in which `evdns_getaddrinfo` returns `NULL` without a result leaks the write's
context; libevent returns `NULL` only after it has called back, so the branch is not
an action, and the mutated form of `WriteTo_Immedi` is what it would do.

Definitions with a suffix after an underscore that a comment calls faulty or a
mutation are not part of the models: they are the mutated forms that
`PROJECT.json` pairs with the properties.

`MCDeferredCaller`, `MCContainer`, `MCClient`, `MCServer`, `MCRedis`,
`MCProtocols`, `MCTimer`, `MCHttpClient` and `MCUdpSocket` instantiate the
modules for TLC; the modules that end in `Proofs` hold the theorems of section 4.

## 3. Runs

The type invariant of a module is a conjunct of its main invariant where that is
more than a type (`HandlesMatchState`, `ClientsKept`, `TimersMatchConnection`,
`PacketsIntact`, `EventsMatchMap`, `HandlesMatchRequest`, `ContextsMatchQueries`);
`deferred_self` names it.

| Run | Instance | What it shows |
|---|---|---|
| `deferred_self` | 2 loops, 1 user thread, 3 calls, callbacks defer to their own loop | the mutex is held by exactly who is inside the queue (`CallbacksGuarded`), `NoLostWakeup`, `HoldersNeverWait`, refinement of `DeferredQueue` (`FifoExactlyOnce`), every accepted call runs unless the loop is stopped (`AcceptedCallsRun`), every `deferredCall` returns |
| `container_stop` | 2 services, the main thread, 4 calls; callbacks of one loop also defer to the other; any thread stops the container at any time | `NoDeadlockedSet`; `run` returns after a `stop` (`StopEndsRun`) and not before all loops have ended (`NothingRunsAfterRun`) |
| `client_sockets` | all three kinds of socket, chosen in the initial state; timeout, refused connects, 3 writes of 2 bytes | handles, timer and state agree and only a connecting unix socket can miss its bufferevent, data in the buffer has an event, bytes leave in order and once, a graceful close sends all and happens, the application is told in order, a lost connection comes back |
| `server_remove` | 2 clients on 2 loops, 2 close events each | who is in which set is alive and is removed on its own thread (`ClientsKept`), a closed client's removal is always under way (`RemovalOnItsWay`) and ends (`ClosedClientsAreDestroyed`) |
| `redis_commands` | 3 commands, 2 of them with a timeout of 2 ticks, the loop's thread and one other; the application closes and connects at any time, also while the reconnect timer runs | sent once, answered once, never forgotten; the timers agree with the connection and the reconnect timer's assertion fails only if the application has connected in between; expiry is served; every command is answered or cancelled in the end unless the client is closed again and again |
| `protocol_packets` | frames, lists in frames, lines and JSON, each over a stream and as datagrams that may be lost; 4 packets out of 2 or 3 of each kind, an empty one among them | the handler gets what was written, whole, in order, once (`PacketsIntact`), and nothing is left behind when everything has been read (`NothingHeldBack`) |
| `timer_fire` | 2 ids, 3 settings, the loop's thread and another one | every timer in the map is armed and none else (`EventsMatchMap`), a handler is called for the right setting only (`FiresAsSet`), timers fire, other threads return |
| `http_requests` | 3 requests, with and without parameters, 2 pieces of a response each; answers, failures, timeouts, cancellation and destruction at any time | handles agree with the state, after code 200 the body is that of the last response (`BodyIsWhole`), refinement of `SingleRequest` with its liveness (`ImplementsSingleRequest`) |
| `udp_names` | 2 hosts, 2 senders, 4 datagrams to names; bound, closed and destroyed at any time | map and queries agree, a datagram leaves once at most and its memory goes with its query, every datagram is sent or given up unless an answer after `close` ends the program |

Runs that are expected to end in a violation, each a disagreement between the
code and a line of the repository (see `findings` in `PROJECT.json`):

| Run | Violated | Why |
|---|---|---|
| `client_tcp_pending` | `PendingIsSent` | pending data of a TCP client is never handed to the bufferevent |
| `redis_ticket` | `AnsweredOnce` | two threads get the same ticket |
| `frame_split` | `PacketsIntact` | a read that ends inside a word of a frame's header loses the bytes of that word |

**Cases that the passing runs exclude.** Each is a constant; with the value given
here TLC finds the named property violated, because of what the code does.

| Constant | Value | Violated | What happens |
|---|---|---|---|
| `AnyCut` (`ProtocolReader`) | `TRUE` | `PacketsIntact` | besides `frame_split`: lines cut between `\r` and `\n` or longer than the line buffer, JSON documents followed by bytes in the same read |
| `WriteStates` (`TcpSocket`) | with Connecting, plain events | `WireIsPrefix` | `write` stores the data twice |
| `ExpireStates` | with Connecting, plain events | `GracefulCloseHappens` | the write event is taken for the end of the connect |
| `StartFailures` | with `"no_socket"` | `Reconnects` | a `connect` that throws leaves the state at Connecting |
| `MayOverlap` (`ServerController`) | `TRUE` | `NoClientsRace` | `accept` inserts into `clients_` without the lock; what follows is undefined |
| `TicketRace`, `EarlyCancel` (`RedisRequest`) | `TRUE` | `AnsweredOnce`, `SentOnce` | equal tickets; a command cancelled before its deferred `_command` stays reserved |
| `TtlThreads` | with other threads | `TtlIsServed` | a tick between the start of the timer and the insertion of the context |
| `RemoteOps` (`Timer`) | with `"old"` or `"locked"` | `TimersFire` | the wait of `event_del` for a callback that needs `timerLock_`; the two mutexes in opposite orders |
| `StartResults` (`HttpClient`) | with `"called back"` or `"failed"` | `HandlesMatchRequest` | `state_` is set after a start that has failed |
| `RequestInCanceled` | `TRUE` | `HandlesMatchRequest` | `cancelRequest` resets the state of a request made by the handler |
| `OtherThread` (`UdpSocket`) | `TRUE` | `ContextsMatchQueries` | the answer comes before the query is in the map |
| `CrossPost` (`DeferredCaller`) | both directions | `NoDeadlockedSet` | two loops inside callbacks wait for each other's queue |

**What the code does and no property denies.** These cases are in the models and
in the passing runs; the formula given is not a property because the code violates
it and no line of the repository promises it.

| Formula | Why it is false |
|---|---|
| `~ crashed` (`TcpSocket`) | a read that fails while a unix-domain socket is connecting reaches `LibeventTcpSocketImpl.h:664` with no bufferevent; `HandlesMatchState` says that this is the only way |
| `~ assertFailed` (`RedisRequest`) | the application connects while the reconnect timer runs, and the timer finds a context (`RedisRequest.cpp:388`); `TimersMatchConnection` says that this is the only way |
| a request carries its own parameters only (`HttpClient`) | `param_` is replaced only if the caller gives parameters (`LibeventHttpClientImpl.h:243`; `test/unittest.cpp:149` passes `NULL`): without them those of earlier requests are sent again |
| the body is that of the last response, whatever its code (`HttpClient`) | `responseBody_` is set for code 200 only (`LibeventHttpClientImpl.h:496`) and keeps an earlier body otherwise |
| `~ failed` (`UdpSocket`) | `close` leaves the queries alone, and the answer meets `assert(ev_)` (`LibeventUdpSocketImpl.h:218`) |
| a reconnected socket closes only when asked to again (`TcpSocket`) | `expired_` is never reset (`LibeventTcpSocketImpl.h:508`) |

**Bounds.** Two loops and one other thread suffice for every pair of threads that
meets at a queue, since a call names one queue; three calls allow one to be
pushed during a callback and one between the callback and the clear. Four calls
are needed for two loops to be inside callbacks and post across at the same time:
with mutual cross posts this bound shows the deadlock.
Writes have two bytes so that one can be torn; three of them give a leftover, a
write between two connections and a fresh one. `MaxDeferred` bounds the
notifications that an application which closes again and again may pile up. Two
clients on the two loops give every pairing of client and server thread; a
second close event of a client reaches the server after the first has been dealt
with. Of three commands one can be in flight, one reserved and one deferred at
the same time, and two with a time to live let one expire while the other keeps
the timer; `s_ticket` is bounded by the number of commands. Three settings of
two timers allow one to be set again while both are due. A read of 11 bytes holds
an empty frame and the beginning of the next, or several lines and documents; the
line buffer of 6 and the JSON window of 3 are smaller than a read, as in the code
they are smaller than a long packet; with four packets a stream has packets
before, inside and behind every kind of read. Three requests give one cancelled
halfway, one answered and one repeated; two pieces can be mixed up. Four
datagrams to two hosts give a refused one and queries for both names while
another is answered at once. The runs with `CHECK_DEADLOCK FALSE` end when the
calls, clients, packets, requests or datagrams are used up, the loops have exited or
`assert(ev_)` has ended the program.

**Fairness.** Threads inside `deferredCall` and loops with an active event go on
(weak fairness per thread): the operating system schedules them, and a mutex that
is free is eventually taken. Nobody has to defer a call, to stop a loop or to
close. `Container` adds that the main thread goes on in `run` and a thread in
`stop`. In `ClientController` the loop delivers deferred calls, timers and write
events; strong fairness says that a connect that is attempted again and again
succeeds some time and is then reported: without it a peer that is unreachable
for ever refutes any reconnection. `Reconnects` assumes besides that the
application stops closing the socket. The same holds of the redis client: a server
that can be connected to again and again is connected to at some time, and a
connection that is made again and again answers at some time. `EveryCommandAnswered`
assumes besides that the client is not closed again and again; a closed client is
not connected by itself. In `Timer` time
passes, and a thread that waits for a mutex gets it if it is free again and again
(strong fairness, as other threads may take it in between). In `HttpClient`
libevent ends a request some time, with an answer, an error or the timeout that
the code gives every connection, and `cancelRequest` returns; that a response
has finitely many pieces is `MaxChunks`. In `UdpSocket`
evdns answers every query, with an error after its own timeouts.

## 4. Proofs

Eight modules hold proofs, one per component (`DeferredCallerProofs` has the
container's as well). Each `X` has the assumptions of its
module (`XAssumption`, mostly that `None` is no thread, client or id); what a
theorem needs of the application besides is a hypothesis of that theorem, and
always a case that a run checks, or a wider one.

**`DeferredCallerProofs`**, for all sets of loops, threads and calls:

- `TypeCorrect`, `CallbacksAlwaysGuarded`, `WakeupNeverLost`: three invariants of
  `deferred_self`;
- `DeferredCallsAreFifo`: `Spec => Q!QSpec`, the refinement of `DeferredQueue`;
- `NoHoldAndWait`, for `CrossPost = {}`;
- `DeadlockFree`, for any `CrossPost` without circles (`NoCircle`: the relation
  "posts to" is well founded on the loops).

`TypeInv` strengthens the type invariant by `CallShape`: a thread inside a
`deferredCall` has a destination and an argument. That `depth` stays a natural
number needs `CallbacksGuarded` (whoever unlocks has locked), and
`CallbacksGuarded` needs the types, so the two are one induction (`NextTypeInv`,
`NextGuarded`, combined in `SafetyBase`). `NoLostWakeup` is inductive on top of
it: a push that has not triggered yet counts as a wake-up, and a loop that has
begun to fire scans to the end. For the refinement `QueueInv` relates the vector
and the index to the histories: `callbacks` is `accepted` without what earlier
rounds have run, and `executed` exceeds that by `index`; a push then appends to
`accepted` only, a callback appends to `executed` the next element, and all other
steps stutter. In a deadlocked set every thread that owns a mutex is a loop that
waits inside a callback; of these loops take one that posts to none of the others
(`WFMin`): the loop that it waits for is among them, a contradiction.

**`DeferredCallerProofs`, the container**, for any number of services and any `stop` by any thread:

- `ContainerImplementsServices`: `ContainerSpec => Spec`, so that every theorem
  above holds of the services in a container;
- `RunReturnsLast`: `NothingRunsAfterRun`;
- `ContainerDeadlockFree`: `NoDeadlockedSet`, under `NoCircle`.

`CInv` says that while `run` joins, the threads before its index have ended; a
loop that has exited never comes back.

**`ClientControllerProofs`**, for any number of writes and all kinds of socket,
with or without a timeout, under `Careful`: `connect` fails by being refused only
(other failures leave the state at Connecting), and nobody writes to a connecting
socket on plain events (which stores the data twice):

- `HandlesAlwaysMatchState`, `DataNeverSleeps`, `WireAlwaysPrefix`,
  `GracefulClosesAreComplete`, `AppAlwaysInformed`: the invariants of
  `client_sockets`. The first one confines the missing bufferevent of the error path
  to a connecting unix-domain socket, because an accepted connection is never
  Connecting (in `Handles`) and a TCP client that is has a bufferevent.

`WireIsPrefix` is not inductive. `Stream` says what the buffer has to do with it:
`issued` is `wire` followed by the bytes in the buffer that feeds the connection,
and the buffer ends where a write ends. `Handles` makes "has a handle" and "is not
Disconnected" the same, and says of which kind the handle is; `Ended` that a
connection that exists was not closed, from which a graceful close finds the
buffer empty; `Informed` that a socket with a notification under way is not
connected. The socket's actions are proved once for `SocketInv`; what `Handler`
adds in the same step depends only on which upcall there was and on whether the
socket is connected before and after (`Seen`).

**`ServerControllerProofs`**, for any clients, loops and close events, with accept
overlapping a removal or not (as long as the set survives the race):

- `ClientsAlwaysKept`, `RemovalAlwaysOnItsWay`.

`SInv` adds what the server's thread has in its hands (`PhaseOK`), the order of a
client's life (`LifeOK`: loop, observed, installed, closed) and that whoever is in
the delay set, among the notes or in a queue has closed (`ClosedOK`). A destroyed
client is not held because every step that could hold one begins with a client
that is held already. The clear at the end of the processing loses no removal:
the timer is off until then (in `PhaseOK`), so nobody has entered the delay set
since `todo` was taken from it.

**`TimerProofs`**, for any ids, threads and settings, and whatever other threads do
with the timer (all values of `RemoteOps`, also those that deadlock):

- `EventsAlwaysMatchMap`: the invariant of `timer_fire`;
- `TimersFireAsSet`: its action property, `Spec => FiresAsSet`.

`TInv` says that the contexts that are not freed are those in the map, each under
its id and with a setting of its own (`MapOK`), that an active event is due and one
that does not repeat has not fired (`DueOK`), and who holds `timerLock_`
(`LockOK`). The context that `timer_cb` was given is neither freed nor set again
while the callback waits for `timerLock_`: whoever wants to do so waits in
`event_del` for this very callback, with the lock held. So the look-up under the
lock finds the setting that became due, and `RemoteOps` can cost progress only.

**`RedisRequestProofs`**, for any commands, threads and time to live:

- `HandlersNotForgotten` and `TimersAlwaysMatchConnection`, whatever the application
  does. The second says that the reconnect timer runs next to a context only if the
  application made that context while the timer was running, and that its assertion
  fails in that case only;
- `TtlAlwaysServed`, if commands with a timeout come from the loop's thread;
- `HandlersAnsweredOnce`, if one thread at a time is inside `issueTicket`;
- `CommandsSentOnce`, under both and if `cancel` comes after the deferred
  `_command` (`Orderly`). Each of the three is needed: TLC refutes `SentOnce`
  without it.

The inductive invariant has four layers, one per assumption. `Base` relates the
map and the three queues: an entry is its command's ticket with the command, and
has left `command`; what is registered and has left waits somewhere. `Unique` adds
that tickets differ, also from the one that is about to be read, and that what is
registered has heard nothing. `Once` explains why the reserved commands may be
sent without emptying the list: what is reserved is registered and is either
unsent or at hiredis, so that the answer that takes it out of the one takes it
out of the other. `Unreserve` removes entries by a recursive function; what it
leaves is proved by induction over the natural numbers, which the provers do from
the library's `WFMin` (lemma `Least`).

**`HttpClientProofs`**, for any number of requests and of pieces, under `Orderly`
(every start succeeds, the handler of Canceled makes no request: the case of
`http_requests`):

- `HandlesAlwaysMatch`, `BodiesAreWhole`: the two invariants of the run;
- `OneOutcomeEach`: the safety part of the refinement of `SingleRequest`.

The inductive invariant `HInv` adds to the invariants that the client is in one
of two phases: quiet, with no handle and no request of libevent, or busy, with
all of them. `BodyIsWhole` alone is not inductive: the pieces are labelled with
libevent's request, so that a new request finds the buffer empty has to come from
the phase. Every callback needs libevent's request and so maps to a step of a
busy `SingleRequest`; the second half of `cancelRequest` is a stutter.

**`UdpSocketProofs`**, for any hosts, peers and number of datagrams, under
`Orderly` (`writeTo` on the loop's thread: the case of `udp_names`), with `close` at
any time:

- `ContextsAlwaysMatch`, `DatagramsLeaveOnce`.

The inductive invariant `UInv` adds: the query that is not in the map yet is
under way and its host is free (`ResolvingOK`), a query belongs to a datagram
that was written and has a host (`QueriesOK`), what was sent is
not queried any more (`SentOK`), and memory is kept exactly for the queries
(`MemoryOK`). A datagram answered once is therefore in no query, and a new one
has a number that no datagram sent before has.

**`ProtocolReaderProofs`**, for any packets that `PacketsAssumption` admits, any
number of them, any sizes of a read, of the line buffer and of the JSON window,
and all eight channels, under `Orderly`:

- `ObjectsHoldTheRest`: the inductive invariant `Inv`;
- `PacketsStayIntact`: `PacketsIntact`, the invariant that `frame_split` refutes
  without the condition;
- `EverythingIsDelivered`: `NothingHeldBack`.

`Orderly` is what the passing run assumes. Reads of a stream end where `SafeCut`
allows it: a read that ends inside a word of a header loses bytes (`frame_split`),
and the other parsers have such places too (the table in section 3). A line sent
as a datagram fits into the line buffer with its delimiter: `onSocket_ReadFrom`
calls `processRead` once, which looks at one buffer only. Nothing is asked of
frames, lists and documents, of datagrams that are lost, or of the byte in front of
the line buffer.

Neither property is inductive: both speak of what was delivered and not of what is
half read. `Inv` says for a stream (`Streaming`) that the wire is the end of what was
written, and that the object in front of the loop holds exactly the bytes between
the packets delivered and the wire (`Held`), fewer than the next packet has
(`Partial`), with its position, words and text where the parser of its kind leaves
them after these bytes (`Clean`, `Drained`). For datagrams (`Sending`) the wire has
one datagram for each packet that is due and not delivered, in order, and the
object starts afresh. `NothingHeldBack` follows because an empty wire leaves the
object fewer bytes than a packet where only whole packets are missing.

The argument goes from the bytes up. `LaidOut` says where each packet lies in what
was written. `ParseOne` is proved for each kind of its own: if the buffer begins
with the bytes of a packet and ends at a place that `SafeCut` admits (`Fit`), `processRead` completes exactly when all of the packet
is there, delivers it, and what remains is what follows it; for frames word by word,
for a list string by string, for lines by the first line feed, for documents window
by window. `LoopSettles` puts the turns of the read loop together: each turn that
goes on leaves fewer bytes, so `Len(buf)` turns reach the end, and the object is
settled then. The three loops are recursive functions over turns; what they compute
is shown by induction on the number of turns, from the library's `WFMin` (`Least`,
`UpTo`), since an induction theorem with an operator as its parameter cannot be
used. The inductive invariant was checked by TLC on the instance of
`protocol_packets` before it was proved.

**Model-checked only.** Liveness (`AcceptedCallsRun`, `DeferredCallReturns`,
`StopEndsRun`, `Reconnects`, `GracefulCloseHappens`, `ClosedClientsAreDestroyed`,
`EveryCommandAnswered`, `TimersFire`, `OthersReturn`, `NamedWritesEnd` and the
liveness of `SingleRequest`), which is beyond the prover. Every invariant of the
passing runs is stated by a theorem.

## 5. What is not modelled

- Third-party code (`3rdParty/`, with libjson the largest part of the
  repository, and `dep/MPFDParser`) but for the search of `JSONStream`: vendored, with string processing as its
  subject. It is about half of the lines of C++ here.
- The HTTP server: evhttp serves one request after the other on the loop's
  thread; what the code adds is dispatch by path and the parsing of bodies.
  Passing of file descriptors, the listener (its accept callback is `Accept` of
  `ServerController`), logging, addresses, object allocators, Windows code.
- Controller events other than the one the server observes, and the race of
  `fireObservers` with the destruction of an observer (`BaseControllerEvent.cpp:112`).
- Life times: destruction of services (`finalize` joins a thread and may do so on
  that thread, `IOServiceImpl.h:162`), of a timer by its own handler, of a client
  on the server's thread (`ServerController.cpp:87`); `thread_`, which is assigned
  after the thread has started (`IOServiceImpl.h:114`); a vector that is
  reallocated while one of its functors runs (`IOServiceImpl.h:180`).
- Sockets: a `write` before the first `connect` (null buffer) and
  `closeAfterAllSent` on a closed socket (null events, `LibeventTcpSocketImpl.h:453`)
  are excluded by guards; `setReconnectable` on another thread
  (`ClientController.cpp:65`). The `IOService`'s mutex makes socket operations
  atomic here.
- Redis: handlers that issue further commands (`RedisRequest.cpp:345`), the look-up
  of a null reply's handler, which takes no lock (341) and is atomic here, the order of its two locks (149), conversion of replies.
- HTTP client: headers and their layout, response headers, which are never cleared
  (`LibeventHttpClientImpl.h:445`), calls from other threads against callbacks that
  take no lock (513).
- UDP: `connect`, failures of `bind` and of `recvfrom`, the memory of datagrams
  that wait when the resolver is cleaned up (`LibeventDNSResolverImpl.h:102`); frames
  that are longer than a datagram (`FrameProtocol.cpp:117`).
- Container: the mode without threads, round robin, `finalize`. Protocols: chains of
  parent protocols other than a list inside a frame; the grammar of JSON, nested
  brackets and quotes in particular.

## 6. Plan

1. Proofs: an abstract specification that `RedisRequest` implements; the conditions
   of `HttpClientProofs` and `UdpSocketProofs` split as those of the redis client
   are.
2. Controller events: registration and destruction of observers.
3. Redis client: commands from inside a handler.
4. Container: `finalize` and the mode without threads; HTTP server: dispatch.
