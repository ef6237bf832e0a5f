# TLA+ specifications of the Asio server/client example

The repository builds two demo programs, a TCP server (`src/Service`) and a TCP
client (`src/Client`), and their TLS variants, on a stack of layers: adapters
(`src/NetworkIf`), an interface runtime (`src/IfRuntime`), timers
(`src/PlatformInterface`) and, below them, the asynchronous clients, servers
and sessions of `src/modules/cppcommon/.../asiowrapper`. This directory holds
TLA+ models of that stack, TLC configurations that check them on small
instances, and TLAPS proofs for every size.

All paths below are relative to `src/`; `asio/` stands for
`modules/cppcommon/src/asiowrapper/`.

## 1. Inventory

### How the program runs

`IfRuntime` (`IfRuntime/src/IfRuntime.cpp`) makes one `Service` with half as
many threads as the machine has, without a pool: every thread has an
`io_service` of its own, and `GetAsioService` hands them out in turn. A client,
server, session or timer keeps the `io_service` it was given; its handlers are
posted there and run one at a time, in the order they were posted. There are no
strands in this configuration. Application threads (`main`, and whatever calls
an adapter) call the API directly. Calls and handlers share members, most of
them plain or atomic variables without a common lock: that is where everything
hard happens.

### Components

| Component | State | Operations | Talks to |
|---|---|---|---|
| TCP client (`asio/tcp_client.cpp`) | `_connecting`, `_connected`, socket, `_receiving`, `_sending`, the double send buffer (`main`, `flush`, offset) and its counters, the receive buffer | connect, disconnect, reconnect, send, receive, each in a synchronous and an asynchronous form, some with a timeout | its `io_service`, the socket, the callbacks of the adapter |
| TCP adapter and Client application (`NetworkIf/TCP`, `Client`) | address, port and their validity flags, the `stop` flag | `setSUTAddress`, `setSUTPort`, `connect`, `DisconnectAndStop`, the callbacks; `onConnected` starts the receive loop | TCP client |
| TCP server (`asio/tcp_server.cpp`, `NetworkIf/TCPSERVER`, `Service`) | `_started`, the acceptor, `_session` (the one being accepted), `_sessions` under a lock, statistics | start, stop, restart, multicast, disconnect all | sessions, its `io_service` |
| TCP session (`asio/tcp_session.cpp`) | as the client, plus `_server` | connect (by the server's thread), disconnect, send, receive | server (registration, statistics), its own `io_service` |
| Service (`asio/service.cpp`), IfRuntime | `_started`, `_polling`, the `io_service`s and threads, the round-robin index | start, stop, restart, the thread loop | everything that posts |
| Timers (`asio/timer.cpp`, `PlatformInterface`) | expiry time, outstanding waits; `state`, `tmOutFlag`; the manager's list | create, start, stop, wait, kill all | its `io_service` |
| UDP client (`asio/udp_client.cpp`, `NetworkIf/UDP`) | as the TCP client, with endpoints and multicast groups | as the TCP client | its `io_service` |
| TLS client, server and sessions (`asio/ssl_*.cpp`, `NetworkIf/TLS*`) | as TCP, plus `_handshaking`, `_handshaked` and a socket that is replaced | as TCP, with a handshake after connecting and a shutdown before | as TCP, OpenSSL |
| UDP server, resolvers | | | used by no program of the repository |
| CppCommon, asio, fmt, spdlog, rapidjson, openv2g | | | general-purpose or vendored code |

### What is hard, and what makes each component correct

*TCP client.* `SendAsync` runs on any thread, the flush of the buffers on the
io thread, and a wake-up between them is skipped on purpose when both buffers
are in use. Writes may be partial; a disconnection aborts operations whose
handlers run later, perhaps under the next connection. Correct means: the peer
receives a gapless run of what was accepted, in order; nothing accepted on a
live connection is left lying; the receive loop lives as long as the
connection; handlers that outlive their connection do no harm; the counters are
right; calls that wait return.

*TCP server and sessions.* `Stop` and `Start` handlers, accepts that were
aborted or had already succeeded, and the handlers of sessions on other threads
meet in any order. Correct means: one accept at a time, on `_session`; a
started server always accepts; `_sessions` and the sessions' flags agree except
while an unregistration is on its way; stopping reaches every session; no
session is connected without a server.

*Service.* Only the first `io_service` runs the handler that sets `_started`,
while every polling thread looks at the flag; `Stop` asserts what that handler
may not have done yet. Correct means: started threads keep serving until `Stop`,
and `Stop` returns.

*Timers.* State and flag are set by the io thread and by callers, without a
lock, and the handler of a cancelled wait arrives after the timer was started
again. Correct means: at most one wait, a running timer runs, a timeout that is
reported happened, and waiting ends.

*UDP and TLS clients.* The same shape as the TCP client, with a receive that is
re-armed from two callbacks (UDP) and a handshake and a replaced socket between
connection and use (TLS).

`PROJECT.json` lists every hazard with its line and the properties that cover it.

## 2. Modules

| Module | Models | Kind |
|---|---|---|
| `TCPClient` | TCP client (asynchronous operations), adapter, Client application | detailed specification |
| `SendChannel` | what `SendAsync` promises | abstract specification |
| `MCTCPClient` | constants for TLC | |
| `TCPClientProofs` | theorems about the send path and the receive path of `TCPClient` | proofs |
| `TCPClientRefinement` | `TCPClient` implements `SendChannel` | proofs |
| `TCPServer`, `MCTCPServer` | TCP server, registration and connection of its sessions | detailed specification |
| `TCPServerProofs` | theorems about `TCPServer` | proofs |
| `PATimer`, `MCPATimer` | a timer with all its calls | detailed specification |
| `PATimerProofs` | theorems about `PATimer` | proofs |
| `Service`, `MCService` | the service: start, stop, restart, the working threads; `IfRuntime` | detailed specification |
| `ServiceProofs` | theorems about `Service` | proofs |
| `SSLClient`, `MCSSLClient` | the asynchronous life of a TLS connection; `TLSAdapter` | detailed specification |
| `SSLClientProofs` | theorems about `SSLClient` | proofs |
| `TimedTransfer`, `MCTimedTransfer` | `Send` and `Receive` with a timeout | detailed specification, over an abstract connection |
| `TimedTransferProofs` | theorems about `TimedTransfer` | proofs |
| `UDPClient`, `MCUDPClient` | UDP client and `EVCCUdpClient` | detailed specification |
| `UDPClientProofs` | theorems about `UDPClient` | proofs |

How they fit together: `Service` is the layer below all others. It shows when
the handlers of an `io_service` are run; the other modules take a FIFO that one
thread serves for granted, which `Served` justifies and `StartServes` limits.
`TimedTransfer` adds to `TCPClient` a kind of call that would multiply its
states; it keeps of the connection what these calls can see: whether it is up
and whether the receive loop's read is outstanding.

### Conventions

A call or handler that no other thread can see half done is one action. Where
another thread can act in between (between a test and a post, before a lock is
taken, between two assignments to variables both sides use) it is split:
`todo[t]` holds the steps thread `t` still has to take and each step is an
action. `queue` is the FIFO of handlers of an `io_service`; closing a socket,
an acceptor or a timer queues the handlers of its outstanding operations with
an error at once, as asio does.

### TCPClient

* `connected` … `bytesSending`, `rbuf` are the members of the same names.
  `sock`, `reads` and `writes` are the socket: its state, how many reads are
  outstanding, and the data of each outstanding write. `wire`, `peerSent`,
  `taken`, `peerClosed` are the peer. `got`, `issued`, `orphans`, `epoch` and
  `raced` record history for the properties and guard nothing but the bounds.
* Data is a sequence of *units*, numbered in the order `SendAsync` accepts
  them, so that loss, duplication and reordering are visible. A write may
  transfer any positive number of them; a read transfers one, the next.
* Each API call starts with its early returns (`ConnectAsync`, `SendAsync`, …)
  and goes on with the steps it queues in `todo`: `Post` posts the handler,
  `AppendMain` is the locked part of `SendAsync`, `AwaitDisconnected` the
  spinning wait of `ReconnectAsync` and `DisconnectAndStop`.
* `ConnectHandler`, `AsyncConnectHandler`, `SetConnected`,
  `DisconnectHandler`, `SendHandler`, `AsyncReceiveHandler`,
  `AsyncWriteHandler`, `TryReceive`, `TrySend`, `Disconnect` and `ClearBuffers`
  are the functions of those names in the code.
* `ReceiveAsync` tests `_receiving` and `_connected` on the application's thread
  and begins its read in a later step, `StartRead`, as nothing keeps the io thread
  from acting in between. `raced` becomes true when the test does not hold any
  more when the read begins.
* The application is the repository's own: `onConnected` starts the receive
  loop, the other callbacks call nothing back. Connecting with an invalid
  address, options, statistics other than the pending and sending counters,
  and the growth of the receive buffer are left out.

### SendChannel

A channel that is up or down, a buffer, and what was delivered on this
connection: `Accept`, `Deliver` a prefix of the buffer, `Open`, `Close`, `Drop`.
`TCPClient` implements it with the buffer being what no write has taken from
the flush buffer yet, followed by the main buffer. Two things in it are easily
overlooked: data may be accepted while the channel is down, and that data
survives into the next connection.

### TCPServer

* `started`, `sessions`, `connected` are `_started`, `_sessions` and the
  sessions' `_connected`; `created` is `_session`, the last session created;
  `accepts` and `reading` are outstanding operations; `detached` holds the
  sessions whose `_server` was reset; `stopping` the steps left of the handler
  of `Stop`, the only handler other threads can watch at work.
* Sessions are spread over io threads as `GetAsioService` does, so that some
  share the server's thread, where a dispatched handler is a plain call.
* `AcceptedHandler` registers and connects *the session `_session` denotes
  then*, as the code does, not the one the accept was started for.
* Left out: the data path of the sessions, `Multicast`, statistics, socket
  options, and exceptions of `bind` and `listen`.

### PATimer

* `state`, `tmOutFlag` are the atomics; `waits` the outstanding `async_wait`s,
  `queue` their handlers. Every assignment to an atomic is a step.
* Setting an expiry time cancels the outstanding waits, as asio documents.
* `FreshStates` is what the uninitialised `state` of a new timer may hold. The
  runs leave out the value of `EXECUTE`: a fresh timer that happened to hold it
  could not be started at all, whatever else the code does.
* Left out: the manager's list, `WaitSync`, the action function of `Timer`
  (which no `PATimer` sets), and the callbacks in `funcList`.

### Service

* `started` is `_started`, set and cleared by handlers on `io_service` 0;
  `halted` holds the `io_service`s that were stopped; `thread[k]` is where the
  loop of working thread `k` is: begun, serving (inside `poll` or `run`),
  testing `IsStarted`, in the middle of the stop handler, exited, or not there.
* `todo` are the steps left of the owner's call: `StopSteps`, `RestartSteps`
  and `DestroySteps` are the bodies of `Stop`, `Restart` and `~IfRuntime`.
  `Stop` refuses by its test of `IsStarted`, so what a call does is fixed when
  it begins.
* A handler of the application (`Work`) returns, throws `not_connected`, which
  the loop skips, or, with `ErrorsThrown`, throws something that ends the
  thread. `Hasty` lets the owner call without waiting for `IsStarted`.
* Left out: the thread-pool design and strands, which no program here uses;
  `onIdle` and the thread callbacks; the round-robin index, which is
  `ThreadOf` in the modules of clients and servers.

### SSLClient

* A client owns an `Impl` and replaces it, in `onReset`, whenever a connection
  ends. Impls are numbered; every flag is the set of Impls that have it, and
  `linked` holds those with a `_client`. Replaced Impls live on as long as a
  handler refers to them.
* `GetAsioService` deals the threads out in turn, so successive Impls run on
  different threads: `queue[t]` and `rest[t]` are the handlers of thread `t`
  and the steps its running handler has left.
* The application calls at any time, as `ClientTLS/src/main.cpp` does, and knows
  nothing of the handshake (`TLSAdapter` forwards no `onHandshaked`). A call loads
  `_pimpl`, makes its tests, and posts its handler in a later step (`ConnectAsync`
  and `PostConnect`, `DisconnectAsync` and `PostDisconnect`), so that the Impl may
  be replaced, or its state change, in between. `ReconnectAsync` and
  `DisconnectAndStop` go on to wait (`AwaitAndConnect`, `AwaitStopped`).
* The handlers that connect are split before they change a flag the tests look at
  (`StartConnect`, `SetConnected`, `BeginHandshake`), and `Disconnect` into
  `Reset`, `ClearFlags`, `TellDisconnected` and `Unlink`.
* `told` is what the application was told about each Impl and `used` how often each
  stream was used for a handshake. Two variables record what the application did
  that the class does not cope with: `refused` holds the Impls that a refused
  disconnect has unlinked, and `overtaken` is true once a connect was posted although
  an earlier one had begun since its test.
* Left out: sending, whose code is `TCPClient`'s; `ReceiveAsync` called by the
  application (`ClientTLS/src/main.cpp:71`), whose race is `TCPClient`'s too;
  synchronous operations; what OpenSSL does inside a handshake or a read.

### TimedTransfer

* A call starts its timer (`StartTimer`) and then its transfer (`StartTransfer`), as
  the code does; the timer may expire, and its handler run, between the two.
* `done`, `error` and `size` are the local variables of a call which its two
  handlers use by reference; `armed` and `transfers` are the outstanding
  operations; `Signal` is `async_done_handler`.
* The handler of a transfer takes two steps, as the store of the size follows
  the signal: `TransferHandler`, then `StoreSize`. If the call has returned by
  then the store goes to a dead variable, or to the one of a later call.
* The receive loop is one read and its handler. `dropped` records why the
  connection was taken down.

### UDPClient

* Application and io thread run the class at the same time without a lock, so
  each of them has a `todo` and every statement on shared members is a step.
  `Teardown` is `Disconnect`, which either thread may run.
* A datagram is whole or of size 0: a peer may send an empty one, and one whose buffer
  is emptied under it goes out empty. `onReceived` is called, and so the receive
  re-armed, for one that is not empty.
* `Registered`: whether the application has set a callback for disconnection,
  in which case `onDisconnected` sets `_stop`.
* Two variables record history: `listening`, that the receive loop of this connection
  was begun and not ended by an empty datagram; and `settled`, that each `start` so far
  found nothing of an earlier connection left on the io thread, which the class neither
  ensures nor lets the application know.
* Left out: synchronous and timed transfers, multicast groups, the resolver, and
  exceptions of `make_address` and `bind` in `Connect`.

## 3. Runs

| Run | Question | Bounds | Distinct states | Result |
|---|---|---|---|---|
| `client_send` | Is the send path right with two threads making every call? | 2 connections, 2 units, no data from the peer, calls start while no handler is queued | 3.6 M | holds |
| `client_receive` | Does the receive loop survive, does data arrive? | 1 thread that makes every call but `DisconnectAndStop`, 2 connections, 2 units each way, calls start while no handler is queued | 0.85 M | holds |
| `client_stop` | Does `DisconnectAndStop` return? | 1 connection, 1 unit | | `StopReturns` violated |
| `server` | Is the server right with one thread that calls it? | 4 calls, 2 accepts that end by themselves, 2 io threads | 0.37 M | holds |
| `server_stop` | Is stopping safe? | 2 calls, 1 accept | | `StopIsSafe` violated |
| `timer` | Is a timer right with one thread that uses it? | 4 waits | 5 k | holds |
| `service` | Does a service start, serve and stop as it should? | 3 threads, 4 calls, 2 posted handlers, both modes | 32 k | holds |
| `service_start` | Does a service that was started serve? | 2 threads, 1 call | | `StartServes` violated |
| `ssl` | Is a TLS connection made, kept and ended as it should? | 3 calls at any time, 2 threads, up to 4 Impls | 50 k | holds |
| `timed` | Do timed calls return, with the right result? | 2 threads with 2 calls each, 1 connection | 245 k | holds |
| `timed_drop` | Do they leave a healthy connection alone? | 1 call | | `DropsOnError` violated |
| `udp` | Does the receive of the UDP client neither die nor double? | 2 starts at any time, no callback for disconnection | 0.96 M | holds |

*Why the bounds are enough.* The bugs these runs are about need two of
something: a second connection, for handlers and data that outlive the first; a
second unit, so that a write can be partial, a buffer can be non-empty while
the other is, and an order exists; a second thread, for races between calls; a
second session on another io thread. `MaxQueue` bounds only when a *call* may
start; handlers post and complete without a bound. Four waits let a timer
be started, stopped and restarted with two stale handlers still queued. In
`server`, four calls allow start, stop, start and stop again, or three restarts.
In `service`, three threads give the first thread, which alone runs the handlers
of start and stop, two others that differ only by what they have left to do. In
`ssl`, three calls suffice for a connect that overtakes another, a disconnect that is
refused, and a replaced Impl that still gets handlers; its invariants also hold with
four calls (1.06 M states), which bring the first thread back while handlers of its
first Impl may be queued, as do the three invariants of `client_receive` when a call
may start with one handler queued (`MaxQueue = 2`). In `timed`, two callers
abort each other, and a second call of each meets the late handlers of the
first. In `udp`, the second start meets handlers of the first connection, whether or
not it waits for them.
The proofs of section 4 remove the bounds for every safety property of the
passing runs.

*Deadlock* is not checked: a client with no call under way, a stopped server
and a timer nobody uses are at rest, and the bounds end runs too. Calls that
hang are found by liveness instead.

*Fairness.* Weak fairness of each io thread: a thread inside
`io_service::run` or `poll` takes the handlers that are queued. Weak fairness of
each thread that is inside a call: it takes its steps whenever it can; a
spinning wait steps only when its condition holds. Starting a call is never
fair. Of the environment, `TCPClient` assumes that an attempt to connect
ends, that a read with data to return ends and that a write ends; `PATimer`
that time passes; `TCPServer` nothing: clients may stay silent for ever.
`TimedTransfer` assumes that time passes but not that a transfer ends: a call
returns because the handler of its timer cancels the transfer, if that has started
(otherwise it may wait for ever, see `TimeoutReturns` below). `SSLClient` assumes
nothing of the network or the server, and `Service` only that its threads run.
`UDPClient` has no liveness property: nothing obliges a datagram to arrive.

### What the runs show

*Hold.* `WriteBufferStable`: nothing touches the flush buffer while a write of
it is outstanding. `BytesSendingExact`: `_bytes_sending`, an unsigned number
decreased by every completed write, never wraps. `NoLostWakeup`,
`AcceptedIsSent`: skipping the wake-up in `SendAsync` is sound.
`StaleOnlyWhenDisconnected`: `ConnectAsync` is *posted*, so the handlers a
disconnection aborted run before the next connection is made; a client that
connected without going through the queue would break this (mutant
`ConnectHandlerSync`), and the synchronous `Reconnect` is of that kind.
`ReadLoopAlive`, `ReceivedInOrder`, `SentIsReceived`: the receive loop, with
`ReceiveAsync` called beside it.
`ImplementsSendChannel`: the refinement. For the server: `OneAccept`,
`KeepsAccepting`, `SessionsAreAlive`, `ClientIsWatched`, `StopReachesSessions`,
`StopEmptiesServer`, `CallsReturn`; the order of the four statements in the
handler of `Stop` matters for three of them. For the timer: `OneWait`,
`RunningIsRunning`, `CallsReturn`. For the service: `StoppedIsQuiet`, `Served`,
`CallsReturn`.

For the TLS client, called at any time: `ReadLoopAlive` whatever happens; `NoOrphan`
until a connect is overtaken; `AppKnows` and `FreshStream` for the Impls no refused
disconnect has unlinked. They depend on the order of the steps of `Disconnect`.
`DisconnectEnds` and `CallsReturn` say the most that is true of ending a connection:
a disconnect that was accepted ends it *or is refused when its handler runs*, and a
call returns *unless a disconnect was refused and the connection stays up*.
`SSLInv`, the inductive invariant, is checked too.

For timed calls: `TwoHandlers`, the books of a call: of the operations it has started
so far, each has run its handler, has it queued or is outstanding, so no handler
outlives the call whose variables it uses; `SuccessTellsSize` although the size is
stored after the signal, because a call that succeeds still waits for the handler of
its cancelled timer, which the same thread runs later; `CallsReturn`: a call returns
unless its timer's handler has run before its transfer was started.

For the UDP client: `ReceiveLoopAlive`, unless an empty datagram ends the loop, and
`OneReceive`, both as long as each `start` finds the io thread done with what was
before; the first one always does.

*The receive path and `raced`.* `Client/src/main.cpp:71` calls `ReceiveAsync` while
the receive loop runs. Mostly it is refused or takes the loop's turn; but its test
and its read are not atomic, and when the test is stale by the time of the read, two
reads share one buffer (`AlwaysInOrder`), or a read is begun on a connection that is
ending and its handler comes when it should not. `ReadLoopAlive`, `ReceivedInOrder` and
`StaleOnlyWhenDisconnected` say that this is the only way to break the receive path.
The handlers of writes are harmless in any case (`StaleWriteOnlyWhenDisconnected`).

*Are violated* (each is a finding in `PROJECT.json`, with the line it concerns):

1. `StopReturns`: `DisconnectAndStop` during a connection attempt spins for as
   long as the peer keeps the connection.
2. `StopIsSafe`: an accept that succeeded just before `Stop` crashes the server.
3. `StartServes`: in polling mode a working thread ends at start-up if it looks
   at `IsStarted` before the first thread has set it, and nothing serves its
   `io_service`. `IfRuntime` starts its service in this mode.
4. `DropsOnError`: a timed `Send` or `Receive` aborts the read of the receive
   loop even if it succeeds, and the client disconnects.

*Are stated but not provided by the code.* These definitions are in the
modules with their comments; they are not part of a run, or hold only with the
constants of their run. Several are the plain form of a property that a run checks
with the exception it needs. Checked with the configuration named here, each has a
counterexample.

| Property | Where | What happens |
|---|---|---|
| `TCPClient!BytesPendingExact` | `TCPClient_send.cfg` | data appended after a disconnection cleared the buffers is kept, but the next connection starts to count at 0 |
| `TCPClient!AlwaysInOrder` | `TCPClient_receive.cfg` | `ReceiveAsync`, as `Client/src/main.cpp:71` calls it, begins its read although the loop has begun one since its test: two reads share one buffer |
| `TCPServer!OneAccept` | `TCPServer_life.cfg` with two `Users` | a delayed `Start` leads to two accepts on one `_session` |
| `PATimer!TimeoutIsReal` | `PATimer_one.cfg` | a stopped timer reports a timeout |
| `PATimer!CallsReturn` | `PATimer_one.cfg` with two `Users` | `wait_timeout` misses the state it polls for |
| `SSLClient!EndIsTold` | `SSLClient_calls.cfg` | a refused `DisconnectAsync` unlinks the client before it is told |
| `SSLClient!StopReturns` | `SSLClient_calls.cfg` | `DisconnectAndStop` during the handshake (`ClientTLS/src/main.cpp:85` calls it at any time) is refused (`asio/ssl_client.cpp:628`) and then spins on `IsConnected` (`NetworkIf/TLS/include/TLSAdapter.h:52`) for as long as the server keeps the connection: the TLS twin of finding 1, although "Press Enter to stop the client" (`ClientTLS/src/main.cpp:55`) |
| `SSLClient!AcceptedEnds` | `SSLClient_calls.cfg` | a disconnect accepted before the handshake is refused when its handler runs during it |
| `Service!NeverTerminates` | `Service_life.cfg` with `Hasty = TRUE` | a `Start` called before an earlier one has taken effect, perhaps after a `Stop` that was refused for that reason, overwrites threads that run |
| `TimedTransfer!TimeoutReturns` | `TimedTransfer_calls.cfg` | the timer is started before the transfer (`asio/tcp_client.cpp:565` and `569`, for `Receive` `715` and `719`); its handler, run in between, cancels nothing, and the transfer that starts then may last for ever, although it was given a timeout (`modules/cppcommon/include/asiowrapper/tcp_client.h:207`) |
| `TimedTransfer!StoresInTime` | `TimedTransfer_calls.cfg` | the size is stored after the call has timed out and returned |
| `UDPClient!WholeDatagrams` | `UDPClient_loop.cfg` | a datagram accepted between two statements of the send handler goes out empty |
| `UDPClient!ReceivesOn` | `UDPClient_loop.cfg` | an empty datagram calls no `onReceived` (`asio/udp_client.cpp:801`), and nothing else re-arms the receive (`NetworkIf/UDP/src/EVCCUDPClient.cpp:112-114`): the client stays connected and deaf |
| `UDPClient!NeverTwoReceives` | `UDPClient_loop.cfg` | handlers of a closed socket clear the flag of the next connection |

## 4. Proofs

Everything below is proved by TLAPS for every value of the constants that the
stated assumptions allow: any number of threads, calls, connections, accepts and
units. An inductive invariant is defined at the end of the module it is about
and was first checked by TLC with that module's configurations. The proof that a
step preserves it has one lemma per action, or per group of actions that touch
the same part of it. `PROJECT.json` lists the theorems one by one.

| Module | Inductive invariant | Proves, of the runs' properties | Assumes |
|---|---|---|---|
| `TCPClientProofs` | `SendInv` | `TypeOK`, `WriteBufferStable`, `BytesSendingExact`, `NoLostWakeup`, `StaleWriteOnlyWhenDisconnected` | |
| `TCPClientProofs` | `ReceiveInv` | `ReadLoopAlive`, `ReceivedInOrder`, `StaleOnlyWhenDisconnected` | |
| `TCPClientRefinement` | `SendInv`, `GaplessInv` | `ImplementsSendChannel` | |
| `TCPServerProofs` | `ServerInv` | `TypeOK`, `OneAccept`, `KeepsAccepting`, `SessionsAreAlive`, `ClientIsWatched`, `StopReachesSessions` | one calling thread |
| `PATimerProofs` | `TimerInv` | `OneWait`, `RunningIsRunning` | one calling thread, `"EXECUTE" \notin FreshStates` |
| `ServiceProofs` | `ServiceInv` | `TypeOK`, `StoppedIsQuiet` | `~Hasty`, `~ErrorsThrown` |
| `TimedTransferProofs` | `TransferInv` | `TypeOK`, `TwoHandlers`, `SuccessTellsSize` | |
| `UDPClientProofs` | `UDPInv` | `TypeOK`, `OneReceive`, `ReceiveLoopAlive` | |
| `SSLClientProofs` | `SSLInv` | `SSLInv`, `AppKnows`, `NoOrphan`, `FreshStream`, `ReadLoopAlive` | |

No assumption is there for convenience: each is the setting of the run that
checks the property, and without it the property fails (section 3, *stated but
not provided*, and below). `ThreadsAssumption` and the bounds' being natural
numbers are assumptions of the modules themselves.

### The send path

None of the properties is inductive. The argument runs through the queue of
handlers. `SendInv` has five parts:

* `VarTypes`: the types, with `bytesSending` merely an integer; that it is not
  negative follows from `BufferInv`.
* `StackInv`: what the io thread can have left of a handler is one of seven
  stacks; application threads have only steps of their own. So while the io
  thread is between `Disconnect` and `ClearBuffers`, no application thread can
  be in a step that touches the flush buffer.
* `PhaseInv`: the flags and the socket agree, and *no handler of a write is
  queued behind the completion that will connect the client*. This is what
  keeps stale write handlers away from a new connection, and it holds because
  writes end before the handler of a new `ConnectAsync` can run.
* `BufferInv`: the flush buffer is empty or partly unsent, its unsent part is
  what `bytesSending` counts, and a disconnected client has an empty flush
  buffer, but for the moment before `ClearBuffers`.
* `WriteInv`: `sending` stands for exactly one write of this connection,
  outstanding or with its handler queued, and a queued one claims no more
  than is unsent.

Steps of application threads, of the peer and of the receive path are handled
together (`UserSendInv`, `PeerSendInv`, `QuietHandlersSendInv`).

### The refinement

`SendAsyncIsAChannel` is `Spec => ImplementsSendChannel`, step by step:
`InitChan`, and `NextChan`, which maps each step of `TCPClient` to `Accept`,
`Deliver`, `Open`, `Close` or `Drop` of the channel or to none. The channel's
buffer is `Unsent`: the flush buffer behind what a write has sent already,
whether or not its handler has run, followed by the main buffer. `SendInv` is
what makes this well defined: at most one handler of a write of this connection
is queued, and it claims no more than is left. The step that deserves attention
is the handler of a write, which removes from the flush buffer what was
delivered before and so changes nothing of the channel.

`NothingIsSkipped` is an invariant of the *channel*, carried over to the client:
what was sent on the open connection, followed by what the buffers hold, is a
gapless stretch of the accepted units, up to the last one. It is proved for
`SendChannel`'s actions once (`GaplessInv`).

### The receive path

`ReceiveInv` is `SendInv` and, until `raced`, two parts more:

* `ReadInv`: while the client is connected, `_receiving` stands for exactly one
  read, outstanding or with its handler queued, of this connection; a connected
  client without `_receiving` is about to begin a read or to disconnect; handlers
  of an earlier connection's reads come before the one that will connect.
* `GotInv`: a unit that was read and not passed on yet is the one in the receive
  buffer, and what was passed on is everything before it.

No assumption is made about the application: `ReceiveAsync` may be called at any time
by any thread. If its test still holds when it begins its read, the step is the one the
loop takes itself (`StartReadLoopInv`, `BeginReadLoopInv`); if not, `raced` becomes
true, which no other step makes it (`RacedKept`).

### The server

`OneAccept` looks local but is about the order of commands. A stopped server may
still have the handler of an old accept in its queue; a `Start` that ran before
that handler would lead to two accepts. `ServerInv` therefore has `CommandInv`,
about the handlers of `Start` and `Stop` that are queued or about to be posted: a
`Start` on its way to a stopped server comes after everything else, old accepts
included, and one on its way to a started server before any `Stop`. Two calling
threads break this.
The other parts:

* `AcceptInv`: one accept or one queued handler of an accept, for the session
  `_session` denotes; none while `Stop` is past closing the acceptor.
* `CountInv`: sessions are numbered as they are created, and enough numbers are
  left for the calls and ended accepts to come. It bounds `created`, which the
  bounds of the model only imply.
* `FreshInv`: a session that is not accepted yet is neither registered nor
  connected and has no handler queued, so that none connects twice.
* `SessionInv`: a connected session is registered and watched; one that is
  registered and not connected has its unregistration queued, and no connected
  one has.
* `ToldInv`: between the last two steps of the handler of `Stop`, each connected
  session has the handler that will disconnect it in its queue.

### The timer

The handler of a cancelled wait changes state and flag whenever it comes, but it
never starts a wait. So the invariant has only to say of each call's remaining
steps that they set up the timer (which cancels what is outstanding) before they
wait, that there is one wait at most among them (`SetupFirst`, `StartsInOrder`),
and that a state of `EXECUTE` is set by a thread that will wait.
`TimerTypeCorrect` needs no assumption.

### The service

`StoppedIsQuiet` is not inductive: that the flag is clear when `Stop` returns
follows from where the first thread was when it was joined. `ServiceInv` adds
`OwnerInv`, which says what the owner can have left of its call before and after
the join, and `FlagInv`: only `io_service` 0 has handlers of start and stop, its
thread is never past the loop with the flag set, and a stopped `io_service` 0
means that the flag is clear or about to be. `ServiceNeverTerminates` follows
too: no thread that runs is overwritten. Without `~Hasty` that fails, without
`~ErrorsThrown` the first thread may end while the flag is set.

### Timed calls

`TwoHandlers` counts: signals seen, handlers queued, the timer if it runs and
the transfer if it is outstanding are as many as the operations the call has started:
one between the timer and the transfer, two once it waits. The proof needs the number of
handlers of one call in a queue, and how appending, taking the first, and
queueing one aborted handler for each outstanding transfer change it. `Count`
is the cardinality of a set of indices; the lemmas are `CountConcat` (the
indices of the second part are in bijection with those behind the first),
`Posted`, `Taken` and `AbortedTypes`.

`TwoHandlers` is nearly inductive by itself but says nothing about sizes.
`SuccessTellsSize` needs three facts more: a timer's handler never brings `ok`
(`TimerInv`); a call has one transfer, and none left when its first handler
succeeded (`OnceInv`), so that the second signal of a successful call is the
timer's; and a size that is yet to be stored is that of the call under way, or
no handler of the next call of this thread has run (`StoringInv`, `SizeInv`).
The last alternative is real: it is the late store of `StoresInTime`.

### The UDP client

`UDPInv` follows the same scheme as `SendInv`, with statements instead of
handlers as steps: `StackInv` lists what either thread can have left, `PhaseInv`
says that a connection is made only when nothing of an earlier one is left
and that what one thread has closed stays closed until
the other is done with it, `ReceiveInv` and `SendInv` that each flag stands for
one operation: about to be started, outstanding, or with its handler queued.
`LoopInv` is `ReceiveLoopAlive` in these terms. All of this holds as long as `settled`
does; nothing is assumed of the application, and `FirstInv` shows that the exception
starts with a second `start` at the earliest: by `FirstConnection` a client that was
started once has one receive and one datagram at a time, without exception.
`Registered` does not matter.

### The TLS client

The invariants of a TLS connection relate an Impl's six flags to what is
outstanding, queued and left of its running handler. `SSLInv` first names the
combinations that occur as *stages* (`StageInv`): `Down`, `Resolving`, `Starting`,
`Connecting`, `Opening`, `Opened`, `Handshaking`, `Established`, `Closing`, `Clearing`.
At most one operation of an Impl is outstanding or has its handler queued, an aborted
read apart, and `RestOf` is what its thread has left to do for it. That every Impl is
at one of these stages holds whatever the application calls and whenever: it is what
`ReadLoopAlive` follows from. The other parts are:

* `QueueInv`: handlers and running steps are on the thread of their Impl, and two
  operations of one Impl have ended only if the first was a read.
* `UsedInv`: an Impl that has begun no handshake has no connection that is over.
* `OwnInv`, until a connect is overtaken: a replaced Impl is ending or over, and the
  connects and disconnects queued for an Impl are in an order that makes them harmless.
  A connect finds its Impl as the client's own; while that is connected no disconnect
  of it comes before the connect, which is refused then; and when it is not, none comes
  after. `NoOrphan` follows.
* `KnownInv`, for an Impl that no refused disconnect has unlinked, until a connect is
  overtaken: it is linked, told what belongs to its stage, and begins one handshake at
  most. `AppKnows`, `FreshStream` and `CallbacksInOrder` follow.

Neither exception is an assumption: `refused` and `overtaken` are history variables
of the model, the runs reach both, and the invariant says what is left when they
occur. `CallbacksInOrder` (`Spec => CallbacksFollow`) is about the order of the
callbacks that come: each follows the one before it. That they come it does not say;
that of the end need not (`EndIsTold`). The theorems hold for any number of
io_services, one included, and any number of calls.

### Only model-checked

* Liveness, which rests on fairness and `ENABLED`: `CallsReturn`, `SentIsReceived`,
  `AcceptedIsSent`, `StopEmptiesServer`, `DisconnectEnds`, `Served`.

Every safety property and the refinement that the passing runs check are proved.

## 5. Not modelled yet, and the plan

In this order:

1. `TCPSession`: the data path of a session when two threads run its
   `io_service`, as `Demo::start` of the server does; `ServerStatistics`:
   counters of the server that sessions on different threads update.
2. Synchronous `Connect`, `Disconnect` and `Reconnect` of `TCPClient`, which run
   into the stale handlers that the queue keeps away otherwise.
3. `AdapterAddress`: the validity flags of `TCPAdapter` and the exception that
   leaves `_connecting` set.
4. The TLS server and its sessions: `TCPServer` with a handshake.

Not planned: the UDP server and the resolvers, which no program of the
repository uses; CppCommon outside `asiowrapper` and the vendored libraries,
which are general-purpose code below this system; logging and formatting.
OpenSSL, asio and the operating system are external: modelled from how
the code uses them.
