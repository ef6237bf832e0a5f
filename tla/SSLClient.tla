------------------------------ MODULE SSLClient ------------------------------
(***************************************************************************)
(* The asynchronous life of a TLS connection: class SSLClient with its     *)
(* Impl, and TLSAdapter.                                                   *)
(*                                                                         *)
(* An SSLClient hands every call to its current Impl.  The end of a        *)
(* connection replaces the Impl by a fresh one, with a fresh TLS stream,   *)
(* while handlers of the old one may still be queued.  Impls are numbered  *)
(* in the order they are made; the service deals its io_services out in    *)
(* turn, so Impl i runs on thread i % Threads.  An Impl tells the          *)
(* application about its connection only while it is linked to the client. *)
(*                                                                         *)
(* The application's thread calls at any time.  A handler runs at once,    *)
(* save where it changes what that thread tests: the steps of Disconnect,  *)
(* and of the handlers that connect, are actions.  What is sent is left    *)
(* out (TCPClient has that code), and so is ReceiveAsync.                  *)
(***************************************************************************)
EXTENDS Integers, FiniteSets, SequencesExt

CONSTANTS Threads,    \* number of io_services
          MaxCalls    \* bound: calls

ASSUME SSLThreads == Threads \in Nat \ {0}
ASSUME SSLBounds == MaxCalls \in Nat

VARIABLES current,      \* the Impl of the client: _pimpl
          linked,       \* Impls with a _client
          resolving,    \* Impls with the flag of that name, and so on
          connecting,
          connected,
          handshaking,
          handshaked,
          receiving,
          ops,          \* operations outstanding: <<kind, Impl>>
          queue,        \* handlers of each io_service
          rest,         \* steps the running handler of each thread has left
          todo,         \* steps the application's call has left
          calls,        \* calls made so far
          used,         \* handshakes begun on the stream of each Impl
          told,         \* callbacks of each Impl so far
          refused,      \* Impls that a refused disconnect has unlinked, and no connect
                        \* has linked again before their first handshake
          overtaken     \* a connect was posted though an earlier one had begun, or
                        \* had even ended, since it was accepted

flags == <<resolving, connecting, connected, handshaking, handshaked, receiving>>
app == <<todo, calls>>
history == <<used, told, refused, overtaken>>
vars == <<current, linked, flags, ops, queue, rest, app, history>>

Impls == 0..current
IoThreads == 0..(Threads - 1)
ThreadOf(i) == i % Threads

Kinds == {"Resolved", "Connected", "Handshake", "Read"}
Steps == {"StartConnect", "SetConnected", "BeginHandshake",
          "Reset", "ClearFlags", "TellDisconnected", "Unlink"}
Calls == {"Connect", "Disconnect", "Reconnect", "Stop"}
CallSteps == {"ConnectAsync", "DisconnectAsync", "PostConnect", "PostDisconnect",
              "AwaitAndConnect", "AwaitStopped"}

On(op, i) == [op |-> op, impl |-> i]
Done(op, i, ok) == [op |-> op, impl |-> i, ok |-> ok]
Handlers == [op : {"Connect", "Resolve", "Disconnect"}, impl : Impls]
            \cup [op : Kinds, impl : Impls, ok : BOOLEAN]

Put(q, h) == [q EXCEPT ![ThreadOf(h.impl)] = Append(@, h)]

\* if (_client) _client->on...()
Tell(i, event) ==
    told' = IF i \in linked THEN [told EXCEPT ![i] = Append(@, event)] ELSE told

\* _client = nullptr, which a disconnect does when it is refused.
LoseClient(i) == linked' = linked \ {i} /\ refused' = refused \cup {i}

-----------------------------------------------------------------------------
(* Calls of the application.  Each loads _pimpl first.                      *)

IsBusy(i) == i \in resolving \cup connecting \cup connected \cup handshaking \cup handshaked

\* Disconnect and DisconnectAsync do nothing but unlink the client.
Refuses(i) == i \notin connected \/ i \in resolving \cup connecting \cup handshaking

Call ==
    /\ todo = <<>>
    /\ calls < MaxCalls
    /\ \E call \in Calls :
          LET first == IF call = "Connect" THEN "ConnectAsync" ELSE "DisconnectAsync"
              after == CASE call = "Reconnect" -> <<On("AwaitAndConnect", current)>>
                         [] call = "Stop" -> <<On("AwaitStopped", current)>>
                         [] OTHER -> <<>>
          IN  todo' = <<On(first, current)>> \o after
    /\ calls' = calls + 1
    /\ UNCHANGED <<current, linked, flags, ops, queue, rest, history>>

At(step) == todo # <<>> /\ Head(todo).op = step
Goto(steps) == todo' = steps

ConnectAsync ==
    /\ At("ConnectAsync")
    /\ LET i == Head(todo).impl
       IN  /\ linked' = linked \cup {i}
           /\ refused' = IF IsBusy(i) \/ used[i] > 0 THEN refused ELSE refused \ {i}
           /\ Goto(IF IsBusy(i) THEN <<>> ELSE <<On("PostConnect", i)>>)
    /\ UNCHANGED <<current, flags, ops, queue, rest, calls, used, told, overtaken>>

\* DisconnectAndStop goes on to wait when it is refused, ReconnectAsync does not.
DisconnectAsync ==
    /\ At("DisconnectAsync")
    /\ LET i == Head(todo).impl
       IN  IF Refuses(i)
             THEN /\ LoseClient(i)
                  /\ Goto(IF Last(todo).op = "AwaitStopped" THEN Tail(todo) ELSE <<>>)
             ELSE /\ Goto(<<On("PostDisconnect", i)>> \o Tail(todo))
                  /\ UNCHANGED <<linked, refused>>
    /\ UNCHANGED <<current, flags, ops, queue, rest, calls, used, told, overtaken>>

\* The two overloads of ConnectAsync differ in the handler they post.
PostConnect ==
    /\ At("PostConnect")
    /\ LET i == Head(todo).impl
       IN  /\ \E op \in {"Connect", "Resolve"} : queue' = Put(queue, On(op, i))
           /\ overtaken' = (overtaken \/ IsBusy(i) \/ i # current)
    /\ Goto(Tail(todo))
    /\ UNCHANGED <<current, linked, flags, ops, rest, calls, used, told, refused>>

\* Mutant: nothing is posted to a thread that has handlers to run.
PostDisconnectIdle ==
    /\ At("PostDisconnect")
    /\ LET i == Head(todo).impl
       IN  queue' = IF queue[ThreadOf(i)] = <<>> THEN Put(queue, On("Disconnect", i)) ELSE queue
    /\ Goto(Tail(todo))
    /\ UNCHANGED <<current, linked, flags, ops, rest, calls, history>>

PostDisconnect ==
    /\ At("PostDisconnect")
    /\ queue' = Put(queue, On("Disconnect", Head(todo).impl))
    /\ Goto(Tail(todo))
    /\ UNCHANGED <<current, linked, flags, ops, rest, calls, history>>

\* while (IsConnected()) Yield(), on the Impl that is current then.
Await ==
    /\ At("AwaitAndConnect") \/ At("AwaitStopped")
    /\ current \notin connected
    /\ Goto(IF At("AwaitStopped") THEN <<>> ELSE <<On("ConnectAsync", current)>>)
    /\ UNCHANGED <<current, linked, flags, ops, queue, rest, calls, history>>

CallStep == ConnectAsync \/ DisconnectAsync \/ PostConnect \/ PostDisconnect \/ Await

-----------------------------------------------------------------------------
(* Handlers.                                                               *)

First(t) == Head(queue[t])
Taken(t) == [queue EXCEPT ![t] = Tail(@)]

Ready(t, op) == rest[t] = <<>> /\ queue[t] # <<>> /\ First(t).op = op

\* Mutant.
TryReceiveNever(i) == UNCHANGED <<receiving, ops>>

TryReceive(i) ==
    IF i \in receiving \/ i \notin handshaked'
      THEN UNCHANGED <<receiving, ops>>
      ELSE /\ receiving' = receiving \cup {i}
           /\ ops' = ops \cup {<<"Read", i>>}

\* The handlers of the two ConnectAsync, which begin an operation of a kind.
Begin(t, flag, kind) ==
    LET i == First(t).impl
    IN  IF IsBusy(i)
          THEN flag' = flag /\ ops' = ops
          ELSE flag' = flag \cup {i} /\ ops' = ops \cup {<<kind, i>>}

ConnectHandler(t) ==
    /\ Ready(t, "Connect")
    /\ Begin(t, connecting, "Connected")
    /\ queue' = Taken(t)
    /\ UNCHANGED <<current, linked, resolving, connected, handshaking, handshaked,
                   receiving, rest, app, history>>

ResolveHandler(t) ==
    /\ Ready(t, "Resolve")
    /\ Begin(t, resolving, "Resolved")
    /\ queue' = Taken(t)
    /\ UNCHANGED <<current, linked, connecting, connected, handshaking, handshaked,
                   receiving, rest, app, history>>

\* The handlers of the operations that connect go on with the steps next, or tell of
\* the end of the attempt.
Opens(t, others, next) ==
    LET i == First(t).impl
    IN  \/ /\ First(t).ok /\ i \notin others
           /\ rest' = [rest EXCEPT ![t] = next]
           /\ UNCHANGED told
        \/ /\ ~First(t).ok /\ i \notin others
           /\ Tell(i, "disconnected")
           /\ UNCHANGED rest
        \/ i \in others /\ UNCHANGED <<rest, told>>

\* async_resolve_handler; StartConnect is the rest of it.
AsyncResolveHandler(t) ==
    /\ Ready(t, "Resolved")
    /\ LET i == First(t).impl
       IN  /\ resolving' = resolving \ {i}
           /\ Opens(t, connecting \cup connected \cup handshaking \cup handshaked,
                    <<On("StartConnect", i)>>)
    /\ queue' = Taken(t)
    /\ UNCHANGED <<current, linked, connecting, connected, handshaking, handshaked,
                   receiving, ops, app, used, refused, overtaken>>

\* async_connect_handler; SetConnected and BeginHandshake are the rest of it.
AsyncConnectHandler(t) ==
    /\ Ready(t, "Connected")
    /\ LET i == First(t).impl
       IN  /\ connecting' = connecting \ {i}
           /\ Opens(t, resolving \cup connected \cup handshaking \cup handshaked,
                    <<On("SetConnected", i), On("BeginHandshake", i)>>)
    /\ queue' = Taken(t)
    /\ UNCHANGED <<current, linked, resolving, connected, handshaking, handshaked,
                   receiving, ops, app, used, refused, overtaken>>

\* Mutants: the client is unlinked too early; it is told twice.
UnlinkFirst(i) == <<On("Unlink", i), On("Reset", i), On("ClearFlags", i),
                    On("TellDisconnected", i)>>
TellTwice(i) == <<On("TellDisconnected", i), On("Reset", i), On("ClearFlags", i),
                  On("TellDisconnected", i), On("Unlink", i)>>

DisconnectSteps(i) == <<On("Reset", i), On("ClearFlags", i),
                        On("TellDisconnected", i), On("Unlink", i)>>

\* Disconnect() of Impl i on its own thread, from the queues q: closing the
\* socket aborts the read.
Disconnect(t, i, q) ==
    IF i \notin connected \/ i \in resolving \cup connecting \cup handshaking'
      THEN /\ LoseClient(i)
           /\ queue' = q
           /\ UNCHANGED <<rest, ops>>
      ELSE /\ rest' = [rest EXCEPT ![t] = DisconnectSteps(i)]
           /\ ops' = {o \in ops : o[2] # i}
           /\ queue' = IF <<"Read", i>> \in ops THEN Put(q, Done("Read", i, FALSE)) ELSE q
           /\ UNCHANGED <<linked, refused>>

DisconnectHandler(t) ==
    /\ Ready(t, "Disconnect")
    /\ UNCHANGED <<current, flags, app, used, told, overtaken>>
    /\ Disconnect(t, First(t).impl, Taken(t))

\* async_handshake_handler; an error disconnects.
HandshakeHandler(t) ==
    /\ Ready(t, "Handshake")
    /\ LET i == First(t).impl
       IN  /\ handshaking' = handshaking \ {i}
           /\ IF i \in handshaked
                THEN /\ queue' = Taken(t)
                     /\ UNCHANGED <<linked, handshaked, receiving, ops, rest, told, refused>>
                ELSE \/ /\ First(t).ok
                        /\ handshaked' = handshaked \cup {i}
                        /\ Tell(i, "handshaked")
                        /\ TryReceive(i)
                        /\ queue' = Taken(t)
                        /\ UNCHANGED <<linked, rest, refused>>
                     \/ /\ ~First(t).ok
                        /\ Disconnect(t, i, Taken(t))
                        /\ UNCHANGED <<handshaked, receiving, told>>
    /\ UNCHANGED <<current, resolving, connecting, connected, app, used, overtaken>>

AsyncReceiveHandler(t) ==
    /\ Ready(t, "Read")
    /\ UNCHANGED <<handshaking, handshaked>>
    /\ LET i == First(t).impl
       IN  \/ /\ i \in handshaked /\ First(t).ok
              /\ ops' = ops \cup {<<"Read", i>>}
              /\ queue' = Taken(t)
              /\ UNCHANGED <<linked, receiving, rest, refused>>
           \/ /\ i \in handshaked /\ ~First(t).ok
              /\ receiving' = receiving \ {i}
              /\ Disconnect(t, i, Taken(t))
           \/ /\ i \notin handshaked
              /\ receiving' = receiving \ {i}
              /\ queue' = Taken(t)
              /\ UNCHANGED <<linked, ops, rest, refused>>
    /\ UNCHANGED <<current, resolving, connecting, connected, app, used, told, overtaken>>

-----------------------------------------------------------------------------
(* Steps of a running handler.                                             *)

Step(t, op) ==
    /\ rest[t] # <<>>
    /\ Head(rest[t]).op = op
    /\ rest' = [rest EXCEPT ![t] = Tail(@)]

StartConnect(t) ==
    /\ Step(t, "StartConnect")
    /\ LET i == Head(rest[t]).impl
       IN  /\ connecting' = connecting \cup {i}
           /\ ops' = ops \cup {<<"Connected", i>>}
    /\ UNCHANGED <<current, linked, resolving, connected, handshaking, handshaked,
                   receiving, queue, app, history>>

SetConnected(t) ==
    /\ Step(t, "SetConnected")
    /\ LET i == Head(rest[t]).impl
       IN  /\ connected' = connected \cup {i}
           /\ Tell(i, "connected")
    /\ UNCHANGED <<current, linked, resolving, connecting, handshaking, handshaked,
                   receiving, ops, queue, app, used, refused, overtaken>>

BeginHandshake(t) ==
    /\ Step(t, "BeginHandshake")
    /\ LET i == Head(rest[t]).impl
       IN  /\ handshaking' = handshaking \cup {i}
           /\ ops' = ops \cup {<<"Handshake", i>>}
           /\ used' = [used EXCEPT ![i] = @ + 1]
    /\ UNCHANGED <<current, linked, resolving, connecting, connected, handshaked,
                   receiving, queue, app, told, refused, overtaken>>

\* onReset: the client is given a fresh Impl, linked to nobody yet.
Reset(t) ==
    /\ Step(t, "Reset")
    /\ IF Head(rest[t]).impl \in linked
         THEN /\ current' = current + 1
              /\ used' = [i \in 0..(current + 1) |-> IF i \in Impls THEN used[i] ELSE 0]
              /\ told' = [i \in 0..(current + 1) |-> IF i \in Impls THEN told[i] ELSE <<>>]
         ELSE UNCHANGED <<current, used, told>>
    /\ UNCHANGED <<linked, flags, ops, queue, app, refused, overtaken>>

\* Mutant: one flag is forgotten.
ClearFlagsButOne(t) ==
    /\ Step(t, "ClearFlags")
    /\ LET i == Head(rest[t]).impl
       IN  /\ resolving' = resolving \ {i}
           /\ connecting' = connecting \ {i}
           /\ handshaking' = handshaking \ {i}
           /\ handshaked' = handshaked \ {i}
           /\ receiving' = receiving \ {i}
    /\ UNCHANGED <<current, linked, connected, ops, queue, app, history>>

ClearFlags(t) ==
    /\ Step(t, "ClearFlags")
    /\ LET i == Head(rest[t]).impl
       IN  /\ resolving' = resolving \ {i}
           /\ connecting' = connecting \ {i}
           /\ connected' = connected \ {i}
           /\ handshaking' = handshaking \ {i}
           /\ handshaked' = handshaked \ {i}
           /\ receiving' = receiving \ {i}
    /\ UNCHANGED <<current, linked, ops, queue, app, history>>

TellDisconnected(t) ==
    /\ Step(t, "TellDisconnected")
    /\ Tell(Head(rest[t]).impl, "disconnected")
    /\ UNCHANGED <<current, linked, flags, ops, queue, app, used, refused, overtaken>>

Unlink(t) ==
    /\ Step(t, "Unlink")
    /\ linked' = linked \ {Head(rest[t]).impl}
    /\ UNCHANGED <<current, flags, ops, queue, app, history>>

IoStep(t) == \/ ConnectHandler(t) \/ ResolveHandler(t)
             \/ AsyncResolveHandler(t) \/ AsyncConnectHandler(t)
             \/ HandshakeHandler(t) \/ AsyncReceiveHandler(t) \/ DisconnectHandler(t)
             \/ StartConnect(t) \/ SetConnected(t) \/ BeginHandshake(t)
             \/ Reset(t) \/ ClearFlags(t) \/ TellDisconnected(t) \/ Unlink(t)

-----------------------------------------------------------------------------
(* The network and the server: an outstanding operation ends.              *)

OpEnds(o, ok) ==
    /\ ops' = ops \ {o}
    /\ queue' = Put(queue, Done(o[1], o[2], ok))
    /\ UNCHANGED <<current, linked, flags, rest, app, history>>

Init ==
    /\ current = 0
    /\ linked = {} /\ resolving = {} /\ connecting = {} /\ connected = {}
    /\ handshaking = {} /\ handshaked = {} /\ receiving = {}
    /\ ops = {}
    /\ queue = [t \in IoThreads |-> <<>>] /\ rest = [t \in IoThreads |-> <<>>]
    /\ todo = <<>> /\ calls = 0
    /\ used = [i \in 0..0 |-> 0] /\ told = [i \in 0..0 |-> <<>>]
    /\ refused = {} /\ overtaken = FALSE

Next ==
    \/ Call \/ CallStep
    \/ \E t \in IoThreads : IoStep(t)
    \/ \E o \in ops, ok \in BOOLEAN : OpEnds(o, ok)

Spec == Init /\ [][Next]_vars

\* A call goes on and io threads run their handlers; the server and the
\* application do as they like.
FairSpec == /\ Spec
            /\ WF_vars(CallStep)
            /\ \A t \in IoThreads : WF_vars(IoStep(t))

-----------------------------------------------------------------------------
(* Properties.                                                             *)

Queued(i) == {h \in {queue[ThreadOf(i)][k] : k \in 1..Len(queue[ThreadOf(i)])} : h.impl = i}
Running(i) == {rest[ThreadOf(i)][k].op :
                  k \in {k \in 1..Len(rest[ThreadOf(i)]) : rest[ThreadOf(i)][k].impl = i}}

TypeOK ==
    /\ current \in Nat
    /\ \A S \in {linked, resolving, connecting, connected, handshaking, handshaked,
               receiving, refused} :
          S \subseteq Impls
    /\ ops \subseteq Kinds \X Impls
    /\ queue \in [IoThreads -> Seq(Handlers)]
    /\ rest \in [IoThreads -> Seq([op : Steps, impl : Impls])]
    /\ todo \in Seq([op : CallSteps, impl : Impls]) /\ calls \in 0..MaxCalls
    /\ used \in [Impls -> Nat]
    /\ told \in [Impls -> Seq({"connected", "handshaked", "disconnected"})]
    /\ overtaken \in BOOLEAN

LastTold(i) == Last(<<"disconnected">> \o told[i])

\* The application knows of every connection and how far it has got: no callback
\* is lost on the way up, unless a refused disconnect unlinked the client or a connect
\* was overtaken.
AppKnows ==
    ~overtaken => \A i \in Impls \ refused : Running(i) \subseteq {"BeginHandshake"} =>
        /\ i \in handshaked => LastTold(i) = "handshaked"
        /\ i \in connected \ handshaked => LastTold(i) = "connected"

\* Each callback about an Impl follows the one before it: an open connection when the
\* last one is over, its handshake when it is open, and its end once, or that of an
\* attempt to connect which failed.
CallbackFollows ==
    ~overtaken => \A i \in Impls \ refused :
        told'[i] # told[i] =>
            \/ told'[i] = Append(told[i], "connected") /\ LastTold(i) = "disconnected"
            \/ told'[i] = Append(told[i], "handshaked") /\ LastTold(i) = "connected"
            \/ /\ told'[i] = Append(told[i], "disconnected")
               /\ LastTold(i) # "disconnected" \/ used[i] = 0
CallbacksFollow == [][CallbackFollows]_vars

\* Nor on the way down: a connection that was told of and is over was told to
\* be over.  This does not hold: a DisconnectAsync that is refused, because the
\* connection is ending already, unlinks the client before it is told.
EndIsTold ==
    \A i \in Impls : Running(i) = {} /\ i \notin connected => LastTold(i) = "disconnected"

\* An Impl that was replaced keeps no connection, and gets none from a handler
\* that was posted to it before, unless a connect was overtaken: nobody could ever
\* close it.
NoOrphan ==
    ~overtaken => \A i \in 0..(current - 1) : Running(i) = {} =>
        /\ ~IsBusy(i)
        /\ \A o \in ops : o[2] # i

\* A TLS stream serves one handshake, unless a refused disconnect unlinked the client,
\* so that onReset is not called, or a connect was overtaken.
FreshStream == ~overtaken => \A i \in Impls \ refused : used[i] <= 1

\* A connection that is ready has a read outstanding, or its handler to come,
\* so that it notices when the server is gone.
ReadLoopAlive ==
    \A i \in handshaked :
        \/ <<"Read", i>> \in ops
        \/ \E h \in Queued(i) : h.op = "Read"
        \/ Running(i) # {}

\* A disconnect that DisconnectAsync accepted ends its connection, or is refused when
\* its handler runs.
DisconnectEnds ==
    \A i \in 0..MaxCalls :
        (i \in Impls /\ On("Disconnect", i) \in Queued(i)) ~> i \notin connected \ refused

\* ReconnectAsync and DisconnectAndStop return, unless a disconnect of a connection was
\* refused.
CallsReturn == (todo # <<>>) ~> (todo = <<>> \/ current \in connected \cap refused)

\* They return, and a disconnect that was accepted ends its connection.  Neither holds:
\* during the handshake a disconnect is refused, and DisconnectAndStop waits on.
StopReturns == (todo # <<>>) ~> (todo = <<>>)
AcceptedEnds ==
    \A i \in 0..MaxCalls :
        (i \in Impls /\ On("Disconnect", i) \in Queued(i)) ~> i \notin connected

-----------------------------------------------------------------------------
(* The inductive invariant.                                                *)

\* What the thread of Impl i has left to do for it; the operations of i that are
\* outstanding; the handlers of those that have ended; the connects that are queued.
RestOf(i) ==
    LET r == rest[ThreadOf(i)] IN IF r # <<>> /\ Head(r).impl = i THEN r ELSE <<>>
Ops(i) == {kind \in Kinds : <<kind, i>> \in ops}
Tasks(q, i) == {k \in 1..Len(q) : q[k].impl = i /\ q[k].op \in Kinds}
TaskOps(q, i) == {q[k].op : k \in Tasks(q, i)}
Waiting(i) == TaskOps(queue[ThreadOf(i)], i)
Asks(q, i) == {k \in 1..Len(q) : q[k].impl = i /\ q[k].op \in {"Connect", "Resolve"}}
Disconnects(q, i) == {k \in 1..Len(q) : q[k] = On("Disconnect", i)}

\* The handler of a read that was aborted may be left behind, until a connection opens.
Awaits(i, kind, left) ==
    /\ RestOf(i) = <<>>
    /\ \/ Ops(i) = {kind} /\ Waiting(i) \subseteq left
       \/ Ops(i) = {} /\ kind \in Waiting(i) /\ Waiting(i) \subseteq left \cup {kind}

\* The stages of an Impl.
Unflagged(i) == ~IsBusy(i) /\ i \notin receiving
Down(i) ==
    /\ Unflagged(i) /\ Ops(i) = {} /\ Waiting(i) \subseteq {"Read"}
    /\ RestOf(i) \in {<<On("TellDisconnected", i), On("Unlink", i)>>,
                      <<On("Unlink", i)>>, <<>>}
Resolving(i) ==
    /\ i \in resolving \ (connecting \cup connected \cup handshaking \cup handshaked
                          \cup receiving)
    /\ Awaits(i, "Resolved", {"Read"})
Starting(i) ==
    /\ Unflagged(i) /\ Ops(i) = {} /\ Waiting(i) = {}
    /\ RestOf(i) = <<On("StartConnect", i)>>
Connecting(i) ==
    /\ i \in connecting \ (resolving \cup connected \cup handshaking \cup handshaked
                           \cup receiving)
    /\ Awaits(i, "Connected", {"Read"})
Opening(i) ==
    /\ Unflagged(i) /\ Ops(i) = {} /\ Waiting(i) = {}
    /\ RestOf(i) = <<On("SetConnected", i), On("BeginHandshake", i)>>
Opened(i) ==
    /\ i \in connected \ (resolving \cup connecting \cup handshaking \cup handshaked
                          \cup receiving)
    /\ Ops(i) = {} /\ Waiting(i) = {} /\ RestOf(i) = <<On("BeginHandshake", i)>>
Handshaking(i) ==
    /\ i \in (connected \cap handshaking) \ (resolving \cup connecting \cup handshaked
                                             \cup receiving)
    /\ Awaits(i, "Handshake", {})
Established(i) ==
    /\ i \in (connected \cap handshaked \cap receiving) \ (resolving \cup connecting
                                                           \cup handshaking)
    /\ Awaits(i, "Read", {})
Ending(i) == /\ i \in connected \ (resolving \cup connecting \cup handshaking)
             /\ Ops(i) = {} /\ Waiting(i) \subseteq {"Read"}
Closing(i) == Ending(i) /\ RestOf(i) = DisconnectSteps(i)
Clearing(i) == Ending(i) /\ RestOf(i) = Tail(DisconnectSteps(i))

Attempting(i) == Resolving(i) \/ Starting(i) \/ Connecting(i) \/ Opening(i)
Open(i) == Opened(i) \/ Handshaking(i) \/ Established(i)
StageInv(i) == Down(i) \/ Attempting(i) \/ Open(i) \/ Closing(i) \/ Clearing(i)

\* Handlers run on the thread of their Impl.  Two operations of it can only have ended if
\* the first was a read.
TasksInOrder(q, i) ==
    \A k, l \in Tasks(q, i) : k < l => q[k].op = "Read" /\ q[l].op # "Read"
QueueInv ==
    \A t \in IoThreads :
        /\ \A k \in 1..Len(queue[t]) : ThreadOf(queue[t][k].impl) = t
        /\ \A i \in Impls : TasksInOrder(queue[t], i)
        /\ rest[t] # <<>> => ThreadOf(Head(rest[t]).impl) = t

TodoInv == \A k \in 2..Len(todo) : todo[k].op \in {"AwaitAndConnect", "AwaitStopped"}

\* An Impl that has begun no handshake has no connection that is over.
UsedInv(i) ==
    used[i] = 0 =>
        /\ (Down(i) /\ RestOf(i) = <<>>) \/ Attempting(i) \/ Opened(i)
        /\ i \notin connected => LastTold(i) = "disconnected"

\* As long as no connect was overtaken: an Impl that was replaced is ending or over.  A
\* connect that is queued finds its Impl as the client's own; if that is connected it is
\* still so when the connect is refused; and if not, a disconnect comes before it.
AsksFirst(q, i) ==
    \A k \in Asks(q, i) : \A l \in 1..(k - 1) : q[l].impl = i => l \in Asks(q, i)
AsksLast(q, i) == \A k \in Asks(q, i), l \in Disconnects(q, i) : l < k

ToConnect(i) == todo # <<>> /\ Head(todo) = On("PostConnect", i)
ToDisconnect(i) == todo # <<>> /\ Head(todo) = On("PostDisconnect", i)
OwnInv(i) ==
    LET q == queue[ThreadOf(i)]
    IN  /\ i < current => Clearing(i) \/ Down(i)
        /\ Asks(q, i) # {} => i = current /\ ~Closing(i) /\ ~Clearing(i)
        /\ i \in connected => AsksFirst(q, i)
        /\ i \notin connected => AsksLast(q, i) /\ (ToDisconnect(i) => Asks(q, i) = {})
        /\ Attempting(i) => Disconnects(q, i) = {} /\ ~ToDisconnect(i)

\* If no disconnect was refused either, the Impl is linked, and the application told how
\* far it has got.
KnownInv(i) ==
    /\ used[i] <= 1
    /\ i = current =>
          \/ /\ Down(i) /\ used[i] = 0
             /\ (ToConnect(i) \/ Asks(queue[ThreadOf(i)], i) # {}) => i \in linked
          \/ Attempting(i) /\ i \in linked /\ used[i] = 0
          \/ Opened(i) /\ i \in linked /\ used[i] = 0 /\ LastTold(i) = "connected"
          \/ Handshaking(i) /\ i \in linked /\ LastTold(i) = "connected"
          \/ Established(i) /\ i \in linked /\ LastTold(i) = "handshaked"
          \/ Closing(i) /\ i \in linked /\ LastTold(i) # "disconnected"
    /\ RestOf(i) \in {Tail(DisconnectSteps(i)), <<On("TellDisconnected", i), On("Unlink", i)>>}
          => LastTold(i) # "disconnected"

ImplInv(i) ==
    /\ StageInv(i) /\ UsedInv(i)
    /\ ~overtaken => OwnInv(i) /\ (i \notin refused => KnownInv(i))

\* Inductive.
SSLInv ==
    /\ TypeOK
    /\ QueueInv /\ TodoInv
    /\ \A i \in Impls : ImplInv(i)
=============================================================================
