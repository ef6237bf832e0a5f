------------------------------ MODULE TCPServer ------------------------------
(***************************************************************************)
(* The TCP server and the life of its sessions: class TCPServer, and what  *)
(* connects, disconnects and unregisters a TCPSession.                     *)
(*                                                                         *)
(* The service has one io_service per thread (Threads of them, numbered    *)
(* from 0) and hands them out in turn: the server runs on ServerThread,    *)
(* session n on the n-th after it.  Every io_service is a FIFO of handlers *)
(* that its thread runs one at a time; only the handler of Stop is split   *)
(* into steps, since other threads may act between them.  Application      *)
(* threads (Users) call the server at any time.  Sessions are numbered in  *)
(* the order they are created; what they transfer is left out.             *)
(***************************************************************************)
EXTENDS Integers, FiniteSets, SequencesExt

CONSTANTS Users,         \* threads that call the server
          Threads,       \* number of io_services
          ServerThread,  \* the one of the server
          MaxCalls,      \* bound: calls
          MaxAccepts     \* bound: accepts that end by themselves

ASSUME ServerThreads == Threads \in Nat \ {0} /\ ServerThread \in 0..(Threads - 1)
ASSUME ServerBounds == MaxCalls \in Nat /\ MaxAccepts \in Nat

VARIABLES started,    \* _started
          accepts,    \* sessions with an async_accept outstanding
          created,    \* the last session created: _session
          detached,   \* sessions whose _server was reset
          sessions,   \* _sessions
          connected,  \* sessions with _connected
          reading,    \* sessions with an async_read_some outstanding
          queue,      \* handlers of each io_service
          stopping,   \* steps the handler of Stop still has to take
          todo,       \* steps each application thread still has to take
          crashed,    \* a null pointer was dereferenced
          calls,      \* calls made so far
          accepted    \* accepts that ended by themselves so far

vars == <<started, accepts, created, detached, sessions, connected, reading,
          queue, stopping, todo, crashed, calls, accepted>>

Bound == MaxCalls + MaxAccepts
Sessions == 1..Bound
IoThreads == 0..(Threads - 1)
ThreadOf(s) == (ServerThread + s) % Threads

Handlers == [op : {"Start", "Stop", "DisconnectAll"}]
            \cup [op : {"Accepted"}, ok : BOOLEAN]
            \cup [op : {"Read"}, session : Sessions, ok : BOOLEAN]
            \cup [op : {"Disconnect", "Unregister"}, session : Sessions]

Call(name) == [op |-> name]
Accepted(ok) == [op |-> "Accepted", ok |-> ok]
Read(s, ok) == [op |-> "Read", session |-> s, ok |-> ok]
On(s, name) == [op |-> name, session |-> s]

Put(q, t, handlers) == [q EXCEPT ![t] = @ \o handlers]

-----------------------------------------------------------------------------
(* Calls.  Each tests IsStarted first and posts its handler later.         *)

Enter(u, steps) ==
    /\ todo[u] = <<>>
    /\ calls < MaxCalls
    /\ todo' = [todo EXCEPT ![u] = steps]
    /\ calls' = calls + 1
    /\ UNCHANGED <<started, accepts, created, detached, sessions, connected,
                   reading, queue, stopping, crashed, accepted>>

Start(u) == ~started /\ Enter(u, <<"Start">>)
Stop(u) == started /\ Enter(u, <<"Stop">>)
DisconnectAll(u) == started /\ Enter(u, <<"DisconnectAll">>)
Restart(u) == started /\ Enter(u, <<"Stop", "AwaitStopped", "StartAgain">>)

Goto(u, step) == todo[u] # <<>> /\ Head(todo[u]) = step

Post(u) ==
    /\ \E name \in {"Start", "Stop", "DisconnectAll"} :
          /\ Goto(u, name)
          /\ queue' = Put(queue, ServerThread, <<Call(name)>>)
    /\ todo' = [todo EXCEPT ![u] = Tail(@)]
    /\ UNCHANGED <<started, accepts, created, detached, sessions, connected,
                   reading, stopping, crashed, calls, accepted>>

\* while (IsStarted()) Yield(), and the test of IsStarted in Start.
AwaitStopped(u) ==
    /\ \/ /\ Goto(u, "AwaitStopped")
          /\ ~started
          /\ todo' = [todo EXCEPT ![u] = Tail(@)]
       \/ /\ Goto(u, "StartAgain")
          /\ todo' = [todo EXCEPT ![u] = IF started THEN <<>> ELSE <<"Start">>]
    /\ UNCHANGED <<started, accepts, created, detached, sessions, connected,
                   reading, queue, stopping, crashed, calls, accepted>>

UserStep(u) == Post(u) \/ AwaitStopped(u)

-----------------------------------------------------------------------------
(* Handlers.  Taken(t) is the queues without the handler thread t runs.    *)

First(t) == Head(queue[t])
Taken(t) == [queue EXCEPT ![t] = Tail(@)]

Ready(t, name) ==
    /\ queue[t] # <<>>
    /\ t = ServerThread => stopping = <<>>
    /\ First(t).op = name

\* Handlers of the accepts that closing the acceptor aborts.
AbortedAccepts == [i \in 1..Cardinality(accepts) |-> Accepted(FALSE)]

\* Accept() in the state with started = on and accepts = open: a new session
\* to accept.
Accept(on, open) ==
    IF on
      THEN /\ created' = created + 1
           /\ accepts' = open \cup {created + 1}
      ELSE /\ accepts' = open
           /\ UNCHANGED created

StartHandler ==
    /\ Ready(ServerThread, "Start")
    /\ IF started
         THEN /\ queue' = Taken(ServerThread)
              /\ UNCHANGED <<started, accepts, created>>
         ELSE /\ queue' = Put(Taken(ServerThread), ServerThread, AbortedAccepts)
              /\ started' = TRUE
              /\ Accept(TRUE, {})
    /\ UNCHANGED <<detached, sessions, connected, reading, stopping, todo,
                   crashed, calls, accepted>>

\* Mutants: the flag is cleared first; before the sessions are disconnected;
\* never.
StopStepsFlagFirst == <<"ClearStarted", "CloseAcceptor", "ResetServer", "DisconnectAll">>
StopStepsFlagEarly == <<"CloseAcceptor", "ResetServer", "ClearStarted", "DisconnectAll">>
StopStepsNoFlag == <<"CloseAcceptor", "ResetServer", "DisconnectAll">>

StopSteps == <<"CloseAcceptor", "ResetServer", "DisconnectAll", "ClearStarted">>

StopHandler ==
    /\ Ready(ServerThread, "Stop")
    /\ queue' = Taken(ServerThread)
    /\ stopping' = IF started THEN StopSteps ELSE <<>>
    /\ UNCHANGED <<started, accepts, created, detached, sessions, connected,
                   reading, todo, crashed, calls, accepted>>

StopAt(step) ==
    /\ stopping # <<>>
    /\ Head(stopping) = step
    /\ stopping' = Tail(stopping)
    /\ UNCHANGED <<created, sessions, connected, reading, todo, crashed, calls,
                   accepted>>

CloseAcceptor ==
    /\ StopAt("CloseAcceptor")
    /\ queue' = Put(queue, ServerThread, AbortedAccepts)
    /\ accepts' = {}
    /\ UNCHANGED <<started, detached>>

ResetServer ==
    /\ StopAt("ResetServer")
    /\ detached' = detached \cup {created}
    /\ UNCHANGED <<started, accepts, queue>>

\* Session::Disconnect() of every registered session: what is posted, in the
\* order of the map, which is that of their ids and not of their creation.
DisconnectsOn(t) == {s \in sessions \cap connected : ThreadOf(s) = t}

PostAll(S) == [i \in 1..Cardinality(S) |-> On(SetToSeq(S)[i], "Disconnect")]

DisconnectAllFrom(q) ==
    queue' = IF started
               THEN [t \in IoThreads |-> q[t] \o PostAll(DisconnectsOn(t))]
               ELSE q

DisconnectSessions ==
    /\ StopAt("DisconnectAll")
    /\ DisconnectAllFrom(queue)
    /\ UNCHANGED <<started, accepts, detached>>

ClearStarted ==
    /\ StopAt("ClearStarted")
    /\ started' = FALSE
    /\ UNCHANGED <<accepts, detached, queue>>

DisconnectAllHandler ==
    /\ Ready(ServerThread, "DisconnectAll")
    /\ DisconnectAllFrom(Taken(ServerThread))
    /\ UNCHANGED <<started, accepts, created, detached, sessions, connected,
                   reading, stopping, todo, crashed, calls, accepted>>

\* Mutant: a failed accept is not followed by another one.
AcceptedHandlerGivesUp ==
    /\ Ready(ServerThread, "Accepted")
    /\ queue' = Taken(ServerThread)
    /\ \/ /\ ~First(ServerThread).ok
          /\ UNCHANGED <<sessions, connected, reading, crashed, created, accepts>>
       \/ /\ First(ServerThread).ok
          /\ created \notin detached
          /\ sessions' = sessions \cup {created}
          /\ connected' = connected \cup {created}
          /\ reading' = reading \cup {created}
          /\ Accept(started, accepts)
          /\ UNCHANGED crashed
    /\ UNCHANGED <<started, detached, stopping, todo, calls, accepted>>

\* async_accept_handler.  It takes _session to be the session that was
\* accepted; connecting a session without a server crashes.
AcceptedHandler ==
    /\ Ready(ServerThread, "Accepted")
    /\ queue' = Taken(ServerThread)
    /\ \/ /\ ~First(ServerThread).ok
          /\ Accept(started, accepts)
          /\ UNCHANGED <<sessions, connected, reading, crashed>>
       \/ /\ First(ServerThread).ok
          /\ sessions' = sessions \cup {created}
          /\ IF created \in detached
               THEN /\ crashed' = TRUE
                    /\ UNCHANGED <<connected, reading, created, accepts>>
               ELSE /\ connected' = connected \cup {created}
                    /\ reading' = reading \cup {created}
                    /\ Accept(started, accepts)
                    /\ UNCHANGED crashed
    /\ UNCHANGED <<started, detached, stopping, todo, calls, accepted>>

\* disconnect_handler of session s, given the queues without the handler that
\* runs it.  A dispatch to the server's thread from that very thread is a call.
Disconnected(s, q) ==
    LET t == ThreadOf(s)
        aborted == Put(q, t, IF s \in reading THEN <<Read(s, FALSE)>> ELSE <<>>)
    IN  /\ connected' = connected \ {s}
        /\ reading' = reading \ {s}
        /\ IF t = ServerThread
             THEN /\ queue' = aborted
                  /\ sessions' = sessions \ {s}
             ELSE /\ queue' = Put(aborted, ServerThread, <<On(s, "Unregister")>>)
                  /\ UNCHANGED sessions

\* Nothing but the removal of the handler.
Ignored(t) == queue' = Taken(t) /\ UNCHANGED <<sessions, connected, reading>>

DisconnectHandler(t) ==
    /\ Ready(t, "Disconnect")
    /\ LET s == First(t).session
       IN  IF s \in connected THEN Disconnected(s, Taken(t)) ELSE Ignored(t)
    /\ UNCHANGED <<started, accepts, created, detached, stopping, todo, crashed,
                   calls, accepted>>

\* Mutant: received data does not read on.
AsyncReceiveHandlerOnce(t) ==
    /\ Ready(t, "Read")
    /\ LET h == First(t)
       IN  IF h.session \in connected /\ ~h.ok
             THEN Disconnected(h.session, Taken(t))
             ELSE Ignored(t)
    /\ UNCHANGED <<started, accepts, created, detached, stopping, todo, crashed,
                   calls, accepted>>

\* async_receive_handler; received data only reads on.
AsyncReceiveHandler(t) ==
    /\ Ready(t, "Read")
    /\ LET h == First(t)
       IN  \/ h.session \notin connected /\ Ignored(t)
           \/ /\ h.session \in connected /\ h.ok
              /\ reading' = reading \cup {h.session}
              /\ queue' = Taken(t)
              /\ UNCHANGED <<sessions, connected>>
           \/ /\ h.session \in connected /\ ~h.ok
              /\ Disconnected(h.session, Taken(t))
    /\ UNCHANGED <<started, accepts, created, detached, stopping, todo, crashed,
                   calls, accepted>>

\* Mutant: a server that is not started ignores it, as the other handlers do.
UnregisterSessionIfStarted ==
    /\ Ready(ServerThread, "Unregister")
    /\ sessions' = IF started THEN sessions \ {First(ServerThread).session} ELSE sessions
    /\ queue' = Taken(ServerThread)
    /\ UNCHANGED <<started, accepts, created, detached, connected, reading,
                   stopping, todo, crashed, calls, accepted>>

UnregisterSession ==
    /\ Ready(ServerThread, "Unregister")
    /\ sessions' = sessions \ {First(ServerThread).session}
    /\ queue' = Taken(ServerThread)
    /\ UNCHANGED <<started, accepts, created, detached, connected, reading,
                   stopping, todo, crashed, calls, accepted>>

ServerStep == \/ StartHandler \/ StopHandler \/ CloseAcceptor \/ ResetServer
              \/ DisconnectSessions \/ ClearStarted \/ DisconnectAllHandler
              \/ AcceptedHandler \/ UnregisterSession

SessionStep(t) == DisconnectHandler(t) \/ AsyncReceiveHandler(t)

IoStep(t) == SessionStep(t) \/ (t = ServerThread /\ ServerStep)

-----------------------------------------------------------------------------
(* Operations that end: a client connects or the accept fails; a client     *)
(* sends, or closes its end.                                               *)

AcceptEnds(ok) ==
    /\ accepted < MaxAccepts
    /\ \E s \in accepts : accepts' = accepts \ {s}
    /\ queue' = Put(queue, ServerThread, <<Accepted(ok)>>)
    /\ accepted' = accepted + 1
    /\ UNCHANGED <<started, created, detached, sessions, connected, reading,
                   stopping, todo, crashed, calls>>

ReadEnds(s, ok) ==
    /\ s \in reading
    /\ reading' = reading \ {s}
    /\ queue' = Put(queue, ThreadOf(s), <<Read(s, ok)>>)
    /\ UNCHANGED <<started, accepts, created, detached, sessions, connected,
                   stopping, todo, crashed, calls, accepted>>

Init ==
    /\ started = FALSE /\ crashed = FALSE
    /\ accepts = {} /\ created = 0 /\ detached = {}
    /\ sessions = {} /\ connected = {} /\ reading = {}
    /\ queue = [t \in IoThreads |-> <<>>]
    /\ stopping = <<>>
    /\ todo = [u \in Users |-> <<>>]
    /\ calls = 0 /\ accepted = 0

UserCall(u) == Start(u) \/ Stop(u) \/ DisconnectAll(u) \/ Restart(u)

Next ==
    /\ ~crashed
    /\ \/ \E u \in Users : UserCall(u) \/ UserStep(u)
       \/ \E t \in IoThreads : IoStep(t)
       \/ \E ok \in BOOLEAN : AcceptEnds(ok) \/ \E s \in reading : ReadEnds(s, ok)

Spec == Init /\ [][Next]_vars

\* Threads inside a call and io threads with handlers run; clients do as they
\* like.
FairSpec == /\ Spec
            /\ \A u \in Users : WF_vars(~crashed /\ UserStep(u))
            /\ \A t \in IoThreads : WF_vars(~crashed /\ IoStep(t))

-----------------------------------------------------------------------------
(* Properties.                                                             *)

TypeOK ==
    /\ started \in BOOLEAN /\ crashed \in BOOLEAN
    /\ created \in 0..Bound /\ calls \in 0..MaxCalls /\ accepted \in 0..MaxAccepts
    /\ accepts \subseteq Sessions /\ detached \subseteq Sessions
    /\ sessions \subseteq Sessions
    /\ connected \subseteq Sessions /\ reading \subseteq Sessions
    /\ queue \in [IoThreads -> Seq(Handlers)]
    /\ stopping \in {SubSeq(StopSteps, i, Len(StopSteps)) : i \in 1..5}
    /\ todo \in [Users -> Seq({"Start", "Stop", "DisconnectAll",
                               "AwaitStopped", "StartAgain"})]

Queued(t, h) == \E i \in 1..Len(queue[t]) : queue[t][i] = h
PendingAccepts == Cardinality({i \in 1..Len(queue[ServerThread]) :
                                  queue[ServerThread][i].op = "Accepted"})

\* The accept handlers share the member _session, so there must never be two
\* accepts, however the server is stopped and started while the handler of an
\* earlier accept is still queued; and the accept is the one of _session.  It holds
\* for one thread that calls the server, not for two.
OneAccept ==
    /\ Cardinality(accepts) + PendingAccepts <= 1
    /\ accepts \subseteq {created}

\* A server that is started goes on accepting, whatever becomes of an accept.
KeepsAccepting ==
    started /\ stopping = <<>> /\ ~crashed => Cardinality(accepts) + PendingAccepts >= 1

\* The list of sessions and their own flags, which different threads update,
\* agree but for the sessions about to be removed: every connected session can
\* be found and disconnected, and no other one stays.
SessionsAreAlive ==
    ~crashed =>
        /\ connected \subseteq sessions
        /\ \A s \in sessions \ connected : Queued(ServerThread, On(s, "Unregister"))

\* A connected session reads, so that it notices when its client is gone.
ClientIsWatched ==
    \A s \in connected : s \in reading \/ \E ok \in BOOLEAN : Queued(ThreadOf(s), Read(s, ok))

\* When the server has stopped, every session that is still connected has been
\* told to disconnect.
StopReachesSessions ==
    [][started /\ ~started' =>
          \A s \in connected : Queued(ThreadOf(s), On(s, "Disconnect"))]_vars

\* A server that is stopped gets rid of all of its sessions.
StopEmptiesServer == ~started ~> (sessions = {} \/ started \/ crashed)

\* Restart, the only call that waits, returns.
CallsReturn == \A u \in Users : (todo[u] # <<>>) ~> (todo[u] = <<>> \/ crashed)

\* Stopping the server, a documented call of a "thread-safe" class, does not
\* bring the program down.
StopIsSafe == ~crashed

-----------------------------------------------------------------------------
(* The inductive invariant, for a server that one thread calls.            *)

Has(q, op) == \E i \in 1..Len(q) : q[i].op = op
Once(q, op) == \A i, j \in 1..Len(q) : q[i].op = op /\ q[j].op = op => i = j

\* In the queue q no handler of one of the ops comes after one of op.
NoneAfter(q, op, ops) ==
    \A i, j \in 1..Len(q) : i < j /\ q[i].op = op => q[j].op \notin ops

Serving == queue[ServerThread]

\* The step a call takes next.
At(u) == IF todo[u] = <<>> THEN "Idle" ELSE Head(todo[u])

CallStacks == {<<>>, <<"Start">>, <<"Stop">>, <<"DisconnectAll">>,
               <<"Stop", "AwaitStopped", "StartAgain">>,
               <<"AwaitStopped", "StartAgain">>, <<"StartAgain">>}
StopStacks == {<<>>, StopSteps, <<"ResetServer", "DisconnectAll", "ClearStarted">>,
               <<"DisconnectAll", "ClearStarted">>, <<"ClearStarted">>}

StackInv == stopping \in StopStacks /\ \A u \in Users : todo[u] \in CallStacks

\* A Start does something only when the server is stopped.  One that is on its way then
\* is the last command, and one on its way to a started server comes before any Stop.
CommandInv ==
    /\ started => NoneAfter(Serving, "Stop", {"Start"})
    /\ ~started => NoneAfter(Serving, "Start", {"Stop", "Accepted"})
    /\ stopping # <<>> => started /\ ~Has(Serving, "Start")
    /\ \A u \in Users :
          /\ At(u) = "Start" /\ started => stopping = <<>> /\ ~Has(Serving, "Stop")
          /\ At(u) \in {"Stop", "AwaitStopped", "StartAgain"} /\ ~started
                => ~Has(Serving, "Start")

\* There is one accept at most, outstanding or with its handler queued, and just one
\* while the server is started.
AcceptInv ==
    /\ accepts \subseteq {created}
    /\ Once(Serving, "Accepted")
    /\ accepts # {} => ~Has(Serving, "Accepted")
    /\ ~started => accepts = {}
    /\ stopping \in StopStacks \ {<<>>, StopSteps} => accepts = {}
    /\ started /\ stopping = <<>> /\ ~crashed => accepts # {} \/ Has(Serving, "Accepted")

\* A session is created for a call or for an accept that ended; calls and accepts that
\* have yet to create theirs are set aside.
CountInv ==
    LET calling == \/ \E u \in Users : todo[u] # <<>> /\ todo[u][Len(todo[u])] = "StartAgain"
                   \/ ~started /\ Has(Serving, "Start")
                   \/ ~started /\ \E u \in Users : At(u) = "Start"
        ending == started /\ stopping = <<>> /\ Has(Serving, "Accepted")
    IN  /\ created + (IF calling THEN 1 ELSE 0) + (IF ending THEN 1 ELSE 0)
                <= calls + accepted
        /\ started \/ Has(Serving, "Accepted") => created >= 1

\* A handler that is about session s.
IsOf(h, s) == h.op \in {"Read", "Disconnect", "Unregister"} /\ h.session = s

\* Nothing is known of session s yet.
Fresh(s) ==
    /\ s \notin sessions \cup connected \cup reading
    /\ \A t \in IoThreads : \A i \in 1..Len(queue[t]) : ~IsOf(queue[t][i], s)

\* What was not accepted yet is fresh, so that no session connects twice.
FreshInv ==
    /\ \A s \in Sessions : s > created => Fresh(s)
    /\ accepts # {} \/ Has(Serving, "Accepted") => Fresh(created)

\* A session that was unregistered, or is about to be, is not connected.
SessionInv ==
    /\ connected \subseteq sessions
    /\ \A s \in Sessions : Queued(ServerThread, On(s, "Unregister")) => s \notin connected
    /\ SessionsAreAlive
    /\ ClientIsWatched

\* Between the last two steps of the handler of Stop every session that is connected has
\* been told.
ToldInv ==
    stopping = <<"ClearStarted">> =>
        \A s \in connected : Queued(ThreadOf(s), On(s, "Disconnect"))

\* Inductive if one thread calls the server.
ServerInv ==
    /\ TypeOK /\ StackInv /\ CommandInv /\ AcceptInv /\ CountInv
    /\ FreshInv /\ SessionInv /\ ToldInv
=============================================================================
