------------------------------ MODULE TCPClient ------------------------------
(***************************************************************************)
(* The asynchronous TCP client of the program: class TCPClient, the        *)
(* TCPAdapter derived from it and the Client application that reacts to    *)
(* its events.                                                             *)
(*                                                                         *)
(* Application threads (Users) call the API; one working thread (Io) runs  *)
(* the handlers posted to the client's io_service, in FIFO order.  A call  *)
(* or a handler that another thread can see half done is split where it    *)
(* can: todo[t] holds the steps thread t still has to take.                *)
(*                                                                         *)
(* A unit is the granule of data that one write or read may transfer.      *)
(* Units accepted by SendAsync are numbered 1, 2, ... for the life of the  *)
(* client, the ones the peer sends are numbered per connection.            *)
(***************************************************************************)
EXTENDS Integers, Sequences, Functions

CONSTANTS Users,     \* threads that call the client's API
          Io,        \* the thread that runs the client's io_service
          Calls,     \* the API calls the application makes
          MaxConn,   \* bound: connections that are established
          MaxSend,   \* bound: units passed to SendAsync
          MaxRecv,   \* bound: units the peer sends on a connection
          MaxQueue   \* bound: handlers queued when an API call starts

CallNames == {"ConnectAsync", "DisconnectAsync", "ReconnectAsync",
              "SendAsync", "ReceiveAsync", "DisconnectAndStop"}

ASSUME ThreadsAssumption == Io \notin Users
ASSUME CallsAssumption == Calls \subseteq CallNames
ASSUME BoundsAssumption == MaxConn \in Nat /\ MaxSend \in Nat
                           /\ MaxRecv \in Nat /\ MaxQueue \in Nat

VARIABLES
    connected,      \* _connected
    connecting,     \* _connecting
    receiving,      \* _receiving
    sending,        \* _sending
    main,           \* _send_buffer_main
    flush,          \* _send_buffer_flush
    offset,         \* _send_buffer_flush_offset
    bytesPending,   \* _bytes_pending
    bytesSending,   \* _bytes_sending
    rbuf,           \* _receive_buffer: the unit read last
    todo,           \* steps each thread still has to take
    queue,          \* handlers the io_service has not run yet
    sock,           \* state of _socket
    reads,          \* outstanding async_read_some operations
    writes,         \* outstanding async_write_some operations, their data
    epoch,          \* number of the connection established last
    wire,           \* units the peer was sent on this connection
    peerSent,       \* units the peer has sent on this connection
    taken,          \* how many of them were read from the socket
    peerClosed,     \* the peer has closed or reset the connection
    got,            \* units passed to onReceived on this connection
    issued,         \* units accepted by SendAsync
    orphans,        \* those of main accepted while not connected
    raced           \* history: a ReceiveAsync began a read when its check no
                    \* longer held

flags  == <<connected, connecting>>
sendv  == <<sending, main, flush, offset, bytesPending, bytesSending>>
recvv  == <<receiving, rbuf, got>>
sockv  == <<sock, reads, writes, epoch>>
peerv  == <<wire, peerSent, taken, peerClosed>>
ghosts == <<issued, orphans, raced>>
vars   == <<flags, sendv, recvv, todo, queue, sockv, peerv, ghosts>>

-----------------------------------------------------------------------------
(* Handlers and steps.                                                     *)

HandlerOps == {"Connect", "Disconnect", "TrySend",
               "Connected", "Received", "Written"}
Steps == {"PostConnect", "PostDisconnect", "PostSend", "AppendMain",
          "StartRead", "AwaitDisconnected", "ConnectAsync", "Stopped",
          "SetConnected", "TryReceive", "TrySend", "Disconnect",
          "ClearBuffers"}
ErrorCodes == {"success", "failure"}
Handlers == [op : HandlerOps, ec : ErrorCodes, n : Nat, conn : Nat]
Threads == Users \cup {Io}

\* A handler posted by the client's own code.
Handler(op) == [op |-> op, ec |-> "success", n |-> 0, conn |-> 0]

\* The completion handler of a socket operation: ec is the error code,
\* n the size and conn the connection the operation was started on.
Completion(op, ec, n, conn) ==
    [op |-> op, ec |-> ec, n |-> n, conn |-> conn]

\* Mutants of the next two: the check of the flag is missing.
ReceiveBlockedNoFlag == ~connected
SendBlockedNoFlag == ~connected

\* The checks TryReceive and TrySend begin with.
ReceiveBlocked == receiving \/ ~connected
SendBlocked == sending \/ ~connected

\* Thread t takes its next step and goes on with the steps in s.
Goto(t, step, s) ==
    /\ todo[t] # <<>>
    /\ Head(todo[t]) = step
    /\ todo' = [todo EXCEPT ![t] = s \o Tail(@)]

\* Thread u enters the API call `call`, whose first steps are s.
Enter(u, call, s) ==
    /\ call \in Calls
    /\ todo[u] = <<>>
    /\ Len(queue) < MaxQueue
    /\ todo' = [todo EXCEPT ![u] = s]

\* The io_service runs the handler at the front of its queue, which goes on
\* with the steps in s.
Run(op, s) ==
    /\ todo[Io] = <<>>
    /\ queue # <<>>
    /\ Head(queue).op = op
    /\ queue' = Tail(queue)
    /\ todo' = [todo EXCEPT ![Io] = s]

-----------------------------------------------------------------------------
(* The calls of the application threads.  A call that returns at its first *)
(* check has no effect and is left out.                                    *)

ConnectAsync(u) ==
    /\ ~connected /\ ~connecting
    /\ Enter(u, "ConnectAsync", <<"PostConnect">>)
    /\ UNCHANGED <<flags, sendv, recvv, queue, sockv, peerv, ghosts>>

DisconnectAsync(u) ==
    /\ connected /\ ~connecting
    /\ Enter(u, "DisconnectAsync", <<"PostDisconnect">>)
    /\ UNCHANGED <<flags, sendv, recvv, queue, sockv, peerv, ghosts>>

ReconnectAsync(u) ==
    /\ connected /\ ~connecting
    /\ Enter(u, "ReconnectAsync",
             <<"PostDisconnect", "AwaitDisconnected", "ConnectAsync">>)
    /\ UNCHANGED <<flags, sendv, recvv, queue, sockv, peerv, ghosts>>

\* TCPAdapter's: DisconnectAsync's refusal is ignored, the wait is not.
DisconnectAndStop(u) ==
    /\ Enter(u, "DisconnectAndStop",
             IF connected /\ ~connecting
             THEN <<"PostDisconnect", "AwaitDisconnected", "Stopped">>
             ELSE <<"AwaitDisconnected", "Stopped">>)
    /\ UNCHANGED <<flags, sendv, recvv, queue, sockv, peerv, ghosts>>

SendAsync(u) ==
    /\ connected
    /\ issued < MaxSend
    /\ Enter(u, "SendAsync", <<"AppendMain">>)
    /\ UNCHANGED <<flags, sendv, recvv, queue, sockv, peerv, ghosts>>

ReceiveAsync(u) ==
    /\ ~ReceiveBlocked
    /\ Enter(u, "ReceiveAsync", <<"StartRead">>)
    /\ UNCHANGED <<flags, sendv, recvv, queue, sockv, peerv, ghosts>>

Call(u) ==
    \/ ConnectAsync(u) \/ DisconnectAsync(u) \/ ReconnectAsync(u)
    \/ DisconnectAndStop(u) \/ SendAsync(u) \/ ReceiveAsync(u)

-----------------------------------------------------------------------------
(* The rest of a call, after its checks.                                   *)

Post(u) ==
    /\ \E p \in {<<"PostConnect", "Connect">>,
                 <<"PostDisconnect", "Disconnect">>,
                 <<"PostSend", "TrySend">>} :
          /\ Goto(u, p[1], <<>>)
          /\ queue' = Append(queue, Handler(p[2]))
    /\ UNCHANGED <<flags, sendv, recvv, sockv, peerv, ghosts>>

\* send_required: no handler that will look at the main buffer is on its way.
SendRequired == main = <<>> \/ flush = <<>>

\* The section of SendAsync under _send_lock.
AppendMain(u) ==
    /\ Goto(u, "AppendMain", IF SendRequired THEN <<"PostSend">> ELSE <<>>)
    /\ main' = Append(main, issued + 1)
    /\ bytesPending' = Len(main) + 1
    /\ issued' = issued + 1
    /\ orphans' = IF connected THEN orphans ELSE orphans \cup {issued + 1}
    /\ UNCHANGED <<flags, sending, flush, offset, bytesSending, recvv, queue,
                   sockv, peerv, raced>>

\* ConnectAsync as ReconnectAsync calls it.
ConnectAgain(u) ==
    /\ Goto(u, "ConnectAsync",
            IF connected \/ connecting THEN <<>> ELSE <<"PostConnect">>)
    /\ UNCHANGED <<flags, sendv, recvv, queue, sockv, peerv, ghosts>>

\* while (IsConnected()) Yield();
AwaitDisconnected(u) ==
    /\ ~connected
    /\ Goto(u, "AwaitDisconnected", <<>>)
    /\ UNCHANGED <<flags, sendv, recvv, queue, sockv, peerv, ghosts>>

\* Set _receiving and start the read; on a socket that is not open the
\* operation fails at once and its completion handler is posted.
BeginRead ==
    /\ receiving' = TRUE
    /\ IF sock = "open"
       THEN reads' = reads + 1 /\ UNCHANGED queue
       ELSE /\ queue' = Append(queue, Completion("Received", "failure", 0, 0))
            /\ UNCHANGED reads
    /\ UNCHANGED <<flags, sendv, rbuf, got, sock, writes, epoch, peerv, issued,
                   orphans>>

\* The rest of ReceiveAsync: it begins the read without a look at what became of
\* its check meanwhile: the io thread may have begun a read, or ended the
\* connection.
StartRead(u) ==
    /\ Goto(u, "StartRead", <<>>)
    /\ BeginRead
    /\ raced' = (raced \/ ReceiveBlocked)

UserStep(u) == Post(u) \/ AppendMain(u) \/ AwaitDisconnected(u)
               \/ StartRead(u) \/ ConnectAgain(u)

-----------------------------------------------------------------------------
(* Handlers, run by the io thread.                                         *)

\* Mutant: the connection is made synchronously in the handler, as Connect()
\* makes it, and not behind what is queued.
ConnectHandlerSync ==
    /\ Run("Connect", IF connected \/ connecting THEN <<>>
                      ELSE <<"SetConnected", "TryReceive">>)
    /\ IF connected \/ connecting \/ epoch = MaxConn
       THEN UNCHANGED <<sock, epoch, wire, peerSent, taken, peerClosed, got>>
       ELSE /\ sock' = "open" /\ epoch' = epoch + 1 /\ wire' = <<>>
            /\ peerSent' = 0 /\ taken' = 0 /\ peerClosed' = FALSE /\ got' = <<>>
    /\ UNCHANGED <<flags, sendv, receiving, rbuf, reads, writes, ghosts>>

\* connect_handler, up to the start of async_connect.
ConnectHandler ==
    /\ Run("Connect", <<>>)
    /\ IF connected \/ connecting
       THEN UNCHANGED <<connecting, sock>>
       ELSE connecting' = TRUE /\ sock' = "connecting"
    /\ UNCHANGED <<connected, sendv, recvv, reads, writes, epoch, peerv, ghosts>>

\* async_connect_handler.  The first TryReceive is the one Client makes when
\* it is told of the connection, the second is the handler's own.
AsyncConnectHandler ==
    /\ Run("Connected",
           IF ~connected /\ Head(queue).ec = "success"
           THEN <<"SetConnected", "TryReceive", "TryReceive">> ELSE <<>>)
    /\ connecting' = FALSE
    /\ UNCHANGED <<connected, sendv, recvv, sockv, peerv, ghosts>>

DisconnectHandler ==
    /\ Run("Disconnect", <<"Disconnect">>)
    /\ UNCHANGED <<flags, sendv, recvv, sockv, peerv, ghosts>>

SendHandler ==
    /\ Run("TrySend", <<"TrySend">>)
    /\ UNCHANGED <<flags, sendv, recvv, sockv, peerv, ghosts>>

\* Mutant: after a successful operation the next one is not started.
AfterCompletionOnce(ec, again) ==
    IF ~connected \/ ec = "success" \/ connecting THEN <<>> ELSE <<"Disconnect">>

\* What a completion handler does last: go on with `again`, or, after an
\* error, DisconnectAsync(true), which runs Disconnect at once.
AfterCompletion(ec, again) ==
    IF ~connected THEN <<>>
    ELSE IF ec = "success" THEN <<again>>
    ELSE IF connecting THEN <<>> ELSE <<"Disconnect">>

AsyncReceiveHandler ==
    /\ Run("Received", AfterCompletion(Head(queue).ec, "TryReceive"))
    /\ receiving' = FALSE
    /\ got' = IF connected /\ Head(queue).n > 0 THEN Append(got, rbuf) ELSE got
    /\ UNCHANGED <<flags, sendv, rbuf, sockv, peerv, ghosts>>

\* Mutant: a partial write does not advance the offset.
OffsetAfterForgotten(n) == IF offset + n = Len(flush) THEN 0 ELSE offset

\* The flush buffer and its offset once n more units of it were written.
FlushAfter(n) == IF offset + n = Len(flush) THEN <<>> ELSE flush
OffsetAfter(n) == IF offset + n = Len(flush) THEN 0 ELSE offset + n

AsyncWriteHandler ==
    LET n == Head(queue).n
    IN /\ Run("Written", AfterCompletion(Head(queue).ec, "TrySend"))
       /\ sending' = FALSE
       /\ IF connected /\ n > 0
          THEN /\ bytesSending' = bytesSending - n
               /\ flush' = FlushAfter(n)
               /\ offset' = OffsetAfter(n)
          ELSE UNCHANGED <<bytesSending, flush, offset>>
       /\ UNCHANGED <<flags, main, bytesPending, recvv, sockv, peerv, ghosts>>

-----------------------------------------------------------------------------
(* Steps of a handler.                                                     *)

SetConnected ==
    /\ Goto(Io, "SetConnected", <<>>)
    /\ connected' = TRUE
    /\ bytesPending' = 0
    /\ bytesSending' = 0
    /\ UNCHANGED <<connecting, sending, main, flush, offset, recvv, queue,
                   sockv, peerv, ghosts>>

\* Check and read are one step here: when ReceiveAsync passes its check between
\* the two, it makes no difference which of the two reads begins last.
TryReceive ==
    /\ Goto(Io, "TryReceive", <<>>)
    /\ IF ReceiveBlocked
       THEN UNCHANGED <<flags, sendv, recvv, queue, sockv, peerv, ghosts>>
       ELSE BeginRead /\ UNCHANGED raced

TrySend ==
    LET swap == flush = <<>>
        f == IF swap THEN main ELSE flush
        o == IF swap THEN 0 ELSE offset
    IN /\ Goto(Io, "TrySend", <<>>)
       /\ IF SendBlocked
          THEN UNCHANGED <<sendv, writes>>
          ELSE /\ flush' = f
               /\ offset' = o
               /\ main' = IF swap THEN <<>> ELSE main
               /\ bytesPending' = IF swap THEN 0 ELSE bytesPending
               /\ bytesSending' = bytesSending + IF swap THEN Len(f) ELSE 0
               /\ sending' = (f # <<>>)
               /\ writes' = IF f = <<>> THEN writes
                            ELSE Append(writes, SubSeq(f, o + 1, Len(f)))
       /\ UNCHANGED <<flags, recvv, queue, sock, reads, epoch, peerv, ghosts>>

\* Closing the socket aborts its outstanding operations: their handlers are
\* posted with an error.
Aborted == [i \in 1..reads |-> Completion("Received", "failure", 0, epoch)]
           \o [i \in 1..Len(writes) |-> Completion("Written", "failure", 0, epoch)]

\* Disconnect, up to the update of the connected flag ...
Disconnect ==
    /\ Goto(Io, "Disconnect", IF connected THEN <<"ClearBuffers">> ELSE <<>>)
    /\ IF connected
       THEN /\ connected' = FALSE
            /\ connecting' = FALSE
            /\ sock' = "closed"
            /\ queue' = queue \o Aborted
            /\ reads' = 0
            /\ writes' = <<>>
       ELSE UNCHANGED <<flags, sock, queue, reads, writes>>
    /\ UNCHANGED <<sendv, recvv, epoch, peerv, ghosts>>

\* ... and the rest of it.
ClearBuffers ==
    /\ Goto(Io, "ClearBuffers", <<>>)
    /\ receiving' = FALSE
    /\ sending' = FALSE
    /\ main' = <<>>
    /\ flush' = <<>>
    /\ offset' = 0
    /\ bytesPending' = 0
    /\ bytesSending' = 0
    /\ orphans' = {}
    /\ UNCHANGED <<flags, rbuf, got, queue, sockv, peerv, issued, raced>>

IoStep ==
    \/ ConnectHandler \/ AsyncConnectHandler \/ DisconnectHandler
    \/ SendHandler \/ AsyncReceiveHandler \/ AsyncWriteHandler
    \/ SetConnected \/ TryReceive \/ TrySend \/ Disconnect \/ ClearBuffers

-----------------------------------------------------------------------------
(* The kernel's side of the socket, and the peer.                          *)

ConnectDone(ec) ==
    /\ sock = "connecting"
    /\ ec = "success" => epoch < MaxConn
    /\ queue' = Append(queue, Completion("Connected", ec, 0, 0))
    /\ IF ec = "success"
       THEN /\ sock' = "open"
            /\ epoch' = epoch + 1
            /\ wire' = <<>>
            /\ peerSent' = 0
            /\ taken' = 0
            /\ peerClosed' = FALSE
            /\ got' = <<>>
       ELSE sock' = "closed" /\ UNCHANGED <<epoch, peerv, got>>
    /\ UNCHANGED <<flags, sendv, receiving, rbuf, todo, reads, writes, ghosts>>

\* A read takes the next unit into the receive buffer all reads share ...
ReadData ==
    /\ reads > 0
    /\ taken < peerSent
    /\ taken' = taken + 1
    /\ rbuf' = taken + 1
    /\ reads' = reads - 1
    /\ queue' = Append(queue, Completion("Received", "success", 1, epoch))
    /\ UNCHANGED <<flags, sendv, receiving, got, todo, sock, writes, epoch, wire,
                   peerSent, peerClosed, ghosts>>

\* ... or ends with eof or a reset.
ReadError ==
    /\ reads > 0
    /\ peerClosed
    /\ reads' = reads - 1
    /\ queue' = Append(queue, Completion("Received", "failure", 0, epoch))
    /\ UNCHANGED <<flags, sendv, recvv, todo, sock, writes, epoch, peerv, ghosts>>

\* A write passes a part of its data, or all of it, to the peer ...
WriteData ==
    /\ writes # <<>>
    /\ \E n \in 1..Len(Head(writes)) :
          /\ wire' = wire \o SubSeq(Head(writes), 1, n)
          /\ queue' = Append(queue, Completion("Written", "success", n, epoch))
    /\ writes' = Tail(writes)
    /\ UNCHANGED <<flags, sendv, recvv, todo, sock, reads, epoch, peerSent,
                   taken, peerClosed, ghosts>>

\* ... or fails.
WriteError ==
    /\ writes # <<>>
    /\ peerClosed
    /\ writes' = Tail(writes)
    /\ queue' = Append(queue, Completion("Written", "failure", 0, epoch))
    /\ UNCHANGED <<flags, sendv, recvv, todo, sock, reads, epoch, peerv, ghosts>>

PeerSend ==
    /\ sock = "open" /\ ~peerClosed
    /\ peerSent < MaxRecv
    /\ peerSent' = peerSent + 1
    /\ UNCHANGED <<flags, sendv, recvv, todo, queue, sockv, wire, taken,
                   peerClosed, ghosts>>

PeerClose ==
    /\ sock = "open" /\ ~peerClosed
    /\ peerClosed' = TRUE
    /\ UNCHANGED <<flags, sendv, recvv, todo, queue, sockv, wire, peerSent,
                   taken, ghosts>>

Kernel == \/ \E ec \in ErrorCodes : ConnectDone(ec)
          \/ ReadData \/ ReadError \/ WriteData \/ WriteError

-----------------------------------------------------------------------------

Init ==
    /\ connected = FALSE /\ connecting = FALSE
    /\ receiving = FALSE /\ sending = FALSE
    /\ main = <<>> /\ flush = <<>> /\ offset = 0
    /\ bytesPending = 0 /\ bytesSending = 0 /\ rbuf = 0
    /\ todo = [t \in Threads |-> <<>>]
    /\ queue = <<>>
    /\ sock = "closed" /\ reads = 0 /\ writes = <<>> /\ epoch = 0
    /\ wire = <<>> /\ peerSent = 0 /\ taken = 0 /\ peerClosed = FALSE
    /\ got = <<>> /\ issued = 0 /\ orphans = {} /\ raced = FALSE

Next ==
    \/ \E u \in Users : Call(u) \/ UserStep(u)
    \/ IoStep
    \/ Kernel
    \/ PeerSend \/ PeerClose

Spec == Init /\ [][Next]_vars

\* The io thread runs, a thread inside a call goes on with it, and an
\* operation on the socket ends: a connection attempt is answered or times
\* out, the peer reads what it is sent, what the peer sent can be read.
\* Nobody has to call the API, to send or to close.
Fairness ==
    /\ \A u \in Users : WF_vars(UserStep(u))
    /\ WF_vars(IoStep)
    /\ WF_vars(\E ec \in ErrorCodes : ConnectDone(ec))
    /\ WF_vars(ReadData \/ ReadError)
    /\ WF_vars(WriteData \/ WriteError)

FairSpec == Spec /\ Fairness

-----------------------------------------------------------------------------
(* Properties.                                                             *)

VarTypes ==
    /\ connected \in BOOLEAN /\ connecting \in BOOLEAN
    /\ receiving \in BOOLEAN /\ sending \in BOOLEAN
    /\ main \in Seq(Nat) /\ flush \in Seq(Nat) /\ offset \in Nat
    /\ bytesPending \in Nat /\ bytesSending \in Int /\ rbuf \in Nat
    /\ todo \in [Threads -> Seq(Steps)]
    /\ queue \in Seq(Handlers)
    /\ sock \in {"closed", "connecting", "open"}
    /\ reads \in Nat /\ writes \in Seq(Seq(Nat)) /\ epoch \in Nat
    /\ wire \in Seq(Nat) /\ peerSent \in Nat /\ taken \in Nat
    /\ peerClosed \in BOOLEAN
    /\ got \in Seq(Nat) /\ issued \in Nat /\ orphans \in SUBSET Nat
    /\ raced \in BOOLEAN

\* The type invariant.  _bytes_sending, a uint64_t from which the size of
\* every write is subtracted, never goes below zero.
TypeOK == VarTypes /\ bytesSending \in Nat

Queued(op) == \E i \in 1..Len(queue) : queue[i].op = op

\* The buffer a write was given is not touched while the write is outstanding:
\* TrySend neither swaps nor rewrites the flush buffer, and Disconnect aborts
\* the write before it clears the buffer.
WriteBufferStable ==
    writes # <<>> =>
        /\ Len(writes) = 1
        /\ sending
        /\ flush # <<>>
        /\ writes[1] = SubSeq(flush, offset + 1, Len(flush))

\* _bytes_sending counts what is left of the flush buffer, whatever became of
\* the connection between the start of a write and its completion.
BytesSendingExact == bytesSending = Len(flush) - offset

\* No lost wake-up between SendAsync, which skips posting a handler when it
\* finds both buffers in use, and the write handler, which empties them: data
\* in the flush buffer of a connected client is being written.
NoLostWakeup ==
    (connected /\ flush # <<>> /\ todo[Io] = <<>>)
        => (writes # <<>> \/ Queued("Written"))

\* The receive loop never dies: a connected client has a read outstanding on
\* this connection, or the handler of one is queued.  The application may call
\* ReceiveAsync beside the loop, as Client does; nothing but a read it begins
\* after its check became stale can break the loop.
ReadLoopAlive ==
    (~raced /\ connected /\ todo[Io] = <<>>)
        => \/ reads > 0
           \/ \E i \in 1..Len(queue) : /\ queue[i].op = "Received"
                                       /\ queue[i].conn = epoch

InOrder == \A i \in 1..Len(got) : got[i] = i

\* onReceived is given what the peer sent, in order, each unit once, although
\* every read of the client uses the same receive buffer: until a stale
\* ReceiveAsync puts two reads on it, a ReceiveAsync beside the loop does not.
ReceivedInOrder == ~raced => InOrder

\* Whatever ReceiveAsync does.  This does not hold: two reads put their data into
\* the one buffer before the handler of the first has passed it on.
AlwaysInOrder == InOrder

\* The completion handler of an operation of an earlier connection is run only
\* while the client is not connected: it can neither clear _sending or
\* _receiving under a new connection nor disconnect it.  For the handlers of
\* reads this needs that no stale ReceiveAsync has begun one.
StaleOnlyWhenDisconnected ==
    (/\ todo[Io] = <<>>
     /\ queue # <<>>
     /\ Head(queue).op = "Written" \/ (Head(queue).op = "Received" /\ ~raced)
     /\ Head(queue).conn # epoch)
        => ~connected

\* bytes_pending(), documented as the number of bytes pending sent, counts all
\* of both buffers.  This does not hold: what a SendAsync appends after a
\* disconnection cleared the buffers is kept, and the next connection resets the
\* count.
BytesPendingExact == bytesPending + bytesSending = Len(main) + Len(flush) - offset

\* Of these the handlers of writes, whatever the application does.
StaleWriteOnlyWhenDisconnected ==
    (/\ todo[Io] = <<>>
     /\ queue # <<>>
     /\ Head(queue).op = "Written"
     /\ Head(queue).conn # epoch)
        => ~connected

\* A unit SendAsync accepted on a live connection is sent on it, unless the
\* connection is lost first.
AcceptedIsSent ==
    \A n \in 1..MaxSend :
        (connected /\ n \in Range(main) \ orphans)
            ~> (n \in Range(wire) \/ ~connected)

\* What the peer sent is passed to onReceived, unless the connection is lost.
SentIsReceived ==
    \A n \in 1..MaxRecv :
        (connected /\ peerSent >= n) ~> (Len(got) >= n \/ ~connected)

\* "Press Enter to stop the client": DisconnectAndStop returns.
StopReturns ==
    \A u \in Users : (todo[u] # <<>> /\ todo[u][Len(todo[u])] = "Stopped")
                         ~> (todo[u] = <<"Stopped">>)

-----------------------------------------------------------------------------
(* The inductive invariant of the send path.                               *)

UserSteps == {"PostConnect", "PostDisconnect", "PostSend", "AppendMain",
              "StartRead", "AwaitDisconnected", "ConnectAsync", "Stopped"}

\* What the io thread can still have to do of the handler it runs.
IoStacks == {<<>>,
             <<"SetConnected", "TryReceive", "TryReceive">>,
             <<"TryReceive", "TryReceive">>, <<"TryReceive">>,
             <<"TrySend">>, <<"Disconnect">>, <<"ClearBuffers">>}

StackInv ==
    /\ todo[Io] \in IoStacks
    /\ \A u \in Users : todo[u] \in Seq(UserSteps)

\* A connection is made by at most one handler at a time, and no handler of a
\* write is queued behind the one that will set _connected.
PhaseInv ==
    /\ connected => sock = "open" /\ ~connecting
    /\ sock = "connecting" => connecting /\ ~connected
    /\ \A i \in 1..Len(queue) :
          queue[i].op = "Connected" =>
              /\ connecting /\ ~connected /\ sock # "connecting"
              /\ queue[i].ec = "success" => sock = "open"
              /\ \A j \in 1..Len(queue) :
                    queue[j].op \in {"Connected", "Written"} => j <= i
    /\ (todo[Io] # <<>> /\ Head(todo[Io]) = "SetConnected") =>
          /\ ~connected /\ ~connecting /\ sock = "open"
          /\ ~Queued("Connected") /\ ~Queued("Written")
    /\ todo[Io] = <<"ClearBuffers">> => ~connected /\ sock = "closed"

BufferInv ==
    /\ offset <= Len(flush)
    /\ flush # <<>> => offset < Len(flush)
    /\ bytesSending = Len(flush) - offset
    /\ ~connected => writes = <<>>
    /\ (~connected /\ todo[Io] # <<"ClearBuffers">>)
          => flush = <<>> /\ offset = 0 /\ ~sending

\* _sending stands for exactly one write of this connection, outstanding or
\* with its handler queued.
WriteInv ==
    /\ writes # <<>> =>
          /\ Len(writes) = 1
          /\ sending
          /\ flush # <<>>
          /\ writes[1] = SubSeq(flush, offset + 1, Len(flush))
          /\ ~Queued("Written")
    /\ connected => \A i \in 1..Len(queue) :
          queue[i].op = "Written" =>
              /\ sending
              /\ queue[i].conn = epoch
              /\ queue[i].n <= Len(flush) - offset
              /\ \A j \in 1..Len(queue) : queue[j].op = "Written" => j = i
    /\ (connected /\ sending) =>
          flush # <<>> /\ (writes # <<>> \/ Queued("Written"))
    /\ (connected /\ flush # <<>> /\ ~sending)
          => todo[Io] \in {<<"TrySend">>, <<"Disconnect">>}

\* Inductive, and enough for every safety property of the send path.
SendInv == VarTypes /\ StackInv /\ PhaseInv /\ BufferInv /\ WriteInv

-----------------------------------------------------------------------------
(* The inductive invariant of the receive path.                            *)

\* _receiving stands for exactly one read of this connection, outstanding or with
\* its handler queued; the handlers of an earlier connection's reads are queued
\* before the one that will set _connected.
ReadInv ==
    /\ ~connected => reads = 0
    /\ (~connected /\ todo[Io] # <<"ClearBuffers">>) => ~receiving
    /\ connected =>
          /\ reads > 0 => reads = 1 /\ receiving /\ ~Queued("Received")
          /\ \A i \in 1..Len(queue) :
                queue[i].op = "Received" =>
                    /\ receiving
                    /\ queue[i].conn = epoch
                    /\ \A j \in 1..Len(queue) : queue[j].op = "Received" => j = i
          /\ receiving => reads > 0 \/ Queued("Received")
          /\ ~receiving => todo[Io] \in {<<"TryReceive", "TryReceive">>,
                                         <<"TryReceive">>, <<"Disconnect">>}
    /\ \A i, j \in 1..Len(queue) :
          queue[i].op = "Connected" /\ queue[j].op = "Received" => j < i
    /\ (todo[Io] # <<>> /\ Head(todo[Io]) = "SetConnected") => ~Queued("Received")

\* A unit that was read and not yet passed on is the one in the receive buffer.
Unpassed == \E i \in 1..Len(queue) : queue[i].op = "Received" /\ queue[i].n > 0

GotInv ==
    /\ InOrder
    /\ (sock = "open" /\ ~connected) => taken = 0 /\ got = <<>>
    /\ connected /\ Unpassed => taken = Len(got) + 1 /\ rbuf = taken
    /\ connected /\ ~Unpassed => taken = Len(got)

LoopInv == SendInv /\ ReadInv /\ GotInv

\* Inductive: the receive path is in order until a stale ReceiveAsync.
ReceiveInv == SendInv /\ (~raced => LoopInv)

-----------------------------------------------------------------------------
(* What SendAsync promises: SendChannel, whose buffer holds the units that *)
(* no write has taken yet.                                                 *)

\* How much of the flush buffer a write has sent whose handler is queued.
Unhandled ==
    LET W == {i \in 1..Len(queue) : queue[i].op = "Written" /\ queue[i].conn = epoch}
    IN IF W = {} THEN 0 ELSE queue[CHOOSE i \in W : TRUE].n

Unsent == SubSeq(flush, offset + Unhandled + 1, Len(flush)) \o main

Chan == INSTANCE SendChannel WITH up <- (sock = "open"), accepted <- issued,
                                  buffered <- Unsent, delivered <- wire

\* Units reach the peer in the order SendAsync accepted them, each once, and
\* none is dropped from the buffers while the connection is open.
ImplementsSendChannel == Chan!Spec
=============================================================================
