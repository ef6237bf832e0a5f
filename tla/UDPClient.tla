------------------------------ MODULE UDPClient ------------------------------
(***************************************************************************)
(* The UDP client of the program: class UDPClient and EVCCUdpClient, which *)
(* opens and closes it with the synchronous Connect and Disconnect on an   *)
(* application's thread and keeps a receive going from its callbacks, on   *)
(* the io thread.                                                          *)
(*                                                                         *)
(* The two threads share every member and no lock: todo[t] holds the steps *)
(* thread t still has to take, and queue the handlers of operations that   *)
(* have ended.  A datagram is whole, or of size 0: one that a peer sent    *)
(* empty, or that had its buffer emptied under it.                         *)
(***************************************************************************)
EXTENDS Integers, Sequences

CONSTANTS App, Io,     \* the application's thread and the one of the io_service
          Registered,  \* the application has set a callback for disconnection
          MaxStarts    \* bound: calls of start

ASSUME ThreadsDiffer == App # Io
ASSUME UDPBounds == Registered \in BOOLEAN /\ MaxStarts \in Nat

VARIABLES connected,   \* _connected
          stop,        \* _stop
          receiving,   \* _receiving
          sending,     \* _sending
          full,        \* _send_buffer holds a datagram
          open,        \* _socket is open
          reads,       \* outstanding async_receive_from of this socket
          sends,       \* outstanding async_send_to: is each datagram whole?
          queue,       \* handlers of the operations that have ended
          todo,        \* steps each thread has still to take
          listening,   \* the receive loop of this connection was started, and not
                       \* ended by an empty datagram
          settled,     \* each start so far found the io thread done with what was before
          starts       \* calls of start so far

flags == <<connected, stop, receiving, sending>>
socket == <<open, reads, sends, queue>>
history == <<listening, settled, starts>>
vars == <<flags, full, socket, todo, history>>

Threads == {App, Io}
Handlers == [op : {"Received", "Sent"}, ok : BOOLEAN, whole : BOOLEAN]
Steps == {"Connect", "Open", "SetConnected", "Disconnect", "Close", "ClearConnected",
          "ClearFlags", "ClearBuffers", "TellDisconnected", "Assign", "MarkSending",
          "SendTo", "ClearSent", "TryReceive", "MarkReceiving", "ReceiveFrom"}

Ended(op, ok, whole) == [op |-> op, ok |-> ok, whole |-> whole]
Aborted == [i \in 1..reads |-> Ended("Received", FALSE, TRUE)]
           \o [i \in DOMAIN sends |-> Ended("Sent", FALSE, sends[i])]

\* Thread t takes the step s, and puts the steps of rest in its place.
Do(t, s, rest) ==
    /\ todo[t] # <<>> /\ Head(todo[t]) = s
    /\ todo' = [todo EXCEPT ![t] = rest \o Tail(@)]

-----------------------------------------------------------------------------
(* Calls of the application.                                               *)

Idle == todo[App] = <<>>

Start ==
    /\ Idle /\ starts < MaxStarts
    /\ stop' = FALSE
    /\ starts' = starts + 1
    /\ settled' = (settled /\ ~connected /\ todo[Io] = <<>> /\ queue = <<>>)
    /\ todo' = [todo EXCEPT ![App] = <<"Connect">>]
    /\ UNCHANGED <<connected, receiving, sending, full, socket, listening>>

Stop ==
    /\ Idle
    /\ stop' = TRUE
    /\ todo' = [todo EXCEPT ![App] = <<"Disconnect">>]
    /\ UNCHANGED <<connected, receiving, sending, full, socket, history>>

\* Mutant: a datagram may be accepted while another is being sent.
SendAsyncAlways ==
    /\ Idle /\ connected
    /\ todo' = [todo EXCEPT ![App] = <<"Assign", "MarkSending", "SendTo">>]
    /\ UNCHANGED <<flags, full, socket, history>>

\* sendMulticast: SendAsync, refused while a datagram is being sent.
SendAsync ==
    /\ Idle /\ ~sending /\ connected
    /\ todo' = [todo EXCEPT ![App] = <<"Assign", "MarkSending", "SendTo">>]
    /\ UNCHANGED <<flags, full, socket, history>>

Call == Start \/ Stop \/ SendAsync

-----------------------------------------------------------------------------
(* Connect, on the application's thread.                                   *)

Connect ==
    /\ Do(App, "Connect", IF connected THEN <<>> ELSE <<"Open", "SetConnected">>)
    /\ UNCHANGED <<flags, full, socket, history>>

\* Opening a socket that is open throws.
Open ==
    /\ todo[App] # <<>> /\ Head(todo[App]) = "Open"
    /\ todo' = [todo EXCEPT ![App] = IF open THEN <<>> ELSE Tail(@)]
    /\ open' = TRUE
    /\ UNCHANGED <<flags, full, reads, sends, queue, history>>

SetConnected ==
    /\ Do(App, "SetConnected", <<>>)
    /\ connected' = TRUE
    /\ UNCHANGED <<stop, receiving, sending, full, socket, history>>

Connecting == Connect \/ Open \/ SetConnected

(* Disconnect, on either thread.                                           *)

Teardown == <<"Close", "ClearConnected", "ClearFlags", "ClearBuffers", "TellDisconnected">>

Disconnect(t) ==
    /\ Do(t, "Disconnect", IF connected THEN Teardown ELSE <<>>)
    /\ UNCHANGED <<flags, full, socket, history>>

Close(t) ==
    /\ Do(t, "Close", <<>>)
    /\ open' = FALSE
    /\ queue' = queue \o Aborted
    /\ reads' = 0 /\ sends' = <<>>
    /\ listening' = FALSE
    /\ UNCHANGED <<flags, full, settled, starts>>

ClearConnected(t) ==
    /\ Do(t, "ClearConnected", <<>>)
    /\ connected' = FALSE
    /\ UNCHANGED <<stop, receiving, sending, full, socket, history>>

ClearFlags(t) ==
    /\ Do(t, "ClearFlags", <<>>)
    /\ receiving' = FALSE /\ sending' = FALSE
    /\ UNCHANGED <<connected, stop, full, socket, history>>

ClearBuffers(t) ==
    /\ Do(t, "ClearBuffers", <<>>)
    /\ full' = FALSE
    /\ UNCHANGED <<flags, socket, history>>

\* EVCCUdpClient::onDisconnected
TellDisconnected(t) ==
    /\ Do(t, "TellDisconnected", <<>>)
    /\ stop' = (stop \/ Registered)
    /\ UNCHANGED <<connected, receiving, sending, full, socket, history>>

Disconnecting(t) == \/ Disconnect(t) \/ Close(t) \/ ClearConnected(t) \/ ClearFlags(t)
                    \/ ClearBuffers(t) \/ TellDisconnected(t)

-----------------------------------------------------------------------------
(* Sending, on the application's thread.                                   *)

Assign ==
    /\ Do(App, "Assign", <<>>)
    /\ full' = TRUE
    /\ UNCHANGED <<flags, socket, history>>

MarkSending ==
    /\ Do(App, "MarkSending", <<>>)
    /\ sending' = TRUE
    /\ UNCHANGED <<connected, stop, receiving, full, socket, history>>

\* On a closed socket the operation fails at once.
SendTo ==
    /\ Do(App, "SendTo", <<>>)
    /\ IF open
         THEN sends' = Append(sends, full) /\ UNCHANGED queue
         ELSE queue' = Append(queue, Ended("Sent", FALSE, full)) /\ UNCHANGED sends
    /\ UNCHANGED <<flags, full, open, reads, history>>

Sending == Assign \/ MarkSending \/ SendTo

-----------------------------------------------------------------------------
(* Handlers, on the io thread.                                             *)

\* The io thread takes the next handler, which goes on with the steps rest.
Take(h, rest) ==
    /\ todo[Io] = <<>>
    /\ queue # <<>> /\ Head(queue) = h
    /\ queue' = Tail(queue)
    /\ todo' = [todo EXCEPT ![Io] = IF ~connected THEN <<>>
                                    ELSE IF h.ok THEN rest
                                    ELSE <<"Disconnect">>]

\* The handler of async_send_to; onSent is not called for an empty datagram.
SentHandler(h) ==
    /\ h.op = "Sent"
    /\ Take(h, IF h.whole THEN <<"ClearSent", "TryReceive">> ELSE <<>>)
    /\ sending' = FALSE
    /\ UNCHANGED <<connected, stop, receiving, full, open, reads, sends, history>>

ClearSent ==
    /\ Do(Io, "ClearSent", <<>>)
    /\ full' = FALSE
    /\ UNCHANGED <<flags, socket, history>>

\* The receive loop ends with an empty datagram: onReceived is not called for it.
EndsLoop(h) == connected /\ h.ok /\ ~h.whole

\* Mutant: a handler that leaves the flag to the next receive.
ReceivedHandlerKeepsFlag(h) ==
    /\ h.op = "Received"
    /\ Take(h, IF h.whole THEN <<"TryReceive">> ELSE <<>>)
    /\ listening' = (listening /\ ~EndsLoop(h))
    /\ UNCHANGED <<flags, full, open, reads, sends, settled, starts>>

\* The handler of async_receive_from.
ReceivedHandler(h) ==
    /\ h.op = "Received"
    /\ Take(h, IF h.whole THEN <<"TryReceive">> ELSE <<>>)
    /\ receiving' = FALSE
    /\ listening' = (listening /\ ~EndsLoop(h))
    /\ UNCHANGED <<connected, stop, sending, full, open, reads, sends, settled, starts>>

\* Mutant: the flag is not tested.
TryReceiveTwice ==
    /\ Do(Io, "TryReceive", IF stop \/ ~connected THEN <<>>
                            ELSE <<"MarkReceiving", "ReceiveFrom">>)
    /\ UNCHANGED <<flags, full, socket, history>>

\* onSent and onReceived receive on unless stopped.
TryReceive ==
    /\ Do(Io, "TryReceive", IF stop \/ receiving \/ ~connected THEN <<>>
                            ELSE <<"MarkReceiving", "ReceiveFrom">>)
    /\ UNCHANGED <<flags, full, socket, history>>

MarkReceiving ==
    /\ Do(Io, "MarkReceiving", <<>>)
    /\ receiving' = TRUE
    /\ UNCHANGED <<connected, stop, sending, full, socket, history>>

ReceiveFrom ==
    /\ Do(Io, "ReceiveFrom", <<>>)
    /\ IF open
         THEN reads' = reads + 1 /\ listening' = TRUE /\ UNCHANGED queue
         ELSE /\ queue' = Append(queue, Ended("Received", FALSE, TRUE))
              /\ UNCHANGED <<reads, listening>>
    /\ UNCHANGED <<flags, full, open, sends, settled, starts>>

Receiving == TryReceive \/ MarkReceiving \/ ReceiveFrom

-----------------------------------------------------------------------------
(* The socket.                                                             *)

ReceiveEnds ==
    /\ reads > 0
    /\ reads' = reads - 1
    /\ \E ok, whole \in BOOLEAN : /\ ok \/ whole
                                  /\ queue' = Append(queue, Ended("Received", ok, whole))
    /\ UNCHANGED <<flags, full, open, sends, todo, history>>

SendEnds ==
    /\ sends # <<>>
    /\ sends' = Tail(sends)
    /\ \E ok \in BOOLEAN : queue' = Append(queue, Ended("Sent", ok, Head(sends)))
    /\ UNCHANGED <<flags, full, open, reads, todo, history>>

Init ==
    /\ connected = FALSE /\ stop = TRUE /\ receiving = FALSE /\ sending = FALSE
    /\ full = FALSE
    /\ open = FALSE /\ reads = 0 /\ sends = <<>> /\ queue = <<>>
    /\ todo = [t \in Threads |-> <<>>]
    /\ listening = FALSE /\ settled = TRUE /\ starts = 0

AppStep == Connecting \/ Disconnecting(App) \/ Sending
IoStep == \/ \E h \in Handlers : SentHandler(h) \/ ReceivedHandler(h)
          \/ ClearSent \/ Receiving \/ Disconnecting(Io)

Next == Call \/ AppStep \/ IoStep \/ ReceiveEnds \/ SendEnds

Spec == Init /\ [][Next]_vars

-----------------------------------------------------------------------------
(* Properties.                                                             *)

\* The types; and one datagram at a time is given to the socket from the one buffer,
\* unless a start did not wait for the io thread.
TypeOK ==
    /\ flags \in BOOLEAN \X BOOLEAN \X BOOLEAN \X BOOLEAN
    /\ full \in BOOLEAN /\ open \in BOOLEAN
    /\ reads \in Nat /\ sends \in Seq(BOOLEAN)
    /\ settled => Len(sends) <= 1
    /\ queue \in Seq(Handlers)
    /\ todo \in [Threads -> Seq(Steps)]
    /\ listening \in BOOLEAN /\ settled \in BOOLEAN /\ starts \in 0..MaxStarts

\* While a client that was not stopped is connected, a receive loop that was begun goes
\* on, whatever the application does to the flags, unless an empty datagram ends it or
\* a start did not wait for the io thread.
ReceiveLoopAlive ==
    settled /\ connected /\ ~stop /\ listening =>
        \/ reads > 0 \/ todo[Io] # <<>>
        \/ \E i \in DOMAIN queue : queue[i].op = "Received"

\* onSent and onReceived both receive on: never two receives into one buffer, unless a
\* start did not wait for the io thread.
OneReceive == settled => reads <= 1

\* The client receives on after each datagram until it is stopped.  This does not hold:
\* an empty one ends the loop.
ReceivesOn ==
    [][\A h \in Handlers :
          ReceivedHandler(h) /\ h.ok /\ connected /\ ~stop => todo'[Io] # <<>>]_vars

\* Never two receives, whenever the client is started.  This does not hold: the handler
\* of a receive that was aborted clears the flag of the next connection's.
NeverTwoReceives == reads <= 1

\* What SendAsync accepted is sent whole.  This does not hold: the handler of the
\* datagram before may clear the buffer in between.
WholeDatagrams == \A i \in DOMAIN sends : sends[i]

-----------------------------------------------------------------------------
(* The inductive invariant.                                                *)

TeardownStacks ==
    {<<"Close", "ClearConnected", "ClearFlags", "ClearBuffers", "TellDisconnected">>,
     <<"ClearConnected", "ClearFlags", "ClearBuffers", "TellDisconnected">>,
     <<"ClearFlags", "ClearBuffers", "TellDisconnected">>,
     <<"ClearBuffers", "TellDisconnected">>, <<"TellDisconnected">>}
AppStacks ==
    TeardownStacks \cup
    {<<>>, <<"Connect">>, <<"Open", "SetConnected">>, <<"SetConnected">>, <<"Disconnect">>,
     <<"Assign", "MarkSending", "SendTo">>, <<"MarkSending", "SendTo">>, <<"SendTo">>}
IoStacks ==
    TeardownStacks \cup
    {<<>>, <<"Disconnect">>, <<"ClearSent", "TryReceive">>, <<"TryReceive">>,
     <<"MarkReceiving", "ReceiveFrom">>, <<"ReceiveFrom">>}

\* The step thread t takes next.
At(t) == IF todo[t] = <<>> THEN "Idle" ELSE Head(todo[t])

Queued(op) == \E i \in 1..Len(queue) : queue[i].op = op
QueuedOnce(op) == \A i, j \in 1..Len(queue) : queue[i].op = op /\ queue[j].op = op => i = j

StackInv == todo[App] \in AppStacks /\ todo[Io] \in IoStacks

\* A connection is made when nothing of an earlier one is left, and what one thread
\* has closed is closed until the other is done with it too.
PhaseInv ==
    /\ At(App) \in {"Connect", "Open", "SetConnected"} =>
          /\ At(Io) = "Idle" /\ queue = <<>> /\ reads = 0 /\ sends = <<>>
          /\ ~connected /\ ~receiving /\ ~sending /\ ~listening
    /\ ~connected /\ At(App) # "SetConnected" => ~open
    /\ ~open => reads = 0 /\ sends = <<>> /\ ~listening
    /\ \A t \in Threads :
          /\ At(t) = "ClearConnected" => ~open
          /\ At(t) \in {"ClearFlags", "ClearBuffers", "TellDisconnected"}
                => ~open /\ ~connected

\* There is one receive at most: about to be started, outstanding, or with its handler
\* queued; and while the client is connected, one exactly if _receiving is set.
ReceiveInv ==
    /\ reads <= 1 /\ QueuedOnce("Received")
    /\ reads > 0 => ~Queued("Received") /\ At(Io) \notin {"MarkReceiving", "ReceiveFrom"}
    /\ At(Io) \in {"MarkReceiving", "ReceiveFrom"} => ~Queued("Received")
    /\ receiving => reads > 0 \/ Queued("Received") \/ At(Io) = "ReceiveFrom"
    /\ connected /\ (reads > 0 \/ Queued("Received") \/ At(Io) = "ReceiveFrom") => receiving

\* The same for the datagram that is sent.
SendInv ==
    /\ Len(sends) <= 1 /\ QueuedOnce("Sent")
    /\ sends # <<>> => ~Queued("Sent") /\ At(App) \notin {"Assign", "MarkSending", "SendTo"}
    /\ At(App) \in {"Assign", "MarkSending", "SendTo"} => ~Queued("Sent")
    /\ sending => sends # <<>> \/ Queued("Sent") \/ At(App) = "SendTo"
    /\ connected /\ (sends # <<>> \/ Queued("Sent") \/ At(App) = "SendTo") => sending

\* ReceiveLoopAlive in these terms.
LoopInv ==
    connected /\ ~stop /\ listening =>
        reads > 0 \/ At(Io) # "Idle" \/ Queued("Received")

\* What holds as long as each start waited for the io thread.
SettledInv ==
    settled /\ TypeOK /\ StackInv /\ PhaseInv /\ ReceiveInv /\ SendInv /\ LoopInv

\* The first start has nothing to wait for.
FirstInv ==
    /\ starts <= 1 => settled
    /\ starts = 0 => /\ ~connected /\ reads = 0 /\ sends = <<>> /\ queue = <<>>
                    /\ todo[Io] = <<>> /\ todo[App] \in {<<>>, <<"Disconnect">>}

\* Inductive.
UDPInv == TypeOK /\ StackInv /\ FirstInv /\ (settled => SettledInv)
=============================================================================
