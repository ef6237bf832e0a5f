---------------------------- MODULE TimedTransfer ----------------------------
(***************************************************************************)
(* Send and Receive with a timeout, of TCPClient (TCPSession and SSLClient *)
(* have the same code): a thread starts a timer and then a transfer on the *)
(* io thread and waits until the handlers of both have run.  The handlers  *)
(* use variables of the call; the first of them cancels the timer and      *)
(* every operation of the socket, the receive loop's read among them.  The *)
(* timer's may run before the transfer has started, and cancels it not.    *)
(*                                                                         *)
(* The io thread runs its FIFO of handlers one at a time.  The handler of  *)
(* a transfer takes two steps: it signals, then it stores the size.  The   *)
(* connection is abstracted from TCPClient: it is up or down, and a read   *)
(* of the receive loop that fails takes it down.                           *)
(***************************************************************************)
EXTENDS Integers, FiniteSets, SequencesExt

CONSTANTS Callers,      \* threads that call Send or Receive
          MaxCalls,     \* bound: calls of each thread
          MaxConnects   \* bound: connections

ASSUME TransferBounds == MaxCalls \in Nat /\ MaxConnects \in Nat

VARIABLES pc,          \* where each call is
          done,        \* done of each call
          error,       \* its error: that of the first handler
          size,        \* its sent or received
          armed,       \* calls with a timer that runs
          transfers,   \* calls with an outstanding transfer
          moved,       \* what the last transfer of each thread transferred
          storing,     \* the size the running handler has yet to store, and its call
          connected,   \* _connected, and the socket is open
          reading,     \* the receive loop's read is outstanding
          queue,       \* handlers of the io thread
          calls,       \* calls of each thread so far
          connects,    \* connections so far
          dropped      \* causes of the disconnections so far

call == <<pc, done, error, size, armed, transfers, moved, storing>>
connection == <<connected, reading, connects, dropped>>
vars == <<call, connection, queue, calls>>

Errors == {"ok", "timed_out", "aborted", "failed"}
Handlers == [op : {"Timer"}, caller : Callers, ec : Errors]
            \cup [op : {"Transfer"}, caller : Callers, ec : Errors, n : {0, 1}]
            \cup [op : {"Read"}, ec : Errors]

Timer(c, ec) == [op |-> "Timer", caller |-> c, ec |-> ec]
Transfer(c, ec, n) == [op |-> "Transfer", caller |-> c, ec |-> ec, n |-> n]
Read(ec) == [op |-> "Read", ec |-> ec]

\* Handlers of the operations that cancelling, or closing, the socket aborts.
Aborted == SetToSeq({Transfer(c, "aborted", 0) : c \in transfers})
           \o (IF reading THEN <<Read("aborted")>> ELSE <<>>)

-----------------------------------------------------------------------------
(* Calls.                                                                  *)

\* The tests of Send and Receive.
Enter(c) ==
    /\ pc[c] = "idle"
    /\ connected
    /\ calls[c] < MaxCalls
    /\ pc' = [pc EXCEPT ![c] = "entered"]
    /\ calls' = [calls EXCEPT ![c] = @ + 1]
    /\ UNCHANGED <<done, error, size, armed, transfers, moved, storing, connection, queue>>

\* The variables of the handlers are made and the timer is started.
StartTimer(c) ==
    /\ pc[c] = "entered"
    /\ pc' = [pc EXCEPT ![c] = "timing"]
    /\ done' = [done EXCEPT ![c] = 0]
    /\ error' = [error EXCEPT ![c] = "ok"]
    /\ armed' = armed \cup {c}
    /\ UNCHANGED <<size, transfers, moved, storing, connection, queue, calls>>

\* The transfer is started; on a closed socket it fails at once.
StartTransfer(c) ==
    /\ pc[c] = "timing"
    /\ pc' = [pc EXCEPT ![c] = "waiting"]
    /\ size' = [size EXCEPT ![c] = 0]
    /\ moved' = [moved EXCEPT ![c] = 0]
    /\ IF connected
         THEN transfers' = transfers \cup {c} /\ UNCHANGED queue
         ELSE queue' = Append(queue, Transfer(c, "failed", 0)) /\ UNCHANGED transfers
    /\ UNCHANGED <<done, error, armed, storing, connection, calls>>

\* Disconnect, unless the socket is closed already.
Disconnect(cause) ==
    IF connected
      THEN /\ connected' = FALSE
           /\ reading' = FALSE
           /\ transfers' = {}
           /\ dropped' = dropped \cup {cause}
      ELSE UNCHANGED <<connected, reading, transfers, dropped>>

\* Mutant: the first signal wakes.
WakeEarly(c) ==
    /\ pc[c] = "waiting"
    /\ done[c] >= 1
    /\ pc' = [pc EXCEPT ![c] = "idle"]
    /\ UNCHANGED <<done, error, size, armed, transfers, moved, storing, connection, queue,
                   calls>>

\* done == 2: the call ends, and disconnects on an error other than the timeout.
Wake(c) ==
    /\ pc[c] = "waiting"
    /\ done[c] = 2
    /\ pc' = [pc EXCEPT ![c] = "idle"]
    /\ IF error[c] \in {"ok", "timed_out"}
         THEN UNCHANGED <<connected, reading, transfers, dropped, queue>>
         ELSE /\ Disconnect(error[c])
              /\ queue' = IF connected THEN queue \o Aborted ELSE queue
    /\ UNCHANGED <<done, error, size, armed, moved, storing, connects, calls>>

CallStep(c) == StartTimer(c) \/ StartTransfer(c) \/ Wake(c)

-----------------------------------------------------------------------------
(* Handlers.                                                               *)

Ready(op) == storing = {} /\ queue # <<>> /\ Head(queue).op = op

\* Mutant: only the timer is cancelled.
SignalKeepsSocket(c, ec) ==
    /\ done' = [done EXCEPT ![c] = @ + 1]
    /\ error' = IF done[c] = 0 THEN [error EXCEPT ![c] = ec] ELSE error
    /\ armed' = armed \ {c}
    /\ queue' = Tail(queue) \o (IF c \in armed THEN <<Timer(c, "aborted")>> ELSE <<>>)
    /\ UNCHANGED <<transfers, reading>>

\* async_done_handler, under the call's mutex.
Signal(c, ec) ==
    /\ done' = [done EXCEPT ![c] = @ + 1]
    /\ IF done[c] = 0
         THEN /\ error' = [error EXCEPT ![c] = ec]
              /\ transfers' = {} /\ reading' = FALSE
              /\ armed' = armed \ {c}
              /\ queue' = Tail(queue) \o Aborted
                          \o (IF c \in armed THEN <<Timer(c, "aborted")>> ELSE <<>>)
         ELSE /\ queue' = Tail(queue)
              /\ UNCHANGED <<error, transfers, reading, armed>>

TimerHandler ==
    /\ Ready("Timer")
    /\ Signal(Head(queue).caller, Head(queue).ec)
    /\ UNCHANGED <<pc, size, moved, storing, connected, connects, dropped, calls>>

TransferHandler ==
    /\ Ready("Transfer")
    /\ Signal(Head(queue).caller, Head(queue).ec)
    /\ moved' = [moved EXCEPT ![Head(queue).caller] = Head(queue).n]
    /\ storing' = {[caller |-> Head(queue).caller, call |-> calls[Head(queue).caller],
                   n |-> Head(queue).n]}
    /\ UNCHANGED <<pc, size, connected, connects, dropped, calls>>

InTime(s) == pc[s.caller] = "waiting" /\ s.call = calls[s.caller]

\* sent = write.  The call may not have waited for it: what the handler writes
\* to then is no longer, or not the same, variable.
StoreSize ==
    /\ \E s \in storing :
          \/ size' = [size EXCEPT ![s.caller] = s.n]
          \/ ~InTime(s) /\ UNCHANGED size
    /\ storing' = {}
    /\ UNCHANGED <<pc, done, error, armed, transfers, moved, connection, queue, calls>>

\* async_receive_handler of the receive loop.
ReadHandler ==
    /\ Ready("Read")
    /\ \/ /\ connected /\ Head(queue).ec = "ok"
          /\ reading' = TRUE
          /\ queue' = Tail(queue)
          /\ UNCHANGED <<connected, transfers, dropped>>
       \/ /\ connected /\ Head(queue).ec # "ok"
          /\ Disconnect(Head(queue).ec)
          /\ queue' = Tail(queue) \o Aborted
       \/ /\ ~connected
          /\ queue' = Tail(queue)
          /\ UNCHANGED <<connected, reading, transfers, dropped>>
    /\ UNCHANGED <<pc, done, error, size, armed, moved, storing, connects, calls>>

IoStep == TimerHandler \/ TransferHandler \/ StoreSize \/ ReadHandler

-----------------------------------------------------------------------------
(* Operations that end, and the connection.                                *)

TimerExpires(c) ==
    /\ c \in armed
    /\ armed' = armed \ {c}
    /\ queue' = Append(queue, Timer(c, "timed_out"))
    /\ UNCHANGED <<pc, done, error, size, transfers, moved, storing, connection, calls>>

TransferEnds(c, ec) ==
    /\ c \in transfers
    /\ transfers' = transfers \ {c}
    /\ queue' = Append(queue, Transfer(c, ec, IF ec = "ok" THEN 1 ELSE 0))
    /\ UNCHANGED <<pc, done, error, size, armed, moved, storing, connection, calls>>

ReadEnds(ec) ==
    /\ reading
    /\ reading' = FALSE
    /\ queue' = Append(queue, Read(ec))
    /\ UNCHANGED <<call, connected, connects, dropped, calls>>

\* The application connects again.
Connect ==
    /\ ~connected
    /\ connects < MaxConnects
    /\ connected' = TRUE /\ reading' = TRUE
    /\ connects' = connects + 1
    /\ UNCHANGED <<call, dropped, queue, calls>>

Init ==
    /\ pc = [c \in Callers |-> "idle"]
    /\ done = [c \in Callers |-> 0] /\ error = [c \in Callers |-> "ok"]
    /\ size = [c \in Callers |-> 0] /\ moved = [c \in Callers |-> 0]
    /\ armed = {} /\ transfers = {} /\ storing = {}
    /\ connected = FALSE /\ reading = FALSE /\ connects = 0 /\ dropped = {}
    /\ queue = <<>> /\ calls = [c \in Callers |-> 0]

Next ==
    \/ \E c \in Callers : \/ Enter(c) \/ CallStep(c) \/ TimerExpires(c)
                          \/ \E ec \in {"ok", "failed"} : TransferEnds(c, ec)
    \/ IoStep \/ Connect
    \/ \E ec \in {"ok", "failed"} : ReadEnds(ec)

Spec == Init /\ [][Next]_vars

\* Calls go on, the io thread runs handlers and time passes; a transfer may take
\* for ever.
FairSpec == /\ Spec
            /\ WF_vars(IoStep)
            /\ \A c \in Callers : WF_vars(CallStep(c)) /\ WF_vars(TimerExpires(c))

-----------------------------------------------------------------------------
(* Properties.                                                             *)

\* How many handlers in a queue are in A; those of calls of c, and of their transfers.
Count(q, A) == Cardinality({i \in 1..Len(q) : q[i] \in A})
Of(c) == {h \in Handlers : h.op # "Read" /\ h.caller = c}
TransfersOf(c) == {h \in Handlers : h.op = "Transfer" /\ h.caller = c}

Pending(c) == Count(queue, Of(c))
One(b) == IF b THEN 1 ELSE 0

Places == {"idle", "entered", "timing", "waiting"}

\* The handlers of a call so far: of its timer, and of its transfer.
Started(c) == CASE pc[c] = "timing" -> 1 [] pc[c] = "waiting" -> 2 [] OTHER -> 0

TypeOK ==
    /\ pc \in [Callers -> Places]
    /\ done \in [Callers -> 0..2] /\ error \in [Callers -> Errors]
    /\ size \in [Callers -> {0, 1}] /\ moved \in [Callers -> {0, 1}]
    /\ armed \subseteq Callers /\ transfers \subseteq Callers
    /\ storing \subseteq [caller : Callers, call : 1..MaxCalls, n : {0, 1}]
    /\ connected \in BOOLEAN /\ reading \in BOOLEAN
    /\ queue \in Seq(Handlers)
    /\ calls \in [Callers -> 0..MaxCalls] /\ connects \in 0..MaxConnects
    /\ dropped \subseteq Errors

\* The books of a call: of the operations it started each has run its handler, has it
\* queued or is outstanding, and never twice, whichever of the timer, the transfer and
\* a disconnection is first.  So done reaches 2 only when both handlers have run, and
\* none is left when the call has returned and its variables and its buffer are gone.
\* (That the handler of a transfer comes at all is another matter: CallsReturn.)
TwoHandlers ==
    \A c \in Callers :
        done[c] * One(Started(c) # 0) + Pending(c) + One(c \in armed) + One(c \in transfers)
            = Started(c)

\* A call that succeeds returns the size of what it transferred, although the
\* size is stored after the signal.
SuccessTellsSize ==
    [][\A c \in Callers :
          pc[c] = "waiting" /\ pc'[c] = "idle" /\ error[c] = "ok" => size[c] = moved[c]]_vars

\* A call whose transfer is started before its timer's handler has run returns, whatever
\* the server does: the first handler of the two ends the operation of the other.
CallsReturn == \A c \in Callers : (pc[c] = "waiting" /\ done[c] = 0) ~> (pc[c] = "idle")

\* A call with a timeout returns, whatever the server does.  This does not hold: the
\* timer may expire, and its handler run, before the transfer is started.
TimeoutReturns == \A c \in Callers : (pc[c] # "idle") ~> (pc[c] = "idle")

\* The size is stored while the call it belongs to waits.  This does not hold: when
\* the timer is first, the call may return between the signal and the store.
StoresInTime == \A s \in storing : InTime(s)

\* No connection is dropped but on an error of the connection or of a call: not
\* because a call that succeeds or times out aborts the receive loop's read.
DropsOnError ==
    "aborted" \in dropped => "failed" \in dropped \cup {error[c] : c \in Callers}

-----------------------------------------------------------------------------
(* The inductive invariant.                                                *)

\* A timer's handler never says that the call succeeded.
TimerInv ==
    /\ \A i \in 1..Len(queue) : queue[i].op = "Timer" => queue[i].ec # "ok"
    /\ \A c \in Callers : pc[c] = "timing" /\ done[c] >= 1 => error[c] # "ok"

\* A call that waits has one transfer, and none that is left when the first handler
\* succeeded.
OnceInv ==
    \A c \in Callers :
        Count(queue, TransfersOf(c)) + One(c \in transfers)
            <= One(pc[c] = "waiting" /\ ~(done[c] >= 1 /\ error[c] = "ok"))

\* A size that is yet to be stored is that of the call under way, or that call is over
\* and no handler of the next has run.
StoringInv ==
    /\ \A s, r \in storing : s = r
    /\ \A s \in storing :
          /\ s.call <= calls[s.caller]
          /\ pc[s.caller] \in {"entered", "timing"} => s.call < calls[s.caller]
          /\ pc[s.caller] \in {"timing", "waiting"} /\ ~InTime(s) => done[s.caller] = 0
          /\ InTime(s) => /\ s.n = moved[s.caller]
                          /\ done[s.caller] = 2 => error[s.caller] # "ok"

\* A call whose first handler succeeded has its size, or is about to be told it.
SizeInv ==
    \A c \in Callers : pc[c] = "waiting" /\ done[c] >= 1 /\ error[c] = "ok" =>
        size[c] = moved[c] \/ \E s \in storing : s.caller = c /\ InTime(s)

\* Inductive, for any callers.
TransferInv ==
    /\ TypeOK /\ TwoHandlers
    /\ IsFiniteSet(transfers)
    /\ \A c \in Callers : pc[c] # "idle" => calls[c] >= 1
    /\ TimerInv /\ OnceInv /\ StoringInv /\ SizeInv
=============================================================================
