--------------------------- MODULE UDPClientProofs ---------------------------
(***************************************************************************)
(* Proofs about UDPClient: one receive at a time, one datagram at a time   *)
(* and a receive loop that goes on until an empty datagram ends it, as     *)
(* long as every start found the io thread done with what came before (the *)
(* first one always does), for any number of starts, with a callback for   *)
(* disconnection or without.                                               *)
(***************************************************************************)
EXTENDS UDPClient, SequenceTheorems, TLAPS

-----------------------------------------------------------------------------
(* Lemmas about the threads' steps.                                        *)

\* The step that follows s on a thread's stack.
After(s) ==
    CASE s = "Close" -> "ClearConnected"
      [] s = "ClearConnected" -> "ClearFlags"
      [] s = "ClearFlags" -> "ClearBuffers"
      [] s = "ClearBuffers" -> "TellDisconnected"
      [] s = "Open" -> "SetConnected"
      [] s = "Assign" -> "MarkSending"
      [] s = "MarkSending" -> "SendTo"
      [] s = "ClearSent" -> "TryReceive"
      [] s = "MarkReceiving" -> "ReceiveFrom"
      [] OTHER -> "Idle"

First(s) == IF s = <<>> THEN "Idle" ELSE Head(s)

LEMMA FirstStep == \A a, b : First(<<a>>) = a /\ First(<<a, b>>) = a
BY DEF First

LEMMA TeardownAfter ==
  \A s \in TeardownStacks :
     /\ s \in Seq(Steps) /\ s # <<>> /\ Tail(s) \in TeardownStacks \cup {<<>>}
     /\ First(Tail(s)) = After(Head(s))
     /\ Head(s) \in {"Close", "ClearConnected", "ClearFlags", "ClearBuffers",
                     "TellDisconnected"}
<1> SUFFICES ASSUME NEW s \in TeardownStacks
             PROVE  /\ s \in Seq(Steps) /\ s # <<>> /\ Tail(s) \in TeardownStacks \cup {<<>>}
                    /\ First(Tail(s)) = After(Head(s))
                    /\ Head(s) \in {"Close", "ClearConnected", "ClearFlags", "ClearBuffers",
                                    "TellDisconnected"}
  OBVIOUS
<1>1. CASE s = <<"Close", "ClearConnected", "ClearFlags", "ClearBuffers", "TellDisconnected">>
  <2>1. s \in Seq(Steps) /\ s # <<>> /\ Head(s) = "Close"  BY <1>1 DEF Steps
  <2>2. Tail(s) = <<"ClearConnected", "ClearFlags", "ClearBuffers", "TellDisconnected">>
    BY <1>1
  <2>3. First(Tail(s)) = "ClearConnected"
    <3>1. First(<<"ClearConnected", "ClearFlags", "ClearBuffers", "TellDisconnected">>) = "ClearConnected"
      BY DEF First
    <3> QED  BY <2>2, <3>1
  <2> QED  BY <2>1, <2>2, <2>3 DEF TeardownStacks, After
<1>2. CASE s = <<"ClearConnected", "ClearFlags", "ClearBuffers", "TellDisconnected">>
  <2>1. s \in Seq(Steps) /\ s # <<>> /\ Head(s) = "ClearConnected"  BY <1>2 DEF Steps
  <2>2. Tail(s) = <<"ClearFlags", "ClearBuffers", "TellDisconnected">>  BY <1>2
  <2>3. First(Tail(s)) = "ClearFlags"
    <3>1. First(<<"ClearFlags", "ClearBuffers", "TellDisconnected">>) = "ClearFlags"
      BY DEF First
    <3> QED  BY <2>2, <3>1
  <2> QED  BY <2>1, <2>2, <2>3 DEF TeardownStacks, After
<1>3. CASE s = <<"ClearFlags", "ClearBuffers", "TellDisconnected">>
  <2>1. s \in Seq(Steps) /\ s # <<>> /\ Head(s) = "ClearFlags"  BY <1>3 DEF Steps
  <2>2. Tail(s) = <<"ClearBuffers", "TellDisconnected">>  BY <1>3
  <2>3. First(Tail(s)) = "ClearBuffers"  BY <2>2, FirstStep
  <2> QED  BY <2>1, <2>2, <2>3 DEF TeardownStacks, After
<1>4. CASE s = <<"ClearBuffers", "TellDisconnected">>
  <2>1. s \in Seq(Steps) /\ s # <<>> /\ Head(s) = "ClearBuffers"  BY <1>4 DEF Steps
  <2>2. Tail(s) = <<"TellDisconnected">>  BY <1>4
  <2>3. First(Tail(s)) = "TellDisconnected"  BY <2>2, FirstStep
  <2> QED  BY <2>1, <2>2, <2>3 DEF TeardownStacks, After
<1>5. CASE s = <<"TellDisconnected">>
  <2>1. s \in Seq(Steps) /\ s # <<>> /\ Head(s) = "TellDisconnected"  BY <1>5 DEF Steps
  <2>2. Tail(s) = <<>>  BY <1>5
  <2> QED  BY <2>1, <2>2 DEF First, After
<1> QED  BY <1>1, <1>2, <1>3, <1>4, <1>5 DEF TeardownStacks

LEMMA AppAfter ==
  \A s \in AppStacks :
     /\ s \in Seq(Steps)
     /\ s # <<>> => /\ Tail(s) \in AppStacks /\ First(Tail(s)) = After(Head(s))
                    /\ Head(s) \in Steps
<1> SUFFICES ASSUME NEW s \in AppStacks
             PROVE  /\ s \in Seq(Steps)
                    /\ s # <<>> => /\ Tail(s) \in AppStacks /\ First(Tail(s)) = After(Head(s))
                                   /\ Head(s) \in Steps
  OBVIOUS
<1>1. CASE s \in TeardownStacks  BY <1>1, TeardownAfter DEF AppStacks, Steps
<1>2. CASE s = <<>>  BY <1>2
<1>3. CASE s \in {<<"Connect">>, <<"SetConnected">>, <<"Disconnect">>, <<"SendTo">>}
  <2>1. PICK x \in {"Connect", "SetConnected", "Disconnect", "SendTo"} : s = <<x>>
    BY <1>3
  <2>2. s \in Seq(Steps) /\ Head(s) = x /\ Tail(s) = <<>>  BY <2>1 DEF Steps
  <2>3. First(Tail(s)) = "Idle" /\ After(x) = "Idle"  BY <2>2 DEF First, After
  <2> QED  BY <2>2, <2>3 DEF AppStacks, Steps
<1>4. CASE s = <<"Open", "SetConnected">>
  <2>1. s \in Seq(Steps) /\ Head(s) = "Open"  BY <1>4 DEF Steps
  <2>2. Tail(s) = <<"SetConnected">>  BY <1>4
  <2>3. First(Tail(s)) = "SetConnected"  BY <2>2, FirstStep
  <2> QED  BY <2>1, <2>2, <2>3 DEF AppStacks, After, Steps
<1>5. CASE s = <<"Assign", "MarkSending", "SendTo">>
  <2>1. s \in Seq(Steps) /\ Head(s) = "Assign"  BY <1>5 DEF Steps
  <2>2. Tail(s) = <<"MarkSending", "SendTo">>  BY <1>5
  <2>3. First(Tail(s)) = "MarkSending"  BY <2>2, FirstStep
  <2> QED  BY <2>1, <2>2, <2>3 DEF AppStacks, After, Steps
<1>6. CASE s = <<"MarkSending", "SendTo">>
  <2>1. s \in Seq(Steps) /\ Head(s) = "MarkSending"  BY <1>6 DEF Steps
  <2>2. Tail(s) = <<"SendTo">>  BY <1>6
  <2>3. First(Tail(s)) = "SendTo"  BY <2>2, FirstStep
  <2> QED  BY <2>1, <2>2, <2>3 DEF AppStacks, After, Steps
<1> QED  BY <1>1, <1>2, <1>3, <1>4, <1>5, <1>6 DEF AppStacks

LEMMA IoAfter ==
  \A s \in IoStacks :
     /\ s \in Seq(Steps)
     /\ s # <<>> => /\ Tail(s) \in IoStacks /\ First(Tail(s)) = After(Head(s))
                    /\ Head(s) \in Steps
<1> SUFFICES ASSUME NEW s \in IoStacks
             PROVE  /\ s \in Seq(Steps)
                    /\ s # <<>> => /\ Tail(s) \in IoStacks /\ First(Tail(s)) = After(Head(s))
                                   /\ Head(s) \in Steps
  OBVIOUS
<1>1. CASE s \in TeardownStacks  BY <1>1, TeardownAfter DEF IoStacks, Steps
<1>2. CASE s = <<>>  BY <1>2
<1>3. CASE s \in {<<"Disconnect">>, <<"TryReceive">>, <<"ReceiveFrom">>}
  <2>1. PICK x \in {"Disconnect", "TryReceive", "ReceiveFrom"} : s = <<x>>
    BY <1>3
  <2>2. s \in Seq(Steps) /\ Head(s) = x /\ Tail(s) = <<>>  BY <2>1 DEF Steps
  <2>3. First(Tail(s)) = "Idle" /\ After(x) = "Idle"  BY <2>2 DEF First, After
  <2> QED  BY <2>2, <2>3 DEF IoStacks, Steps
<1>4. CASE s = <<"ClearSent", "TryReceive">>
  <2>1. s \in Seq(Steps) /\ Head(s) = "ClearSent"  BY <1>4 DEF Steps
  <2>2. Tail(s) = <<"TryReceive">>  BY <1>4
  <2>3. First(Tail(s)) = "TryReceive"  BY <2>2, FirstStep
  <2> QED  BY <2>1, <2>2, <2>3 DEF IoStacks, After, Steps
<1>5. CASE s = <<"MarkReceiving", "ReceiveFrom">>
  <2>1. s \in Seq(Steps) /\ Head(s) = "MarkReceiving"  BY <1>5 DEF Steps
  <2>2. Tail(s) = <<"ReceiveFrom">>  BY <1>5
  <2>3. First(Tail(s)) = "ReceiveFrom"  BY <2>2, FirstStep
  <2> QED  BY <2>1, <2>2, <2>3 DEF IoStacks, After, Steps
<1> QED  BY <1>1, <1>2, <1>3, <1>4, <1>5 DEF IoStacks

\* A thread's stack becomes r.
LEMMA Became ==
  ASSUME TypeOK, StackInv, NEW t \in Threads, NEW r,
         todo' = [todo EXCEPT ![t] = r],
         t = App => r \in AppStacks,
         t = Io => r \in IoStacks
  PROVE  /\ StackInv' /\ todo' \in [Threads -> Seq(Steps)]
         /\ At(t)' = First(r)
         /\ \A x \in Threads : x # t => At(x)' = At(x)
<1>1. todo \in [Threads -> Seq(Steps)]  BY DEF TypeOK
<1>2. r \in Seq(Steps)  BY AppAfter, IoAfter DEF Threads
<1>3. todo' \in [Threads -> Seq(Steps)]  BY <1>1, <1>2
<1>4. todo'[t] = r /\ \A x \in Threads : x # t => todo'[x] = todo[x]  BY <1>1
<1>5. StackInv'  BY <1>4, ThreadsDiffer DEF StackInv, Threads
<1> QED  BY <1>3, <1>4, <1>5 DEF At, First

\* A thread takes the step s, and the one after it is next.
LEMMA Did ==
  ASSUME TypeOK, StackInv, NEW t \in Threads, NEW s, Do(t, s, <<>>)
  PROVE  /\ StackInv' /\ todo' \in [Threads -> Seq(Steps)]
         /\ At(t) = s /\ At(t)' = After(s)
         /\ \A x \in Threads : x # t => At(x)' = At(x)
<1>1. todo \in [Threads -> Seq(Steps)]  BY DEF TypeOK
<1>2. todo[t] # <<>> /\ Head(todo[t]) = s /\ todo[t] \in Seq(Steps)  BY <1>1 DEF Do
<1>3. <<>> \o Tail(todo[t]) = Tail(todo[t])
  <2>1. Tail(todo[t]) \in Seq(Steps)  BY <1>2
  <2> QED  BY <2>1
<1>4. todo' = [todo EXCEPT ![t] = Tail(todo[t])]  BY <1>1, <1>3 DEF Do
<1>5. /\ t = App => Tail(todo[t]) \in AppStacks
      /\ t = Io => Tail(todo[t]) \in IoStacks
      /\ First(Tail(todo[t])) = After(s)
  BY <1>2, AppAfter, IoAfter DEF StackInv, Threads
<1>6. At(t) = s  BY <1>2 DEF At
<1> QED  BY <1>4, <1>5, <1>6, Became

\* A thread that takes its last step goes on with r.
LEMMA DidAndWent ==
  ASSUME TypeOK, StackInv, NEW t \in Threads, NEW s, After(s) = "Idle", NEW r, Do(t, s, r),
         r \in Seq(Steps),
         t = App => r \in AppStacks,
         t = Io => r \in IoStacks
  PROVE  /\ StackInv' /\ todo' \in [Threads -> Seq(Steps)]
         /\ At(t) = s /\ At(t)' = First(r)
         /\ \A x \in Threads : x # t => At(x)' = At(x)
<1>1. todo \in [Threads -> Seq(Steps)]  BY DEF TypeOK
<1>2. todo[t] # <<>> /\ Head(todo[t]) = s /\ todo[t] \in Seq(Steps)  BY <1>1 DEF Do
<1>3. Tail(todo[t]) = <<>>
  <2>1. /\ Tail(todo[t]) \in AppStacks \cup IoStacks
        /\ First(Tail(todo[t])) = "Idle"
    BY <1>2, AppAfter, IoAfter DEF StackInv, Threads
  <2>2. Tail(todo[t]) # <<>> => Head(Tail(todo[t])) \in Steps
    BY <2>1, AppAfter, IoAfter
  <2>3. "Idle" \notin Steps  BY DEF Steps
  <2> QED  BY <2>1, <2>2, <2>3 DEF First
<1>4. r \o <<>> = r  OBVIOUS
<1>5. todo' = [todo EXCEPT ![t] = r]  BY <1>1, <1>3, <1>4 DEF Do
<1>6. At(t) = s  BY <1>2 DEF At
<1> QED  BY <1>5, <1>6, Became

-----------------------------------------------------------------------------
(* Lemmas about the queue of handlers.                                     *)

LEMMA QueueKept ==
  ASSUME queue' = queue
  PROVE  \A op \in {"Received", "Sent"} :
            (Queued(op)' <=> Queued(op)) /\ (QueuedOnce(op)' <=> QueuedOnce(op))
BY DEF Queued, QueuedOnce

LEMMA QueueAppended ==
  ASSUME TypeOK, NEW h \in Handlers, queue' = Append(queue, h)
  PROVE  /\ queue' \in Seq(Handlers)
         /\ \A op \in {"Received", "Sent"} :
               /\ Queued(op)' <=> Queued(op) \/ h.op = op
               /\ QueuedOnce(op) /\ (h.op = op => ~Queued(op)) => QueuedOnce(op)'
<1>1. /\ queue' \in Seq(Handlers) /\ Len(queue) \in Nat
      /\ Len(queue') = Len(queue) + 1 /\ queue'[Len(queue) + 1] = h
      /\ \A i \in 1..Len(queue) : queue'[i] = queue[i]
  BY DEF TypeOK
<1>2. /\ Len(queue) + 1 \in 1..Len(queue')
      /\ \A i \in 1..Len(queue) : i \in 1..Len(queue')
      /\ \A i \in 1..Len(queue') : i = Len(queue) + 1 \/ i \in 1..Len(queue)
  BY <1>1
<1>3. ASSUME NEW op \in {"Received", "Sent"} PROVE Queued(op)' <=> Queued(op) \/ h.op = op
  BY <1>1, <1>2 DEF Queued
<1>4. ASSUME NEW op \in {"Received", "Sent"}, QueuedOnce(op), h.op = op => ~Queued(op)
      PROVE  QueuedOnce(op)'
  <2>1. CASE h.op = op
    <3>1. \A i \in 1..Len(queue') : queue'[i].op = op => i = Len(queue) + 1
      BY <1>1, <1>2, <1>4, <2>1 DEF Queued
    <3> QED  BY <3>1 DEF QueuedOnce
  <2>2. CASE h.op # op
    <3>1. \A i \in 1..Len(queue') :
             queue'[i].op = op => i \in 1..Len(queue) /\ queue[i].op = op
      BY <1>1, <1>2, <2>2
    <3> QED  BY <1>4, <3>1 DEF QueuedOnce
  <2> QED  BY <2>1, <2>2
<1> QED  BY <1>1, <1>3, <1>4

LEMMA QueueTaken ==
  ASSUME TypeOK, queue # <<>>, NEW h, Head(queue) = h, queue' = Tail(queue)
  PROVE  /\ queue' \in Seq(Handlers) /\ h \in Handlers
         /\ Queued(h.op)
         /\ \A op \in {"Received", "Sent"} :
               /\ QueuedOnce(op) => QueuedOnce(op)'
               /\ h.op # op => (Queued(op)' <=> Queued(op))
               /\ h.op = op /\ QueuedOnce(op) => ~Queued(op)'
<1>1. /\ queue' \in Seq(Handlers) /\ Len(queue) \in Nat /\ Len(queue) > 0
      /\ queue[1] = h /\ h \in Handlers /\ Len(queue') = Len(queue) - 1
      /\ \A i \in 1..Len(queue') : queue'[i] = queue[i + 1]
  BY DEF TypeOK
<1>2. /\ 1 \in 1..Len(queue)
      /\ \A i \in 1..Len(queue') : i + 1 \in 1..Len(queue) /\ i + 1 # 1
      /\ \A i \in 1..Len(queue) : i # 1 => i - 1 \in 1..Len(queue') /\ (i - 1) + 1 = i
  BY <1>1
<1>3. Queued(h.op)  BY <1>1, <1>2 DEF Queued
<1>4. ASSUME NEW op \in {"Received", "Sent"}, QueuedOnce(op) PROVE QueuedOnce(op)'
  <2> SUFFICES ASSUME NEW i \in 1..Len(queue'), NEW j \in 1..Len(queue'),
                      queue'[i].op = op, queue'[j].op = op
               PROVE  i = j
    BY DEF QueuedOnce
  <2>1. i + 1 = j + 1  BY <1>1, <1>2, <1>4 DEF QueuedOnce
  <2> QED  BY <2>1
<1>5. ASSUME NEW op \in {"Received", "Sent"}, h.op # op PROVE Queued(op)' <=> Queued(op)
  <2>1. Queued(op)' => Queued(op)  BY <1>1, <1>2 DEF Queued
  <2>2. ASSUME Queued(op) PROVE Queued(op)'
    <3>1. PICK i \in 1..Len(queue) : queue[i].op = op  BY <2>2 DEF Queued
    <3>2. i # 1  BY <1>1, <1>5, <3>1
    <3>3. i - 1 \in 1..Len(queue') /\ queue'[i - 1] = queue[i]  BY <1>1, <1>2, <3>2
    <3> QED  BY <3>1, <3>3 DEF Queued
  <2> QED  BY <2>1, <2>2
<1>6. ASSUME NEW op \in {"Received", "Sent"}, h.op = op, QueuedOnce(op) PROVE ~Queued(op)'
  <2> SUFFICES ASSUME NEW i \in 1..Len(queue'), queue'[i].op = op PROVE FALSE
    BY DEF Queued
  <2>1. i + 1 = 1  BY <1>1, <1>2, <1>6 DEF QueuedOnce
  <2> QED  BY <2>1
<1> QED  BY <1>1, <1>3, <1>4, <1>5, <1>6

LEMMA Concatenated ==
  ASSUME NEW T, NEW a \in Seq(T), NEW b \in Seq(T)
  PROVE  /\ a \o b \in Seq(T) /\ Len(a \o b) = Len(a) + Len(b)
         /\ \A i \in 1..Len(a) : (a \o b)[i] = a[i]
         /\ \A i \in 1..Len(b) : (a \o b)[Len(a) + i] = b[i]
<1>1. Len(a) \in Nat /\ Len(b) \in Nat /\ Len(a \o b) = Len(a) + Len(b)  OBVIOUS
<1>2. \A i \in 1..Len(a) : i \in 1..Len(a \o b)  BY <1>1
<1>3. \A i \in 1..Len(b) : /\ Len(a) + i \in 1..Len(a \o b) /\ ~(Len(a) + i <= Len(a))
                         /\ (Len(a) + i) - Len(a) = i
  BY <1>1
<1> QED  BY <1>1, <1>2, <1>3

\* Closing the socket queues the handlers of its operations.
LEMMA QueueAborted ==
  ASSUME TypeOK, ReceiveInv, SendInv, queue' = queue \o Aborted
  PROVE  /\ queue' \in Seq(Handlers)
         /\ Queued("Received")' <=> Queued("Received") \/ reads > 0
         /\ Queued("Sent")' <=> Queued("Sent") \/ sends # <<>>
         /\ QueuedOnce("Received")' /\ QueuedOnce("Sent")'
<1> DEFINE R == [i \in 1..reads |-> Ended("Received", FALSE, TRUE)]
           S == [i \in DOMAIN sends |-> Ended("Sent", FALSE, sends[i])]
           T == Handlers
           n == Len(sends)
<1>1. /\ reads \in Nat /\ sends \in Seq(BOOLEAN) /\ queue \in Seq(Handlers)
      /\ reads <= 1 /\ Len(sends) <= 1
  BY DEF TypeOK, ReceiveInv, SendInv
<1>2. n \in Nat /\ n <= 1 /\ (sends # <<>> <=> n > 0) /\ DOMAIN sends = 1..n
  BY <1>1
<1>3. Ended("Received", FALSE, TRUE) \in Handlers
      /\ \A i \in 1..n : Ended("Sent", FALSE, sends[i]) \in Handlers
  BY <1>1 DEF Ended, Handlers
<1>4. /\ R \in Seq(T) /\ Len(R) = reads
      /\ S \in Seq(T) /\ Len(S) = n
  <2>1. \A k \in Nat : \A f \in [1..k -> T] : f \in Seq(T) /\ Len(f) = k
    OBVIOUS
  <2>2. R \in [1..reads -> T]  BY <1>3
  <2>3. S \in [1..n -> T]  BY <1>2, <1>3
  <2> HIDE DEF n, T, R, S
  <2> QED  BY <1>1, <1>2, <2>1, <2>2, <2>3
<1>5. /\ \A i \in 1..reads : R[i].op = "Received"
      /\ \A i \in 1..n : S[i].op = "Sent"
  BY <1>2 DEF Ended
<1>6. queue \in Seq(T) /\ queue' = queue \o (R \o S)  BY <1>1 DEF Aborted
<1> HIDE DEF R, S, T, n
<1> DEFINE q == Len(queue)
<1> DEFINE a == R \o S
<1>7. a \in Seq(T) /\ Len(a) = reads + n /\ q \in Nat
      /\ (\A i \in 1..reads : a[i] = R[i]) /\ (\A i \in 1..n : a[reads + i] = S[i])
  BY <1>1, <1>2, <1>4, <1>6
<1>8. /\ queue' \in Seq(T) /\ Len(queue') = q + reads + n
      /\ \A i \in 1..q : queue'[i] = queue[i]
      /\ \A i \in 1..(reads + n) : queue'[q + i] = a[i]
  <2>1. queue' = queue \o a  BY <1>6
  <2> HIDE DEF a
  <2>2. /\ queue \o a \in Seq(T) /\ Len(queue \o a) = q + Len(a)
        /\ \A i \in 1..q : (queue \o a)[i] = queue[i]
        /\ \A i \in 1..Len(a) : (queue \o a)[q + i] = a[i]
    <3>1. queue \in Seq(T) /\ a \in Seq(T)  BY <1>6, <1>7
    <3> HIDE DEF q
    <3>2. /\ queue \o a \in Seq(T) /\ Len(queue \o a) = Len(queue) + Len(a)
          /\ \A i \in 1..Len(queue) : (queue \o a)[i] = queue[i]
          /\ \A i \in 1..Len(a) : (queue \o a)[Len(queue) + i] = a[i]
      BY <3>1, Concatenated
    <3> QED  BY <3>2 DEF q
  <2>3. q + (reads + n) = q + reads + n  BY <1>1, <1>2, <1>7
  <2> HIDE DEF q
  <2> QED  BY <1>7, <2>1, <2>2, <2>3
<1> HIDE DEF a, q
<1>9. /\ \A i \in 1..reads : q + i \in 1..Len(queue') /\ queue'[q + i].op = "Received"
      /\ \A i \in 1..n : q + reads + i \in 1..Len(queue') /\ queue'[q + reads + i].op = "Sent"
  <2>1. ASSUME NEW i \in 1..reads
        PROVE  q + i \in 1..Len(queue') /\ queue'[q + i].op = "Received"
    <3>1. i \in 1..(reads + n) /\ q + i \in 1..(q + reads + n)  BY <1>1, <1>2, <1>7
    <3>2. queue'[q + i] = a[i]  BY <1>8, <3>1
    <3>3. a[i] = R[i] /\ R[i].op = "Received"  BY <1>5, <1>7
    <3> QED  BY <1>8, <3>1, <3>2, <3>3
  <2>2. ASSUME NEW i \in 1..n
        PROVE  q + reads + i \in 1..Len(queue') /\ queue'[q + reads + i].op = "Sent"
    <3>1. /\ reads + i \in 1..(reads + n) /\ q + (reads + i) = q + reads + i
          /\ q + reads + i \in 1..(q + reads + n)
      BY <1>1, <1>2, <1>7
    <3>2. queue'[q + (reads + i)] = a[reads + i]  BY <1>8, <3>1
    <3>3. a[reads + i] = S[i] /\ S[i].op = "Sent"  BY <1>5, <1>7
    <3> QED  BY <1>8, <3>1, <3>2, <3>3
  <2> QED  BY <2>1, <2>2
<1>10. ASSUME NEW i \in 1..Len(queue')
       PROVE  \/ i \in 1..q /\ queue'[i] = queue[i]
              \/ reads = 1 /\ i = q + 1 /\ queue'[i].op = "Received"
              \/ n = 1 /\ i = q + reads + 1 /\ queue'[i].op = "Sent"
  <2>1. CASE i <= q  BY <1>7, <1>8, <2>1
  <2>2. CASE i > q /\ i <= q + reads
    <3>1. reads = 1 /\ i = q + 1  BY <1>1, <1>7, <2>2
    <3> QED  BY <1>9, <3>1
  <2>3. CASE i > q + reads
    <3>1. n = 1 /\ i = q + reads + 1  BY <1>1, <1>2, <1>7, <1>8, <2>3
    <3> QED  BY <1>9, <3>1
  <2> QED  BY <1>1, <1>7, <2>1, <2>2, <2>3
<1>11. q = Len(queue) /\ \A i \in 1..q : i \in 1..Len(queue')
  BY <1>1, <1>2, <1>7, <1>8 DEF q
<1>12. Queued("Received")' <=> Queued("Received") \/ reads > 0
  <2>1. reads > 0 => Queued("Received")'
    <3>1. reads > 0 => 1 \in 1..reads  BY <1>1
    <3> QED  BY <1>9, <3>1 DEF Queued
  <2> QED  BY <1>8, <1>10, <1>11, <2>1 DEF Queued
<1>13. Queued("Sent")' <=> Queued("Sent") \/ sends # <<>>
  <2>1. n > 0 => Queued("Sent")'
    <3>1. n > 0 => 1 \in 1..n  BY <1>2
    <3> QED  BY <1>9, <3>1 DEF Queued
  <2> QED  BY <1>2, <1>8, <1>10, <1>11, <2>1 DEF Queued
<1>14. QueuedOnce("Received")'
  <2> SUFFICES ASSUME NEW i \in 1..Len(queue'), NEW j \in 1..Len(queue'),
                      queue'[i].op = "Received", queue'[j].op = "Received"
               PROVE  i = j
    BY DEF QueuedOnce
  <2>1. CASE reads = 1
    <3>1. \A k \in 1..q : queue[k].op # "Received"  BY <1>11, <2>1 DEF ReceiveInv, Queued
    <3> QED  BY <1>10, <3>1
  <2>2. CASE reads # 1
    <3>1. /\ i \in 1..q /\ queue[i].op = "Received"
          /\ j \in 1..q /\ queue[j].op = "Received"
      BY <1>10, <2>2
    <3> QED  BY <1>11, <3>1 DEF ReceiveInv, QueuedOnce
  <2> QED  BY <2>1, <2>2
<1>15. QueuedOnce("Sent")'
  <2> SUFFICES ASSUME NEW i \in 1..Len(queue'), NEW j \in 1..Len(queue'),
                      queue'[i].op = "Sent", queue'[j].op = "Sent"
               PROVE  i = j
    BY DEF QueuedOnce
  <2>1. CASE n = 1
    <3>1. \A k \in 1..q : queue[k].op # "Sent"  BY <1>2, <1>11, <2>1 DEF SendInv, Queued
    <3> QED  BY <1>10, <3>1
  <2>2. CASE n # 1
    <3>1. /\ i \in 1..q /\ queue[i].op = "Sent"
          /\ j \in 1..q /\ queue[j].op = "Sent"
      BY <1>10, <2>2
    <3> QED  BY <1>11, <3>1 DEF SendInv, QueuedOnce
  <2> QED  BY <2>1, <2>2
<1> QED  BY <1>8, <1>12, <1>13, <1>14, <1>15 DEF T

-----------------------------------------------------------------------------
(* Calls of the application.                                               *)

LEMMA EmptyQueue == queue = <<>> => \A op : ~Queued(op) /\ QueuedOnce(op)
BY DEF Queued, QueuedOnce

LEMMA StartKeeps ==
  ASSUME SettledInv, Start, settled'
  PROVE  SettledInv'
<1>1. TypeOK /\ StackInv  BY DEF SettledInv
<1>2. /\ todo[App] = <<>> /\ todo[Io] = <<>> /\ queue = <<>> /\ ~connected
      /\ ~stop' /\ stop' \in BOOLEAN /\ starts' = starts + 1 /\ starts < MaxStarts
      /\ connected' = connected /\ receiving' = receiving /\ sending' = sending
      /\ full' = full /\ open' = open /\ reads' = reads /\ sends' = sends /\ queue' = queue
      /\ listening' = listening
  BY DEF Start, Idle, socket
<1>3. <<"Connect">> \in AppStacks /\ First(<<"Connect">>) = "Connect"
  BY FirstStep DEF AppStacks
<1>4. todo' = [todo EXCEPT ![App] = <<"Connect">>]  BY DEF Start
<1>5. /\ StackInv' /\ todo' \in [Threads -> Seq(Steps)]
      /\ At(App)' = "Connect" /\ At(Io)' = At(Io)
  BY <1>1, <1>3, <1>4, Became, ThreadsDiffer DEF Threads
<1>6. At(App) = "Idle" /\ At(Io) = "Idle"  BY <1>2 DEF At
<1>7. \A op : ~Queued(op) /\ QueuedOnce(op)  BY <1>2, EmptyQueue
<1>8. \A op \in {"Received", "Sent"} : ~Queued(op)' /\ QueuedOnce(op)'
  BY <1>2, <1>7, QueueKept
<1>9. ~open /\ reads = 0 /\ sends = <<>> /\ ~listening
  BY <1>2, <1>6 DEF SettledInv, PhaseInv
<1>10. ~receiving /\ ~sending
  BY <1>6, <1>7, <1>9 DEF SettledInv, ReceiveInv, SendInv
<1>11. TypeOK'
  <2>1. settled' \in BOOLEAN  BY DEF Start
  <2>2. Len(sends') = 0  BY <1>2, <1>9
  <2> QED  BY <1>1, <1>2, <1>5, <2>1, <2>2, UDPBounds DEF TypeOK, flags
<1>12. PhaseInv'
  BY <1>2, <1>5, <1>6, <1>9, <1>10, ThreadsDiffer DEF PhaseInv, Threads
<1>13. ReceiveInv' /\ SendInv' /\ LoopInv'
  BY <1>2, <1>5, <1>6, <1>8, <1>9, <1>10 DEF ReceiveInv, SendInv, LoopInv
<1> QED  BY <1>2, <1>5, <1>11, <1>12, <1>13 DEF SettledInv

LEMMA StopKeeps ==
  ASSUME SettledInv, Stop
  PROVE  SettledInv'
<1>1. TypeOK /\ StackInv  BY DEF SettledInv
<1>2. /\ todo[App] = <<>> /\ stop' /\ stop' \in BOOLEAN /\ starts' = starts /\ settled' = settled
      /\ connected' = connected /\ receiving' = receiving /\ sending' = sending
      /\ full' = full /\ open' = open /\ reads' = reads /\ sends' = sends /\ queue' = queue
      /\ listening' = listening
  BY DEF Stop, Idle, socket, history
<1>3. <<"Disconnect">> \in AppStacks /\ First(<<"Disconnect">>) = "Disconnect"
  BY FirstStep DEF AppStacks
<1>4. todo' = [todo EXCEPT ![App] = <<"Disconnect">>]  BY DEF Stop
<1>5. /\ StackInv' /\ todo' \in [Threads -> Seq(Steps)]
      /\ At(App)' = "Disconnect" /\ At(Io)' = At(Io)
  BY <1>1, <1>3, <1>4, Became, ThreadsDiffer DEF Threads
<1>6. At(App) = "Idle"  BY <1>2 DEF At
<1>7. TypeOK'
  BY <1>1, <1>2, <1>5 DEF TypeOK, flags
<1>8. PhaseInv'
  BY <1>2, <1>5, <1>6, ThreadsDiffer DEF SettledInv, PhaseInv, Threads
<1>9. ReceiveInv' /\ SendInv' /\ LoopInv'
  BY <1>2, <1>5, <1>6, QueueKept DEF SettledInv, ReceiveInv, SendInv, LoopInv
<1> QED  BY <1>2, <1>5, <1>7, <1>8, <1>9 DEF SettledInv

LEMMA SendAsyncKeeps ==
  ASSUME SettledInv, SendAsync
  PROVE  SettledInv'
<1>1. TypeOK /\ StackInv  BY DEF SettledInv
<1>2. /\ todo[App] = <<>> /\ connected /\ ~sending /\ stop' = stop /\ starts' = starts
      /\ settled' = settled
      /\ connected' = connected /\ receiving' = receiving /\ sending' = sending
      /\ full' = full /\ open' = open /\ reads' = reads /\ sends' = sends /\ queue' = queue
      /\ listening' = listening
  BY DEF SendAsync, Idle, socket, history, flags
<1> DEFINE r == <<"Assign", "MarkSending", "SendTo">>
<1>3. r \in AppStacks /\ First(r) = "Assign"  BY DEF AppStacks, First
<1>4. todo' = [todo EXCEPT ![App] = r]  BY DEF SendAsync
<1> HIDE DEF r
<1>5. /\ StackInv' /\ todo' \in [Threads -> Seq(Steps)]
      /\ At(App)' = "Assign" /\ At(Io)' = At(Io)
  BY <1>1, <1>3, <1>4, Became, ThreadsDiffer DEF Threads
<1>6. At(App) = "Idle"  BY <1>2 DEF At
<1>7. TypeOK'
  BY <1>1, <1>2, <1>5 DEF TypeOK, flags
<1>8. PhaseInv'
  BY <1>2, <1>5, <1>6, ThreadsDiffer DEF SettledInv, PhaseInv, Threads
<1>9. sends = <<>> /\ ~Queued("Sent")  BY <1>2 DEF SettledInv, SendInv
<1>10. ReceiveInv' /\ LoopInv'
  BY <1>2, <1>5, <1>6, QueueKept DEF SettledInv, ReceiveInv, LoopInv
<1>11. SendInv'
  BY <1>2, <1>5, <1>6, <1>9, QueueKept DEF SettledInv, SendInv
<1> QED  BY <1>2, <1>5, <1>7, <1>8, <1>10, <1>11 DEF SettledInv

-----------------------------------------------------------------------------
(* Connecting and disconnecting.                                           *)

LEMMA ConnectKeeps ==
  ASSUME SettledInv, Connect
  PROVE  SettledInv'
<1>1. TypeOK /\ StackInv  BY DEF SettledInv
<1>2. /\ connected' = connected /\ stop' = stop /\ receiving' = receiving
      /\ sending' = sending /\ full' = full /\ open' = open /\ reads' = reads
      /\ sends' = sends /\ queue' = queue /\ listening' = listening /\ starts' = starts
      /\ settled' = settled
  BY DEF Connect, flags, socket, history
<1> DEFINE r == IF connected THEN <<>> ELSE <<"Open", "SetConnected">>
<1>3. /\ r \in AppStacks /\ r \in Seq(Steps)
      /\ First(r) = IF connected THEN "Idle" ELSE "Open"
  <2>1. r \in AppStacks  BY DEF AppStacks
  <2>2. First(<<>>) = "Idle"  BY DEF First
  <2>3. First(<<"Open", "SetConnected">>) = "Open"  BY FirstStep
  <2> QED  BY <2>1, <2>2, <2>3, AppAfter
<1>4. Do(App, "Connect", r) /\ After("Connect") = "Idle"  BY DEF Connect, After
<1> HIDE DEF r
<1>5. /\ StackInv' /\ todo' \in [Threads -> Seq(Steps)]
      /\ At(App) = "Connect" /\ At(App)' = First(r) /\ At(Io)' = At(Io)
  BY <1>1, <1>3, <1>4, DidAndWent, ThreadsDiffer DEF Threads
<1>6. TypeOK'
  BY <1>1, <1>2, <1>5 DEF TypeOK, flags
<1>7. PhaseInv'
  BY <1>2, <1>3, <1>5, ThreadsDiffer DEF SettledInv, PhaseInv, Threads
<1>8. ReceiveInv' /\ SendInv' /\ LoopInv'
  BY <1>2, <1>3, <1>5, QueueKept DEF SettledInv, ReceiveInv, SendInv, LoopInv
<1> QED  BY <1>2, <1>5, <1>6, <1>7, <1>8 DEF SettledInv

\* The socket is closed whenever Open is next: it never throws.
LEMMA OpenKeeps ==
  ASSUME SettledInv, Open
  PROVE  SettledInv' /\ ~open
<1>1. TypeOK /\ StackInv  BY DEF SettledInv
<1>2. /\ open' /\ open' \in BOOLEAN
      /\ connected' = connected /\ stop' = stop /\ receiving' = receiving
      /\ sending' = sending /\ full' = full /\ reads' = reads /\ sends' = sends
      /\ queue' = queue /\ listening' = listening /\ starts' = starts /\ settled' = settled
  BY DEF Open, flags, history
<1>3. todo[App] # <<>> /\ Head(todo[App]) = "Open"  BY DEF Open
<1>4. At(App) = "Open"  BY <1>3 DEF At
<1>5. ~open /\ ~connected  BY <1>4 DEF SettledInv, PhaseInv
<1>6. /\ Tail(todo[App]) \in AppStacks
      /\ First(Tail(todo[App])) = "SetConnected"
  BY <1>1, <1>3, AppAfter DEF StackInv, After
<1>7. todo' = [todo EXCEPT ![App] = Tail(todo[App])]
  BY <1>1, <1>5 DEF Open, TypeOK
<1>8. /\ StackInv' /\ todo' \in [Threads -> Seq(Steps)]
      /\ At(App)' = "SetConnected" /\ At(Io)' = At(Io)
  BY <1>1, <1>6, <1>7, Became, ThreadsDiffer DEF Threads
<1>9. TypeOK'
  BY <1>1, <1>2, <1>8 DEF TypeOK, flags
<1>10. PhaseInv'
  BY <1>2, <1>4, <1>5, <1>8, ThreadsDiffer DEF SettledInv, PhaseInv, Threads
<1>11. ReceiveInv' /\ SendInv' /\ LoopInv'
  BY <1>2, <1>4, <1>5, <1>8, QueueKept DEF SettledInv, ReceiveInv, SendInv, LoopInv
<1> QED  BY <1>2, <1>5, <1>8, <1>9, <1>10, <1>11 DEF SettledInv

LEMMA SetConnectedKeeps ==
  ASSUME SettledInv, SetConnected
  PROVE  SettledInv'
<1>1. TypeOK /\ StackInv  BY DEF SettledInv
<1>2. /\ connected' /\ connected' \in BOOLEAN
      /\ stop' = stop /\ receiving' = receiving /\ sending' = sending /\ full' = full
      /\ open' = open /\ reads' = reads /\ sends' = sends /\ queue' = queue
      /\ listening' = listening /\ starts' = starts /\ settled' = settled
  BY DEF SetConnected, socket, history
<1>3. /\ StackInv' /\ todo' \in [Threads -> Seq(Steps)]
      /\ At(App) = "SetConnected" /\ At(App)' = "Idle" /\ At(Io)' = At(Io)
  BY <1>1, Did, ThreadsDiffer DEF SetConnected, Threads, After
<1>4. /\ At(Io) = "Idle" /\ queue = <<>> /\ reads = 0 /\ sends = <<>>
      /\ ~receiving /\ ~sending /\ ~listening
  BY <1>3 DEF SettledInv, PhaseInv
<1>5. \A op : ~Queued(op) /\ QueuedOnce(op)  BY <1>4, EmptyQueue
<1>6. TypeOK'
  BY <1>1, <1>2, <1>3 DEF TypeOK, flags
<1>7. PhaseInv'
  BY <1>2, <1>3, <1>4, ThreadsDiffer DEF PhaseInv, Threads
<1>8. ReceiveInv' /\ SendInv' /\ LoopInv'
  BY <1>2, <1>3, <1>4, <1>5, QueueKept DEF ReceiveInv, SendInv, LoopInv
<1> QED  BY <1>2, <1>3, <1>6, <1>7, <1>8 DEF SettledInv

LEMMA DisconnectKeeps ==
  ASSUME SettledInv, NEW t \in Threads, Disconnect(t)
  PROVE  SettledInv'
<1>1. TypeOK /\ StackInv  BY DEF SettledInv
<1>2. /\ connected' = connected /\ stop' = stop /\ receiving' = receiving
      /\ sending' = sending /\ full' = full /\ open' = open /\ reads' = reads
      /\ sends' = sends /\ queue' = queue /\ listening' = listening /\ starts' = starts
      /\ settled' = settled
  BY DEF Disconnect, flags, socket, history
<1> DEFINE r == IF connected THEN Teardown ELSE <<>>
<1>3. /\ r \in AppStacks /\ r \in IoStacks /\ r \in Seq(Steps)
      /\ First(r) = IF connected THEN "Close" ELSE "Idle"
  <2>1. Teardown \in TeardownStacks /\ First(Teardown) = "Close"
    BY DEF Teardown, TeardownStacks, First
  <2>2. First(<<>>) = "Idle"  BY DEF First
  <2>3. r \in AppStacks /\ r \in IoStacks  BY <2>1 DEF AppStacks, IoStacks
  <2> QED  BY <2>1, <2>2, <2>3, AppAfter
<1>4. Do(t, "Disconnect", r) /\ After("Disconnect") = "Idle"  BY DEF Disconnect, After
<1> HIDE DEF r
<1>5. /\ StackInv' /\ todo' \in [Threads -> Seq(Steps)]
      /\ At(t) = "Disconnect" /\ At(t)' = First(r)
      /\ \A x \in Threads : x # t => At(x)' = At(x)
  BY <1>1, <1>3, <1>4, DidAndWent
<1>6. TypeOK'
  BY <1>1, <1>2, <1>5 DEF TypeOK, flags
<1>7. PhaseInv'
  BY <1>2, <1>3, <1>5, ThreadsDiffer DEF SettledInv, PhaseInv, Threads
<1>8. ReceiveInv' /\ SendInv' /\ LoopInv'
  BY <1>2, <1>3, <1>5, QueueKept DEF SettledInv, ReceiveInv, SendInv, LoopInv, Threads
<1> QED  BY <1>2, <1>5, <1>6, <1>7, <1>8 DEF SettledInv

LEMMA CloseKeeps ==
  ASSUME SettledInv, NEW t \in Threads, Close(t)
  PROVE  SettledInv'
<1>1. TypeOK /\ StackInv /\ ReceiveInv /\ SendInv  BY DEF SettledInv
<1>2. /\ ~open' /\ open' \in BOOLEAN /\ reads' = 0 /\ sends' = <<>>
      /\ ~listening' /\ listening' \in BOOLEAN
      /\ connected' = connected /\ stop' = stop /\ receiving' = receiving
      /\ sending' = sending /\ full' = full /\ starts' = starts /\ settled' = settled
  BY DEF Close, flags
<1>3. /\ StackInv' /\ todo' \in [Threads -> Seq(Steps)]
      /\ At(t) = "Close" /\ At(t)' = "ClearConnected"
      /\ \A x \in Threads : x # t => At(x)' = At(x)
  BY <1>1, Did DEF Close, After
<1>4. /\ queue' \in Seq(Handlers)
      /\ Queued("Received")' <=> Queued("Received") \/ reads > 0
      /\ Queued("Sent")' <=> Queued("Sent") \/ sends # <<>>
      /\ QueuedOnce("Received")' /\ QueuedOnce("Sent")'
  BY <1>1, QueueAborted DEF Close
<1>5. TypeOK'
  <2>1. sends' \in Seq(BOOLEAN) /\ Len(sends') <= 1  BY <1>2
  <2> QED  BY <1>1, <1>2, <1>3, <1>4, <2>1 DEF TypeOK, flags
<1>6. PhaseInv'
  BY <1>2, <1>3, ThreadsDiffer DEF SettledInv, PhaseInv, Threads
<1>7. ReceiveInv' /\ LoopInv'
  BY <1>1, <1>2, <1>3, <1>4, ThreadsDiffer DEF ReceiveInv, LoopInv, Threads
<1>8. SendInv'
  <2>1. Len(sends') = 0  BY <1>2
  <2> QED
    BY <1>1, <1>2, <1>3, <1>4, <2>1, ThreadsDiffer DEF SendInv, Threads
<1> QED  BY <1>2, <1>3, <1>5, <1>6, <1>7, <1>8 DEF SettledInv

LEMMA ClearConnectedKeeps ==
  ASSUME SettledInv, NEW t \in Threads, ClearConnected(t)
  PROVE  SettledInv'
<1>1. TypeOK /\ StackInv  BY DEF SettledInv
<1>2. /\ ~connected' /\ connected' \in BOOLEAN
      /\ stop' = stop /\ receiving' = receiving /\ sending' = sending /\ full' = full
      /\ open' = open /\ reads' = reads /\ sends' = sends /\ queue' = queue
      /\ listening' = listening /\ starts' = starts /\ settled' = settled
  BY DEF ClearConnected, socket, history
<1>3. /\ StackInv' /\ todo' \in [Threads -> Seq(Steps)]
      /\ At(t) = "ClearConnected" /\ At(t)' = "ClearFlags"
      /\ \A x \in Threads : x # t => At(x)' = At(x)
  BY <1>1, Did DEF ClearConnected, After
<1>4. TypeOK'
  BY <1>1, <1>2, <1>3 DEF TypeOK, flags
<1>5. PhaseInv'
  BY <1>2, <1>3, ThreadsDiffer DEF SettledInv, PhaseInv, Threads
<1>6. ReceiveInv' /\ SendInv' /\ LoopInv'
  BY <1>2, <1>3, QueueKept DEF SettledInv, ReceiveInv, SendInv, LoopInv, Threads
<1> QED  BY <1>2, <1>3, <1>4, <1>5, <1>6 DEF SettledInv

LEMMA ClearFlagsKeeps ==
  ASSUME SettledInv, NEW t \in Threads, ClearFlags(t)
  PROVE  SettledInv'
<1>1. TypeOK /\ StackInv  BY DEF SettledInv
<1>2. /\ ~receiving' /\ ~sending' /\ receiving' \in BOOLEAN /\ sending' \in BOOLEAN
      /\ connected' = connected /\ stop' = stop /\ full' = full /\ open' = open
      /\ reads' = reads /\ sends' = sends /\ queue' = queue /\ listening' = listening
      /\ starts' = starts /\ settled' = settled
  BY DEF ClearFlags, socket, history
<1>3. /\ StackInv' /\ todo' \in [Threads -> Seq(Steps)]
      /\ At(t) = "ClearFlags" /\ At(t)' = "ClearBuffers"
      /\ \A x \in Threads : x # t => At(x)' = At(x)
  BY <1>1, Did DEF ClearFlags, After
<1>4. ~connected  BY <1>3 DEF SettledInv, PhaseInv
<1>5. TypeOK'
  BY <1>1, <1>2, <1>3 DEF TypeOK, flags
<1>6. PhaseInv'
  BY <1>2, <1>3, ThreadsDiffer DEF SettledInv, PhaseInv, Threads
<1>7. ReceiveInv' /\ SendInv' /\ LoopInv'
  BY <1>2, <1>3, <1>4, QueueKept DEF SettledInv, ReceiveInv, SendInv, LoopInv, Threads
<1> QED  BY <1>2, <1>3, <1>5, <1>6, <1>7 DEF SettledInv

LEMMA ClearBuffersKeeps ==
  ASSUME SettledInv, NEW t \in Threads, ClearBuffers(t)
  PROVE  SettledInv'
<1>1. TypeOK /\ StackInv  BY DEF SettledInv
<1>2. /\ full' \in BOOLEAN
      /\ connected' = connected /\ stop' = stop /\ receiving' = receiving
      /\ sending' = sending /\ open' = open /\ reads' = reads /\ sends' = sends
      /\ queue' = queue /\ listening' = listening /\ starts' = starts /\ settled' = settled
  BY DEF ClearBuffers, flags, socket, history
<1>3. /\ StackInv' /\ todo' \in [Threads -> Seq(Steps)]
      /\ At(t) = "ClearBuffers" /\ At(t)' = "TellDisconnected"
      /\ \A x \in Threads : x # t => At(x)' = At(x)
  BY <1>1, Did DEF ClearBuffers, After
<1>4. TypeOK'
  BY <1>1, <1>2, <1>3 DEF TypeOK, flags
<1>5. PhaseInv'
  BY <1>2, <1>3, ThreadsDiffer DEF SettledInv, PhaseInv, Threads
<1>6. ReceiveInv' /\ SendInv' /\ LoopInv'
  BY <1>2, <1>3, QueueKept DEF SettledInv, ReceiveInv, SendInv, LoopInv, Threads
<1> QED  BY <1>2, <1>3, <1>4, <1>5, <1>6 DEF SettledInv

LEMMA TellDisconnectedKeeps ==
  ASSUME SettledInv, NEW t \in Threads, TellDisconnected(t)
  PROVE  SettledInv'
<1>1. TypeOK /\ StackInv  BY DEF SettledInv
<1>2. /\ (stop => stop') /\ stop' \in BOOLEAN
      /\ connected' = connected /\ receiving' = receiving /\ sending' = sending
      /\ full' = full /\ open' = open /\ reads' = reads /\ sends' = sends
      /\ queue' = queue /\ listening' = listening /\ starts' = starts /\ settled' = settled
  BY <1>1, UDPBounds DEF TellDisconnected, socket, history, TypeOK, flags
<1>3. /\ StackInv' /\ todo' \in [Threads -> Seq(Steps)]
      /\ At(t) = "TellDisconnected" /\ At(t)' = "Idle"
      /\ \A x \in Threads : x # t => At(x)' = At(x)
  BY <1>1, Did DEF TellDisconnected, After
<1>4. ~connected  BY <1>3 DEF SettledInv, PhaseInv
<1>5. TypeOK'
  BY <1>1, <1>2, <1>3 DEF TypeOK, flags
<1>6. PhaseInv'
  BY <1>2, <1>3, ThreadsDiffer DEF SettledInv, PhaseInv, Threads
<1>7. ReceiveInv' /\ SendInv' /\ LoopInv'
  BY <1>2, <1>3, <1>4, QueueKept DEF SettledInv, ReceiveInv, SendInv, LoopInv, Threads
<1> QED  BY <1>2, <1>3, <1>5, <1>6, <1>7 DEF SettledInv

-----------------------------------------------------------------------------
(* Sending.                                                                *)

LEMMA AssignKeeps ==
  ASSUME SettledInv, Assign
  PROVE  SettledInv'
<1>1. TypeOK /\ StackInv  BY DEF SettledInv
<1>2. /\ full' \in BOOLEAN
      /\ connected' = connected /\ stop' = stop /\ receiving' = receiving
      /\ sending' = sending /\ open' = open /\ reads' = reads /\ sends' = sends
      /\ queue' = queue /\ listening' = listening /\ starts' = starts /\ settled' = settled
  BY DEF Assign, flags, socket, history
<1>3. /\ StackInv' /\ todo' \in [Threads -> Seq(Steps)]
      /\ At(App) = "Assign" /\ At(App)' = "MarkSending" /\ At(Io)' = At(Io)
  BY <1>1, Did, ThreadsDiffer DEF Assign, Threads, After
<1>4. TypeOK'
  BY <1>1, <1>2, <1>3 DEF TypeOK, flags
<1>5. PhaseInv'
  BY <1>2, <1>3, ThreadsDiffer DEF SettledInv, PhaseInv, Threads
<1>6. ReceiveInv' /\ SendInv' /\ LoopInv'
  BY <1>2, <1>3, QueueKept DEF SettledInv, ReceiveInv, SendInv, LoopInv
<1> QED  BY <1>2, <1>3, <1>4, <1>5, <1>6 DEF SettledInv

LEMMA MarkSendingKeeps ==
  ASSUME SettledInv, MarkSending
  PROVE  SettledInv'
<1>1. TypeOK /\ StackInv  BY DEF SettledInv
<1>2. /\ sending' /\ sending' \in BOOLEAN
      /\ connected' = connected /\ stop' = stop /\ receiving' = receiving
      /\ full' = full /\ open' = open /\ reads' = reads /\ sends' = sends
      /\ queue' = queue /\ listening' = listening /\ starts' = starts /\ settled' = settled
  BY DEF MarkSending, socket, history
<1>3. /\ StackInv' /\ todo' \in [Threads -> Seq(Steps)]
      /\ At(App) = "MarkSending" /\ At(App)' = "SendTo" /\ At(Io)' = At(Io)
  BY <1>1, Did, ThreadsDiffer DEF MarkSending, Threads, After
<1>4. TypeOK'
  BY <1>1, <1>2, <1>3 DEF TypeOK, flags
<1>5. PhaseInv'
  BY <1>2, <1>3, ThreadsDiffer DEF SettledInv, PhaseInv, Threads
<1>6. ReceiveInv' /\ SendInv' /\ LoopInv'
  BY <1>2, <1>3, QueueKept DEF SettledInv, ReceiveInv, SendInv, LoopInv
<1> QED  BY <1>2, <1>3, <1>4, <1>5, <1>6 DEF SettledInv

LEMMA SendToKeeps ==
  ASSUME SettledInv, SendTo
  PROVE  SettledInv'
<1>1. TypeOK /\ StackInv  BY DEF SettledInv
<1>2. /\ connected' = connected /\ stop' = stop /\ receiving' = receiving
      /\ sending' = sending /\ full' = full /\ open' = open /\ reads' = reads
      /\ listening' = listening /\ starts' = starts /\ settled' = settled
  BY DEF SendTo, flags, history
<1>3. /\ StackInv' /\ todo' \in [Threads -> Seq(Steps)]
      /\ At(App) = "SendTo" /\ At(App)' = "Idle" /\ At(Io)' = At(Io)
  BY <1>1, Did, ThreadsDiffer DEF SendTo, Threads, After
<1>4. sends = <<>> /\ ~Queued("Sent") /\ sends \in Seq(BOOLEAN) /\ queue \in Seq(Handlers)
  BY <1>1, <1>3 DEF SettledInv, SendInv, TypeOK
<1>5. PhaseInv' /\ TypeOK' /\ ReceiveInv' /\ SendInv' /\ LoopInv'
  <2>1. CASE open
    <3>1. sends' = Append(sends, full) /\ queue' = queue  BY <2>1 DEF SendTo
    <3>2. sends' \in Seq(BOOLEAN) /\ Len(sends') = 1 /\ sends' # <<>>
      BY <1>1, <1>4, <3>1 DEF TypeOK
    <3>3. TypeOK'
      BY <1>1, <1>2, <1>3, <3>1, <3>2 DEF TypeOK, flags
    <3>4. PhaseInv'
      BY <1>2, <1>3, <2>1, <3>1, ThreadsDiffer DEF SettledInv, PhaseInv, Threads
    <3>5. ReceiveInv' /\ LoopInv'
      BY <1>2, <1>3, <3>1, QueueKept DEF SettledInv, ReceiveInv, LoopInv
    <3>6. SendInv'
      BY <1>2, <1>3, <1>4, <3>1, <3>2, QueueKept DEF SettledInv, SendInv
    <3> QED  BY <3>3, <3>4, <3>5, <3>6
  <2>2. CASE ~open
    <3> DEFINE h == Ended("Sent", FALSE, full)
    <3>1. sends' = sends /\ queue' = Append(queue, h)  BY <2>2 DEF SendTo
    <3>2. h \in Handlers /\ h.op = "Sent"  BY <1>1 DEF Ended, Handlers, TypeOK
    <3> HIDE DEF h
    <3>3. /\ queue' \in Seq(Handlers) /\ Queued("Sent")' /\ (Queued("Received")' <=> Queued("Received"))
          /\ QueuedOnce("Sent") => QueuedOnce("Sent")'
          /\ QueuedOnce("Received") => QueuedOnce("Received")'
      BY <1>1, <1>4, <3>1, <3>2, QueueAppended
    <3>4. TypeOK'
      BY <1>1, <1>2, <1>3, <3>1, <3>3 DEF TypeOK, flags
    <3>5. PhaseInv'
      BY <1>2, <1>3, <3>1, ThreadsDiffer DEF SettledInv, PhaseInv, Threads
    <3>6. ReceiveInv' /\ LoopInv' /\ SendInv'
      BY <1>2, <1>3, <1>4, <3>1, <3>3 DEF SettledInv, ReceiveInv, SendInv, LoopInv
    <3> QED  BY <3>4, <3>5, <3>6
  <2> QED  BY <2>1, <2>2
<1> QED  BY <1>2, <1>3, <1>5 DEF SettledInv

-----------------------------------------------------------------------------
(* Handlers.                                                               *)

\* The io thread takes a handler and goes on with r.
LEMMA Taken ==
  ASSUME SettledInv, NEW h, NEW rest, Take(h, rest), rest \in IoStacks
  PROVE  /\ StackInv' /\ todo' \in [Threads -> Seq(Steps)]
         /\ At(Io) = "Idle" /\ At(App)' = At(App) /\ queue # <<>>
         /\ At(Io)' = IF ~connected THEN "Idle"
                      ELSE IF h.ok THEN First(rest) ELSE "Disconnect"
         /\ queue' \in Seq(Handlers) /\ Queued(h.op) /\ h \in Handlers
         /\ \A op \in {"Received", "Sent"} :
               /\ QueuedOnce(op)'
               /\ h.op # op => (Queued(op)' <=> Queued(op))
               /\ h.op = op => ~Queued(op)'
<1>1. TypeOK /\ StackInv  BY DEF SettledInv
<1> DEFINE r == IF ~connected THEN <<>> ELSE IF h.ok THEN rest ELSE <<"Disconnect">>
<1>2. todo' = [todo EXCEPT ![Io] = r]  BY DEF Take
<1>3. /\ r \in IoStacks
      /\ First(r) = IF ~connected THEN "Idle"
                    ELSE IF h.ok THEN First(rest) ELSE "Disconnect"
  <2>1. r \in IoStacks  BY DEF IoStacks
  <2>2. First(<<>>) = "Idle"  BY DEF First
  <2>3. First(<<"Disconnect">>) = "Disconnect"  BY FirstStep
  <2> QED  BY <2>1, <2>2, <2>3
<1> HIDE DEF r
<1>4. /\ StackInv' /\ todo' \in [Threads -> Seq(Steps)]
      /\ At(Io)' = First(r) /\ At(App)' = At(App)
  BY <1>1, <1>2, <1>3, Became, ThreadsDiffer DEF Threads
<1>5. queue # <<>> /\ Head(queue) = h /\ queue' = Tail(queue) /\ At(Io) = "Idle"
  BY DEF Take, At
<1>6. QueuedOnce("Received") /\ QueuedOnce("Sent")  BY DEF SettledInv, ReceiveInv, SendInv
<1>7. /\ queue' \in Seq(Handlers) /\ Queued(h.op) /\ h \in Handlers
      /\ \A op \in {"Received", "Sent"} :
            /\ QueuedOnce(op)'
            /\ h.op # op => (Queued(op)' <=> Queued(op))
            /\ h.op = op => ~Queued(op)'
  BY <1>1, <1>5, <1>6, QueueTaken
<1> QED  BY <1>3, <1>4, <1>5, <1>7

LEMMA SentHandlerKeeps ==
  ASSUME SettledInv, NEW h \in Handlers, SentHandler(h)
  PROVE  SettledInv'
<1>1. TypeOK  BY DEF SettledInv
<1>2. /\ ~sending' /\ sending' \in BOOLEAN /\ h.op = "Sent"
      /\ connected' = connected /\ stop' = stop /\ receiving' = receiving
      /\ full' = full /\ open' = open /\ reads' = reads /\ sends' = sends
      /\ listening' = listening /\ starts' = starts /\ settled' = settled
  BY DEF SentHandler, history
<1> DEFINE rest == IF h.whole THEN <<"ClearSent", "TryReceive">> ELSE <<>>
<1>3. rest \in IoStacks /\ First(rest) \in {"ClearSent", "Idle"}
  <2>1. First(<<"ClearSent", "TryReceive">>) = "ClearSent"  BY FirstStep
  <2>2. First(<<>>) = "Idle"  BY DEF First
  <2> QED  BY <2>1, <2>2 DEF IoStacks
<1>4. Take(h, rest)  BY DEF SentHandler
<1> HIDE DEF rest
<1>5. /\ StackInv' /\ todo' \in [Threads -> Seq(Steps)]
      /\ At(Io) = "Idle" /\ At(App)' = At(App) /\ queue # <<>>
      /\ At(Io)' \in {"Idle", "ClearSent", "Disconnect"}
      /\ queue' \in Seq(Handlers) /\ Queued("Sent") /\ ~Queued("Sent")'
      /\ QueuedOnce("Sent")' /\ QueuedOnce("Received")'
      /\ Queued("Received")' <=> Queued("Received")
  BY <1>2, <1>3, <1>4, Taken
<1>6. TypeOK'
  BY <1>1, <1>2, <1>5 DEF TypeOK, flags
<1>7. PhaseInv'
  BY <1>2, <1>5, ThreadsDiffer DEF SettledInv, PhaseInv, Threads
<1>8. ReceiveInv' /\ SendInv' /\ LoopInv'
  BY <1>2, <1>5 DEF SettledInv, ReceiveInv, SendInv, LoopInv
<1> QED  BY <1>2, <1>5, <1>6, <1>7, <1>8 DEF SettledInv

LEMMA ReceivedHandlerKeeps ==
  ASSUME SettledInv, NEW h \in Handlers, ReceivedHandler(h)
  PROVE  SettledInv'
<1>1. TypeOK  BY DEF SettledInv
<1>2. /\ ~receiving' /\ receiving' \in BOOLEAN /\ h.op = "Received"
      /\ connected' = connected /\ stop' = stop /\ sending' = sending /\ full' = full
      /\ open' = open /\ reads' = reads /\ sends' = sends
      /\ starts' = starts /\ settled' = settled
      /\ listening' \in BOOLEAN /\ (listening' => listening /\ ~EndsLoop(h))
  BY <1>1 DEF ReceivedHandler, TypeOK
<1> DEFINE rest == IF h.whole THEN <<"TryReceive">> ELSE <<>>
<1>3. rest \in IoStacks /\ First(rest) = IF h.whole THEN "TryReceive" ELSE "Idle"
  <2>1. First(<<>>) = "Idle"  BY DEF First
  <2> QED  BY <2>1, FirstStep DEF IoStacks
<1>4. Take(h, rest)  BY DEF ReceivedHandler
<1> HIDE DEF rest
<1>5. /\ StackInv' /\ todo' \in [Threads -> Seq(Steps)]
      /\ At(Io) = "Idle" /\ At(App)' = At(App) /\ queue # <<>>
      /\ At(Io)' \in {"Idle", "TryReceive", "Disconnect"}
      /\ connected /\ listening' => At(Io)' # "Idle"
      /\ queue' \in Seq(Handlers) /\ Queued("Received") /\ ~Queued("Received")'
      /\ QueuedOnce("Sent")' /\ QueuedOnce("Received")'
      /\ Queued("Sent")' <=> Queued("Sent")
  <2>1. /\ At(Io)' = IF ~connected THEN "Idle" ELSE IF h.ok THEN First(rest) ELSE "Disconnect"
        /\ At(Io) = "Idle" /\ At(App)' = At(App) /\ queue # <<>>
    BY <1>3, <1>4, Taken
  <2>2. /\ At(Io)' \in {"Idle", "TryReceive", "Disconnect"}
        /\ connected /\ listening' => At(Io)' # "Idle"
    BY <1>2, <1>3, <2>1 DEF EndsLoop
  <2> QED  BY <1>2, <1>3, <1>4, <2>1, <2>2, Taken
<1>6. TypeOK'
  BY <1>1, <1>2, <1>5 DEF TypeOK, flags
<1>7. PhaseInv'
  BY <1>2, <1>5, ThreadsDiffer DEF SettledInv, PhaseInv, Threads
<1>8. ReceiveInv' /\ SendInv'
  BY <1>1, <1>2, <1>5 DEF SettledInv, ReceiveInv, SendInv, TypeOK
<1>9. LoopInv'  BY <1>2, <1>5 DEF LoopInv
<1> QED  BY <1>2, <1>5, <1>6, <1>7, <1>8, <1>9 DEF SettledInv

LEMMA ClearSentKeeps ==
  ASSUME SettledInv, ClearSent
  PROVE  SettledInv'
<1>1. TypeOK /\ StackInv  BY DEF SettledInv
<1>2. /\ full' \in BOOLEAN
      /\ connected' = connected /\ stop' = stop /\ receiving' = receiving
      /\ sending' = sending /\ open' = open /\ reads' = reads /\ sends' = sends
      /\ queue' = queue /\ listening' = listening /\ starts' = starts /\ settled' = settled
  BY DEF ClearSent, flags, socket, history
<1>3. /\ StackInv' /\ todo' \in [Threads -> Seq(Steps)]
      /\ At(Io) = "ClearSent" /\ At(Io)' = "TryReceive" /\ At(App)' = At(App)
  <2>1. Do(Io, "ClearSent", <<>>) /\ Io \in Threads /\ App \in Threads  BY DEF ClearSent, Threads
  <2>2. After("ClearSent") = "TryReceive"  BY DEF After
  <2> QED  BY <1>1, <2>1, <2>2, Did, ThreadsDiffer
<1>4. TypeOK'
  BY <1>1, <1>2, <1>3 DEF TypeOK, flags
<1>5. PhaseInv'
  BY <1>2, <1>3, ThreadsDiffer DEF SettledInv, PhaseInv, Threads
<1>6. ReceiveInv' /\ SendInv' /\ LoopInv'
  BY <1>2, <1>3, QueueKept DEF SettledInv, ReceiveInv, SendInv, LoopInv
<1> QED  BY <1>2, <1>3, <1>4, <1>5, <1>6 DEF SettledInv

-----------------------------------------------------------------------------
(* Receiving.                                                              *)

LEMMA TryReceiveKeeps ==
  ASSUME SettledInv, TryReceive
  PROVE  SettledInv'
<1>1. TypeOK /\ StackInv  BY DEF SettledInv
<1>2. /\ connected' = connected /\ stop' = stop /\ receiving' = receiving
      /\ sending' = sending /\ full' = full /\ open' = open /\ reads' = reads
      /\ sends' = sends /\ queue' = queue /\ listening' = listening /\ starts' = starts
      /\ settled' = settled
  BY DEF TryReceive, flags, socket, history
<1> DEFINE r == IF stop \/ receiving \/ ~connected THEN <<>>
                ELSE <<"MarkReceiving", "ReceiveFrom">>
<1>3. /\ r \in IoStacks /\ r \in Seq(Steps)
      /\ First(r) = IF stop \/ receiving \/ ~connected THEN "Idle" ELSE "MarkReceiving"
  <2>1. r \in IoStacks  BY DEF IoStacks
  <2>2. First(<<>>) = "Idle"  BY DEF First
  <2>3. First(<<"MarkReceiving", "ReceiveFrom">>) = "MarkReceiving"  BY FirstStep
  <2> QED  BY <2>1, <2>2, <2>3, IoAfter
<1>4. Do(Io, "TryReceive", r) /\ After("TryReceive") = "Idle"  BY DEF TryReceive, After
<1> HIDE DEF r
<1>5. /\ StackInv' /\ todo' \in [Threads -> Seq(Steps)]
      /\ At(Io) = "TryReceive" /\ At(Io)' = First(r) /\ At(App)' = At(App)
  BY <1>1, <1>3, <1>4, DidAndWent, ThreadsDiffer DEF Threads
<1>6. TypeOK'
  BY <1>1, <1>2, <1>5 DEF TypeOK, flags
<1>7. PhaseInv'
  BY <1>2, <1>3, <1>5, ThreadsDiffer DEF SettledInv, PhaseInv, Threads
<1>8. ReceiveInv' /\ SendInv' /\ LoopInv'
  BY <1>2, <1>3, <1>5, QueueKept DEF SettledInv, ReceiveInv, SendInv, LoopInv
<1> QED  BY <1>2, <1>5, <1>6, <1>7, <1>8 DEF SettledInv

LEMMA MarkReceivingKeeps ==
  ASSUME SettledInv, MarkReceiving
  PROVE  SettledInv'
<1>1. TypeOK /\ StackInv  BY DEF SettledInv
<1>2. /\ receiving' /\ receiving' \in BOOLEAN
      /\ connected' = connected /\ stop' = stop /\ sending' = sending /\ full' = full
      /\ open' = open /\ reads' = reads /\ sends' = sends /\ queue' = queue
      /\ listening' = listening /\ starts' = starts /\ settled' = settled
  BY DEF MarkReceiving, socket, history
<1>3. /\ StackInv' /\ todo' \in [Threads -> Seq(Steps)]
      /\ At(Io) = "MarkReceiving" /\ At(Io)' = "ReceiveFrom" /\ At(App)' = At(App)
  <2>1. Do(Io, "MarkReceiving", <<>>) /\ Io \in Threads /\ App \in Threads  BY DEF MarkReceiving, Threads
  <2>2. After("MarkReceiving") = "ReceiveFrom"  BY DEF After
  <2> QED  BY <1>1, <2>1, <2>2, Did, ThreadsDiffer
<1>4. TypeOK'
  BY <1>1, <1>2, <1>3 DEF TypeOK, flags
<1>5. PhaseInv'
  BY <1>2, <1>3, ThreadsDiffer DEF SettledInv, PhaseInv, Threads
<1>6. ReceiveInv' /\ SendInv' /\ LoopInv'
  BY <1>2, <1>3, QueueKept DEF SettledInv, ReceiveInv, SendInv, LoopInv
<1> QED  BY <1>2, <1>3, <1>4, <1>5, <1>6 DEF SettledInv

LEMMA ReceiveFromKeeps ==
  ASSUME SettledInv, ReceiveFrom
  PROVE  SettledInv'
<1>1. TypeOK /\ StackInv  BY DEF SettledInv
<1>2. /\ connected' = connected /\ stop' = stop /\ receiving' = receiving
      /\ sending' = sending /\ full' = full /\ open' = open /\ sends' = sends
      /\ starts' = starts /\ settled' = settled
  BY DEF ReceiveFrom, flags
<1>3. /\ StackInv' /\ todo' \in [Threads -> Seq(Steps)]
      /\ At(Io) = "ReceiveFrom" /\ At(Io)' = "Idle" /\ At(App)' = At(App)
  <2>1. Do(Io, "ReceiveFrom", <<>>) /\ Io \in Threads /\ App \in Threads  BY DEF ReceiveFrom, Threads
  <2>2. After("ReceiveFrom") = "Idle"  BY DEF After
  <2> QED  BY <1>1, <2>1, <2>2, Did, ThreadsDiffer
<1>4. reads = 0 /\ ~Queued("Received")
  BY <1>1, <1>3 DEF SettledInv, ReceiveInv, TypeOK
<1>5. PhaseInv' /\ TypeOK' /\ ReceiveInv' /\ SendInv' /\ LoopInv'
  <2>1. CASE open
    <3>1. reads' = 1 /\ listening' /\ listening' \in BOOLEAN /\ queue' = queue
      BY <1>4, <2>1 DEF ReceiveFrom
    <3>2. TypeOK'
      BY <1>1, <1>2, <1>3, <3>1 DEF TypeOK, flags
    <3>3. PhaseInv'
      BY <1>2, <1>3, <2>1, <3>1, ThreadsDiffer DEF SettledInv, PhaseInv, Threads
    <3>4. ReceiveInv' /\ LoopInv' /\ SendInv'
      BY <1>2, <1>3, <1>4, <3>1, QueueKept DEF SettledInv, ReceiveInv, SendInv, LoopInv
    <3> QED  BY <3>2, <3>3, <3>4
  <2>2. CASE ~open
    <3> DEFINE h == Ended("Received", FALSE, TRUE)
    <3>1. reads' = reads /\ listening' = listening /\ queue' = Append(queue, h)
      BY <2>2 DEF ReceiveFrom
    <3>2. h \in Handlers /\ h.op = "Received"  BY DEF Ended, Handlers
    <3> HIDE DEF h
    <3>3. /\ queue' \in Seq(Handlers) /\ Queued("Received")' /\ (Queued("Sent")' <=> Queued("Sent"))
          /\ QueuedOnce("Sent") => QueuedOnce("Sent")'
          /\ QueuedOnce("Received") => QueuedOnce("Received")'
      BY <1>1, <1>4, <3>1, <3>2, QueueAppended
    <3>4. TypeOK'
      BY <1>1, <1>2, <1>3, <3>1, <3>3 DEF TypeOK, flags
    <3>5. PhaseInv'
      BY <1>2, <1>3, <3>1, ThreadsDiffer DEF SettledInv, PhaseInv, Threads
    <3>6. ReceiveInv' /\ LoopInv' /\ SendInv'
      BY <1>2, <1>3, <1>4, <3>1, <3>3 DEF SettledInv, ReceiveInv, SendInv, LoopInv
    <3> QED  BY <3>4, <3>5, <3>6
  <2> QED  BY <2>1, <2>2
<1> QED  BY <1>2, <1>3, <1>5 DEF SettledInv

-----------------------------------------------------------------------------
(* The socket.                                                             *)

LEMMA ReceiveEndsKeeps ==
  ASSUME SettledInv, ReceiveEnds
  PROVE  SettledInv'
<1>1. TypeOK /\ StackInv  BY DEF SettledInv
<1>2. /\ todo' = todo /\ connected' = connected /\ stop' = stop /\ receiving' = receiving
      /\ sending' = sending /\ full' = full /\ open' = open /\ sends' = sends
      /\ listening' = listening /\ starts' = starts /\ settled' = settled
  BY DEF ReceiveEnds, flags, history
<1>3. reads = 1 /\ reads' = 0 /\ ~Queued("Received")
  BY <1>1 DEF ReceiveEnds, SettledInv, ReceiveInv, TypeOK
<1>4. \A t : At(t)' = At(t)  BY <1>2 DEF At
<1>5. StackInv'  BY <1>1, <1>2 DEF StackInv
<1>6. PICK ok \in BOOLEAN, whole \in BOOLEAN :
         queue' = Append(queue, Ended("Received", ok, whole))
  BY DEF ReceiveEnds
<1> DEFINE h == Ended("Received", ok, whole)
<1>7. h \in Handlers /\ h.op = "Received" /\ queue' = Append(queue, h)
  BY <1>6 DEF Ended, Handlers
<1> HIDE DEF h
<1>8. /\ queue' \in Seq(Handlers) /\ Queued("Received")' /\ (Queued("Sent")' <=> Queued("Sent"))
      /\ QueuedOnce("Sent") => QueuedOnce("Sent")'
      /\ QueuedOnce("Received") => QueuedOnce("Received")'
  BY <1>1, <1>3, <1>7, QueueAppended
<1>9. TypeOK'
  BY <1>1, <1>2, <1>3, <1>8 DEF TypeOK, flags
<1>10. PhaseInv'
  BY <1>2, <1>3, <1>4, ThreadsDiffer DEF SettledInv, PhaseInv, Threads
<1>11. ReceiveInv' /\ SendInv' /\ LoopInv'
  BY <1>2, <1>3, <1>4, <1>8 DEF SettledInv, ReceiveInv, SendInv, LoopInv
<1> QED  BY <1>2, <1>5, <1>9, <1>10, <1>11 DEF SettledInv

LEMMA SendEndsKeeps ==
  ASSUME SettledInv, SendEnds
  PROVE  SettledInv'
<1>1. TypeOK /\ StackInv  BY DEF SettledInv
<1>2. /\ todo' = todo /\ connected' = connected /\ stop' = stop /\ receiving' = receiving
      /\ sending' = sending /\ full' = full /\ open' = open /\ reads' = reads
      /\ listening' = listening /\ starts' = starts /\ settled' = settled
  BY DEF SendEnds, flags, history
<1>3. /\ sends # <<>> /\ sends' = <<>> /\ ~Queued("Sent") /\ Head(sends) \in BOOLEAN
      /\ sends' \in Seq(BOOLEAN) /\ Len(sends') = 0
  <2>1. sends \in Seq(BOOLEAN) /\ Len(sends) <= 1 /\ sends # <<>> /\ sends' = Tail(sends)
    BY <1>1 DEF SendEnds, TypeOK, SettledInv
  <2>2. Len(sends) = 1
    <3>1. Len(sends) \in Nat /\ Len(sends) # 0  BY <2>1, EmptySeq
    <3>2. Len(sends) <= 1  BY <2>1
    <3> DEFINE k == Len(sends)
    <3>3. k \in Nat /\ k # 0 /\ k <= 1  BY <3>1, <3>2
    <3> HIDE DEF k
    <3>4. k = 1  BY <3>3
    <3> QED  BY <3>4 DEF k
  <2>3. sends' \in Seq(BOOLEAN) /\ Len(sends') = 0  BY <2>1, <2>2
  <2>4. Head(sends) \in BOOLEAN
    <3>1. Head(sends) = sends[1] /\ sends[1] \in BOOLEAN  BY <2>1, <2>2
    <3> QED  BY <3>1
  <2>5. sends' = <<>>  BY <2>3
  <2> QED  BY <2>1, <2>3, <2>4, <2>5 DEF SettledInv, SendInv
<1>4. \A t : At(t)' = At(t)  BY <1>2 DEF At
<1>5. StackInv'  BY <1>1, <1>2 DEF StackInv
<1>6. PICK ok \in BOOLEAN : queue' = Append(queue, Ended("Sent", ok, Head(sends)))
  BY DEF SendEnds
<1> DEFINE h == Ended("Sent", ok, Head(sends))
<1>7. h \in Handlers /\ h.op = "Sent" /\ queue' = Append(queue, h)
  BY <1>3, <1>6 DEF Ended, Handlers
<1> HIDE DEF h
<1>8. /\ queue' \in Seq(Handlers) /\ Queued("Sent")' /\ (Queued("Received")' <=> Queued("Received"))
      /\ QueuedOnce("Sent") => QueuedOnce("Sent")'
      /\ QueuedOnce("Received") => QueuedOnce("Received")'
  BY <1>1, <1>3, <1>7, QueueAppended
<1>9. TypeOK'
  BY <1>1, <1>2, <1>3, <1>8 DEF TypeOK, flags
<1>10. PhaseInv'
  BY <1>2, <1>3, <1>4, ThreadsDiffer DEF SettledInv, PhaseInv, Threads
<1>11. ReceiveInv' /\ SendInv' /\ LoopInv'
  BY <1>2, <1>3, <1>4, <1>8 DEF SettledInv, ReceiveInv, SendInv, LoopInv
<1> QED  BY <1>2, <1>5, <1>9, <1>10, <1>11 DEF SettledInv

-----------------------------------------------------------------------------
(* Whenever the application starts the client.                             *)

\* The stacks of steps and the types of the variables do not depend on what a start
\* waited for.
LEMMA StacksNext ==
  ASSUME TypeOK, StackInv, [Next]_vars
  PROVE  StackInv' /\ todo' \in [Threads -> Seq(Steps)]
<1> USE DEF Threads
<1>1. CASE UNCHANGED todo  BY <1>1 DEF StackInv, TypeOK
<1>2. ASSUME NEW r \in AppStacks, todo' = [todo EXCEPT ![App] = r]
      PROVE  StackInv' /\ todo' \in [Threads -> Seq(Steps)]
  BY <1>2, Became, ThreadsDiffer
<1>3. ASSUME NEW r \in IoStacks, todo' = [todo EXCEPT ![Io] = r]
      PROVE  StackInv' /\ todo' \in [Threads -> Seq(Steps)]
  BY <1>3, Became, ThreadsDiffer
<1>4. CASE Call
  <2>1. PICK r \in {<<"Connect">>, <<"Disconnect">>, <<"Assign", "MarkSending", "SendTo">>} :
           todo' = [todo EXCEPT ![App] = r]
    BY <1>4 DEF Call, Start, Stop, SendAsync
  <2> QED  BY <1>2, <2>1 DEF AppStacks
<1>5. CASE Connect
  <2> DEFINE r == IF connected THEN <<>> ELSE <<"Open", "SetConnected">>
  <2>1. r \in AppStacks  BY DEF AppStacks
  <2>2. Do(App, "Connect", r) /\ After("Connect") = "Idle"  BY <1>5 DEF Connect, After
  <2> HIDE DEF r
  <2> QED  BY <2>1, <2>2, DidAndWent, AppAfter, ThreadsDiffer
<1>6. CASE Open
  <2>1. todo[App] # <<>> /\ Tail(todo[App]) \in AppStacks /\ <<>> \in AppStacks
    BY <1>6, AppAfter DEF Open, StackInv, AppStacks
  <2>2. PICK r \in AppStacks : todo' = [todo EXCEPT ![App] = r]
    <3>1. CASE open
      <4>1. todo' = [todo EXCEPT ![App] = <<>>]  BY <1>6, <3>1 DEF Open
      <4> QED  BY <2>1, <4>1
    <3>2. CASE ~open
      <4>1. todo' = [todo EXCEPT ![App] = Tail(todo[App])]
        BY <1>6, <3>2 DEF Open, TypeOK
      <4> QED  BY <2>1, <4>1
    <3> QED  BY <3>1, <3>2
  <2> QED  BY <1>2, <2>2
<1>7. CASE SetConnected \/ Sending
  BY <1>7, Did DEF SetConnected, Sending, Assign, MarkSending, SendTo
<1>8. CASE \E t \in Threads : Disconnecting(t)
  <2>1. PICK t \in Threads : Disconnecting(t)  BY <1>8
  <2>2. CASE Disconnect(t)
    <3> DEFINE r == IF connected THEN Teardown ELSE <<>>
    <3>1. Teardown \in TeardownStacks  BY DEF Teardown, TeardownStacks
    <3>2. r \in AppStacks /\ r \in IoStacks  BY <3>1 DEF AppStacks, IoStacks
    <3>3. Do(t, "Disconnect", r) /\ After("Disconnect") = "Idle"
      BY <2>2 DEF Disconnect, After
    <3> HIDE DEF r
    <3> QED  BY <3>2, <3>3, DidAndWent, AppAfter
  <2>3. CASE Close(t) \/ ClearConnected(t) \/ ClearFlags(t) \/ ClearBuffers(t)
             \/ TellDisconnected(t)
    BY <2>3, Did DEF Close, ClearConnected, ClearFlags, ClearBuffers, TellDisconnected
  <2> QED  BY <2>1, <2>2, <2>3 DEF Disconnecting
<1>9. CASE \E h \in Handlers : SentHandler(h) \/ ReceivedHandler(h)
  <2>0. PICK h \in Handlers : SentHandler(h) \/ ReceivedHandler(h)  BY <1>9
  <2>1. PICK rest \in {<<>>, <<"ClearSent", "TryReceive">>, <<"TryReceive">>} :
           Take(h, rest)
    <3>1. CASE SentHandler(h)
      <4>1. Take(h, IF h.whole THEN <<"ClearSent", "TryReceive">> ELSE <<>>)
        BY <3>1 DEF SentHandler
      <4> QED  BY <4>1
    <3>2. CASE ReceivedHandler(h)
      <4>1. Take(h, IF h.whole THEN <<"TryReceive">> ELSE <<>>)
        BY <3>2 DEF ReceivedHandler
      <4> QED  BY <4>1
    <3> QED  BY <2>0, <3>1, <3>2
  <2> DEFINE r == IF ~connected THEN <<>> ELSE IF h.ok THEN rest ELSE <<"Disconnect">>
  <2>2. r \in IoStacks /\ todo' = [todo EXCEPT ![Io] = r]  BY <2>1 DEF Take, IoStacks
  <2> HIDE DEF r
  <2> QED  BY <1>3, <2>2
<1>10. CASE TryReceive
  <2> DEFINE r == IF stop \/ receiving \/ ~connected THEN <<>>
                  ELSE <<"MarkReceiving", "ReceiveFrom">>
  <2>1. r \in IoStacks  BY DEF IoStacks
  <2>2. Do(Io, "TryReceive", r) /\ After("TryReceive") = "Idle"
    BY <1>10 DEF TryReceive, After
  <2> HIDE DEF r
  <2> QED  BY <2>1, <2>2, DidAndWent, IoAfter, ThreadsDiffer
<1>11. CASE ClearSent \/ MarkReceiving \/ ReceiveFrom
  BY <1>11, Did DEF ClearSent, MarkReceiving, ReceiveFrom
<1>12. CASE ReceiveEnds \/ SendEnds
  BY <1>1, <1>12 DEF ReceiveEnds, SendEnds
<1>13. CASE UNCHANGED vars  BY <1>1, <1>13 DEF vars
<1> QED
  BY <1>4, <1>5, <1>6, <1>7, <1>8, <1>9, <1>10, <1>11, <1>12, <1>13
     DEF Next, Connecting, AppStep, IoStep, Receiving

\* The handlers that closing the socket queues are handlers.
LEMMA AbortedType ==
  ASSUME TypeOK
  PROVE  Aborted \in Seq(Handlers)
<1>1. /\ reads \in Nat /\ sends \in Seq(BOOLEAN) /\ Len(sends) \in Nat
      /\ DOMAIN sends = 1..Len(sends)
  BY DEF TypeOK
<1>2. \A k \in Nat : \A f \in [1..k -> Handlers] : f \in Seq(Handlers)  OBVIOUS
<1>3. [i \in 1..reads |-> Ended("Received", FALSE, TRUE)] \in Seq(Handlers)
  <2>1. Ended("Received", FALSE, TRUE) \in Handlers  BY DEF Ended, Handlers
  <2>2. [i \in 1..reads |-> Ended("Received", FALSE, TRUE)] \in [1..reads -> Handlers]
    BY <2>1
  <2> QED  BY <1>1, <1>2, <2>2
<1>4. [i \in DOMAIN sends |-> Ended("Sent", FALSE, sends[i])] \in Seq(Handlers)
  <2>1. \A i \in 1..Len(sends) : Ended("Sent", FALSE, sends[i]) \in Handlers
    BY <1>1 DEF Ended, Handlers
  <2>2. [i \in 1..Len(sends) |-> Ended("Sent", FALSE, sends[i])]
           \in [1..Len(sends) -> Handlers]
    BY <2>1
  <2>3. [i \in 1..Len(sends) |-> Ended("Sent", FALSE, sends[i])] \in Seq(Handlers)
    BY <1>1, <1>2, <2>2
  <2> QED  BY <1>1, <2>3
<1> QED  BY <1>3, <1>4 DEF Aborted

LEMMA SocketTypesNext ==
  ASSUME TypeOK, [Next]_vars
  PROVE  queue' \in Seq(Handlers) /\ sends' \in Seq(BOOLEAN) /\ reads' \in Nat
<1>1. queue \in Seq(Handlers) /\ sends \in Seq(BOOLEAN) /\ reads \in Nat /\ full \in BOOLEAN
  BY DEF TypeOK
<1>2. CASE UNCHANGED <<queue, sends, reads>>  BY <1>1, <1>2
<1>3. CASE SendTo
  <2>1. Ended("Sent", FALSE, full) \in Handlers  BY <1>1 DEF Ended, Handlers
  <2>2. CASE open  BY <1>1, <1>3, <2>2 DEF SendTo
  <2>3. CASE ~open
    <3> DEFINE h == Ended("Sent", FALSE, full)
    <3>4. h \in Handlers  BY <2>1
    <3>1. queue' = Append(queue, h) /\ UNCHANGED <<sends, reads>>
      BY <1>3, <2>3 DEF SendTo
    <3> HIDE DEF h
    <3>2. Append(queue, h) \in Seq(Handlers)  BY <1>1, <3>4
    <3> QED  BY <1>1, <3>1, <3>2
  <2> QED  BY <2>2, <2>3
<1>4. CASE \E t \in Threads : Close(t)
  <2>1. queue' = queue \o Aborted /\ sends' = <<>> /\ reads' = 0  BY <1>4 DEF Close
  <2>2. Aborted \in Seq(Handlers)  BY AbortedType
  <2> QED  BY <1>1, <2>1, <2>2
<1>5. CASE \E h \in Handlers : SentHandler(h) \/ ReceivedHandler(h)
  <2>1. queue # <<>> /\ queue' = Tail(queue) /\ UNCHANGED <<sends, reads>>
    BY <1>5 DEF SentHandler, ReceivedHandler, Take
  <2> QED  BY <1>1, <2>1
<1>6. CASE ReceiveFrom
  <2>1. Ended("Received", FALSE, TRUE) \in Handlers  BY DEF Ended, Handlers
  <2>2. CASE open  BY <1>1, <1>6, <2>2 DEF ReceiveFrom
  <2>3. CASE ~open
    <3> DEFINE h == Ended("Received", FALSE, TRUE)
    <3>4. h \in Handlers  BY <2>1
    <3>1. queue' = Append(queue, h) /\ UNCHANGED <<sends, reads>>
      BY <1>6, <2>3 DEF ReceiveFrom
    <3> HIDE DEF h
    <3>2. Append(queue, h) \in Seq(Handlers)  BY <1>1, <3>4
    <3> QED  BY <1>1, <3>1, <3>2
  <2> QED  BY <2>2, <2>3
<1>7. CASE ReceiveEnds
  <2>1. PICK ok, whole \in BOOLEAN :
           queue' = Append(queue, Ended("Received", ok, whole))
    BY <1>7 DEF ReceiveEnds
  <2>2. Ended("Received", ok, whole) \in Handlers  BY DEF Ended, Handlers
  <2>3. reads' \in Nat /\ sends' = sends  BY <1>1, <1>7 DEF ReceiveEnds
  <2> QED  BY <1>1, <2>1, <2>2, <2>3
<1>8. CASE SendEnds
  <2>1. PICK ok \in BOOLEAN : queue' = Append(queue, Ended("Sent", ok, Head(sends)))
    BY <1>8 DEF SendEnds
  <2>2. sends # <<>> /\ sends' = Tail(sends) /\ reads' = reads  BY <1>8 DEF SendEnds
  <2>3. Head(sends) \in BOOLEAN /\ sends' \in Seq(BOOLEAN)  BY <1>1, <2>2
  <2>4. Ended("Sent", ok, Head(sends)) \in Handlers  BY <2>3 DEF Ended, Handlers
  <2> QED  BY <1>1, <2>1, <2>2, <2>3, <2>4
<1> QED
  BY <1>2, <1>3, <1>4, <1>5, <1>6, <1>7, <1>8
     DEF Next, Call, Start, Stop, SendAsync, AppStep, Connecting, Connect, Open,
         SetConnected, Sending, Assign, MarkSending, Disconnecting, Disconnect,
         ClearConnected, ClearFlags, ClearBuffers, TellDisconnected, IoStep, ClearSent,
         Receiving, TryReceive, MarkReceiving, socket, vars, Threads

LEMMA FlagTypesNext ==
  ASSUME TypeOK, [Next]_vars
  PROVE  /\ connected' \in BOOLEAN /\ stop' \in BOOLEAN /\ receiving' \in BOOLEAN
         /\ sending' \in BOOLEAN /\ full' \in BOOLEAN /\ open' \in BOOLEAN
         /\ listening' \in BOOLEAN /\ settled' \in BOOLEAN /\ starts' \in 0..MaxStarts
<1>1. /\ connected \in BOOLEAN /\ stop \in BOOLEAN /\ receiving \in BOOLEAN
      /\ sending \in BOOLEAN /\ full \in BOOLEAN /\ open \in BOOLEAN
      /\ listening \in BOOLEAN /\ settled \in BOOLEAN /\ starts \in 0..MaxStarts
  BY DEF TypeOK, flags
<1>2. CASE Call
  <2>1. settled' \in BOOLEAN
    BY <1>1, <1>2 DEF Call, Start, Stop, SendAsync, history
  <2>2. starts' \in 0..MaxStarts
    BY <1>1, <1>2, UDPBounds DEF Call, Start, Stop, SendAsync, history
  <2> QED
    BY <1>1, <1>2, <2>1, <2>2 DEF Call, Start, Stop, SendAsync, flags, socket, history
<1>3. CASE Connecting \/ Sending
  BY <1>1, <1>3 DEF Connecting, Connect, Open, SetConnected, Sending, Assign, MarkSending,
     SendTo, flags, socket, history
<1>4. CASE \E t \in Threads : Disconnecting(t)
  BY <1>1, <1>4, UDPBounds DEF Disconnecting, Disconnect, Close, ClearConnected, ClearFlags,
     ClearBuffers, TellDisconnected, flags, socket, history
<1>5. CASE \E h \in Handlers : SentHandler(h) \/ ReceivedHandler(h)
  BY <1>1, <1>5 DEF SentHandler, ReceivedHandler, history
<1>6. CASE ClearSent \/ Receiving \/ ReceiveEnds \/ SendEnds
  BY <1>1, <1>6 DEF ClearSent, Receiving, TryReceive, MarkReceiving, ReceiveFrom,
     ReceiveEnds, SendEnds, flags, socket, history
<1>7. CASE UNCHANGED vars  BY <1>1, <1>7 DEF vars, flags, socket, history
<1> QED
  BY <1>2, <1>3, <1>4, <1>5, <1>6, <1>7 DEF Next, AppStep, IoStep, Threads

\* Nothing happens before the first start but calls of stop, so the first start has
\* nothing to wait for.
LEMMA FirstNext ==
  ASSUME TypeOK, FirstInv, [Next]_vars
  PROVE  FirstInv' /\ (settled' => settled)
<1>1. starts \in Nat /\ settled \in BOOLEAN /\ todo \in [Threads -> Seq(Steps)]
  BY UDPBounds DEF TypeOK
<1>2. CASE Start
  <2>1. /\ starts' = starts + 1
        /\ settled' = (settled /\ ~connected /\ todo[Io] = <<>> /\ queue = <<>>)
    BY <1>2 DEF Start
  <2>2. starts' <= 1 => starts = 0  BY <1>1, <2>1
  <2>3. starts' # 0  BY <1>1, <2>1
  <2> QED  BY <1>1, <2>1, <2>2, <2>3 DEF FirstInv
<1>3. ~Start => UNCHANGED <<settled, starts>>
  BY DEF Next, Call, Stop, SendAsync, AppStep, Connecting, Connect, Open, SetConnected,
     Sending, Assign, MarkSending, SendTo, Disconnecting, Disconnect, Close, ClearConnected,
     ClearFlags, ClearBuffers, TellDisconnected, IoStep, SentHandler, ReceivedHandler,
     ClearSent, Receiving, TryReceive, MarkReceiving, ReceiveFrom, ReceiveEnds, SendEnds,
     history, vars
<1>4. CASE ~Start /\ starts # 0  BY <1>3, <1>4 DEF FirstInv
<1>5. CASE ~Start /\ starts = 0
  <2>1. /\ ~connected /\ reads = 0 /\ sends = <<>> /\ queue = <<>> /\ todo[Io] = <<>>
        /\ todo[App] \in {<<>>, <<"Disconnect">>} /\ settled
    BY <1>1, <1>5 DEF FirstInv
  <2>2. Stop \/ Disconnect(App) \/ UNCHANGED vars
    <3>1. \A s \in Steps : \A rest : s # "Disconnect" => ~Do(App, s, rest)
      BY <2>1 DEF Do
    <3>2. \A s, rest : ~Do(Io, s, rest)  BY <2>1 DEF Do
    <3>3. ~SendAsync /\ ~Open /\ ~ReceiveEnds /\ ~SendEnds
      BY <2>1, <1>1 DEF SendAsync, Open, ReceiveEnds, SendEnds
    <3>4. ~Connect /\ ~SetConnected /\ ~Sending
      BY <3>1 DEF Connect, SetConnected, Sending, Assign, MarkSending, SendTo, Steps
    <3>5. Disconnecting(App) => Disconnect(App)
      BY <3>1 DEF Disconnecting, Close, ClearConnected, ClearFlags, ClearBuffers,
         TellDisconnected, Steps
    <3>6. ~Disconnecting(Io) /\ ~ClearSent /\ ~Receiving
      BY <3>2 DEF Disconnecting, Disconnect, Close, ClearConnected, ClearFlags,
         ClearBuffers, TellDisconnected, ClearSent, Receiving, TryReceive, MarkReceiving,
         ReceiveFrom
    <3>7. \A h \in Handlers : ~SentHandler(h) /\ ~ReceivedHandler(h)
      BY <2>1 DEF SentHandler, ReceivedHandler, Take
    <3> QED
      BY <1>5, <3>3, <3>4, <3>5, <3>6, <3>7 DEF Next, Call, AppStep, Connecting, IoStep
  <2>3. /\ ~connected' /\ reads' = 0 /\ sends' = <<>> /\ queue' = <<>>
        /\ todo'[Io] = <<>> /\ todo'[App] \in {<<>>, <<"Disconnect">>}
    <3>1. CASE Stop
      BY <1>1, <2>1, <3>1, ThreadsDiffer DEF Stop, socket, Threads
    <3>2. CASE Disconnect(App)
      <4>1. todo[App] = <<"Disconnect">>  BY <2>1, <3>2 DEF Disconnect, Do
      <4>2. <<>> \o Tail(<<"Disconnect">>) = <<>>  OBVIOUS
      <4>3. todo' = [todo EXCEPT ![App] = <<>>]
        BY <1>1, <2>1, <3>2, <4>1, <4>2 DEF Disconnect, Do
      <4> QED
        BY <1>1, <2>1, <3>2, <4>3, ThreadsDiffer DEF Disconnect, socket, flags, Threads
    <3>3. CASE UNCHANGED vars
      BY <2>1, <3>3 DEF vars, socket, flags
    <3> QED  BY <2>2, <3>1, <3>2, <3>3
  <2> QED  BY <1>3, <1>5, <2>1, <2>3 DEF FirstInv
<1> QED  BY <1>2, <1>4, <1>5

-----------------------------------------------------------------------------
(* The theorems.                                                           *)

LEMMA InitUDPInv == Init => UDPInv
<1> SUFFICES ASSUME Init PROVE UDPInv
  OBVIOUS
<1>1. TypeOK
  <2>1. todo \in [Threads -> Seq(Steps)]  BY DEF Init
  <2>2. sends \in Seq(BOOLEAN) /\ Len(sends) <= 1 /\ queue \in Seq(Handlers)  BY DEF Init
  <2>3. /\ connected \in BOOLEAN /\ stop \in BOOLEAN /\ receiving \in BOOLEAN
        /\ sending \in BOOLEAN /\ full \in BOOLEAN /\ open \in BOOLEAN
        /\ listening \in BOOLEAN /\ settled \in BOOLEAN
    BY DEF Init
  <2>4. reads \in Nat /\ starts \in 0..MaxStarts
    BY UDPBounds DEF Init
  <2> QED  BY <2>1, <2>2, <2>3, <2>4 DEF TypeOK, flags
<1>2. \A t \in Threads : todo[t] = <<>> /\ At(t) = "Idle"  BY DEF Init, At
<1>3. StackInv  BY <1>2 DEF StackInv, AppStacks, IoStacks, Threads
<1>4. \A op : ~Queued(op) /\ QueuedOnce(op)  BY EmptyQueue DEF Init
<1>5. PhaseInv  BY <1>2 DEF Init, PhaseInv, Threads
<1>6. ReceiveInv /\ SendInv /\ LoopInv
  BY <1>1, <1>2, <1>4 DEF Init, ReceiveInv, SendInv, LoopInv, Threads, TypeOK
<1>7. FirstInv  BY <1>2 DEF Init, FirstInv, Threads
<1> QED  BY <1>1, <1>3, <1>5, <1>6, <1>7 DEF UDPInv, SettledInv

LEMMA StutterKeeps ==
  ASSUME SettledInv, UNCHANGED vars
  PROVE  SettledInv'
BY DEF vars, flags, socket, history, SettledInv, TypeOK, StackInv, PhaseInv, ReceiveInv,
       SendInv, LoopInv, At, Queued, QueuedOnce

LEMMA NextSettledInv ==
  ASSUME SettledInv, [Next]_vars, settled'
  PROVE  SettledInv'
<1>1. App \in Threads /\ Io \in Threads  BY DEF Threads
<1>2. ASSUME NEW t \in Threads, Disconnecting(t) PROVE SettledInv'
  BY <1>2, DisconnectKeeps, CloseKeeps, ClearConnectedKeeps, ClearFlagsKeeps,
     ClearBuffersKeeps, TellDisconnectedKeeps DEF Disconnecting
<1>3. CASE Call
  BY <1>3, StartKeeps, StopKeeps, SendAsyncKeeps DEF Call
<1>4. CASE Connecting
  BY <1>4, ConnectKeeps, OpenKeeps, SetConnectedKeeps DEF Connecting
<1>5. CASE Sending
  BY <1>5, AssignKeeps, MarkSendingKeeps, SendToKeeps DEF Sending
<1>6. CASE \E h \in Handlers : SentHandler(h) \/ ReceivedHandler(h)
  BY <1>6, SentHandlerKeeps, ReceivedHandlerKeeps
<1>7. CASE Receiving
  BY <1>7, TryReceiveKeeps, MarkReceivingKeeps, ReceiveFromKeeps DEF Receiving
<1>8. CASE ClearSent  BY <1>8, ClearSentKeeps
<1>9. CASE ReceiveEnds \/ SendEnds  BY <1>9, ReceiveEndsKeeps, SendEndsKeeps
<1>10. CASE UNCHANGED vars  BY <1>10, StutterKeeps
<1> QED
  BY <1>1, <1>2, <1>3, <1>4, <1>5, <1>6, <1>7, <1>8, <1>9, <1>10 DEF Next, AppStep, IoStep

LEMMA NextUDPInv ==
  ASSUME UDPInv, [Next]_vars
  PROVE  UDPInv'
<1>1. TypeOK /\ StackInv /\ FirstInv /\ (settled => SettledInv)  BY DEF UDPInv
<1>2. FirstInv' /\ (settled' => settled)  BY <1>1, FirstNext
<1>3. settled' => SettledInv'  BY <1>1, <1>2, NextSettledInv
<1>4. StackInv' /\ todo' \in [Threads -> Seq(Steps)]  BY <1>1, StacksNext
<1>5. TypeOK'
  <2>1. CASE settled'  BY <1>3, <2>1 DEF SettledInv
  <2>2. CASE ~settled'
    BY <1>1, <1>4, <2>2, SocketTypesNext, FlagTypesNext DEF TypeOK, flags
  <2> QED  BY <2>1, <2>2
<1> QED  BY <1>2, <1>3, <1>4, <1>5 DEF UDPInv

\* The invariant of the client, for any number of starts, whatever each of them found
\* the io thread doing.
THEOREM UDPInvariant == Spec => []UDPInv
<1>1. Init => UDPInv  BY InitUDPInv
<1>2. UDPInv /\ [Next]_vars => UDPInv'  BY NextUDPInv
<1> QED  BY <1>1, <1>2, PTL DEF Spec

\* Every variable keeps its type; and until a start does not wait for the io thread one
\* datagram is sent at a time: SendAsync is refused until the handler of the one before
\* has run, whatever a disconnection on the other thread does to _sending.
THEOREM UDPTypeCorrect == Spec => []TypeOK
<1>1. UDPInv => TypeOK  BY DEF UDPInv
<1> QED  BY <1>1, UDPInvariant, PTL

\* Until a start does not wait for the io thread there is never a second receive into
\* the one buffer, though onSent and onReceived both start one.
THEOREM OneReceiveAtATime == Spec => []OneReceive
<1>1. UDPInv => OneReceive  BY DEF UDPInv, SettledInv, ReceiveInv, OneReceive
<1> QED  BY <1>1, UDPInvariant, PTL

\* Until a start does not wait for the io thread, a receive loop that was begun, and that
\* no empty datagram ended, goes on while the client is connected and not stopped.
THEOREM ReceiveLoopStaysAlive == Spec => []ReceiveLoopAlive
<1>1. UDPInv => ReceiveLoopAlive
  <2> SUFFICES ASSUME UDPInv, settled, connected, ~stop, listening
               PROVE  \/ reads > 0 \/ todo[Io] # <<>>
                      \/ \E i \in DOMAIN queue : queue[i].op = "Received"
    BY DEF ReceiveLoopAlive
  <2>1. reads > 0 \/ At(Io) # "Idle" \/ Queued("Received")
    BY DEF UDPInv, SettledInv, LoopInv
  <2>2. DOMAIN queue = 1..Len(queue)  BY DEF UDPInv, TypeOK
  <2>3. At(Io) # "Idle" => todo[Io] # <<>>  BY DEF At
  <2> QED  BY <2>1, <2>2, <2>3 DEF Queued
<1> QED  BY <1>1, UDPInvariant, PTL

\* A client that was started once keeps both promises, whatever the application does:
\* one receive and one datagram at a time.
THEOREM FirstConnection ==
  Spec => [](starts <= 1 => reads <= 1 /\ Len(sends) <= 1)
<1>1. UDPInv => (starts <= 1 => reads <= 1 /\ Len(sends) <= 1)
  BY DEF UDPInv, FirstInv, SettledInv, ReceiveInv, SendInv
<1> QED  BY <1>1, UDPInvariant, PTL
=============================================================================
