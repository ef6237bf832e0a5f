--------------------------- MODULE TCPClientProofs ---------------------------
(***************************************************************************)
(* Proofs about TCPClient, for any number of application threads and any   *)
(* bounds: its type invariant and the safety of the send path, for any     *)
(* calls; then the safety of the receive path, for threads that leave      *)
(* ReceiveAsync to the client's own loop, as the Client application does.  *)
(***************************************************************************)
EXTENDS TCPClient, SequenceTheorems, TLAPS

-----------------------------------------------------------------------------
(* Lemmas about the threads' stacks and the queue of handlers.             *)

\* A step of a thread keeps the stacks well typed and leaves the other
\* threads' stacks alone.
LEMMA GotoStep ==
  ASSUME VarTypes, NEW t \in Threads, NEW step, NEW s \in Seq(Steps),
         Goto(t, step, s)
  PROVE  /\ todo' \in [Threads -> Seq(Steps)]
         /\ \A x \in Threads \ {t} : todo'[x] = todo[x]
         /\ todo'[t] = s \o Tail(todo[t])
<1>1. todo \in [Threads -> Seq(Steps)]  BY DEF VarTypes
<1>2. todo[t] \in Seq(Steps) /\ todo[t] # <<>>  BY <1>1 DEF Goto
<1>3. s \o Tail(todo[t]) \in Seq(Steps)  BY <1>2
<1>4. todo' = [todo EXCEPT ![t] = s \o Tail(todo[t])]  BY DEF Goto
<1> QED  BY <1>1, <1>3, <1>4

\* So does the start of an API call.
LEMMA EnterStep ==
  ASSUME VarTypes, NEW t \in Threads, NEW call, NEW s \in Seq(Steps),
         Enter(t, call, s)
  PROVE  /\ todo' \in [Threads -> Seq(Steps)]
         /\ \A x \in Threads \ {t} : todo'[x] = todo[x]
         /\ todo'[t] = s
BY DEF VarTypes, Enter

\* So does the start of a handler, which also leaves the queue well typed.
LEMMA RunStep ==
  ASSUME VarTypes, NEW op, NEW s \in Seq(Steps), Run(op, s)
  PROVE  /\ todo' \in [Threads -> Seq(Steps)]
         /\ \A x \in Threads \ {Io} : todo'[x] = todo[x]
         /\ todo'[Io] = s
         /\ queue' \in Seq(Handlers)
         /\ Len(queue') = Len(queue) - 1
         /\ Head(queue) = queue[1] /\ queue[1] \in Handlers
         /\ \A i \in 1..Len(queue') : queue'[i] = queue[i + 1]
BY DEF VarTypes, Run, Threads

\* What a new handler does to the queue.
LEMMA AppendStep ==
  ASSUME VarTypes, NEW h \in Handlers, queue' = Append(queue, h)
  PROVE  /\ queue' \in Seq(Handlers)
         /\ Len(queue') = Len(queue) + 1
         /\ queue'[Len(queue) + 1] = h
         /\ \A i \in 1..Len(queue) : queue'[i] = queue[i]
BY DEF VarTypes

\* The handlers the program posts are handlers.
LEMMA HandlerTypes ==
  /\ \A op \in HandlerOps : Handler(op) \in Handlers
  /\ \A op \in HandlerOps, ec \in ErrorCodes, n, c \in Nat :
        Completion(op, ec, n, c) \in Handlers
BY DEF Handler, Completion, Handlers, ErrorCodes

-----------------------------------------------------------------------------
(* The types of the variables.                                             *)

LEMMA InitTypes == Init => VarTypes
<1> SUFFICES ASSUME Init PROVE VarTypes  OBVIOUS
<1>1. todo \in [Threads -> Seq(Steps)]
  <2>1. <<>> \in Seq(Steps)  OBVIOUS
  <2> QED  BY <2>1 DEF Init
<1>2. /\ main \in Seq(Nat) /\ flush \in Seq(Nat) /\ wire \in Seq(Nat)
      /\ got \in Seq(Nat) /\ queue \in Seq(Handlers)
  BY DEF Init
<1>3. writes \in Seq(Seq(Nat))  BY DEF Init
<1>4. orphans \in SUBSET Nat  BY DEF Init
<1>5. connected \in BOOLEAN /\ connecting \in BOOLEAN /\ receiving \in BOOLEAN /\ sending \in BOOLEAN /\ peerClosed \in BOOLEAN BY DEF Init
<1>6. bytesPending \in Nat /\ bytesSending \in Int /\ rbuf \in Nat /\ offset \in Nat /\ reads \in Nat /\ epoch \in Nat BY DEF Init
<1>7. peerSent \in Nat /\ taken \in Nat /\ issued \in Nat BY DEF Init
<1>8. sock \in {"closed", "connecting", "open"} BY DEF Init
<1>9. raced \in BOOLEAN BY DEF Init
<1> QED
  BY <1>1, <1>2, <1>3, <1>4, <1>5, <1>6, <1>7, <1>8, <1>9 DEF VarTypes

\* Calls of an application thread.
LEMMA CallTypes ==
  ASSUME VarTypes, NEW u \in Users, Call(u)
  PROVE  VarTypes'
<1> u \in Threads  BY DEF Threads
<1>1. /\ <<"PostConnect">> \in Seq(Steps)
      /\ <<"PostDisconnect">> \in Seq(Steps)
      /\ <<"PostDisconnect", "AwaitDisconnected", "ConnectAsync">> \in Seq(Steps)
      /\ <<"PostDisconnect", "AwaitDisconnected", "Stopped">> \in Seq(Steps)
      /\ <<"AwaitDisconnected", "Stopped">> \in Seq(Steps)
      /\ <<"AppendMain">> \in Seq(Steps)
      /\ <<"StartRead">> \in Seq(Steps)
  BY DEF Steps
<1>2. \E s \in Seq(Steps) : todo' = [todo EXCEPT ![u] = s]
  BY <1>1 DEF Enter, Call, ConnectAsync, DisconnectAsync, ReconnectAsync,
              DisconnectAndStop, SendAsync, ReceiveAsync
<1>3. todo' \in [Threads -> Seq(Steps)]  BY <1>2 DEF VarTypes
<1>4. UNCHANGED <<flags, sendv, recvv, queue, sockv, peerv, ghosts>>
  BY DEF Call, ConnectAsync, DisconnectAsync, ReconnectAsync,
         DisconnectAndStop, SendAsync, ReceiveAsync
<1> QED
  BY <1>3, <1>4 DEF VarTypes, flags, sendv, recvv, sockv, peerv, ghosts

\* The start of a read, by whichever thread.
LEMMA BeginReadTypes ==
  ASSUME VarTypes, BeginRead, todo' \in [Threads -> Seq(Steps)], raced' \in BOOLEAN
  PROVE  VarTypes'
<1>1. queue' \in Seq(Handlers)
  BY HandlerTypes, AppendStep DEF BeginRead, HandlerOps, ErrorCodes, VarTypes
<1>2. reads' \in Nat
  <2>1. reads \in Nat  BY DEF VarTypes
  <2> QED  BY <2>1 DEF BeginRead
<1> QED
  BY <1>1, <1>2 DEF BeginRead, VarTypes, flags, sendv, peerv

\* The handlers of the operations that Disconnect aborts.
LEMMA AbortedTypes ==
  ASSUME VarTypes
  PROVE  /\ Aborted \in Seq(Handlers)
         /\ Len(Aborted) = reads + Len(writes)
         /\ \A i \in 1..Len(Aborted) :
               Aborted[i].op \in {"Received", "Written"} /\ Aborted[i].n = 0
<1> DEFINE R == [i \in 1..reads |-> Completion("Received", "failure", 0, epoch)]
           W == [i \in 1..Len(writes) |-> Completion("Written", "failure", 0, epoch)]
<1>0. reads \in Nat /\ epoch \in Nat /\ Len(writes) \in Nat  BY DEF VarTypes
<1>1. /\ R \in Seq(Handlers) /\ Len(R) = reads
      /\ W \in Seq(Handlers) /\ Len(W) = Len(writes)
  <2>1. /\ Completion("Received", "failure", 0, epoch) \in Handlers
        /\ Completion("Written", "failure", 0, epoch) \in Handlers
    BY <1>0, HandlerTypes DEF HandlerOps, ErrorCodes
  <2> HIDE DEF Handlers
  <2> QED  BY <1>0, <2>1
<1>2. /\ \A i \in 1..reads : R[i].op = "Received" /\ R[i].n = 0
      /\ \A i \in 1..Len(writes) : W[i].op = "Written" /\ W[i].n = 0
  BY DEF Completion
<1>3. Aborted = R \o W  BY DEF Aborted
<1> HIDE DEF R, W, Handlers
<1>4. Aborted \in Seq(Handlers) /\ Len(Aborted) = reads + Len(writes)
  BY <1>0, <1>1, <1>3
<1>5. ASSUME NEW i \in 1..Len(Aborted)
      PROVE  Aborted[i].op \in {"Received", "Written"} /\ Aborted[i].n = 0
  <2>1. CASE i <= reads
    BY <1>0, <1>1, <1>2, <1>3, <1>4, <2>1
  <2>2. CASE i > reads
    <3>1. Aborted[i] = W[i - reads] /\ i - reads \in 1..Len(writes)
      BY <1>0, <1>1, <1>3, <1>4, <2>2
    <3> QED  BY <1>2, <3>1
  <2> QED  BY <1>0, <1>4, <2>1, <2>2
<1> QED  BY <1>4, <1>5

\* The remaining steps of such a call.
LEMMA UserStepTypes ==
  ASSUME VarTypes, NEW u \in Users, UserStep(u)
  PROVE  VarTypes'
<1> u \in Threads  BY DEF Threads
<1>0. <<>> \in Seq(Steps) /\ <<"PostSend">> \in Seq(Steps) /\ <<"PostConnect">> \in Seq(Steps)
  BY DEF Steps
<1>1. todo' \in [Threads -> Seq(Steps)]
  <2>1. \E s \in Seq(Steps) :
           todo[u] # <<>> /\ todo' = [todo EXCEPT ![u] = s \o Tail(@)]
    BY <1>0 DEF Goto, UserStep, Post, AppendMain, AwaitDisconnected, StartRead,
                ConnectAgain
  <2> QED  BY <2>1 DEF VarTypes
<1>2. CASE Post(u)
  <2>1. queue' \in Seq(Handlers)
    BY <1>2, HandlerTypes, AppendStep DEF Post, HandlerOps, ErrorCodes
  <2> QED
    BY <1>1, <1>2, <2>1 DEF Post, VarTypes, flags, sendv, recvv, sockv, peerv, ghosts
<1>3. CASE AppendMain(u)
  <2>1. /\ main' \in Seq(Nat) /\ bytesPending' \in Nat /\ issued' \in Nat
        /\ orphans' \in SUBSET Nat
    BY <1>3 DEF AppendMain, VarTypes
  <2> QED
    BY <1>1, <1>3, <2>1 DEF AppendMain, VarTypes, flags, recvv, sockv, peerv
<1>4. CASE AwaitDisconnected(u)
  BY <1>1, <1>4 DEF AwaitDisconnected, VarTypes, flags, sendv, recvv, sockv, peerv, ghosts
<1>5. CASE ConnectAgain(u)
  BY <1>1, <1>5 DEF ConnectAgain, VarTypes, flags, sendv, recvv, sockv, peerv, ghosts
<1>6. CASE StartRead(u)
  <2>1. raced' \in BOOLEAN  BY <1>6 DEF StartRead
  <2> QED  BY <1>1, <1>6, <2>1, BeginReadTypes DEF StartRead
<1> QED  BY <1>2, <1>3, <1>4, <1>5, <1>6 DEF UserStep

\* The handlers the io thread runs, and their steps.
LEMMA IoStepTypes ==
  ASSUME VarTypes, IoStep
  PROVE  VarTypes'
<1>0. /\ <<>> \in Seq(Steps) /\ <<"TrySend">> \in Seq(Steps)
      /\ <<"Disconnect">> \in Seq(Steps) /\ <<"TryReceive">> \in Seq(Steps)
      /\ <<"SetConnected", "TryReceive", "TryReceive">> \in Seq(Steps)
      /\ <<"ClearBuffers">> \in Seq(Steps)
  BY DEF Steps
<1>1. Io \in Threads  BY DEF Threads
<1>2. CASE ConnectHandler
  <2>1. todo' \in [Threads -> Seq(Steps)] /\ queue' \in Seq(Handlers)
    BY <1>0, <1>2, RunStep DEF ConnectHandler
  <2> QED
    BY <1>2, <2>1 DEF ConnectHandler, VarTypes, sendv, recvv, peerv, ghosts
<1>3. CASE AsyncConnectHandler
  <2>1. todo' \in [Threads -> Seq(Steps)] /\ queue' \in Seq(Handlers)
    BY <1>0, <1>3, RunStep DEF AsyncConnectHandler
  <2> QED
    BY <1>3, <2>1 DEF AsyncConnectHandler, VarTypes, sendv, recvv, sockv, peerv, ghosts
<1>4. CASE DisconnectHandler
  <2>1. todo' \in [Threads -> Seq(Steps)] /\ queue' \in Seq(Handlers)
    BY <1>0, <1>4, RunStep DEF DisconnectHandler
  <2> QED
    BY <1>4, <2>1 DEF DisconnectHandler, VarTypes, flags, sendv, recvv, sockv, peerv, ghosts
<1>5. CASE SendHandler
  <2>1. todo' \in [Threads -> Seq(Steps)] /\ queue' \in Seq(Handlers)
    BY <1>0, <1>5, RunStep DEF SendHandler
  <2> QED
    BY <1>5, <2>1 DEF SendHandler, VarTypes, flags, sendv, recvv, sockv, peerv, ghosts
<1>6. CASE AsyncReceiveHandler
  <2>1. todo' \in [Threads -> Seq(Steps)] /\ queue' \in Seq(Handlers)
    BY <1>0, <1>6, RunStep DEF AsyncReceiveHandler, AfterCompletion
  <2>2. got' \in Seq(Nat)  BY <1>6 DEF AsyncReceiveHandler, VarTypes
  <2> QED
    BY <1>6, <2>1, <2>2 DEF AsyncReceiveHandler, VarTypes, flags, sendv, sockv, peerv, ghosts
<1>7. CASE AsyncWriteHandler
  <2>1. /\ todo' \in [Threads -> Seq(Steps)] /\ queue' \in Seq(Handlers)
        /\ queue[1] \in Handlers /\ Head(queue) = queue[1]
    BY <1>0, <1>7, RunStep DEF AsyncWriteHandler, AfterCompletion
  <2>2. Head(queue).n \in Nat  BY <2>1 DEF Handlers
  <2>3. flush \in Seq(Nat) /\ offset \in Nat /\ bytesSending \in Int
    BY DEF VarTypes
  <2>4. FlushAfter(Head(queue).n) \in Seq(Nat) /\ OffsetAfter(Head(queue).n) \in Nat
    BY <2>2, <2>3 DEF FlushAfter, OffsetAfter
  <2>5. flush' \in Seq(Nat) /\ offset' \in Nat /\ bytesSending' \in Int
    BY <1>7, <2>2, <2>3, <2>4 DEF AsyncWriteHandler
  <2> QED
    BY <1>7, <2>1, <2>5 DEF AsyncWriteHandler, VarTypes, flags, recvv, sockv, peerv, ghosts
<1>8. CASE SetConnected
  <2>1. todo' \in [Threads -> Seq(Steps)]
    BY <1>0, <1>1, <1>8, GotoStep DEF SetConnected
  <2> QED
    BY <1>8, <2>1 DEF SetConnected, VarTypes, recvv, sockv, peerv, ghosts
<1>9. CASE TryReceive
  <2>1. todo' \in [Threads -> Seq(Steps)]
    BY <1>0, <1>1, <1>9, GotoStep DEF TryReceive
  <2>2. CASE ReceiveBlocked
    BY <1>9, <2>1, <2>2 DEF TryReceive, VarTypes, flags, sendv, recvv, sockv, peerv, ghosts
  <2>3. CASE ~ReceiveBlocked
    BY <1>9, <2>1, <2>3, BeginReadTypes DEF TryReceive, VarTypes
  <2> QED  BY <2>2, <2>3
<1>10. CASE TrySend
  <2>1. todo' \in [Threads -> Seq(Steps)]
    BY <1>0, <1>1, <1>10, GotoStep DEF TrySend
  <2>2. CASE SendBlocked
    BY <1>10, <2>1, <2>2 DEF TrySend, VarTypes, flags, sendv, recvv, peerv, ghosts
  <2>3. CASE ~SendBlocked
    <3>1. /\ flush' \in Seq(Nat) /\ offset' \in Nat /\ main' \in Seq(Nat)
          /\ bytesPending' \in Nat /\ bytesSending' \in Int /\ sending' \in BOOLEAN
      <4>1. /\ main \in Seq(Nat) /\ flush \in Seq(Nat) /\ offset \in Nat
            /\ bytesPending \in Nat /\ bytesSending \in Int /\ sending \in BOOLEAN
        BY DEF VarTypes
      <4>2. Len(main) \in Nat /\ <<>> \in Seq(Nat)  BY <4>1
      <4>3. /\ flush' \in {flush, main} /\ main' \in {main, <<>>}
            /\ offset' \in {offset, 0} /\ sending' \in BOOLEAN
            /\ bytesPending' \in {bytesPending, 0}
        BY <1>10, <2>3 DEF TrySend
      <4>7. bytesSending' \in {bytesSending + 0, bytesSending + Len(main)}
        BY <1>10, <2>3 DEF TrySend
      <4>4. flush' \in Seq(Nat) /\ main' \in Seq(Nat)  BY <4>1, <4>2, <4>3
      <4>5. offset' \in Nat /\ bytesPending' \in Nat  BY <4>1, <4>3
      <4>6. bytesSending' \in Int  BY <4>1, <4>2, <4>7
      <4> QED  BY <4>1, <4>3, <4>4, <4>5, <4>6
    <3>2. writes' \in Seq(Seq(Nat))
      <4>1. /\ writes \in Seq(Seq(Nat)) /\ flush \in Seq(Nat)
            /\ main \in Seq(Nat) /\ offset \in Nat
        BY DEF VarTypes
      <4>2. \A f \in Seq(Nat), o \in Nat : SubSeq(f, o + 1, Len(f)) \in Seq(Nat)
        OBVIOUS
      <4>3. \A x \in Seq(Nat) : Append(writes, x) \in Seq(Seq(Nat))  BY <4>1
      <4> QED  BY <1>10, <2>3, <4>1, <4>2, <4>3 DEF TrySend
    <3> QED
      BY <1>10, <2>1, <3>1, <3>2 DEF TrySend, VarTypes, flags, recvv, peerv, ghosts
  <2> QED  BY <2>2, <2>3
<1>11. CASE Disconnect
  <2>1. todo' \in [Threads -> Seq(Steps)]
    BY <1>0, <1>1, <1>11, GotoStep DEF Disconnect
  <2>2. queue' \in Seq(Handlers)
    <3>1. queue \in Seq(Handlers)  BY DEF VarTypes
    <3>2. queue \o Aborted \in Seq(Handlers)  BY <3>1, AbortedTypes
    <3> QED  BY <1>11, <3>1, <3>2 DEF Disconnect
  <2>3. writes' \in Seq(Seq(Nat)) /\ reads' \in Nat
    <3>1. writes \in Seq(Seq(Nat)) /\ reads \in Nat  BY DEF VarTypes
    <3>2. <<>> \in Seq(Seq(Nat))  OBVIOUS
    <3>3. writes' \in {writes, <<>>} /\ reads' \in {reads, 0}
      BY <1>11 DEF Disconnect
    <3>4. CASE writes' = writes  BY <3>1, <3>3, <3>4
    <3>5. CASE writes' = <<>>
      <4>1. writes' \in Seq(Seq(Nat))  BY <3>2, <3>5
      <4>2. reads' \in Nat  BY <3>1, <3>3
      <4> QED  BY <4>1, <4>2
    <3> QED  BY <3>3, <3>4, <3>5
  <2> QED
    BY <1>11, <2>1, <2>2, <2>3 DEF Disconnect, VarTypes, flags, sendv, recvv, peerv, ghosts
<1>12. CASE ClearBuffers
  <2>1. todo' \in [Threads -> Seq(Steps)]
    BY <1>0, <1>1, <1>12, GotoStep DEF ClearBuffers
  <2>2. main' \in Seq(Nat) /\ flush' \in Seq(Nat)  BY <1>12 DEF ClearBuffers
  <2>3. orphans' \in SUBSET Nat  BY <1>12 DEF ClearBuffers
  <2>4. /\ offset' \in Nat /\ bytesPending' \in Nat /\ bytesSending' \in Int
    BY <1>12 DEF ClearBuffers
  <2>5. receiving' \in BOOLEAN /\ sending' \in BOOLEAN
    BY <1>12 DEF ClearBuffers
  <2> QED
    BY <1>12, <2>1, <2>2, <2>3, <2>4, <2>5 DEF ClearBuffers, VarTypes, flags, sockv, peerv
<1> QED
  BY <1>2, <1>3, <1>4, <1>5, <1>6, <1>7, <1>8, <1>9, <1>10, <1>11, <1>12 DEF IoStep

\* The kernel and the peer.
LEMMA KernelTypes ==
  ASSUME VarTypes, Kernel \/ PeerSend \/ PeerClose
  PROVE  VarTypes'
<1>1. ASSUME NEW ec \in ErrorCodes, ConnectDone(ec) PROVE VarTypes'
  <2>1. queue' \in Seq(Handlers)
    BY <1>1, HandlerTypes, AppendStep DEF ConnectDone, HandlerOps, ErrorCodes
  <2>2. epoch' \in Nat /\ peerSent' \in Nat /\ taken' \in Nat
    <3>1. epoch \in Nat /\ peerSent \in Nat /\ taken \in Nat  BY DEF VarTypes
    <3>2. /\ epoch' \in {epoch, epoch + 1}
          /\ peerSent' \in {peerSent, 0} /\ taken' \in {taken, 0}
      BY <1>1 DEF ConnectDone, peerv
    <3> QED  BY <3>1, <3>2
  <2>3. wire' \in Seq(Nat) /\ got' \in Seq(Nat) /\ peerClosed' \in BOOLEAN
    <3>1. wire \in Seq(Nat) /\ got \in Seq(Nat) /\ peerClosed \in BOOLEAN
      BY DEF VarTypes
    <3>2. <<>> \in Seq(Nat)  OBVIOUS
    <3> QED  BY <1>1, <3>1, <3>2 DEF ConnectDone, peerv
  <2> QED
    BY <1>1, <2>1, <2>2, <2>3 DEF ConnectDone, VarTypes, flags, sendv, ghosts
<1>2. CASE ReadData
  <2>1. queue' \in Seq(Handlers)
    <3>1. epoch \in Nat  BY DEF VarTypes
    <3> QED  BY <1>2, <3>1, HandlerTypes, AppendStep DEF ReadData, HandlerOps, ErrorCodes
  <2> QED  BY <1>2, <2>1 DEF ReadData, VarTypes, flags, sendv, ghosts
<1>3. CASE ReadError
  <2>1. queue' \in Seq(Handlers)
    <3>1. epoch \in Nat  BY DEF VarTypes
    <3> QED  BY <1>3, <3>1, HandlerTypes, AppendStep DEF ReadError, HandlerOps, ErrorCodes
  <2> QED  BY <1>3, <2>1 DEF ReadError, VarTypes, flags, sendv, recvv, peerv, ghosts
<1>4. CASE WriteData
  <2>1. Head(writes) \in Seq(Nat) /\ writes' \in Seq(Seq(Nat))
    BY <1>4 DEF WriteData, VarTypes
  <2>2. PICK n \in 1..Len(Head(writes)) :
           /\ wire' = wire \o SubSeq(Head(writes), 1, n)
           /\ queue' = Append(queue, Completion("Written", "success", n, epoch))
    BY <1>4 DEF WriteData
  <2>3. queue' \in Seq(Handlers)
    <3>1. epoch \in Nat /\ n \in Nat  BY <2>1, <2>2 DEF VarTypes
    <3> QED  BY <2>2, <3>1, HandlerTypes, AppendStep DEF HandlerOps, ErrorCodes
  <2>4. wire' \in Seq(Nat)
    <3>1. wire \in Seq(Nat)  BY DEF VarTypes
    <3>3. \A f \in Seq(Nat) : \A k \in 1..Len(f) : SubSeq(f, 1, k) \in Seq(Nat)
      OBVIOUS
    <3>2. SubSeq(Head(writes), 1, n) \in Seq(Nat)  BY <2>1, <3>3
    <3> QED  BY <2>2, <3>1, <3>2
  <2> QED
    BY <1>4, <2>1, <2>3, <2>4 DEF WriteData, VarTypes, flags, sendv, recvv, ghosts
<1>5. CASE WriteError
  <2>1. writes' \in Seq(Seq(Nat))  BY <1>5 DEF WriteError, VarTypes
  <2>2. queue' \in Seq(Handlers)
    <3>1. epoch \in Nat  BY DEF VarTypes
    <3> QED  BY <1>5, <3>1, HandlerTypes, AppendStep DEF WriteError, HandlerOps, ErrorCodes
  <2> QED
    BY <1>5, <2>1, <2>2 DEF WriteError, VarTypes, flags, sendv, recvv, peerv, ghosts
<1>6. CASE PeerSend
  BY <1>6 DEF PeerSend, VarTypes, flags, sendv, recvv, sockv, ghosts
<1>7. CASE PeerClose
  BY <1>7 DEF PeerClose, VarTypes, flags, sendv, recvv, sockv, ghosts
<1> QED  BY <1>1, <1>2, <1>3, <1>4, <1>5, <1>6, <1>7 DEF Kernel

\* Every step of the program keeps the types.
LEMMA NextTypes == VarTypes /\ [Next]_vars => VarTypes'
<1> SUFFICES ASSUME VarTypes, [Next]_vars PROVE VarTypes'  OBVIOUS
<1>1. CASE UNCHANGED vars
  BY <1>1 DEF vars, VarTypes, flags, sendv, recvv, sockv, peerv, ghosts
<1>2. CASE Next
  BY <1>2, CallTypes, UserStepTypes, IoStepTypes, KernelTypes DEF Next
<1> QED  BY <1>1, <1>2

-----------------------------------------------------------------------------
(* The stacks of steps.                                                    *)

LEMMA InitSendInv == Init => SendInv
<1> SUFFICES ASSUME Init PROVE SendInv  OBVIOUS
<1>1. VarTypes  BY InitTypes
<1>2. /\ todo = [t \in Threads |-> <<>>] /\ queue = <<>> /\ writes = <<>>
      /\ flush = <<>> /\ offset = 0 /\ bytesSending = 0 /\ sock = "closed"
      /\ connected = FALSE /\ sending = FALSE
  BY DEF Init
<1>3. todo[Io] = <<>> /\ \A u \in Users : todo[u] = <<>>
  BY <1>2 DEF Threads
<1>4. StackInv
  <2>1. <<>> \in IoStacks  BY DEF IoStacks
  <2>2. <<>> \in Seq(UserSteps)  OBVIOUS
  <2> QED  BY <1>3, <2>1, <2>2 DEF StackInv
<1>5. PhaseInv
  <2>1. <<>> # <<"ClearBuffers">>  OBVIOUS
  <2> QED  BY <1>2, <1>3, <2>1 DEF PhaseInv
<1>6. BufferInv  BY <1>2 DEF BufferInv
<1>7. WriteInv  BY <1>2 DEF WriteInv
<1> QED  BY <1>1, <1>4, <1>5, <1>6, <1>7 DEF SendInv

\* An application thread changes its own stack only.
LEMMA UserStacks ==
  ASSUME SendInv, NEW u \in Users, Call(u) \/ UserStep(u)
  PROVE  StackInv' /\ todo'[Io] = todo[Io]
<1>1. /\ u \in Threads /\ Io \in Threads /\ u # Io
      /\ todo \in [Threads -> Seq(Steps)] /\ todo[u] \in Seq(UserSteps)
  BY ThreadsAssumption DEF Threads, SendInv, StackInv, VarTypes
<1>2. \E s \in Seq(UserSteps) : todo' = [todo EXCEPT ![u] = s]
  <2>1. CASE Call(u)
    <3>1. /\ <<"PostConnect">> \in Seq(UserSteps)
          /\ <<"PostDisconnect">> \in Seq(UserSteps)
          /\ <<"PostDisconnect", "AwaitDisconnected", "ConnectAsync">> \in Seq(UserSteps)
          /\ <<"PostDisconnect", "AwaitDisconnected", "Stopped">> \in Seq(UserSteps)
          /\ <<"AwaitDisconnected", "Stopped">> \in Seq(UserSteps)
          /\ <<"AppendMain">> \in Seq(UserSteps)
          /\ <<"StartRead">> \in Seq(UserSteps)
      BY DEF UserSteps
    <3> QED
      BY <2>1, <3>1 DEF Enter, Call, ConnectAsync, DisconnectAsync, ReconnectAsync,
                        DisconnectAndStop, SendAsync, ReceiveAsync
  <2>2. CASE UserStep(u)
    <3>1. /\ <<>> \in Seq(UserSteps) /\ <<"PostSend">> \in Seq(UserSteps)
          /\ <<"PostConnect">> \in Seq(UserSteps)
      BY DEF UserSteps
    <3>2. \E s \in Seq(UserSteps) :
             todo[u] # <<>> /\ todo' = [todo EXCEPT ![u] = s \o Tail(@)]
      BY <2>2, <3>1 DEF Goto, UserStep, Post, AppendMain, AwaitDisconnected,
                        StartRead, ConnectAgain
    <3>3. \A s \in Seq(UserSteps) : todo[u] # <<>> => s \o Tail(todo[u]) \in Seq(UserSteps)
      BY <1>1
    <3> QED  BY <1>1, <3>2, <3>3
  <2> QED  BY <2>1, <2>2
<1> QED  BY <1>1, <1>2 DEF SendInv, StackInv, Threads

\* The io thread changes its own stack only.
LEMMA IoOthers ==
  ASSUME SendInv, todo' \in [Threads -> Seq(Steps)], todo'[Io] \in IoStacks,
         \A x \in Threads \ {Io} : todo'[x] = todo[x]
  PROVE  StackInv'
BY ThreadsAssumption DEF SendInv, StackInv, Threads

\* What is left of the io thread's stack after a step of a handler.
LEMMA IoGoto ==
  ASSUME SendInv, NEW step, NEW s \in Seq(Steps), Goto(Io, step, s)
  PROVE  /\ \A x \in Threads \ {Io} : todo'[x] = todo[x]
         /\ todo' \in [Threads -> Seq(Steps)]
         /\ todo[Io] # <<>> /\ Head(todo[Io]) = step
         /\ step = "SetConnected" => todo'[Io] = s \o <<"TryReceive", "TryReceive">>
         /\ step = "TryReceive" => todo'[Io] \in {s \o <<"TryReceive">>, s \o <<>>}
         /\ step \in {"TrySend", "Disconnect", "ClearBuffers"} =>
               todo[Io] = <<step>> /\ todo'[Io] = s \o <<>>
<1>1. VarTypes /\ Io \in Threads  BY DEF SendInv, Threads
<1>2. /\ todo' \in [Threads -> Seq(Steps)]
      /\ \A x \in Threads \ {Io} : todo'[x] = todo[x]
      /\ todo'[Io] = s \o Tail(todo[Io])
  BY <1>1, GotoStep
<1>3. todo[Io] # <<>> /\ Head(todo[Io]) = step  BY DEF Goto
<1>4. todo[Io] \in IoStacks  BY DEF SendInv, StackInv
<1>5. /\ Tail(<<"SetConnected", "TryReceive", "TryReceive">>)
            = <<"TryReceive", "TryReceive">>
      /\ Tail(<<"TryReceive", "TryReceive">>) = <<"TryReceive">>
      /\ \A x : Tail(<<x>>) = <<>>
  OBVIOUS
<1>6. /\ Head(<<"SetConnected", "TryReceive", "TryReceive">>) = "SetConnected"
      /\ Head(<<"TryReceive", "TryReceive">>) = "TryReceive"
      /\ \A x : Head(<<x>>) = x
  OBVIOUS
<1> QED  BY <1>2, <1>3, <1>4, <1>5, <1>6 DEF IoStacks

-----------------------------------------------------------------------------
(* Steps that leave the send path alone.                                   *)

\* The io thread goes on receiving, or is not the one that takes the step.
StackKept ==
  \/ todo'[Io] = todo[Io]
  \/ /\ todo[Io] \in {<<>>, <<"TryReceive">>, <<"TryReceive", "TryReceive">>}
     /\ todo'[Io] \in {<<>>, <<"TryReceive">>}

\* Facts about stacks the provers need spelled out.
LEMMA StackFacts ==
  /\ <<"TryReceive">> \notin {<<"TrySend">>, <<"Disconnect">>, <<"ClearBuffers">>, <<>>}
  /\ <<"TryReceive", "TryReceive">>
        \notin {<<"TrySend">>, <<"Disconnect">>, <<"ClearBuffers">>, <<>>}
  /\ <<"TrySend">> \notin {<<"ClearBuffers">>, <<"Disconnect">>, <<>>}
  /\ <<"Disconnect">> \notin {<<"ClearBuffers">>, <<>>}
  /\ <<"ClearBuffers">> # <<>>
  /\ <<"SetConnected", "TryReceive", "TryReceive">>
        \notin {<<"TrySend">>, <<"Disconnect">>, <<"ClearBuffers">>, <<>>}
  /\ Head(<<"SetConnected", "TryReceive", "TryReceive">>) = "SetConnected"
  /\ Head(<<"TryReceive", "TryReceive">>) = "TryReceive"
  /\ \A x : Head(<<x>>) = x
OBVIOUS

\* A step preserves the invariant if it changes neither the send path nor the
\* phase of the connection and at most posts or runs a handler that is not the
\* completion of a connection attempt or of a write.
LEMMA Posted ==
  ASSUME SendInv, NEW h \in Handlers, h.op \notin {"Connected", "Written"},
         queue' = Append(queue, h), StackKept,
         UNCHANGED <<connected, connecting, sending, flush, offset, bytesSending,
                     sock, writes, epoch>>
  PROVE  PhaseInv' /\ BufferInv' /\ WriteInv'
<1>1. /\ Len(queue) \in Nat
      /\ Len(queue') = Len(queue) + 1
      /\ queue'[Len(queue) + 1] = h
      /\ \A i \in 1..Len(queue) : queue'[i] = queue[i]
  BY AppendStep DEF SendInv, VarTypes
<1>2. \A op \in {"Connected", "Written"} : Queued(op)' <=> Queued(op)
  BY <1>1 DEF Queued
<1>3. PhaseInv'
  BY <1>1, <1>2, StackFacts DEF SendInv, PhaseInv, StackKept
<1>4. BufferInv'
  BY StackFacts DEF SendInv, BufferInv, StackKept
<1>5. WriteInv'
  BY <1>1, <1>2, StackFacts DEF SendInv, WriteInv, StackKept
<1> QED  BY <1>3, <1>4, <1>5

\* ... and if it leaves the queue alone.
LEMMA Quiet ==
  ASSUME SendInv, queue' = queue, StackKept,
         UNCHANGED <<connected, connecting, sending, flush, offset, bytesSending,
                     sock, writes, epoch>>
  PROVE  PhaseInv' /\ BufferInv' /\ WriteInv'
<1>1. PhaseInv'   BY StackFacts DEF SendInv, PhaseInv, StackKept, Queued
<1>2. BufferInv'  BY StackFacts DEF SendInv, BufferInv, StackKept
<1>3. WriteInv'   BY StackFacts DEF SendInv, WriteInv, StackKept, Queued
<1> QED  BY <1>1, <1>2, <1>3

\* Starting a read is such a step.
LEMMA ReadStarted ==
  ASSUME SendInv, BeginRead, StackKept
  PROVE  PhaseInv' /\ BufferInv' /\ WriteInv'
<1>1. UNCHANGED <<connected, connecting, sending, flush, offset, bytesSending,
                  sock, writes, epoch>>
  BY DEF BeginRead, flags, sendv
<1>2. CASE queue' = queue  BY <1>1, <1>2, Quiet
<1>3. CASE queue' # queue
  <2>1. queue' = Append(queue, Completion("Received", "failure", 0, 0))
    BY <1>3 DEF BeginRead
  <2>2. /\ Completion("Received", "failure", 0, 0) \in Handlers
        /\ Completion("Received", "failure", 0, 0).op = "Received"
    BY HandlerTypes DEF Completion, HandlerOps, ErrorCodes
  <2> QED  BY <1>1, <2>1, <2>2, Posted
<1> QED  BY <1>2, <1>3

\* The steps of the application threads and the peer.
LEMMA UserSendInv ==
  ASSUME SendInv, NEW u \in Users, Call(u) \/ UserStep(u)
  PROVE  SendInv'
<1>1. VarTypes'  BY CallTypes, UserStepTypes DEF SendInv
<1>2. StackInv' /\ todo'[Io] = todo[Io]  BY UserStacks
<1>3. PhaseInv' /\ BufferInv' /\ WriteInv'
  <2>1. CASE Call(u)
    <3>1. queue' = queue /\ UNCHANGED <<connected, connecting, sending, flush, offset,
                                        bytesSending, sock, writes, epoch>>
      BY <2>1 DEF Call, ConnectAsync, DisconnectAsync, ReconnectAsync, DisconnectAndStop,
                  SendAsync, ReceiveAsync, flags, sendv, sockv
    <3> QED  BY <1>2, <3>1, Quiet DEF StackKept
  <2>2. CASE Post(u)
    <3>1. UNCHANGED <<connected, connecting, sending, flush, offset, bytesSending,
                      sock, writes, epoch>>
      BY <2>2 DEF Post, flags, sendv, sockv
    <3>2. \E h \in {Handler("Connect"), Handler("Disconnect"), Handler("TrySend")} :
             queue' = Append(queue, h)
      BY <2>2 DEF Post
    <3>3. \A h \in {Handler("Connect"), Handler("Disconnect"), Handler("TrySend")} :
             h \in Handlers /\ h.op \notin {"Connected", "Written"}
      BY HandlerTypes DEF Handler, HandlerOps
    <3> QED  BY <1>2, <3>1, <3>2, <3>3, Posted DEF StackKept
  <2>3. CASE AppendMain(u) \/ AwaitDisconnected(u) \/ ConnectAgain(u)
    <3>1. queue' = queue /\ UNCHANGED <<connected, connecting, sending, flush, offset,
                                        bytesSending, sock, writes, epoch>>
      BY <2>3 DEF AppendMain, AwaitDisconnected, ConnectAgain, flags, sendv, sockv
    <3> QED  BY <1>2, <3>1, Quiet DEF StackKept
  <2>4. CASE StartRead(u)
    BY <1>2, <2>4, ReadStarted DEF StartRead, StackKept
  <2> QED  BY <2>1, <2>2, <2>3, <2>4 DEF UserStep
<1> QED  BY <1>1, <1>2, <1>3 DEF SendInv

LEMMA PeerSendInv ==
  ASSUME SendInv, PeerSend \/ PeerClose \/ ReadData \/ ReadError
  PROVE  SendInv'
<1>1. VarTypes'  BY KernelTypes DEF SendInv, Kernel
<1>2. todo' = todo
  BY DEF PeerSend, PeerClose, ReadData, ReadError
<1>3. StackInv'  BY <1>2 DEF SendInv, StackInv
<1>4. UNCHANGED <<connected, connecting, sending, flush, offset, bytesSending,
                  sock, writes, epoch>>
  BY DEF PeerSend, PeerClose, ReadData, ReadError, flags, sendv, sockv
<1>5. CASE queue' = queue  BY <1>1, <1>2, <1>3, <1>4, <1>5, Quiet DEF SendInv, StackKept
<1>6. CASE queue' # queue
  <2>1. \E h \in {Completion("Received", "success", 1, epoch),
                  Completion("Received", "failure", 0, epoch)} :
           queue' = Append(queue, h)
    BY <1>6 DEF PeerSend, PeerClose, ReadData, ReadError
  <2>2. \A h \in {Completion("Received", "success", 1, epoch),
                  Completion("Received", "failure", 0, epoch)} :
           h \in Handlers /\ h.op \notin {"Connected", "Written"}
    <3>1. epoch \in Nat  BY DEF SendInv, VarTypes
    <3> QED  BY <3>1, HandlerTypes DEF Completion, HandlerOps, ErrorCodes
  <2> QED  BY <1>1, <1>2, <1>3, <1>4, <2>1, <2>2, Posted DEF SendInv, StackKept
<1> QED  BY <1>5, <1>6

-----------------------------------------------------------------------------
(* The handlers.                                                           *)

\* The stacks a handler begins with.
LEMMA RunStack ==
  ASSUME SendInv, NEW op, NEW s \in Seq(Steps), s \in IoStacks, Run(op, s)
  PROVE  /\ StackInv' /\ todo'[Io] = s /\ todo[Io] = <<>>
         /\ Len(queue) \in Nat /\ Len(queue) > 0 /\ Len(queue') = Len(queue) - 1
         /\ queue[1] \in Handlers /\ queue[1].op = op /\ Head(queue) = queue[1]
         /\ \A i \in 1..Len(queue') : i + 1 \in 1..Len(queue) /\ queue'[i] = queue[i + 1]
<1>1. VarTypes  BY DEF SendInv
<1>2. /\ todo' \in [Threads -> Seq(Steps)]
      /\ \A x \in Threads \ {Io} : todo'[x] = todo[x]
      /\ todo'[Io] = s
      /\ Len(queue') = Len(queue) - 1
      /\ Head(queue) = queue[1] /\ queue[1] \in Handlers
      /\ \A i \in 1..Len(queue') : queue'[i] = queue[i + 1]
  BY <1>1, RunStep
<1>3. StackInv'  BY <1>2, IoOthers
<1>4. todo[Io] = <<>> /\ queue # <<>> /\ Head(queue).op = op  BY DEF Run
<1>5. queue \in Seq(Handlers)  BY <1>1 DEF VarTypes
<1>6. Len(queue) \in Nat /\ Len(queue) > 0  BY <1>4, <1>5
<1> QED  BY <1>2, <1>3, <1>4, <1>6

\* The stacks themselves, typed.
LEMMA StackTypes ==
  \A s \in {<<>>, <<"TrySend">>, <<"Disconnect">>, <<"TryReceive">>,
            <<"SetConnected", "TryReceive", "TryReceive">>, <<"ClearBuffers">>} :
     s \in Seq(Steps) /\ s \in IoStacks
<1>1. /\ <<>> \in Seq(Steps) /\ <<"TrySend">> \in Seq(Steps)
      /\ <<"Disconnect">> \in Seq(Steps) /\ <<"TryReceive">> \in Seq(Steps)
      /\ <<"SetConnected", "TryReceive", "TryReceive">> \in Seq(Steps)
      /\ <<"ClearBuffers">> \in Seq(Steps)
  BY DEF Steps
<1> QED  BY <1>1 DEF IoStacks

\* A handler that is not the completion of a connection attempt or of a write
\* and leaves the send path alone.
LEMMA RanQuietly ==
  ASSUME SendInv, NEW op, op \notin {"Connected", "Written"},
         NEW s \in {<<>>, <<"TrySend">>, <<"Disconnect">>, <<"TryReceive">>}, Run(op, s),
         UNCHANGED <<connected, connecting, sending, flush, offset, bytesSending,
                     sock, writes, epoch>>
  PROVE  StackInv' /\ PhaseInv' /\ BufferInv' /\ WriteInv'
<1>1. s \in Seq(Steps) /\ s \in IoStacks  BY StackTypes
<1>2. /\ StackInv' /\ todo'[Io] = s /\ todo[Io] = <<>>
      /\ Len(queue) \in Nat /\ Len(queue) > 0 /\ Len(queue') = Len(queue) - 1
      /\ queue[1].op = op
      /\ \A i \in 1..Len(queue') : i + 1 \in 1..Len(queue) /\ queue'[i] = queue[i + 1]
  BY <1>1, RunStack
<1>3. \A o \in {"Connected", "Written"} : Queued(o)' <=> Queued(o)
  <2> SUFFICES ASSUME NEW o \in {"Connected", "Written"} PROVE Queued(o)' <=> Queued(o)
    OBVIOUS
  <2>1. Queued(o)' => Queued(o)  BY <1>2 DEF Queued
  <2>2. ASSUME Queued(o) PROVE Queued(o)'
    <3>1. PICK i \in 1..Len(queue) : queue[i].op = o  BY <2>2 DEF Queued
    <3>2. i - 1 \in 1..Len(queue') /\ queue'[i - 1] = queue[i]  BY <1>2, <3>1
    <3> QED  BY <3>1, <3>2 DEF Queued
  <2> QED  BY <2>1, <2>2
<1>4. PhaseInv'
  BY <1>2, <1>3, StackFacts DEF SendInv, PhaseInv
<1>5. BufferInv'  BY <1>2, StackFacts DEF SendInv, BufferInv
<1>6. WriteInv'
  <2>1. WriteInv /\ (connected /\ flush # <<>> => sending)
    BY <1>2, StackFacts DEF SendInv, WriteInv
  <2>2. connected => \A i \in 1..Len(queue') :
          queue'[i].op = "Written" =>
              /\ sending
              /\ queue'[i].conn = epoch
              /\ queue'[i].n <= Len(flush) - offset
              /\ \A j \in 1..Len(queue') : queue'[j].op = "Written" => j = i
    BY <1>2, <2>1 DEF WriteInv
  <2> QED  BY <1>3, <2>1, <2>2 DEF WriteInv
<1> QED  BY <1>2, <1>4, <1>5, <1>6

\* The start of a connection attempt.
LEMMA ConnectHandlerSendInv ==
  ASSUME SendInv, ConnectHandler
  PROVE  SendInv'
<1>1. VarTypes'  BY IoStepTypes DEF SendInv, IoStep
<1>2. CASE connected \/ connecting
  <2>1. UNCHANGED <<connected, connecting, sending, flush, offset, bytesSending,
                    sock, writes, epoch>>
    BY <1>2 DEF ConnectHandler, sendv
  <2> QED  BY <1>1, <2>1, RanQuietly DEF ConnectHandler, SendInv
<1>3. CASE ~connected /\ ~connecting
  <2>1. /\ StackInv' /\ todo'[Io] = <<>> /\ todo[Io] = <<>>
        /\ \A i \in 1..Len(queue') : i + 1 \in 1..Len(queue) /\ queue'[i] = queue[i + 1]
    BY RunStack, StackTypes DEF ConnectHandler
  <2>2. /\ ~connected' /\ connecting' /\ sock' = "connecting"
        /\ UNCHANGED <<sending, flush, offset, bytesSending, writes, epoch>>
    BY <1>3 DEF ConnectHandler, sendv
  <2>3. \A i \in 1..Len(queue') : queue'[i].op # "Connected"
    BY <1>3, <2>1 DEF SendInv, PhaseInv
  <2>4. PhaseInv'   BY <2>1, <2>2, <2>3, StackFacts DEF PhaseInv
  <2>5. BufferInv'  BY <1>3, <2>1, <2>2, StackFacts DEF SendInv, BufferInv
  <2>6. WriteInv'   BY <1>3, <2>2 DEF SendInv, BufferInv, WriteInv
  <2> QED  BY <1>1, <2>1, <2>4, <2>5, <2>6 DEF SendInv
<1> QED  BY <1>2, <1>3

\* The end of one: nothing of an earlier connection is queued behind it.
LEMMA AsyncConnectHandlerSendInv ==
  ASSUME SendInv, AsyncConnectHandler
  PROVE  SendInv'
<1>1. VarTypes'  BY IoStepTypes DEF SendInv, IoStep
<1> DEFINE s == IF ~connected /\ Head(queue).ec = "success"
                THEN <<"SetConnected", "TryReceive", "TryReceive">> ELSE <<>>
<1>2. /\ StackInv' /\ todo'[Io] = s /\ todo[Io] = <<>>
      /\ Len(queue) \in Nat /\ Len(queue) > 0
      /\ queue[1].op = "Connected" /\ Head(queue) = queue[1]
      /\ \A i \in 1..Len(queue') : i + 1 \in 1..Len(queue) /\ queue'[i] = queue[i + 1]
  <2>1. s \in Seq(Steps) /\ s \in IoStacks  BY StackTypes
  <2>2. Run("Connected", s)  BY DEF AsyncConnectHandler
  <2> HIDE DEF s
  <2> QED  BY <2>1, <2>2, RunStack
<1>3. /\ connecting' = FALSE
      /\ UNCHANGED <<connected, sending, flush, offset, bytesSending, sock, writes, epoch>>
  BY DEF AsyncConnectHandler, sendv, sockv
<1>4. /\ connecting /\ ~connected /\ sock # "connecting"
      /\ queue[1].ec = "success" => sock = "open"
      /\ \A j \in 1..Len(queue) : queue[j].op \in {"Connected", "Written"} => j <= 1
  BY <1>2 DEF SendInv, PhaseInv
<1>5. \A i \in 1..Len(queue') : queue'[i].op \notin {"Connected", "Written"}
  BY <1>2, <1>4
<1>6. todo'[Io] # <<"ClearBuffers">> /\ (todo'[Io] # <<>> => sock = "open")
  BY <1>2, <1>4, StackFacts
<1>7. PhaseInv'   BY <1>3, <1>4, <1>5, <1>6 DEF PhaseInv, Queued
<1>8. BufferInv'  BY <1>2, <1>3, <1>6, StackFacts DEF SendInv, BufferInv
<1>9. WriteInv'   BY <1>3, <1>4 DEF SendInv, BufferInv, WriteInv
<1> QED  BY <1>1, <1>2, <1>7, <1>8, <1>9 DEF SendInv

\* Handlers that leave the send path alone.
LEMMA QuietHandlersSendInv ==
  ASSUME SendInv, DisconnectHandler \/ SendHandler \/ AsyncReceiveHandler
  PROVE  SendInv'
<1>1. VarTypes'  BY IoStepTypes DEF SendInv, IoStep
<1>2. UNCHANGED <<connected, connecting, sending, flush, offset, bytesSending,
                  sock, writes, epoch>>
  BY DEF DisconnectHandler, SendHandler, AsyncReceiveHandler, flags, sendv, sockv
<1>3. \E op \in {"Disconnect", "TrySend", "Received"},
         s \in {<<>>, <<"TrySend">>, <<"Disconnect">>, <<"TryReceive">>} : Run(op, s)
  BY DEF DisconnectHandler, SendHandler, AsyncReceiveHandler, AfterCompletion
<1> QED  BY <1>1, <1>2, <1>3, RanQuietly DEF SendInv

\* The completion of a write.
LEMMA AsyncWriteHandlerSendInv ==
  ASSUME SendInv, AsyncWriteHandler
  PROVE  SendInv'
<1>1. VarTypes'  BY IoStepTypes DEF SendInv, IoStep
<1> DEFINE s == AfterCompletion(Head(queue).ec, "TrySend")
           n == Head(queue).n
<1>2. s \in {<<>>, <<"TrySend">>, <<"Disconnect">>}  BY DEF AfterCompletion
<1>3. /\ StackInv' /\ todo'[Io] = s /\ todo[Io] = <<>>
      /\ Len(queue) \in Nat /\ Len(queue) > 0 /\ Len(queue') = Len(queue) - 1
      /\ queue[1] \in Handlers /\ queue[1].op = "Written" /\ Head(queue) = queue[1]
      /\ \A i \in 1..Len(queue') : i + 1 \in 1..Len(queue) /\ queue'[i] = queue[i + 1]
  <2>1. s \in Seq(Steps) /\ s \in IoStacks  BY <1>2, StackTypes
  <2>2. Run("Written", s)  BY DEF AsyncWriteHandler
  <2> HIDE DEF s
  <2> QED  BY <2>1, <2>2, RunStack
<1>4. n \in Nat /\ n = queue[1].n  BY <1>3 DEF Handlers
<1>5. /\ sending' = FALSE
      /\ UNCHANGED <<connected, connecting, sock, writes, epoch>>
  BY DEF AsyncWriteHandler, flags, sockv
<1>6. PhaseInv'
  <2>1. \A i \in 1..Len(queue') : queue'[i].op = "Connected" =>
              /\ connecting' /\ ~connected' /\ sock' # "connecting"
              /\ queue'[i].ec = "success" => sock' = "open"
              /\ \A j \in 1..Len(queue') :
                    queue'[j].op \in {"Connected", "Written"} => j <= i
    <3>1. /\ Len(queue) \in Nat /\ Len(queue') = Len(queue) - 1
          /\ \A i \in 1..Len(queue') : i + 1 \in 1..Len(queue) /\ queue'[i] = queue[i + 1]
      BY <1>3
    <3>2. \A i \in 1..Len(queue) : queue[i].op = "Connected" =>
              /\ connecting /\ ~connected /\ sock # "connecting"
              /\ queue[i].ec = "success" => sock = "open"
              /\ \A j \in 1..Len(queue) :
                    queue[j].op \in {"Connected", "Written"} => j <= i
      BY DEF SendInv, PhaseInv
    <3>3. UNCHANGED <<connected, connecting, sock>>  BY <1>5
    <3> SUFFICES ASSUME NEW i \in 1..Len(queue'), queue'[i].op = "Connected"
                 PROVE  /\ connecting' /\ ~connected' /\ sock' # "connecting"
                        /\ queue'[i].ec = "success" => sock' = "open"
                        /\ \A j \in 1..Len(queue') :
                              queue'[j].op \in {"Connected", "Written"} => j <= i
      OBVIOUS
    <3>4. i + 1 \in 1..Len(queue) /\ queue[i + 1].op = "Connected"
      BY <3>1
    <3>5. \A j \in 1..Len(queue') :
             queue'[j].op \in {"Connected", "Written"} => j <= i
      BY <3>1, <3>2, <3>4
    <3>6. /\ connecting /\ ~connected /\ sock # "connecting"
          /\ queue'[i].ec = "success" => sock = "open"
      BY <3>1, <3>2, <3>4
    <3> QED  BY <3>3, <3>5, <3>6
  <2>2. todo'[Io] # <<"ClearBuffers">>
    BY <1>2, <1>3, StackFacts
  <2>3. ~(todo'[Io] # <<>> /\ Head(todo'[Io]) = "SetConnected")
    BY <1>2, <1>3, StackFacts
  <2>4. /\ connected => sock = "open" /\ ~connecting
        /\ sock = "connecting" => connecting /\ ~connected
    BY DEF SendInv, PhaseInv
  <2> QED  BY <1>5, <2>1, <2>2, <2>3, <2>4 DEF PhaseInv
<1>7. CASE ~connected
  <2>1. UNCHANGED <<flush, offset, bytesSending>>  BY <1>7 DEF AsyncWriteHandler
  <2>2. BufferInv'  BY <1>3, <1>5, <1>7, <2>1, StackFacts DEF SendInv, BufferInv
  <2>3. WriteInv'   BY <1>5, <1>7, <2>1 DEF SendInv, BufferInv, WriteInv
  <2> QED  BY <1>1, <1>3, <1>6, <2>2, <2>3 DEF SendInv
<1>8. CASE connected
  <2>1. /\ sending /\ n <= Len(flush) - offset
        /\ \A j \in 1..Len(queue) : queue[j].op = "Written" => j = 1
    <3>1. 1 \in 1..Len(queue)  BY <1>3
    <3> QED  BY <1>3, <1>4, <1>8, <3>1 DEF SendInv, WriteInv
  <2>2. writes = <<>>
    BY <1>3 DEF SendInv, WriteInv, Queued
  <2>3. \A i \in 1..Len(queue') : queue'[i].op # "Written"
    BY <1>3, <2>1
  <2>4. flush \in Seq(Nat) /\ offset \in Nat /\ bytesSending \in Int
    BY DEF SendInv, VarTypes
  <2>5. /\ offset <= Len(flush)
        /\ flush # <<>> => offset < Len(flush)
        /\ bytesSending = Len(flush) - offset
    BY DEF SendInv, BufferInv
  <2>6. /\ offset' <= Len(flush')
        /\ flush' # <<>> => offset' < Len(flush')
        /\ bytesSending' = Len(flush') - offset'
    <3>1. CASE n = 0
      <4>1. UNCHANGED <<flush, offset, bytesSending>>  BY <3>1 DEF AsyncWriteHandler
      <4> QED  BY <2>5, <4>1
    <3>2. CASE n > 0
      <4>1. /\ flush' = FlushAfter(n) /\ offset' = OffsetAfter(n)
            /\ bytesSending' = bytesSending - n
        BY <1>8, <3>2 DEF AsyncWriteHandler
      <4> HIDE DEF n
      <4>2. CASE offset + n = Len(flush)
        <5>1. flush' = <<>> /\ offset' = 0  BY <4>1, <4>2 DEF FlushAfter, OffsetAfter
        <5>2. bytesSending' = 0  BY <1>4, <2>4, <2>5, <4>1, <4>2
        <5> QED  BY <5>1, <5>2
      <4>3. CASE offset + n # Len(flush)
        <5>1. flush' = flush /\ offset' = offset + n
          BY <4>1, <4>3 DEF FlushAfter, OffsetAfter
        <5>2. Len(flush) \in Nat /\ n \in Nat /\ n <= Len(flush) - offset
          BY <1>4, <2>1, <2>4
        <5>3. offset + n < Len(flush)  BY <2>4, <4>3, <5>2
        <5>4. bytesSending - n = Len(flush) - (offset + n)  BY <2>4, <2>5, <5>2
        <5> QED  BY <2>4, <4>1, <5>1, <5>2, <5>3, <5>4
      <4> QED  BY <4>2, <4>3
    <3> QED  BY <1>4, <3>1, <3>2
  <2>7. BufferInv'
    <3>1. connected'  BY <1>5, <1>8
    <3> QED  BY <2>6, <3>1 DEF BufferInv
  <2>8. todo'[Io] \in {<<"TrySend">>, <<"Disconnect">>}
    <3>1. ~connecting  BY <1>8 DEF SendInv, PhaseInv
    <3> QED  BY <1>3, <1>8, <3>1 DEF AfterCompletion
  <2>9. WriteInv'
    BY <1>5, <2>2, <2>3, <2>8 DEF WriteInv
  <2> QED  BY <1>1, <1>3, <1>6, <2>7, <2>9 DEF SendInv
<1> QED  BY <1>7, <1>8

-----------------------------------------------------------------------------
(* The steps of the handlers.                                              *)

LEMMA SetConnectedSendInv ==
  ASSUME SendInv, SetConnected
  PROVE  SendInv'
<1>1. VarTypes'  BY IoStepTypes DEF SendInv, IoStep
<1>2. /\ todo' \in [Threads -> Seq(Steps)]
      /\ \A x \in Threads \ {Io} : todo'[x] = todo[x]
      /\ todo[Io] # <<>> /\ Head(todo[Io]) = "SetConnected"
      /\ todo'[Io] = <<"TryReceive", "TryReceive">>
  <2>1. Goto(Io, "SetConnected", <<>>)  BY DEF SetConnected
  <2>2. <<>> \in Seq(Steps)  BY StackTypes
  <2>3. <<>> \o <<"TryReceive", "TryReceive">> = <<"TryReceive", "TryReceive">>  OBVIOUS
  <2> QED  BY <2>1, <2>2, <2>3, IoGoto
<1>3. StackInv'  BY <1>2, IoOthers DEF IoStacks
<1>4. connected' /\ bytesSending' = 0 /\ ~connecting'
      /\ UNCHANGED <<sending, flush, offset, queue, sock, writes, epoch>>
  BY <1>2 DEF SetConnected, sockv, SendInv, PhaseInv
<1>5. ~connected /\ sock = "open" /\ ~Queued("Connected") /\ ~Queued("Written")
  BY <1>2 DEF SendInv, PhaseInv
<1>6. flush = <<>> /\ offset = 0 /\ ~sending /\ writes = <<>>
  BY <1>2, <1>5, StackFacts DEF SendInv, BufferInv
<1>7. PhaseInv'   BY <1>2, <1>4, <1>5, StackFacts DEF PhaseInv, Queued
<1>8. BufferInv'  BY <1>4, <1>6 DEF BufferInv
<1>9. WriteInv'   BY <1>4, <1>5, <1>6 DEF WriteInv, Queued
<1> QED  BY <1>1, <1>3, <1>7, <1>8, <1>9 DEF SendInv

LEMMA TryReceiveSendInv ==
  ASSUME SendInv, TryReceive
  PROVE  SendInv'
<1>1. VarTypes'  BY IoStepTypes DEF SendInv, IoStep
<1>2. /\ todo' \in [Threads -> Seq(Steps)]
      /\ \A x \in Threads \ {Io} : todo'[x] = todo[x]
      /\ todo[Io] # <<>> /\ Head(todo[Io]) = "TryReceive"
      /\ todo'[Io] \in {<<>>, <<"TryReceive">>}
  <2>1. Goto(Io, "TryReceive", <<>>)  BY DEF TryReceive
  <2>2. <<>> \in Seq(Steps)  BY StackTypes
  <2>3. <<>> \o <<"TryReceive">> = <<"TryReceive">> /\ <<>> \o <<>> = <<>>  OBVIOUS
  <2> QED  BY <2>1, <2>2, <2>3, IoGoto
<1>3. StackInv'  BY <1>2, IoOthers, StackTypes
<1>4. StackKept
  <2>1. todo[Io] \in IoStacks  BY DEF SendInv, StackInv
  <2> QED  BY <1>2, <2>1, StackFacts DEF StackKept, IoStacks
<1>5. PhaseInv' /\ BufferInv' /\ WriteInv'
  <2>1. CASE ReceiveBlocked
    <3>1. queue' = queue /\ UNCHANGED <<connected, connecting, sending, flush, offset,
                                        bytesSending, sock, writes, epoch>>
      BY <2>1 DEF TryReceive, flags, sendv, sockv
    <3> QED  BY <1>4, <3>1, Quiet
  <2>2. CASE ~ReceiveBlocked
    BY <1>4, <2>2, ReadStarted DEF TryReceive
  <2> QED  BY <2>1, <2>2
<1> QED  BY <1>1, <1>3, <1>5 DEF SendInv

\* The start of a write.
LEMMA TrySendSendInv ==
  ASSUME SendInv, TrySend
  PROVE  SendInv'
<1>1. VarTypes'  BY IoStepTypes DEF SendInv, IoStep
<1>2. /\ todo' \in [Threads -> Seq(Steps)]
      /\ \A x \in Threads \ {Io} : todo'[x] = todo[x]
      /\ todo[Io] = <<"TrySend">> /\ todo'[Io] = <<>>
  <2>1. Goto(Io, "TrySend", <<>>)  BY DEF TrySend
  <2>2. <<>> \in Seq(Steps) /\ <<>> \o <<>> = <<>>  OBVIOUS
  <2> QED  BY <2>1, <2>2, IoGoto
<1>3. StackInv'  BY <1>2, IoOthers, StackTypes
<1>4. UNCHANGED <<connected, connecting, queue, sock, epoch>>
  BY DEF TrySend, flags
<1>5. PhaseInv'
  BY <1>2, <1>4, StackFacts DEF SendInv, PhaseInv, Queued
<1>6. CASE SendBlocked
  <2>1. UNCHANGED <<sending, flush, offset, bytesSending, writes>>
    BY <1>6 DEF TrySend, sendv
  <2>2. BufferInv'
    BY <1>2, <1>4, <2>1, StackFacts DEF SendInv, BufferInv
  <2>3. WriteInv'
    BY <1>2, <1>4, <1>6, <2>1 DEF SendInv, WriteInv, SendBlocked, Queued
  <2> QED  BY <1>1, <1>3, <1>5, <2>2, <2>3 DEF SendInv
<1>7. CASE ~SendBlocked
  <2> DEFINE f == IF flush = <<>> THEN main ELSE flush
             o == IF flush = <<>> THEN 0 ELSE offset
             w == SubSeq(f, o + 1, Len(f))
  <2>1. /\ flush' = f /\ offset' = o /\ sending' = (f # <<>>)
        /\ bytesSending' = bytesSending + IF flush = <<>> THEN Len(f) ELSE 0
        /\ writes' = IF f = <<>> THEN writes ELSE Append(writes, w)
    BY <1>7 DEF TrySend
  <2>2. connected /\ ~sending  BY <1>7 DEF SendBlocked
  <2>3. writes = <<>> /\ ~Queued("Written")
    BY <2>2 DEF SendInv, WriteInv, Queued
  <2>4. /\ main \in Seq(Nat) /\ flush \in Seq(Nat) /\ offset \in Nat
        /\ bytesSending \in Int
    BY DEF SendInv, VarTypes
  <2>5. /\ offset <= Len(flush)
        /\ flush # <<>> => offset < Len(flush)
        /\ bytesSending = Len(flush) - offset
    BY DEF SendInv, BufferInv
  <2>6. /\ offset' <= Len(flush')
        /\ flush' # <<>> => offset' < Len(flush')
        /\ bytesSending' = Len(flush') - offset'
    <3>1. CASE flush = <<>>
      <4>1. flush' = main /\ offset' = 0 /\ bytesSending' = bytesSending + Len(main)
        BY <2>1, <3>1
      <4>2. Len(flush) = 0 /\ offset = 0  BY <2>4, <2>5, <3>1
      <4> QED  BY <2>4, <2>5, <4>1, <4>2
    <3>2. CASE flush # <<>>
      <4>1. flush' = flush /\ offset' = offset /\ bytesSending' = bytesSending + 0
        BY <2>1, <3>2
      <4> QED  BY <2>4, <2>5, <3>2, <4>1
    <3> QED  BY <3>1, <3>2
  <2>7. BufferInv'
    <3>1. connected'  BY <1>4, <2>2
    <3> QED  BY <2>6, <3>1 DEF BufferInv
  <2>8. CASE f = <<>>
    <3>1. flush' = <<>> /\ ~sending' /\ writes' = <<>>  BY <2>1, <2>3, <2>8
    <3> QED  BY <1>1, <1>3, <1>4, <1>5, <2>3, <2>7, <3>1 DEF SendInv, WriteInv, Queued
  <2>9. CASE f # <<>>
    <3>1. flush' = f /\ flush' # <<>> /\ sending'  BY <2>1, <2>9
    <3>2. writes' = <<w>>
      <4>1. Append(<<>>, w) = <<w>>  OBVIOUS
      <4> QED  BY <2>1, <2>3, <2>9, <4>1
    <3>3. Len(writes') = 1 /\ writes'[1] = w /\ writes' # <<>>  BY <3>2
    <3>4. w = SubSeq(flush', offset' + 1, Len(flush'))  BY <2>1
    <3> HIDE DEF w, f, o
    <3>5. WriteInv'
      BY <1>4, <2>3, <3>1, <3>3, <3>4 DEF WriteInv, Queued
    <3> QED  BY <1>1, <1>3, <1>5, <2>7, <3>5 DEF SendInv
  <2> QED  BY <2>8, <2>9
<1> QED  BY <1>6, <1>7

\* The first half of a disconnect.
LEMMA DisconnectSendInv ==
  ASSUME SendInv, Disconnect
  PROVE  SendInv'
<1>1. VarTypes'  BY IoStepTypes DEF SendInv, IoStep
<1> DEFINE s == IF connected THEN <<"ClearBuffers">> ELSE <<>>
<1>2. /\ todo' \in [Threads -> Seq(Steps)]
      /\ \A x \in Threads \ {Io} : todo'[x] = todo[x]
      /\ todo[Io] = <<"Disconnect">> /\ todo'[Io] = s
  <2>1. Goto(Io, "Disconnect", s)  BY DEF Disconnect
  <2>2. s \in Seq(Steps)  BY StackTypes
  <2>3. s \o <<>> = s  OBVIOUS
  <2> HIDE DEF s
  <2> QED  BY <2>1, <2>2, <2>3, IoGoto
<1>3. StackInv'  BY <1>2, IoOthers, StackTypes
<1>4. UNCHANGED <<sending, flush, offset, bytesSending, epoch>>
  BY DEF Disconnect, sendv
<1>5. CASE ~connected
  <2>1. UNCHANGED <<connected, connecting, queue, sock, writes>> /\ todo'[Io] = <<>>
    BY <1>2, <1>5 DEF Disconnect, flags
  <2>2. PhaseInv'   BY <2>1, StackFacts DEF SendInv, PhaseInv, Queued
  <2>3. BufferInv'  BY <1>2, <1>4, <2>1, StackFacts DEF SendInv, BufferInv
  <2>4. WriteInv'   BY <1>4, <1>5, <2>1 DEF SendInv, BufferInv, WriteInv
  <2> QED  BY <1>1, <1>3, <2>2, <2>3, <2>4 DEF SendInv
<1>6. CASE connected
  <2>1. /\ ~connected' /\ sock' = "closed" /\ writes' = <<>>
        /\ queue' = queue \o Aborted /\ todo'[Io] = <<"ClearBuffers">>
    BY <1>2, <1>6 DEF Disconnect
  <2>2. ~connecting'  BY <1>6 DEF Disconnect
  <2>3. \A i \in 1..Len(queue') : queue'[i].op # "Connected"
    <3>1. /\ queue \in Seq(Handlers) /\ Aborted \in Seq(Handlers)
          /\ \A i \in 1..Len(Aborted) : Aborted[i].op \in {"Received", "Written"}
      BY AbortedTypes DEF SendInv, VarTypes
    <3>2. \A i \in 1..Len(queue) : queue[i].op # "Connected"
      BY <1>6 DEF SendInv, PhaseInv
    <3> HIDE DEF Handlers
    <3>3. \A i \in 1..Len(queue') : \/ i \in 1..Len(queue) /\ queue'[i] = queue[i]
                                    \/ \E j \in 1..Len(Aborted) : queue'[i] = Aborted[j]
      <4> SUFFICES ASSUME NEW i \in 1..Len(queue')
                   PROVE  \/ i \in 1..Len(queue) /\ queue'[i] = queue[i]
                          \/ \E j \in 1..Len(Aborted) : queue'[i] = Aborted[j]
        OBVIOUS
      <4>1. CASE i <= Len(queue)  BY <2>1, <3>1, <4>1
      <4>2. CASE i > Len(queue)
        <5>1. /\ i - Len(queue) \in 1..Len(Aborted)
              /\ queue'[i] = Aborted[i - Len(queue)]
          BY <2>1, <3>1, <4>2
        <5> QED  BY <5>1
      <4>3. i \in Nat /\ Len(queue) \in Nat  BY <3>1
      <4> QED  BY <4>1, <4>2, <4>3
    <3> QED  BY <3>1, <3>2, <3>3
  <2>4. PhaseInv'   BY <2>1, <2>2, <2>3, StackFacts DEF PhaseInv
  <2>5. BufferInv'  BY <1>4, <2>1 DEF SendInv, BufferInv
  <2>6. WriteInv'   BY <2>1 DEF WriteInv
  <2> QED  BY <1>1, <1>3, <2>4, <2>5, <2>6 DEF SendInv
<1> QED  BY <1>5, <1>6

\* The second half.
LEMMA ClearBuffersSendInv ==
  ASSUME SendInv, ClearBuffers
  PROVE  SendInv'
<1>1. VarTypes'  BY IoStepTypes DEF SendInv, IoStep
<1>2. /\ todo' \in [Threads -> Seq(Steps)]
      /\ \A x \in Threads \ {Io} : todo'[x] = todo[x]
      /\ todo[Io] = <<"ClearBuffers">> /\ todo'[Io] = <<>>
  <2>1. Goto(Io, "ClearBuffers", <<>>)  BY DEF ClearBuffers
  <2>2. <<>> \in Seq(Steps) /\ <<>> \o <<>> = <<>>  OBVIOUS
  <2> QED  BY <2>1, <2>2, IoGoto
<1>3. StackInv'  BY <1>2, IoOthers, StackTypes
<1>4. UNCHANGED <<connected, connecting, queue, sock, writes, epoch>>
  BY DEF ClearBuffers, flags, sockv
<1>5. flush' = <<>> /\ offset' = 0 /\ bytesSending' = 0 /\ ~sending'
  BY DEF ClearBuffers
<1>6. ~connected /\ writes = <<>>
  BY <1>2 DEF SendInv, PhaseInv, BufferInv
<1>7. PhaseInv'   BY <1>2, <1>4, StackFacts DEF SendInv, PhaseInv, Queued
<1>8. BufferInv'  BY <1>4, <1>5, <1>6 DEF BufferInv
<1>9. WriteInv'   BY <1>4, <1>5, <1>6 DEF WriteInv
<1> QED  BY <1>1, <1>3, <1>7, <1>8, <1>9 DEF SendInv

-----------------------------------------------------------------------------
(* The kernel's steps on the send path.                                    *)

LEMMA ConnectDoneSendInv ==
  ASSUME SendInv, NEW ec \in ErrorCodes, ConnectDone(ec)
  PROVE  SendInv'
<1>1. VarTypes'  BY KernelTypes DEF SendInv, Kernel
<1> DEFINE h == Completion("Connected", ec, 0, 0)
<1>2. /\ h \in Handlers /\ h.op = "Connected" /\ h.ec = ec
  BY HandlerTypes DEF Completion, HandlerOps
<1>3. /\ Len(queue) \in Nat /\ Len(queue') = Len(queue) + 1
      /\ queue'[Len(queue) + 1] = h
      /\ \A i \in 1..Len(queue) : queue'[i] = queue[i]
  <2>1. queue' = Append(queue, h)  BY DEF ConnectDone
  <2>2. Len(queue) \in Nat  BY DEF SendInv, VarTypes
  <2> HIDE DEF h
  <2> QED  BY <1>2, <2>1, <2>2, AppendStep DEF SendInv
<1>4. UNCHANGED <<connected, connecting, sending, flush, offset, bytesSending,
                  writes, todo>>
  BY DEF ConnectDone, flags, sendv
<1>5. /\ sock = "connecting"
      /\ sock' = IF ec = "success" THEN "open" ELSE "closed"
  BY DEF ConnectDone
<1>6. /\ connecting /\ ~connected
      /\ \A i \in 1..Len(queue) : queue[i].op # "Connected"
      /\ ~(todo[Io] # <<>> /\ Head(todo[Io]) = "SetConnected")
      /\ todo[Io] # <<"ClearBuffers">>
  BY <1>5 DEF SendInv, PhaseInv
<1>7. StackInv'  BY <1>4 DEF SendInv, StackInv
<1> HIDE DEF h
<1>8. PhaseInv'
  <2>1. ASSUME NEW i \in 1..Len(queue'), queue'[i].op = "Connected"
        PROVE  /\ queue'[i].ec = "success" => sock' = "open"
               /\ \A j \in 1..Len(queue') :
                     queue'[j].op \in {"Connected", "Written"} => j <= i
    <3>1. i = Len(queue) + 1  BY <1>3, <1>6, <2>1
    <3> QED  BY <1>2, <1>3, <1>5, <3>1
  <2>2. sock' # "connecting"  BY <1>5
  <2> QED  BY <1>4, <1>6, <2>1, <2>2 DEF PhaseInv
<1>9. BufferInv'  BY <1>4 DEF SendInv, BufferInv
<1>10. WriteInv'  BY <1>4, <1>6 DEF SendInv, BufferInv, WriteInv
<1> QED  BY <1>1, <1>7, <1>8, <1>9, <1>10 DEF SendInv

\* The end of a write: its handler is now queued, for no more than it was given.
LEMMA WriteEndSendInv ==
  ASSUME SendInv, WriteData \/ WriteError
  PROVE  SendInv'
<1>1. VarTypes'  BY KernelTypes DEF SendInv, Kernel
<1>2. /\ UNCHANGED <<connected, connecting, sending, flush, offset, bytesSending,
                     sock, epoch, todo>>
      /\ writes # <<>> /\ writes' = Tail(writes)
  BY DEF WriteData, WriteError, flags, sendv
<1>3. /\ connected /\ sending /\ Len(writes) = 1 /\ flush # <<>>
      /\ writes[1] = SubSeq(flush, offset + 1, Len(flush))
      /\ ~Queued("Written")
  BY <1>2 DEF SendInv, BufferInv, WriteInv
<1>4. /\ Head(writes) = writes[1] /\ writes' = <<>>
      /\ flush \in Seq(Nat) /\ offset \in Nat /\ offset <= Len(flush) /\ epoch \in Nat
  <2>1. writes \in Seq(Seq(Nat))  BY DEF SendInv, VarTypes
  <2>2. Head(writes) = writes[1] /\ writes' = <<>>
    <3> DEFINE T == Seq(Nat)
    <3>1. writes \in Seq(T) /\ Len(writes) = 1  BY <1>3, <2>1
    <3> HIDE DEF T
    <3>2. Head(writes) = writes[1]  BY <3>1
    <3>3. writes # <<>>  BY <3>1
    <3>4. Tail(writes) = <<>>
      <4>1. Tail(writes) \in Seq(T)  BY <3>1, <3>3
      <4>2. Len(Tail(writes)) = 0  BY <3>1, <3>3
      <4> QED  BY <4>1, <4>2, EmptySeq
    <3> QED  BY <1>2, <3>2, <3>4
  <2>3. flush \in Seq(Nat) /\ offset \in Nat /\ epoch \in Nat
    BY DEF SendInv, VarTypes
  <2>4. offset <= Len(flush)  BY DEF SendInv, BufferInv
  <2> QED  BY <2>2, <2>3, <2>4
<1>5. Len(Head(writes)) = Len(flush) - offset
  BY <1>3, <1>4
<1>6. \E h \in Handlers : /\ queue' = Append(queue, h) /\ h.op = "Written"
                          /\ h.conn = epoch /\ h.n <= Len(flush) - offset
  <2>1. \E ec \in ErrorCodes, n \in 0..(Len(flush) - offset) :
           queue' = Append(queue, Completion("Written", ec, n, epoch))
    <3>1. Len(flush) - offset \in Nat  BY <1>4
    <3>2. CASE WriteData  BY <1>5, <3>1, <3>2 DEF WriteData, ErrorCodes
    <3>3. CASE WriteError  BY <3>1, <3>3 DEF WriteError, ErrorCodes
    <3> QED  BY <3>2, <3>3
  <2>2. PICK ec \in ErrorCodes, n \in 0..(Len(flush) - offset) :
           queue' = Append(queue, Completion("Written", ec, n, epoch))
    BY <2>1
  <2>3. Completion("Written", ec, n, epoch) \in Handlers
    BY <1>4, HandlerTypes DEF HandlerOps
  <2>4. /\ Completion("Written", ec, n, epoch).op = "Written"
        /\ Completion("Written", ec, n, epoch).conn = epoch
        /\ Completion("Written", ec, n, epoch).n = n
    BY DEF Completion
  <2>5. n <= Len(flush) - offset  BY <1>4
  <2> QED  BY <2>2, <2>3, <2>4, <2>5
<1>7. PICK h \in Handlers : /\ queue' = Append(queue, h) /\ h.op = "Written"
                            /\ h.conn = epoch /\ h.n <= Len(flush) - offset
  BY <1>6
<1>8. /\ Len(queue) \in Nat /\ Len(queue') = Len(queue) + 1
      /\ queue'[Len(queue) + 1] = h
      /\ \A i \in 1..Len(queue) : queue'[i] = queue[i]
  <2>1. Len(queue) \in Nat  BY DEF SendInv, VarTypes
  <2> QED  BY <1>7, <2>1, AppendStep DEF SendInv
<1>9. StackInv'  BY <1>2 DEF SendInv, StackInv
<1>10. PhaseInv'
  <2>1. \A i \in 1..Len(queue) : queue[i].op # "Connected"
    BY <1>3 DEF SendInv, PhaseInv
  <2>2. \A i \in 1..Len(queue') : queue'[i].op # "Connected"
    <3>1. h.op # "Connected"  BY <1>7
    <3> QED  BY <1>8, <2>1, <3>1
  <2> QED  BY <1>2, <1>3, <2>2 DEF SendInv, PhaseInv
<1>11. BufferInv'
  BY <1>2, <1>3 DEF SendInv, BufferInv
<1>12. WriteInv'
  <2>1. \A i \in 1..Len(queue') : queue'[i].op = "Written" => i = Len(queue) + 1
    BY <1>3, <1>8 DEF Queued
  <2>2. Queued("Written")'
    <3>1. Len(queue) + 1 \in 1..Len(queue')  BY <1>8
    <3> QED  BY <1>7, <1>8, <3>1 DEF Queued
  <2>3. \A i \in 1..Len(queue') : queue'[i].op = "Written" =>
              /\ queue'[i].conn = epoch
              /\ queue'[i].n <= Len(flush) - offset
              /\ \A j \in 1..Len(queue') : queue'[j].op = "Written" => j = i
    BY <1>7, <1>8, <2>1
  <2> QED  BY <1>2, <1>3, <1>4, <2>2, <2>3 DEF WriteInv
<1> QED  BY <1>1, <1>9, <1>10, <1>11, <1>12 DEF SendInv

-----------------------------------------------------------------------------
(* The theorems.                                                           *)

\* Every step of the program keeps the invariant.
LEMMA NextSendInv == SendInv /\ [Next]_vars => SendInv'
<1> SUFFICES ASSUME SendInv, [Next]_vars PROVE SendInv'  OBVIOUS
<1>1. CASE UNCHANGED vars
  <2>1. VarTypes'  BY <1>1, NextTypes DEF SendInv
  <2>2. /\ UNCHANGED <<todo, queue>>
        /\ UNCHANGED <<connected, connecting, sending, flush, offset, bytesSending,
                       sock, writes, epoch>>
    BY <1>1 DEF vars, flags, sendv, sockv
  <2>3. StackInv'  BY <2>2 DEF SendInv, StackInv
  <2> QED  BY <2>1, <2>2, <2>3, Quiet DEF SendInv, StackKept
<1>2. ASSUME NEW u \in Users, Call(u) \/ UserStep(u) PROVE SendInv'
  BY <1>2, UserSendInv
<1>3. CASE IoStep
  BY <1>3, ConnectHandlerSendInv, AsyncConnectHandlerSendInv, QuietHandlersSendInv,
     AsyncWriteHandlerSendInv, SetConnectedSendInv, TryReceiveSendInv, TrySendSendInv,
     DisconnectSendInv, ClearBuffersSendInv
  DEF IoStep
<1>4. CASE Kernel \/ PeerSend \/ PeerClose
  BY <1>4, ConnectDoneSendInv, WriteEndSendInv, PeerSendInv DEF Kernel
<1> QED  BY <1>1, <1>2, <1>3, <1>4 DEF Next

\* The invariant of the send path: how the connection flags, the socket, the
\* queue of handlers, the two buffers and the outstanding write fit together.
THEOREM SendInvariant == Spec => []SendInv
<1>1. Init => SendInv  BY InitSendInv
<1>2. SendInv /\ [Next]_vars => SendInv'  BY NextSendInv
<1> QED  BY <1>1, <1>2, PTL DEF Spec

\* The types are right and _bytes_sending never goes below zero.
THEOREM TypeCorrect == Spec => []TypeOK
<1>1. SendInv => TypeOK
  <2> SUFFICES ASSUME SendInv PROVE bytesSending \in Nat  BY DEF SendInv, TypeOK
  <2>1. flush \in Seq(Nat) /\ offset \in Nat  BY DEF SendInv, VarTypes
  <2>2. offset <= Len(flush) /\ bytesSending = Len(flush) - offset
    BY DEF SendInv, BufferInv
  <2> QED  BY <2>1, <2>2
<1> QED  BY <1>1, SendInvariant, PTL

\* The buffer of the outstanding write is not touched while it is outstanding.
THEOREM WriteBufferIsStable == Spec => []WriteBufferStable
<1>1. SendInv => WriteBufferStable  BY DEF SendInv, WriteInv, WriteBufferStable
<1> QED  BY <1>1, SendInvariant, PTL

\* _bytes_sending counts exactly what is left of the flush buffer.
THEOREM BytesSendingIsExact == Spec => []BytesSendingExact
<1>1. SendInv => BytesSendingExact  BY DEF SendInv, BufferInv, BytesSendingExact
<1> QED  BY <1>1, SendInvariant, PTL

\* A connected client with data in its flush buffer is writing it.
THEOREM NoWakeupIsLost == Spec => []NoLostWakeup
<1>1. SendInv => NoLostWakeup
  <2> SUFFICES ASSUME SendInv, connected, flush # <<>>, todo[Io] = <<>>
               PROVE  writes # <<>> \/ Queued("Written")
    BY DEF NoLostWakeup
  <2>1. WriteInv  BY DEF SendInv
  <2>2. sending  BY <2>1, StackFacts DEF WriteInv
  <2> QED  BY <2>1, <2>2 DEF WriteInv
<1> QED  BY <1>1, SendInvariant, PTL

\* A write's completion handler that outlived its connection is run only while
\* the client is not connected.
THEOREM StaleWritesAreHarmless == Spec => []StaleWriteOnlyWhenDisconnected
<1>1. SendInv => StaleWriteOnlyWhenDisconnected
  <2> SUFFICES ASSUME SendInv, queue # <<>>, connected, Head(queue).op = "Written"
               PROVE  Head(queue).conn = epoch
    BY DEF StaleWriteOnlyWhenDisconnected
  <2>1. 1 \in 1..Len(queue) /\ Head(queue) = queue[1]  BY DEF SendInv, VarTypes
  <2> QED  BY <2>1 DEF SendInv, WriteInv
<1> QED  BY <1>1, SendInvariant, PTL

-----------------------------------------------------------------------------
(* The receive path: steps that leave it alone.                            *)

\* The io thread does not move, or moves from a step that is not one of the receive
\* loop's or of a disconnection to none of these.
LoopKept ==
  \/ todo'[Io] = todo[Io]
  \/ /\ todo[Io] \in {<<>>, <<"TrySend">>}
     /\ todo'[Io] \in {<<>>, <<"TrySend">>, <<"Disconnect">>, <<"TryReceive">>}

\* The receive path alone is unchanged.
ReadVars == <<connected, receiving, reads, epoch, got, taken, rbuf>>

\* What LoopKept preserves of the receive path.
LEMMA LoopKeeps ==
  ASSUME LoopInv, LoopKept, UNCHANGED ReadVars
  PROVE  /\ (~connected' /\ todo'[Io] # <<"ClearBuffers">>) => ~receiving'
         /\ (connected' /\ ~receiving') =>
               todo'[Io] \in {<<"TryReceive", "TryReceive">>, <<"TryReceive">>,
                              <<"Disconnect">>}
         /\ (todo'[Io] # <<>> /\ Head(todo'[Io]) = "SetConnected") =>
               (todo[Io] # <<>> /\ Head(todo[Io]) = "SetConnected")
<1>1. ReadInv  BY DEF LoopInv
<1>2. UNCHANGED <<connected, receiving>>  BY DEF ReadVars
<1>3. CASE todo'[Io] = todo[Io]  BY <1>1, <1>2, <1>3 DEF ReadInv
<1>4. CASE /\ todo[Io] \in {<<>>, <<"TrySend">>}
           /\ todo'[Io] \in {<<>>, <<"TrySend">>, <<"Disconnect">>, <<"TryReceive">>}
  <2>1. connected => receiving  BY <1>1, <1>4, StackFacts DEF ReadInv
  <2>2. ~connected => ~receiving  BY <1>1, <1>4, StackFacts DEF ReadInv
  <2>3. ~(todo'[Io] # <<>> /\ Head(todo'[Io]) = "SetConnected")
    BY <1>4, StackFacts
  <2> QED  BY <1>2, <2>1, <2>2, <2>3
<1> QED  BY <1>3, <1>4 DEF LoopKept

\* A step preserves the invariant of the receive path if it leaves that path alone
\* and the queue ...
LEMMA ReadQuiet ==
  ASSUME LoopInv, queue' = queue, LoopKept, UNCHANGED ReadVars,
         sock' = "open" => sock = "open"
  PROVE  ReadInv' /\ GotInv'
<1>1. ReadInv /\ GotInv  BY DEF LoopInv
<1>2. UNCHANGED <<connected, receiving, reads, epoch, got, taken, rbuf>>  BY DEF ReadVars
<1>3. ReadInv'
  BY <1>1, <1>2, LoopKeeps DEF ReadInv, Queued
<1>4. GotInv'  BY <1>1, <1>2 DEF GotInv, InOrder, Unpassed
<1> QED  BY <1>3, <1>4

\* ... or posts a handler of none of its operations ...
LEMMA ReadPosted ==
  ASSUME LoopInv, NEW h \in Handlers, h.op \notin {"Connected", "Received"},
         queue' = Append(queue, h), LoopKept, UNCHANGED ReadVars,
         sock' = "open" => sock = "open"
  PROVE  ReadInv' /\ GotInv'
<1>1. ReadInv /\ GotInv  BY DEF LoopInv
<1>2. UNCHANGED <<connected, receiving, reads, epoch, got, taken, rbuf>>  BY DEF ReadVars
<1>3. /\ Len(queue) \in Nat
      /\ Len(queue') = Len(queue) + 1
      /\ queue'[Len(queue) + 1] = h
      /\ \A i \in 1..Len(queue) : queue'[i] = queue[i]
  BY AppendStep DEF LoopInv, SendInv, VarTypes
<1>4. /\ \A i \in 1..Len(queue') :
            queue'[i].op \in {"Connected", "Received"} => i \in 1..Len(queue)
      /\ \A i \in 1..Len(queue) : i \in 1..Len(queue')
  BY <1>3
<1>5. Queued("Received")' <=> Queued("Received")  BY <1>3, <1>4 DEF Queued
<1>6. Unpassed' <=> Unpassed  BY <1>3, <1>4 DEF Unpassed
<1>7. ReadInv'
  BY <1>1, <1>2, <1>3, <1>4, <1>5, LoopKeeps DEF ReadInv
<1>8. GotInv'  BY <1>1, <1>2, <1>6 DEF GotInv, InOrder
<1> QED  BY <1>7, <1>8

\* ... or runs one.
LEMMA ReadRan ==
  ASSUME LoopInv, NEW op, op \notin {"Connected", "Received"},
         NEW s \in {<<>>, <<"TrySend">>, <<"Disconnect">>, <<"TryReceive">>}, Run(op, s),
         UNCHANGED ReadVars, sock' = "open" => sock = "open"
  PROVE  ReadInv' /\ GotInv'
<1>1. ReadInv /\ GotInv /\ SendInv  BY DEF LoopInv
<1>2. UNCHANGED <<connected, receiving, reads, epoch, got, taken, rbuf>>  BY DEF ReadVars
<1>3. s \in Seq(Steps) /\ s \in IoStacks  BY StackTypes
<1>4. /\ todo'[Io] = s /\ todo[Io] = <<>>
      /\ Len(queue) \in Nat /\ Len(queue) > 0 /\ Len(queue') = Len(queue) - 1
      /\ queue[1].op = op
      /\ \A i \in 1..Len(queue') : i + 1 \in 1..Len(queue) /\ queue'[i] = queue[i + 1]
  BY <1>1, <1>3, RunStack
<1>5. LoopKept  BY <1>4 DEF LoopKept
<1>6. \A i \in 1..Len(queue) :
         queue[i].op \in {"Connected", "Received"}
            => i - 1 \in 1..Len(queue') /\ queue'[i - 1] = queue[i]
  <2> SUFFICES ASSUME NEW i \in 1..Len(queue), queue[i].op \in {"Connected", "Received"}
               PROVE  i - 1 \in 1..Len(queue') /\ queue'[i - 1] = queue[i]
    OBVIOUS
  <2>1. i # 1  BY <1>4
  <2>2. i - 1 \in 1..Len(queue') /\ (i - 1) + 1 = i  BY <1>4, <2>1
  <2> QED  BY <1>4, <2>2
<1>7. Queued("Received")' <=> Queued("Received")
  <2>1. Queued("Received")' => Queued("Received")  BY <1>4 DEF Queued
  <2>2. Queued("Received") => Queued("Received")'  BY <1>6 DEF Queued
  <2> QED  BY <2>1, <2>2
<1>8. Unpassed' <=> Unpassed
  <2>1. Unpassed' => Unpassed  BY <1>4 DEF Unpassed
  <2>2. Unpassed => Unpassed'  BY <1>6 DEF Unpassed
  <2> QED  BY <2>1, <2>2
<1>9. \A i, j \in 1..Len(queue') :
          queue'[i].op = "Connected" /\ queue'[j].op = "Received" => j < i
  <2> SUFFICES ASSUME NEW i \in 1..Len(queue'), NEW j \in 1..Len(queue'),
                      queue'[i].op = "Connected", queue'[j].op = "Received"
               PROVE  j < i
    OBVIOUS
  <2>1. j + 1 < i + 1  BY <1>1, <1>4 DEF ReadInv
  <2>2. i \in Int /\ j \in Int  OBVIOUS
  <2> QED  BY <2>1, <2>2
<1>10. connected => \A i \in 1..Len(queue') :
          queue'[i].op = "Received" =>
              /\ receiving
              /\ queue'[i].conn = epoch
              /\ \A j \in 1..Len(queue') : queue'[j].op = "Received" => j = i
  <2> SUFFICES ASSUME connected, NEW i \in 1..Len(queue'), queue'[i].op = "Received"
               PROVE  /\ receiving
                      /\ queue'[i].conn = epoch
                      /\ \A j \in 1..Len(queue') : queue'[j].op = "Received" => j = i
    OBVIOUS
  <2>1. /\ receiving /\ queue[i + 1].conn = epoch
        /\ \A j \in 1..Len(queue) : queue[j].op = "Received" => j = i + 1
    BY <1>1, <1>4 DEF ReadInv
  <2>2. ASSUME NEW j \in 1..Len(queue'), queue'[j].op = "Received" PROVE j = i
    <3>1. j + 1 = i + 1  BY <1>4, <2>1, <2>2
    <3> QED  BY <3>1
  <2> QED  BY <1>4, <2>1, <2>2
<1>11. ReadInv'
  BY <1>1, <1>2, <1>5, <1>7, <1>9, <1>10, LoopKeeps DEF ReadInv
<1>12. GotInv'  BY <1>1, <1>2, <1>8 DEF GotInv, InOrder
<1> QED  BY <1>11, <1>12

-----------------------------------------------------------------------------
(* The steps of the application threads, the peer and the send path.       *)

LEMMA UserLoopInv ==
  ASSUME LoopInv, NEW u \in Users, Call(u) \/ UserStep(u), ~StartRead(u)
  PROVE  ReadInv' /\ GotInv'
<1>1. LoopKept
  <2>1. u \in Threads /\ u # Io /\ todo \in [Threads -> Seq(Steps)] /\ Io \in Threads
    BY ThreadsAssumption DEF Threads, LoopInv, SendInv, VarTypes
  <2>2. \E s : todo' = [todo EXCEPT ![u] = s]
    BY DEF Call, ConnectAsync, DisconnectAsync, ReconnectAsync, DisconnectAndStop,
           SendAsync, ReceiveAsync, UserStep, Post, AppendMain, AwaitDisconnected,
           ConnectAgain, Enter, Goto
  <2> QED  BY <2>1, <2>2 DEF LoopKept
<1>2. sock' = sock /\ UNCHANGED ReadVars
  BY DEF Call, ConnectAsync, DisconnectAsync, ReconnectAsync, DisconnectAndStop,
         SendAsync, ReceiveAsync, UserStep, Post, AppendMain, AwaitDisconnected,
         ConnectAgain, flags, sendv, recvv, sockv, peerv, ReadVars
<1>3. CASE queue' = queue  BY <1>1, <1>2, <1>3, ReadQuiet
<1>4. CASE Post(u)
  <2>1. \E h \in {Handler("Connect"), Handler("Disconnect"), Handler("TrySend")} :
           queue' = Append(queue, h)
    BY <1>4 DEF Post
  <2>2. \A h \in {Handler("Connect"), Handler("Disconnect"), Handler("TrySend")} :
           h \in Handlers /\ h.op \notin {"Connected", "Received"}
    BY HandlerTypes DEF Handler, HandlerOps
  <2> QED  BY <1>1, <1>2, <2>1, <2>2, ReadPosted
<1>5. Post(u) \/ queue' = queue
  BY DEF Call, ConnectAsync, DisconnectAsync, ReconnectAsync, DisconnectAndStop,
         SendAsync, ReceiveAsync, UserStep, AppendMain, AwaitDisconnected, ConnectAgain
<1> QED  BY <1>3, <1>4, <1>5

\* The end of a write, and what the peer does meanwhile.
LEMMA PeerLoopInv ==
  ASSUME LoopInv, PeerSend \/ PeerClose \/ WriteData \/ WriteError
  PROVE  ReadInv' /\ GotInv'
<1>1. todo' = todo /\ sock' = sock /\ UNCHANGED ReadVars
  <2>1. CASE PeerSend  BY <2>1 DEF PeerSend, flags, recvv, sockv, ReadVars
  <2>2. CASE PeerClose  BY <2>2 DEF PeerClose, flags, recvv, sockv, ReadVars
  <2>3. CASE WriteData  BY <2>3 DEF WriteData, flags, recvv, ReadVars
  <2>4. CASE WriteError  BY <2>4 DEF WriteError, flags, recvv, peerv, ReadVars
  <2> QED  BY <2>1, <2>2, <2>3, <2>4
<1>2. LoopKept
  BY <1>1 DEF LoopKept, LoopInv, ReadInv
<1>3. CASE queue' = queue  BY <1>1, <1>2, <1>3, ReadQuiet
<1>4. CASE queue' # queue
  <2>1. \E ec \in ErrorCodes, n \in Nat :
           queue' = Append(queue, Completion("Written", ec, n, epoch))
    <3>1. CASE WriteData
      <4>1. writes # <<>> /\ writes \in Seq(Seq(Nat))
        BY <3>1 DEF WriteData, LoopInv, SendInv, VarTypes
      <4>2. Head(writes) \in Seq(Nat)  BY <4>1, HeadTailProperties
      <4>3. \A n \in 1..Len(Head(writes)) : n \in Nat  BY <4>2
      <4> QED  BY <3>1, <4>3 DEF WriteData, ErrorCodes
    <3>2. CASE WriteError  BY <3>2 DEF WriteError, ErrorCodes
    <3> QED  BY <1>4, <3>1, <3>2 DEF PeerSend, PeerClose
  <2>2. PICK ec \in ErrorCodes, n \in Nat :
           queue' = Append(queue, Completion("Written", ec, n, epoch))
    BY <2>1
  <2>3. /\ Completion("Written", ec, n, epoch) \in Handlers
        /\ Completion("Written", ec, n, epoch).op = "Written"
    <3>1. epoch \in Nat  BY DEF LoopInv, SendInv, VarTypes
    <3> QED  BY <3>1, HandlerTypes DEF Completion, HandlerOps
  <2> QED  BY <1>1, <1>2, <2>2, <2>3, ReadPosted
<1> QED  BY <1>3, <1>4

\* Handlers that leave the receive path alone.
LEMMA QuietHandlersLoopInv ==
  ASSUME LoopInv,
         ConnectHandler \/ DisconnectHandler \/ SendHandler \/ AsyncWriteHandler
  PROVE  ReadInv' /\ GotInv'
<1>1. UNCHANGED ReadVars
  BY DEF ConnectHandler, DisconnectHandler, SendHandler, AsyncWriteHandler, flags,
         recvv, sockv, peerv, ReadVars
<1>2. sock' = "open" => sock = "open"
  BY DEF ConnectHandler, DisconnectHandler, SendHandler, AsyncWriteHandler, sockv
<1>3. \E op \in {"Connect", "Disconnect", "TrySend", "Written"},
         s \in {<<>>, <<"TrySend">>, <<"Disconnect">>, <<"TryReceive">>} : Run(op, s)
  BY DEF ConnectHandler, DisconnectHandler, SendHandler, AsyncWriteHandler,
         AfterCompletion
<1> QED  BY <1>1, <1>2, <1>3, ReadRan

LEMMA TrySendLoopInv ==
  ASSUME LoopInv, TrySend
  PROVE  ReadInv' /\ GotInv'
<1>1. /\ \A x \in Threads \ {Io} : todo'[x] = todo[x]
      /\ todo[Io] = <<"TrySend">> /\ todo'[Io] = <<>>
  <2>1. Goto(Io, "TrySend", <<>>)  BY DEF TrySend
  <2>2. <<>> \in Seq(Steps) /\ <<>> \o <<>> = <<>>  OBVIOUS
  <2> QED  BY <2>1, <2>2, IoGoto DEF LoopInv
<1>2. LoopKept  BY <1>1 DEF LoopKept
<1>3. queue' = queue /\ sock' = sock /\ UNCHANGED ReadVars
  BY DEF TrySend, flags, recvv, peerv, ReadVars
<1> QED  BY <1>1, <1>2, <1>3, ReadQuiet

-----------------------------------------------------------------------------
(* The steps of the receive path.                                          *)

\* A read is started only where none is outstanding or unhandled.
LEMMA BeginReadLoopInv ==
  ASSUME LoopInv, BeginRead, ~ReceiveBlocked,
         ~(todo'[Io] # <<>> /\ Head(todo'[Io]) = "SetConnected")
  PROVE  ReadInv' /\ GotInv'
<1>1. ReadInv /\ GotInv  BY DEF LoopInv
<1>2. connected /\ ~receiving /\ sock = "open"
  BY DEF ReceiveBlocked, LoopInv, SendInv, PhaseInv
<1>3. /\ UNCHANGED <<connected, sock, epoch, got, taken, rbuf, queue>>
      /\ receiving' /\ reads' = reads + 1
  BY <1>2 DEF BeginRead, flags, peerv
<1>4. reads = 0 /\ ~Queued("Received")
  <2>1. reads \in Nat  BY DEF LoopInv, SendInv, VarTypes
  <2>2. ~(reads > 0)  BY <1>1, <1>2 DEF ReadInv
  <2> QED  BY <1>1, <1>2, <2>1, <2>2 DEF ReadInv, Queued
<1>5. ReadInv'
  <2>1. reads' = 1  BY <1>3, <1>4
  <2>2. \A i \in 1..Len(queue) : queue[i].op # "Received"  BY <1>4 DEF Queued
  <2> QED  BY <1>1, <1>2, <1>3, <2>1, <2>2 DEF ReadInv, Queued
<1>6. GotInv'  BY <1>1, <1>2, <1>3 DEF GotInv, InOrder, Unpassed
<1> QED  BY <1>5, <1>6

LEMMA TryReceiveLoopInv ==
  ASSUME LoopInv, TryReceive
  PROVE  ReadInv' /\ GotInv'
<1>1. /\ \A x \in Threads \ {Io} : todo'[x] = todo[x]
      /\ todo[Io] # <<>> /\ Head(todo[Io]) = "TryReceive"
      /\ todo'[Io] \in {<<>>, <<"TryReceive">>}
  <2>1. Goto(Io, "TryReceive", <<>>)  BY DEF TryReceive
  <2>2. <<>> \in Seq(Steps)  BY StackTypes
  <2>3. <<>> \o <<"TryReceive">> = <<"TryReceive">> /\ <<>> \o <<>> = <<>>  OBVIOUS
  <2> QED  BY <2>1, <2>2, <2>3, IoGoto DEF LoopInv
<1>2. CASE ~ReceiveBlocked
  <2>1. ~(todo'[Io] # <<>> /\ Head(todo'[Io]) = "SetConnected")  BY <1>1, StackFacts
  <2> QED  BY <1>2, <2>1, BeginReadLoopInv DEF TryReceive
<1>3. CASE ReceiveBlocked
  <2>1. ReadInv /\ GotInv  BY DEF LoopInv
  <2>2. UNCHANGED <<connected, receiving, reads, epoch, got, taken, rbuf, queue, sock>>
    BY <1>3 DEF TryReceive, flags, recvv, sockv, peerv
  <2>3. todo[Io] # <<"ClearBuffers">>  BY <1>1, StackFacts
  <2>4. connected => receiving  BY <1>3 DEF ReceiveBlocked
  <2>5. ~(todo'[Io] # <<>> /\ Head(todo'[Io]) = "SetConnected")  BY <1>1, StackFacts
  <2>6. ReadInv'
    BY <2>1, <2>2, <2>3, <2>4, <2>5 DEF ReadInv, Queued
  <2>7. GotInv'  BY <2>1, <2>2 DEF GotInv, InOrder, Unpassed
  <2> QED  BY <2>6, <2>7
<1> QED  BY <1>2, <1>3

\* The connection is made: no read of an earlier one is left.
LEMMA AsyncConnectHandlerLoopInv ==
  ASSUME LoopInv, AsyncConnectHandler
  PROVE  ReadInv' /\ GotInv'
<1> DEFINE s == IF ~connected /\ Head(queue).ec = "success"
                THEN <<"SetConnected", "TryReceive", "TryReceive">> ELSE <<>>
<1>1. ReadInv /\ GotInv /\ SendInv  BY DEF LoopInv
<1>2. s \in Seq(Steps) /\ s \in IoStacks /\ Run("Connected", s)
  BY StackTypes DEF AsyncConnectHandler
<1>3. s # <<"ClearBuffers">>  BY StackFacts
<1> HIDE DEF s
<1>4. /\ todo'[Io] = s /\ todo[Io] = <<>>
      /\ Len(queue) \in Nat /\ Len(queue) > 0 /\ Len(queue') = Len(queue) - 1
      /\ queue[1].op = "Connected"
      /\ \A i \in 1..Len(queue') : i + 1 \in 1..Len(queue) /\ queue'[i] = queue[i + 1]
  BY <1>1, <1>2, RunStack
<1>5. UNCHANGED <<connected, receiving, reads, epoch, got, taken, rbuf, sock>>
  BY DEF AsyncConnectHandler, recvv, sockv, peerv
<1>6. 1 \in 1..Len(queue)  BY <1>4
<1>7. ~connected  BY <1>1, <1>4, <1>6 DEF SendInv, PhaseInv
<1>8. \A i \in 1..Len(queue') : queue'[i].op # "Received"
  <2> SUFFICES ASSUME NEW i \in 1..Len(queue'), queue'[i].op = "Received" PROVE FALSE
    OBVIOUS
  <2>1. i + 1 < 1  BY <1>1, <1>4, <1>6 DEF ReadInv
  <2> QED  BY <2>1
<1>9. ~receiving /\ reads = 0  BY <1>1, <1>4, <1>7, StackFacts DEF ReadInv
<1>10. ReadInv'  BY <1>5, <1>7, <1>8, <1>9 DEF ReadInv, Queued
<1>11. GotInv'   BY <1>1, <1>5, <1>7 DEF GotInv, InOrder
<1> QED  BY <1>10, <1>11

LEMMA SetConnectedLoopInv ==
  ASSUME LoopInv, SetConnected
  PROVE  ReadInv' /\ GotInv'
<1>1. ReadInv /\ GotInv /\ PhaseInv  BY DEF LoopInv, SendInv
<1>2. /\ \A x \in Threads \ {Io} : todo'[x] = todo[x]
      /\ todo[Io] # <<>> /\ Head(todo[Io]) = "SetConnected"
      /\ todo'[Io] = <<"TryReceive", "TryReceive">>
  <2>1. Goto(Io, "SetConnected", <<>>)  BY DEF SetConnected
  <2>2. <<>> \in Seq(Steps)  BY StackTypes
  <2>3. <<>> \o <<"TryReceive", "TryReceive">> = <<"TryReceive", "TryReceive">>  OBVIOUS
  <2> QED  BY <2>1, <2>2, <2>3, IoGoto DEF LoopInv
<1>3. connected' /\ UNCHANGED <<receiving, reads, epoch, got, taken, rbuf, queue, sock>>
  BY DEF SetConnected, recvv, sockv, peerv
<1>4. ~connected /\ sock = "open" /\ ~Queued("Connected") /\ ~Queued("Received")
  BY <1>1, <1>2 DEF PhaseInv, ReadInv
<1>5. ~receiving /\ reads = 0
  <2>1. todo[Io] # <<"ClearBuffers">>  BY <1>2, StackFacts
  <2> QED  BY <1>1, <1>4, <2>1 DEF ReadInv
<1>6. ReadInv'
  <2>1. ~(todo'[Io] # <<>> /\ Head(todo'[Io]) = "SetConnected")  BY <1>2, StackFacts
  <2>2. ~(reads' > 0)  BY <1>3, <1>5
  <2>3. \A i \in 1..Len(queue') : queue'[i].op \notin {"Connected", "Received"}
    BY <1>3, <1>4 DEF Queued
  <2> QED  BY <1>2, <1>3, <1>5, <2>1, <2>2, <2>3 DEF ReadInv
<1>7. GotInv'
  <2>1. taken = 0 /\ got = <<>>  BY <1>1, <1>4 DEF GotInv, InOrder
  <2>2. ~Unpassed'  BY <1>3, <1>4 DEF Unpassed, Queued
  <2>3. taken' = Len(got') /\ got' = <<>>  BY <1>3, <2>1
  <2> QED  BY <1>3, <2>2, <2>3 DEF GotInv, InOrder
<1> QED  BY <1>6, <1>7

\* The handler of a read passes on the unit in the receive buffer, the next one.
LEMMA AsyncReceiveHandlerLoopInv ==
  ASSUME LoopInv, AsyncReceiveHandler
  PROVE  ReadInv' /\ GotInv'
<1> DEFINE s == AfterCompletion(Head(queue).ec, "TryReceive")
<1>1. ReadInv /\ GotInv /\ SendInv /\ PhaseInv  BY DEF LoopInv, SendInv
<1>2. s \in Seq(Steps) /\ s \in IoStacks /\ Run("Received", s)
  BY StackTypes DEF AsyncReceiveHandler, AfterCompletion
<1>3. /\ s \in {<<>>, <<"TryReceive">>, <<"Disconnect">>}
      /\ connected => s \in {<<"TryReceive">>, <<"Disconnect">>}
  BY <1>1 DEF AfterCompletion, PhaseInv
<1> HIDE DEF s
<1>4. /\ todo'[Io] = s /\ todo[Io] = <<>>
      /\ Len(queue) \in Nat /\ Len(queue) > 0 /\ Len(queue') = Len(queue) - 1
      /\ queue[1] \in Handlers /\ queue[1].op = "Received" /\ Head(queue) = queue[1]
      /\ \A i \in 1..Len(queue') : i + 1 \in 1..Len(queue) /\ queue'[i] = queue[i + 1]
  BY <1>1, <1>2, RunStack
<1>5. /\ UNCHANGED <<connected, reads, epoch, taken, rbuf, sock>>
      /\ ~receiving'
      /\ got' = IF connected /\ queue[1].n > 0 THEN Append(got, rbuf) ELSE got
  BY <1>4 DEF AsyncReceiveHandler, flags, sockv, peerv
<1>6. 1 \in 1..Len(queue)  BY <1>4
<1>7. ~(todo'[Io] # <<>> /\ Head(todo'[Io]) = "SetConnected")
  BY <1>3, <1>4, StackFacts
<1>8. \A i, j \in 1..Len(queue') :
          queue'[i].op = "Connected" /\ queue'[j].op = "Received" => j < i
  <2> SUFFICES ASSUME NEW i \in 1..Len(queue'), NEW j \in 1..Len(queue'),
                      queue'[i].op = "Connected", queue'[j].op = "Received"
               PROVE  j < i
    OBVIOUS
  <2>1. j + 1 < i + 1  BY <1>1, <1>4 DEF ReadInv
  <2>2. i \in Int /\ j \in Int  OBVIOUS
  <2> QED  BY <2>1, <2>2
<1>9. CASE ~connected
  <2>1. ReadInv'
    BY <1>1, <1>5, <1>7, <1>8, <1>9 DEF ReadInv
  <2>2. GotInv'  BY <1>1, <1>5, <1>9 DEF GotInv, InOrder
  <2> QED  BY <2>1, <2>2
<1>10. CASE connected
  <2>1. \A i \in 1..Len(queue') : queue'[i].op # "Received"
    <3> SUFFICES ASSUME NEW i \in 1..Len(queue'), queue'[i].op = "Received" PROVE FALSE
      OBVIOUS
    <3>1. i + 1 = 1  BY <1>1, <1>4, <1>6, <1>10 DEF ReadInv
    <3> QED  BY <3>1
  <2>2. ~(reads > 0)  BY <1>1, <1>4, <1>6, <1>10 DEF ReadInv, Queued
  <2>3. ReadInv'
    BY <1>3, <1>4, <1>5, <1>7, <1>8, <1>10, <2>1, <2>2
    DEF ReadInv
  <2>4. ~Unpassed'  BY <2>1 DEF Unpassed
  <2>5. got \in Seq(Nat) /\ rbuf \in Nat /\ taken \in Nat /\ queue[1].n \in Nat
    <3>1. got \in Seq(Nat) /\ rbuf \in Nat /\ taken \in Nat
      BY <1>1 DEF SendInv, VarTypes
    <3> QED  BY <1>4, <3>1 DEF Handlers
  <2>6. CASE queue[1].n > 0
    <3>1. Unpassed  BY <1>4, <1>6, <2>6 DEF Unpassed
    <3>2. taken = Len(got) + 1 /\ rbuf = taken  BY <1>1, <1>10, <3>1 DEF GotInv, InOrder
    <3>3. got' = Append(got, rbuf)  BY <1>5, <1>10, <2>6
    <3>4. Len(got') = Len(got) + 1 /\ got'[Len(got) + 1] = rbuf
          /\ \A i \in 1..Len(got) : got'[i] = got[i]
      BY <2>5, <3>3
    <3>5. \A i \in 1..Len(got') : got'[i] = i
      BY <1>1, <2>5, <3>2, <3>4 DEF GotInv, InOrder
    <3>6. taken' = Len(got')  BY <1>5, <3>2, <3>4
    <3> QED  BY <1>5, <1>10, <2>3, <2>4, <3>5, <3>6 DEF GotInv, InOrder
  <2>7. CASE ~(queue[1].n > 0)
    <3>1. ~Unpassed
      <4>1. \A i \in 1..Len(queue) : queue[i].op = "Received" => i = 1
        BY <1>1, <1>4, <1>6, <1>10 DEF ReadInv
      <4> QED  BY <2>7, <4>1 DEF Unpassed
    <3>2. got' = got  BY <1>5, <2>7
    <3> QED  BY <1>1, <1>5, <1>10, <2>3, <2>4, <3>1, <3>2 DEF GotInv, InOrder
  <2> QED  BY <2>6, <2>7
<1> QED  BY <1>9, <1>10

\* Disconnect aborts the outstanding read; _receiving stays as it is until
\* ClearBuffers.
LEMMA DisconnectLoopInv ==
  ASSUME LoopInv, Disconnect
  PROVE  ReadInv' /\ GotInv'
<1> DEFINE s == IF connected THEN <<"ClearBuffers">> ELSE <<>>
<1>1. ReadInv /\ GotInv /\ SendInv /\ PhaseInv  BY DEF LoopInv, SendInv
<1>2. /\ \A x \in Threads \ {Io} : todo'[x] = todo[x]
      /\ todo[Io] = <<"Disconnect">> /\ todo'[Io] = s
  <2>1. Goto(Io, "Disconnect", s)  BY DEF Disconnect
  <2>2. s \in Seq(Steps)  BY StackTypes
  <2>3. s \o <<>> = s  OBVIOUS
  <2> HIDE DEF s
  <2> QED  BY <1>1, <2>1, <2>2, <2>3, IoGoto
<1>3. UNCHANGED <<receiving, epoch, got, taken, rbuf>>
  BY DEF Disconnect, recvv, peerv
<1>4. CASE ~connected
  <2>1. UNCHANGED <<connected, queue, sock, reads>> /\ todo'[Io] = <<>>
    BY <1>2, <1>4 DEF Disconnect, flags
  <2>2. ~receiving /\ reads = 0  BY <1>1, <1>2, <1>4, StackFacts DEF ReadInv
  <2>3. ReadInv'
    BY <1>1, <1>3, <1>4, <2>1, <2>2 DEF ReadInv, Queued
  <2>4. GotInv'  BY <1>1, <1>3, <1>4, <2>1 DEF GotInv, InOrder
  <2> QED  BY <2>3, <2>4
<1>5. CASE connected
  <2>1. /\ ~connected' /\ sock' = "closed" /\ reads' = 0
        /\ queue' = queue \o Aborted /\ todo'[Io] = <<"ClearBuffers">>
    BY <1>2, <1>5 DEF Disconnect
  <2>2. \A i \in 1..Len(queue') : queue'[i].op # "Connected"
    <3>1. /\ queue \in Seq(Handlers) /\ Aborted \in Seq(Handlers)
          /\ \A i \in 1..Len(Aborted) : Aborted[i].op \in {"Received", "Written"}
      BY <1>1, AbortedTypes DEF SendInv, VarTypes
    <3>2. \A i \in 1..Len(queue) : queue[i].op # "Connected"
      BY <1>1, <1>5 DEF PhaseInv
    <3> HIDE DEF Handlers, Aborted
    <3> SUFFICES ASSUME NEW i \in 1..Len(queue') PROVE queue'[i].op # "Connected"
      OBVIOUS
    <3>3. CASE i <= Len(queue)  BY <2>1, <3>1, <3>2, <3>3
    <3>4. CASE i > Len(queue)
      <4>1. /\ i - Len(queue) \in 1..Len(Aborted)
            /\ queue'[i] = Aborted[i - Len(queue)]
        BY <2>1, <3>1, <3>4
      <4> QED  BY <3>1, <4>1
    <3>5. i \in Nat /\ Len(queue) \in Nat  BY <3>1
    <3> QED  BY <3>3, <3>4, <3>5
  <2>3. ~(todo'[Io] # <<>> /\ Head(todo'[Io]) = "SetConnected")
    BY <2>1, StackFacts
  <2>4. ReadInv'  BY <2>1, <2>2, <2>3 DEF ReadInv
  <2>5. GotInv'  BY <1>1, <1>3, <2>1 DEF GotInv, InOrder
  <2> QED  BY <2>4, <2>5
<1> QED  BY <1>4, <1>5

LEMMA ClearBuffersLoopInv ==
  ASSUME LoopInv, ClearBuffers
  PROVE  ReadInv' /\ GotInv'
<1>1. ReadInv /\ GotInv /\ SendInv /\ PhaseInv  BY DEF LoopInv, SendInv
<1>2. /\ \A x \in Threads \ {Io} : todo'[x] = todo[x]
      /\ todo[Io] = <<"ClearBuffers">> /\ todo'[Io] = <<>>
  <2>1. Goto(Io, "ClearBuffers", <<>>)  BY DEF ClearBuffers
  <2>2. <<>> \in Seq(Steps) /\ <<>> \o <<>> = <<>>  OBVIOUS
  <2> QED  BY <1>1, <2>1, <2>2, IoGoto
<1>3. ~receiving' /\ UNCHANGED <<connected, queue, sock, reads, epoch, got, taken, rbuf>>
  BY DEF ClearBuffers, flags, sockv, peerv
<1>4. ~connected /\ reads = 0  BY <1>1, <1>2 DEF PhaseInv, ReadInv
<1>5. ReadInv'  BY <1>1, <1>2, <1>3, <1>4 DEF ReadInv
<1>6. GotInv'  BY <1>1, <1>3, <1>4 DEF GotInv, InOrder
<1> QED  BY <1>5, <1>6

\* The handler of a connection attempt is queued behind those of the reads of
\* earlier connections, and nothing has been read on the new one.
LEMMA ConnectDoneLoopInv ==
  ASSUME LoopInv, NEW ec \in ErrorCodes, ConnectDone(ec)
  PROVE  ReadInv' /\ GotInv'
<1> DEFINE h == Completion("Connected", ec, 0, 0)
<1>1. ReadInv /\ GotInv /\ SendInv /\ PhaseInv  BY DEF LoopInv, SendInv
<1>2. h \in Handlers /\ h.op = "Connected"
  BY HandlerTypes DEF Completion, HandlerOps
<1>3. /\ Len(queue) \in Nat /\ Len(queue') = Len(queue) + 1
      /\ queue'[Len(queue) + 1] = h
      /\ \A i \in 1..Len(queue) : queue'[i] = queue[i]
  <2>1. queue' = Append(queue, h)  BY DEF ConnectDone
  <2>2. Len(queue) \in Nat  BY <1>1 DEF SendInv, VarTypes
  <2> HIDE DEF h
  <2> QED  BY <1>1, <1>2, <2>1, <2>2, AppendStep DEF SendInv
<1> HIDE DEF h
<1>4. UNCHANGED <<connected, receiving, reads, todo>>  BY DEF ConnectDone, flags
<1>5. /\ sock = "connecting"
      /\ \/ sock' = "open" /\ taken' = 0 /\ got' = <<>>
         \/ sock' = "closed" /\ UNCHANGED <<taken, got>>
  BY DEF ConnectDone, peerv, ErrorCodes
<1>6. ~connected /\ ~(todo[Io] # <<>> /\ Head(todo[Io]) = "SetConnected")
  BY <1>1, <1>5 DEF PhaseInv
<1>7. \A i \in 1..Len(queue) : queue[i].op # "Connected"
  BY <1>1, <1>5 DEF PhaseInv
<1>8. \A i, j \in 1..Len(queue') :
          queue'[i].op = "Connected" /\ queue'[j].op = "Received" => j < i
  <2> SUFFICES ASSUME NEW i \in 1..Len(queue'), NEW j \in 1..Len(queue'),
                      queue'[i].op = "Connected", queue'[j].op = "Received"
               PROVE  j < i
    OBVIOUS
  <2>1. i = Len(queue) + 1  BY <1>3, <1>7
  <2>2. j # Len(queue) + 1  BY <1>2, <1>3
  <2> QED  BY <1>3, <2>1, <2>2
<1>9. ReadInv'  BY <1>1, <1>4, <1>6, <1>8 DEF ReadInv
<1>10. GotInv'
  <2>1. \A i \in 1..Len(got') : got'[i] = i  BY <1>1, <1>5 DEF GotInv, InOrder
  <2>2. sock' = "open" => taken' = 0 /\ got' = <<>>  BY <1>5
  <2> QED  BY <1>4, <1>6, <2>1, <2>2 DEF GotInv, InOrder
<1> QED  BY <1>9, <1>10

\* The one outstanding read ends; its handler is queued.
LEMMA ReadEndLoopInv ==
  ASSUME LoopInv, ReadData \/ ReadError
  PROVE  ReadInv' /\ GotInv'
<1>1. ReadInv /\ GotInv /\ SendInv /\ PhaseInv  BY DEF LoopInv, SendInv
<1>2. UNCHANGED <<connected, receiving, epoch, got, todo, sock>>
  <2>1. CASE ReadData  BY <2>1 DEF ReadData, flags
  <2>2. CASE ReadError  BY <2>2 DEF ReadError, flags, recvv
  <2> QED  BY <2>1, <2>2
<1>3. reads > 0 /\ reads' = reads - 1  BY DEF ReadData, ReadError
<1>4. connected
  <2>1. ~(0 > 0)  OBVIOUS
  <2> QED  BY <1>1, <1>3, <2>1 DEF ReadInv
<1>5. reads = 1 /\ receiving /\ ~Queued("Received")
  BY <1>1, <1>3, <1>4 DEF ReadInv
<1>6. \A i \in 1..Len(queue) : queue[i].op \notin {"Connected", "Received"}
  BY <1>1, <1>4, <1>5 DEF PhaseInv, Queued
<1>7. PICK h \in Handlers :
         /\ queue' = Append(queue, h)
         /\ h.op = "Received" /\ h.conn = epoch
         /\ \/ h.n = 1 /\ taken' = taken + 1 /\ rbuf' = taken + 1
            \/ h.n = 0 /\ UNCHANGED <<taken, rbuf>>
  <2>1. epoch \in Nat  BY <1>1 DEF SendInv, VarTypes
  <2>2. /\ Completion("Received", "success", 1, epoch) \in Handlers
        /\ Completion("Received", "failure", 0, epoch) \in Handlers
    BY <2>1, HandlerTypes DEF HandlerOps, ErrorCodes
  <2>3. /\ Completion("Received", "success", 1, epoch).op = "Received"
        /\ Completion("Received", "success", 1, epoch).conn = epoch
        /\ Completion("Received", "success", 1, epoch).n = 1
        /\ Completion("Received", "failure", 0, epoch).op = "Received"
        /\ Completion("Received", "failure", 0, epoch).conn = epoch
        /\ Completion("Received", "failure", 0, epoch).n = 0
    BY DEF Completion
  <2>4. CASE ReadData  BY <2>2, <2>3, <2>4 DEF ReadData
  <2>5. CASE ReadError  BY <2>2, <2>3, <2>5 DEF ReadError, recvv, peerv
  <2> QED  BY <2>4, <2>5
<1>8. /\ Len(queue) \in Nat /\ Len(queue') = Len(queue) + 1
      /\ queue'[Len(queue) + 1] = h
      /\ \A i \in 1..Len(queue) : queue'[i] = queue[i]
  <2>1. Len(queue) \in Nat  BY <1>1 DEF SendInv, VarTypes
  <2> QED  BY <1>1, <1>7, <2>1, AppendStep DEF SendInv
<1>9. /\ Len(queue) + 1 \in 1..Len(queue')
      /\ \A i \in 1..Len(queue') : i = Len(queue) + 1 \/ i \in 1..Len(queue)
  BY <1>8
<1>10. \A i \in 1..Len(queue') :
          /\ queue'[i].op # "Connected"
          /\ queue'[i].op = "Received" => i = Len(queue) + 1
  BY <1>6, <1>7, <1>8, <1>9
<1>11. Queued("Received")'  BY <1>7, <1>8, <1>9 DEF Queued
<1>12. ReadInv'
  <2>1. ~(reads' > 0)  BY <1>3, <1>5
  <2>2. ~(todo[Io] # <<>> /\ Head(todo[Io]) = "SetConnected")
    BY <1>1, <1>4 DEF PhaseInv
  <2>3. \A i \in 1..Len(queue') :
          queue'[i].op = "Received" =>
              /\ queue'[i].conn = epoch
              /\ \A j \in 1..Len(queue') : queue'[j].op = "Received" => j = i
    BY <1>7, <1>8, <1>10
  <2> QED
    BY <1>1, <1>2, <1>4, <1>5, <1>10, <1>11, <2>1, <2>2, <2>3 DEF ReadInv
<1>13. GotInv'
  <2>1. ~Unpassed  BY <1>6 DEF Unpassed
  <2>2. taken = Len(got)  BY <1>1, <1>4, <2>1 DEF GotInv, InOrder
  <2>3. CASE h.n = 1 /\ taken' = taken + 1 /\ rbuf' = taken + 1
    <3>1. Unpassed'
      <4>1. h.n > 0  BY <2>3
      <4> QED  BY <1>7, <1>8, <1>9, <4>1 DEF Unpassed
    <3> QED  BY <1>1, <1>2, <1>4, <2>2, <2>3, <3>1 DEF GotInv, InOrder
  <2>4. CASE h.n = 0 /\ UNCHANGED <<taken, rbuf>>
    <3>1. ~Unpassed'
      <4>1. ~(h.n > 0)  BY <2>4
      <4> QED  BY <1>8, <1>10, <4>1 DEF Unpassed
    <3> QED  BY <1>1, <1>2, <1>4, <2>2, <2>4, <3>1 DEF GotInv, InOrder
  <2> QED  BY <1>7, <2>3, <2>4
<1> QED  BY <1>12, <1>13

-----------------------------------------------------------------------------
(* The theorems.                                                           *)

LEMMA InitReceiveInv == Init => ReceiveInv
<1> SUFFICES ASSUME Init PROVE ReceiveInv  OBVIOUS
<1>1. SendInv  BY InitSendInv
<1>2. /\ todo[Io] = <<>> /\ ~connected /\ ~receiving /\ reads = 0 /\ Len(queue) = 0
      /\ got = <<>> /\ taken = 0
  BY DEF Init, Threads
<1>3. ReadInv  BY <1>2 DEF ReadInv
<1>4. GotInv  BY <1>2 DEF GotInv, InOrder
<1> QED  BY <1>1, <1>3, <1>4 DEF LoopInv, ReceiveInv

\* ReceiveAsync begins its read as the loop would, if its check still holds.
LEMMA StartReadLoopInv ==
  ASSUME LoopInv, NEW u \in Users, StartRead(u), ~raced'
  PROVE  ReadInv' /\ GotInv'
<1>1. BeginRead /\ ~ReceiveBlocked  BY DEF StartRead
<1>2. todo'[Io] = todo[Io]
  <2>1. u \in Threads /\ u # Io /\ todo \in [Threads -> Seq(Steps)] /\ Io \in Threads
    BY ThreadsAssumption DEF Threads, LoopInv, SendInv, VarTypes
  <2> QED  BY <2>1 DEF StartRead, Goto
<1>3. ~(todo[Io] # <<>> /\ Head(todo[Io]) = "SetConnected")
  BY <1>1 DEF ReceiveBlocked, LoopInv, SendInv, PhaseInv
<1> QED  BY <1>1, <1>2, <1>3, BeginReadLoopInv

\* Only StartRead sets raced.
LEMMA RacedKept ==
  ASSUME [Next]_vars, \A u \in Users : ~StartRead(u)
  PROVE  raced' = raced
<1>1. CASE UNCHANGED vars  BY <1>1 DEF vars, ghosts
<1>2. ASSUME NEW u \in Users, Call(u) \/ UserStep(u) PROVE raced' = raced
  BY <1>2 DEF Call, ConnectAsync, DisconnectAsync, ReconnectAsync, DisconnectAndStop,
              SendAsync, ReceiveAsync, UserStep, Post, AppendMain, AwaitDisconnected,
              ConnectAgain, ghosts
<1>3. CASE IoStep
  BY <1>3 DEF IoStep, ConnectHandler, AsyncConnectHandler, DisconnectHandler,
              SendHandler, AsyncReceiveHandler, AsyncWriteHandler, SetConnected,
              TryReceive, TrySend, Disconnect, ClearBuffers, ghosts
<1>4. CASE Kernel \/ PeerSend \/ PeerClose
  BY <1>4 DEF Kernel, ConnectDone, ReadData, ReadError, WriteData, WriteError,
              PeerSend, PeerClose, ghosts
<1> QED  BY <1>1, <1>2, <1>3, <1>4 DEF Next

\* Every step of the program keeps the receive path in order, the beginning of a
\* read by a stale ReceiveAsync excepted.
LEMMA NextLoopInv ==
  ASSUME LoopInv, [Next]_vars, ~raced'
  PROVE  ReadInv' /\ GotInv'
<1>1. CASE UNCHANGED vars
  <2>1. queue' = queue /\ todo' = todo /\ sock' = sock /\ UNCHANGED ReadVars
    BY <1>1 DEF vars, flags, recvv, sockv, peerv, ReadVars
  <2>2. LoopKept  BY <2>1 DEF LoopKept
  <2> QED  BY <2>1, <2>2, ReadQuiet
<1>2. ASSUME NEW u \in Users, Call(u) \/ UserStep(u) PROVE ReadInv' /\ GotInv'
  BY <1>2, UserLoopInv, StartReadLoopInv
<1>3. CASE IoStep
  BY <1>3, QuietHandlersLoopInv, AsyncConnectHandlerLoopInv,
     AsyncReceiveHandlerLoopInv, SetConnectedLoopInv, TryReceiveLoopInv,
     TrySendLoopInv, DisconnectLoopInv, ClearBuffersLoopInv
  DEF IoStep
<1>4. CASE Kernel \/ PeerSend \/ PeerClose
  BY <1>4, ConnectDoneLoopInv, ReadEndLoopInv, PeerLoopInv DEF Kernel
<1> QED  BY <1>1, <1>2, <1>3, <1>4 DEF Next

LEMMA NextReceiveInv == ReceiveInv /\ [Next]_vars => ReceiveInv'
<1> SUFFICES ASSUME ReceiveInv, [Next]_vars PROVE ReceiveInv'  OBVIOUS
<1>1. SendInv'  BY NextSendInv DEF ReceiveInv
<1>2. ASSUME ~raced' PROVE LoopInv'
  <2>1. ~raced
    <3>1. CASE \E u \in Users : StartRead(u)  BY <1>2, <3>1 DEF StartRead
    <3>2. CASE \A u \in Users : ~StartRead(u)  BY <1>2, <3>2, RacedKept
    <3> QED  BY <3>1, <3>2
  <2>2. LoopInv  BY <2>1 DEF ReceiveInv
  <2> QED  BY <1>1, <1>2, <2>2, NextLoopInv DEF LoopInv
<1> QED  BY <1>1, <1>2 DEF ReceiveInv

\* The invariant of the receive path: how _receiving, the outstanding read, the
\* queue of handlers and the receive buffer fit together, whatever the application
\* calls, as long as no ReceiveAsync has begun a read after its check became stale.
THEOREM ReceiveInvariant == Spec => []ReceiveInv
<1>1. Init => ReceiveInv  BY InitReceiveInv
<1>2. ReceiveInv /\ [Next]_vars => ReceiveInv'  BY NextReceiveInv
<1> QED  BY <1>1, <1>2, PTL DEF Spec

\* The receive loop of a connected client never dies: it has a read outstanding,
\* or the handler of one is queued.  Only a stale ReceiveAsync could end it.
THEOREM ReadLoopStaysAlive == Spec => []ReadLoopAlive
<1>1. ReceiveInv => ReadLoopAlive
  <2> SUFFICES ASSUME LoopInv, connected, todo[Io] = <<>>, ~(reads > 0)
               PROVE  \E i \in 1..Len(queue) : /\ queue[i].op = "Received"
                                               /\ queue[i].conn = epoch
    BY DEF ReadLoopAlive, ReceiveInv
  <2>1. ReadInv  BY DEF LoopInv
  <2>2. receiving  BY <2>1, StackFacts DEF ReadInv
  <2>3. Queued("Received")  BY <2>1, <2>2 DEF ReadInv
  <2> QED  BY <2>1, <2>3 DEF ReadInv, Queued
<1> QED  BY <1>1, ReceiveInvariant, PTL

\* onReceived gets the peer's data in order, each unit once, although all reads
\* share one buffer, also with ReceiveAsync called beside the loop: what breaks the
\* order is a read begun by a ReceiveAsync whose check is stale, and nothing else.
THEOREM ReceivedIsInOrder == Spec => []ReceivedInOrder
<1>1. ReceiveInv => ReceivedInOrder
  BY DEF ReceiveInv, LoopInv, GotInv, ReceivedInOrder, InOrder
<1> QED  BY <1>1, ReceiveInvariant, PTL

\* A completion handler that outlived its connection is run only while the client
\* is not connected: that of a write always, that of a read unless a ReceiveAsync
\* with a stale check has begun one.
THEOREM StaleCompletionsAreHarmless == Spec => []StaleOnlyWhenDisconnected
<1>1. ReceiveInv => StaleOnlyWhenDisconnected
  <2> SUFFICES ASSUME ReceiveInv, queue # <<>>, connected,
                      Head(queue).op = "Written" \/ (Head(queue).op = "Received" /\ ~raced)
               PROVE  Head(queue).conn = epoch
    BY DEF StaleOnlyWhenDisconnected
  <2>1. 1 \in 1..Len(queue) /\ Head(queue) = queue[1]
    BY DEF ReceiveInv, SendInv, VarTypes
  <2>2. CASE Head(queue).op = "Written"
    BY <2>1, <2>2 DEF ReceiveInv, SendInv, WriteInv
  <2>3. CASE Head(queue).op = "Received" /\ ~raced
    BY <2>1, <2>3 DEF ReceiveInv, LoopInv, ReadInv
  <2> QED  BY <2>2, <2>3
<1> QED  BY <1>1, ReceiveInvariant, PTL
=============================================================================
