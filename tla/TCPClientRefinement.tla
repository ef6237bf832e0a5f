------------------------- MODULE TCPClientRefinement -------------------------
(***************************************************************************)
(* The proof that TCPClient implements SendChannel: for any number of      *)
(* application threads, any calls and any bounds, what SendAsync accepts   *)
(* reaches the peer in the order it was accepted.                          *)
(***************************************************************************)
EXTENDS TCPClientProofs

-----------------------------------------------------------------------------
(* Sequences of units.                                                     *)

\* Nothing follows the end of a sequence.
LEMMA RestOfNothing ==
  ASSUME NEW f \in Seq(Nat), NEW m \in Nat, m > Len(f)
  PROVE  SubSeq(f, m, Len(f)) = <<>>
BY SubSeqEmpty, LenProperties

\* What is left of a sequence after its first k units.
LEMMA RestTypes ==
  ASSUME NEW f \in Seq(Nat), NEW k \in Nat
  PROVE  /\ SubSeq(f, k + 1, Len(f)) \in Seq(Nat)
         /\ Len(SubSeq(f, k + 1, Len(f))) = IF k <= Len(f) THEN Len(f) - k ELSE 0
         /\ \A i \in 1..(Len(f) - k) : SubSeq(f, k + 1, Len(f))[i] = f[k + i]
<1> DEFINE r == SubSeq(f, k + 1, Len(f))
<1>1. Len(f) \in Nat /\ k + 1 \in Int  BY LenProperties
<1>2. \A i \in (k + 1)..Len(f) : f[i] \in Nat  BY <1>1, ElementOfSeq
<1>3. /\ r \in Seq(Nat)
      /\ Len(r) = IF k + 1 <= Len(f) THEN Len(f) - (k + 1) + 1 ELSE 0
      /\ \A i \in 1..(Len(f) - (k + 1) + 1) : r[i] = f[(k + 1) + i - 1]
  BY <1>1, <1>2, SubSeqProperties
<1> HIDE DEF r
<1>4. Len(r) = IF k <= Len(f) THEN Len(f) - k ELSE 0  BY <1>1, <1>3
<1>5. ASSUME NEW i \in 1..(Len(f) - k) PROVE r[i] = f[k + i]
  <2>1. i \in 1..(Len(f) - (k + 1) + 1)  BY <1>1
  <2>2. r[i] = f[(k + 1) + i - 1]  BY <1>3, <2>1
  <2>3. (k + 1) + i - 1 = k + i  BY <1>1
  <2> QED  BY <2>2, <2>3
<1> QED  BY <1>3, <1>4, <1>5 DEF r

\* Units are taken off the front of two sequences in a row.
LEMMA TakeFront ==
  ASSUME NEW w \in Seq(Nat), NEW m \in Seq(Nat), NEW n \in 1..Len(w)
  PROVE  /\ n \in 1..Len(w \o m)
         /\ SubSeq(w \o m, 1, n) = SubSeq(w, 1, n)
         /\ SubSeq(w \o m, n + 1, Len(w \o m)) = SubSeq(w, n + 1, Len(w)) \o m
<1>1. /\ Len(w) \in Nat /\ Len(m) \in Nat /\ n \in Nat /\ n >= 1 /\ n <= Len(w)
      /\ w \o m \in Seq(Nat) /\ Len(w \o m) = Len(w) + Len(m)
      /\ \A i \in 1..(Len(w) + Len(m)) :
            (w \o m)[i] = IF i <= Len(w) THEN w[i] ELSE m[i - Len(w)]
  <2>1. Len(w) \in Nat /\ Len(m) \in Nat  BY LenProperties
  <2> QED  BY <2>1, ConcatProperties
<1>2. SubSeq(w \o m, 1, n) = SubSeq(w, 1, n)
  <2>1. 1 \in 1..Len(w)  BY <1>1
  <2> QED  BY <2>1, SubSeqOfConcat1
<1>3. SubSeq(w \o m, n + 1, Len(w \o m)) = SubSeq(w, n + 1, Len(w)) \o m
  <2> DEFINE l == SubSeq(w \o m, n + 1, Len(w \o m))
             h == SubSeq(w, n + 1, Len(w))
  <2>1. /\ l \in Seq(Nat) /\ Len(l) = Len(w) + Len(m) - n
        /\ \A i \in 1..(Len(w \o m) - n) : l[i] = (w \o m)[n + i]
    <3> DEFINE c == w \o m
    <3>1. c \in Seq(Nat) /\ Len(c) = Len(w) + Len(m) /\ n <= Len(c)  BY <1>1
    <3> HIDE DEF c
    <3>2. /\ SubSeq(c, n + 1, Len(c)) \in Seq(Nat)
          /\ Len(SubSeq(c, n + 1, Len(c))) = Len(c) - n
          /\ \A i \in 1..(Len(c) - n) : SubSeq(c, n + 1, Len(c))[i] = c[n + i]
      BY <1>1, <3>1, RestTypes
    <3>3. Len(c) - n = Len(w) + Len(m) - n  BY <3>1
    <3> QED  BY <3>2, <3>3 DEF c
  <2>2. /\ h \in Seq(Nat) /\ Len(h) = Len(w) - n
        /\ \A i \in 1..(Len(w) - n) : h[i] = w[n + i]
    BY <1>1, RestTypes
  <2> HIDE DEF l, h
  <2>3. /\ h \o m \in Seq(Nat) /\ Len(h \o m) = Len(h) + Len(m)
        /\ \A i \in 1..(Len(h) + Len(m)) :
              (h \o m)[i] = IF i <= Len(h) THEN h[i] ELSE m[i - Len(h)]
    BY <2>2, ConcatProperties
  <2>4. ASSUME NEW i \in 1..Len(l) PROVE l[i] = (h \o m)[i]
    <3>1. /\ i \in Int /\ n + i \in 1..(Len(w) + Len(m)) /\ i \in 1..(Len(w \o m) - n)
          /\ i \in 1..(Len(h) + Len(m))
      BY <1>1, <2>1, <2>2
    <3>2. l[i] = (w \o m)[n + i]  BY <2>1, <3>1
    <3>3. CASE n + i <= Len(w)
      <4>1. i <= Len(h) /\ i \in 1..(Len(w) - n)  BY <1>1, <2>1, <2>2, <3>1, <3>3
      <4>2. l[i] = w[n + i]  BY <1>1, <3>1, <3>2, <3>3
      <4>3. (h \o m)[i] = h[i]  BY <2>3, <3>1, <4>1
      <4> QED  BY <2>2, <4>1, <4>2, <4>3
    <3>4. CASE ~(n + i <= Len(w))
      <4>1. ~(i <= Len(h)) /\ (n + i) - Len(w) = i - Len(h)
        BY <1>1, <2>2, <3>1, <3>4
      <4>2. l[i] = m[(n + i) - Len(w)]  BY <1>1, <3>1, <3>2, <3>4
      <4>3. (h \o m)[i] = m[i - Len(h)]  BY <2>3, <3>1, <4>1
      <4> QED  BY <4>1, <4>2, <4>3
    <3> QED  BY <3>3, <3>4
  <2>5. Len(l) = Len(h \o m)  BY <1>1, <2>1, <2>2, <2>3
  <2>6. l = h \o m  BY <2>1, <2>3, <2>4, <2>5, SeqEqual
  <2> QED  BY <2>6 DEF l, h
<1>4. n \in 1..Len(w \o m)  BY <1>1
<1> QED  BY <1>2, <1>3, <1>4

\* The rest of a rest.
LEMMA RestOfRest ==
  ASSUME NEW f \in Seq(Nat), NEW o \in Nat, NEW n \in Nat, o <= Len(f)
  PROVE  SubSeq(SubSeq(f, o + 1, Len(f)), n + 1, Len(SubSeq(f, o + 1, Len(f))))
            = SubSeq(f, o + n + 1, Len(f))
<1> DEFINE w == SubSeq(f, o + 1, Len(f))
           a == SubSeq(w, n + 1, Len(w))
           b == SubSeq(f, (o + n) + 1, Len(f))
<1>1. Len(f) \in Nat /\ o + n \in Nat  BY LenProperties
<1>2. /\ w \in Seq(Nat) /\ Len(w) = Len(f) - o
      /\ \A i \in 1..(Len(f) - o) : w[i] = f[o + i]
  BY <1>1, RestTypes
<1> HIDE DEF w
<1>3. /\ a \in Seq(Nat)
      /\ Len(a) = IF n <= Len(w) THEN Len(w) - n ELSE 0
      /\ \A i \in 1..(Len(w) - n) : a[i] = w[n + i]
  BY <1>2, RestTypes
<1>4. /\ b \in Seq(Nat)
      /\ Len(b) = IF o + n <= Len(f) THEN Len(f) - (o + n) ELSE 0
      /\ \A i \in 1..(Len(f) - (o + n)) : b[i] = f[(o + n) + i]
  BY <1>1, RestTypes
<1> HIDE DEF a, b
<1>5. Len(a) = Len(b)  BY <1>1, <1>2, <1>3, <1>4
<1>6. ASSUME NEW i \in 1..Len(a) PROVE a[i] = b[i]
  <2>1. /\ i \in 1..(Len(w) - n) /\ i \in 1..(Len(f) - (o + n))
        /\ n + i \in 1..(Len(f) - o)
        /\ o + (n + i) = (o + n) + i
    BY <1>1, <1>2, <1>3, <1>6
  <2>2. a[i] = w[n + i] /\ b[i] = f[(o + n) + i]  BY <1>3, <1>4, <2>1
  <2>3. w[n + i] = f[o + (n + i)]  BY <1>2, <2>1
  <2> QED  BY <2>1, <2>2, <2>3
<1>7. a = b  BY <1>3, <1>4, <1>5, <1>6, SeqEqual
<1> QED  BY <1>7 DEF a, b, w

-----------------------------------------------------------------------------
(* What is not sent yet.                                                   *)

\* The queued handlers of writes on the present connection.
Writtens == {i \in 1..Len(queue) : queue[i].op = "Written" /\ queue[i].conn = epoch}

\* Without one, all of the flush buffer is unsent.
LEMMA UnhandledNone == Writtens = {} => Unhandled = 0
BY DEF Writtens, Unhandled

\* With exactly one, all but what it says was written.
LEMMA UnhandledOne ==
  \A i \in 1..Len(queue) : Writtens = {i} => Unhandled = queue[i].n
<1> SUFFICES ASSUME NEW i \in 1..Len(queue), Writtens = {i}
             PROVE  Unhandled = queue[i].n
  OBVIOUS
<1>1. (CHOOSE j \in Writtens : TRUE) = i
  <2>1. \E j \in Writtens : TRUE  OBVIOUS
  <2>2. (CHOOSE j \in Writtens : TRUE) \in Writtens  BY <2>1
  <2> QED  BY <2>2
<1> QED  BY <1>1 DEF Writtens, Unhandled

LEMMA UnhandledType == VarTypes => Unhandled \in Nat
<1> SUFFICES ASSUME VarTypes PROVE Unhandled \in Nat  OBVIOUS
<1>1. queue \in Seq(Handlers)  BY DEF VarTypes
<1>2. CASE Writtens = {}  BY <1>2, UnhandledNone
<1>3. CASE Writtens # {}
  <2>1. (CHOOSE j \in Writtens : TRUE) \in Writtens  BY <1>3
  <2> DEFINE c == CHOOSE j \in Writtens : TRUE
  <2>2. Unhandled = queue[c].n  BY <1>3 DEF Unhandled, Writtens
  <2>3. c \in 1..Len(queue)  BY <2>1 DEF Writtens
  <2> HIDE DEF c
  <2>4. queue[c] \in Handlers  BY <1>1, <2>3
  <2> QED  BY <2>2, <2>4 DEF Handlers
<1> QED  BY <1>2, <1>3

\* A client that is not connected and has cleared its buffers has nothing unsent
\* but what was appended since.
LEMMA UnsentDisconnected ==
  SendInv /\ ~connected /\ todo[Io] # <<"ClearBuffers">> => Unsent = main
<1> SUFFICES ASSUME SendInv, ~connected, todo[Io] # <<"ClearBuffers">>
             PROVE  Unsent = main
  OBVIOUS
<1>1. flush = <<>> /\ offset = 0 /\ main \in Seq(Nat)
  BY DEF SendInv, BufferInv, VarTypes
<1>2. Unhandled \in Nat  BY UnhandledType DEF SendInv
<1>3. SubSeq(flush, offset + Unhandled + 1, Len(flush)) = <<>>
  <2>1. flush \in Seq(Nat) /\ Len(flush) = 0  BY <1>1
  <2>2. offset + Unhandled + 1 \in Nat /\ offset + Unhandled + 1 > 0  BY <1>1, <1>2
  <2> QED  BY <2>1, <2>2, RestOfNothing
<1> QED  BY <1>1, <1>3, ConcatEmptySeq DEF Unsent

\* The same after a step.
LEMMA UnsentDisconnectedNext ==
  SendInv' /\ ~connected' /\ todo'[Io] # <<"ClearBuffers">> => Unsent' = main'
<1>1. (SendInv /\ ~connected /\ todo[Io] # <<"ClearBuffers">> => Unsent = main)'
  BY UnsentDisconnected, PTL
<1> QED  BY <1>1

-----------------------------------------------------------------------------
(* The steps of the program as steps of the channel.                       *)

\* A step the channel does not see.
LEMMA Unseen ==
  ASSUME UNCHANGED <<sock, issued, wire>>, Unsent' = Unsent
  PROVE  [Chan!Next]_(Chan!chanVars)
BY DEF Chan!chanVars

\* What is unsent does not change with the handlers of writes and the buffers.
LEMMA UnsentKept ==
  ASSUME UNCHANGED <<flush, offset, main>>, Writtens' = Writtens,
         \A i \in Writtens : queue'[i] = queue[i]
  PROVE  Unsent' = Unsent
<1>1. /\ Unhandled = IF Writtens = {} THEN 0 ELSE queue[CHOOSE i \in Writtens : TRUE].n
      /\ Unhandled' = IF Writtens' = {} THEN 0 ELSE queue'[CHOOSE i \in Writtens' : TRUE].n
  BY DEF Unhandled, Writtens
<1>2. Unhandled' = Unhandled
  <2>1. CASE Writtens = {}  BY <1>1, <2>1
  <2>2. CASE Writtens # {}
    <3>1. (CHOOSE i \in Writtens : TRUE) \in Writtens  BY <2>2
    <3> QED  BY <1>1, <2>2, <3>1
  <2> QED  BY <2>1, <2>2
<1> QED  BY <1>2 DEF Unsent

\* Nor with the posting of any other handler.
LEMMA UnsentPosted ==
  ASSUME VarTypes, NEW h \in Handlers, h.op # "Written", queue' = Append(queue, h),
         UNCHANGED <<flush, offset, main, epoch>>
  PROVE  Unsent' = Unsent
<1>1. /\ Len(queue) \in Nat
      /\ Len(queue') = Len(queue) + 1
      /\ queue'[Len(queue) + 1] = h
      /\ \A i \in 1..Len(queue) : queue'[i] = queue[i]
  BY AppendStep DEF VarTypes
<1>2. Writtens' = Writtens  BY <1>1 DEF Writtens
<1>3. \A i \in Writtens : queue'[i] = queue[i]  BY <1>1 DEF Writtens
<1> QED  BY <1>2, <1>3, UnsentKept

\* A connected client has at most one handler of a write queued.
LEMMA WrittensOfConnected ==
  SendInv /\ connected =>
     /\ \/ Writtens = {}
        \/ \E i \in 1..Len(queue) : Writtens = {i}
     /\ \A i \in 1..Len(queue) : queue[i].op = "Written" => Writtens = {i}
BY DEF SendInv, WriteInv, Writtens

\* Nor with the running of any other handler.
LEMMA UnsentTaken ==
  ASSUME SendInv, SendInv', NEW op, op # "Written", NEW s \in Seq(Steps), s \in IoStacks,
         s # <<"ClearBuffers">>, Run(op, s),
         UNCHANGED <<connected, flush, offset, main, epoch>>
  PROVE  Unsent' = Unsent
<1>1. /\ todo'[Io] = s /\ todo[Io] = <<>>
      /\ Len(queue) \in Nat /\ Len(queue) > 0 /\ Len(queue') = Len(queue) - 1
      /\ queue[1].op = op
      /\ \A i \in 1..Len(queue') : i + 1 \in 1..Len(queue) /\ queue'[i] = queue[i + 1]
  BY RunStack
<1>2. CASE ~connected
  BY <1>1, <1>2, StackFacts, UnsentDisconnected, UnsentDisconnectedNext
<1>3. CASE connected
  <2>1. CASE Writtens = {}
    <3>1. Writtens' = {}  BY <1>1, <2>1 DEF Writtens
    <3> QED  BY <2>1, <3>1, UnsentKept
  <2>2. ASSUME NEW i \in 1..Len(queue), Writtens = {i} PROVE Unsent' = Unsent
    <3>1. i # 1 /\ i \in Int  BY <1>1, <2>2 DEF Writtens
    <3>2. i - 1 \in 1..Len(queue') /\ queue'[i - 1] = queue[i]  BY <1>1, <3>1
    <3>3. Writtens' = {i - 1}
      <4>1. i - 1 \in Writtens'  BY <2>2, <3>2 DEF Writtens
      <4>2. ASSUME NEW j \in Writtens' PROVE j = i - 1
        <5>1. j \in 1..Len(queue') /\ j + 1 \in Writtens  BY <1>1, <4>2 DEF Writtens
        <5> QED  BY <2>2, <3>1, <5>1
      <4> QED  BY <4>1, <4>2
    <3>4. Unhandled = queue[i].n  BY <2>2, UnhandledOne
    <3>5. (CHOOSE j \in Writtens' : TRUE) = i - 1
      <4>1. \E j \in Writtens' : TRUE  BY <3>3
      <4>2. (CHOOSE j \in Writtens' : TRUE) \in Writtens'  BY <4>1
      <4> QED  BY <3>3, <4>2
    <3>6. Unhandled' = queue'[i - 1].n  BY <3>3, <3>5 DEF Unhandled, Writtens
    <3> QED  BY <3>2, <3>4, <3>6 DEF Unsent
  <2> QED  BY <1>3, <2>1, <2>2, WrittensOfConnected
<1> QED  BY <1>2, <1>3

\* The start of a read is not seen.
LEMMA BeginReadChan ==
  ASSUME SendInv, BeginRead
  PROVE  [Chan!Next]_(Chan!chanVars)
<1>1. UNCHANGED <<main, flush, offset, epoch, sock, issued, wire>>
  BY DEF BeginRead, sendv, peerv, ghosts
<1>2. CASE queue' = queue
  BY <1>1, <1>2, Unseen, UnsentKept DEF Writtens
<1>3. CASE queue' # queue
  <2>1. queue' = Append(queue, Completion("Received", "failure", 0, 0))
    BY <1>3 DEF BeginRead
  <2>2. /\ Completion("Received", "failure", 0, 0) \in Handlers
        /\ Completion("Received", "failure", 0, 0).op # "Written"
    BY HandlerTypes DEF Completion, HandlerOps, ErrorCodes
  <2> QED  BY <1>1, <2>1, <2>2, Unseen, UnsentPosted DEF SendInv
<1> QED  BY <1>2, <1>3

\* An application thread only ever hands over a unit.
LEMMA UserChan ==
  ASSUME SendInv, NEW u \in Users, Call(u) \/ UserStep(u)
  PROVE  [Chan!Next]_(Chan!chanVars)
<1>1. CASE Call(u)
  <2>1. UNCHANGED <<main, flush, offset, queue, epoch, sock, issued, wire>>
    BY <1>1 DEF Call, ConnectAsync, DisconnectAsync, ReconnectAsync, DisconnectAndStop,
                SendAsync, ReceiveAsync, sendv, sockv, peerv, ghosts
  <2> QED  BY <2>1, Unseen, UnsentKept DEF Writtens
<1>2. CASE Post(u)
  <2>1. UNCHANGED <<main, flush, offset, epoch, sock, issued, wire>>
    BY <1>2 DEF Post, sendv, sockv, peerv, ghosts
  <2>2. \E h \in {Handler("Connect"), Handler("Disconnect"), Handler("TrySend")} :
           queue' = Append(queue, h)
    BY <1>2 DEF Post
  <2>3. \A h \in {Handler("Connect"), Handler("Disconnect"), Handler("TrySend")} :
           h \in Handlers /\ h.op # "Written"
    BY HandlerTypes DEF Handler, HandlerOps
  <2> QED  BY <2>1, <2>2, <2>3, Unseen, UnsentPosted DEF SendInv
<1>3. CASE AwaitDisconnected(u) \/ ConnectAgain(u)
  <2>1. UNCHANGED <<main, flush, offset, queue, epoch, sock, issued, wire>>
    BY <1>3 DEF AwaitDisconnected, ConnectAgain, sendv, sockv, peerv, ghosts
  <2> QED  BY <2>1, Unseen, UnsentKept DEF Writtens
<1>4. CASE AppendMain(u)
  <2>1. /\ main' = Append(main, issued + 1) /\ issued' = issued + 1
        /\ UNCHANGED <<flush, offset, queue, sock, epoch, wire>>
    BY <1>4 DEF AppendMain, sockv, peerv
  <2>2. Unhandled' = Unhandled  BY <2>1 DEF Unhandled
  <2>3. /\ flush \in Seq(Nat) /\ main \in Seq(Nat) /\ offset \in Nat /\ issued \in Nat
    BY DEF SendInv, VarTypes
  <2>4. Unhandled \in Nat  BY UnhandledType DEF SendInv
  <2> DEFINE r == SubSeq(flush, offset + Unhandled + 1, Len(flush))
  <2>5. r \in Seq(Nat)
    <3>1. offset + Unhandled \in Nat  BY <2>3, <2>4
    <3> QED  BY <2>3, <3>1, RestTypes
  <2>6. Unsent = r \o main /\ Unsent' = r \o Append(main, issued + 1)
    BY <2>1, <2>2 DEF Unsent
  <2> HIDE DEF r
  <2>7. r \o Append(main, issued + 1) = Append(r \o main, issued + 1)
    <3>1. /\ Append(main, issued + 1) = main \o <<issued + 1>>
          /\ Append(r \o main, issued + 1) = (r \o main) \o <<issued + 1>>
      <4>1. issued + 1 \in Nat /\ r \o main \in Seq(Nat)
        BY <2>3, <2>5, ConcatProperties
      <4> QED  BY <2>3, <4>1, AppendIsConcat
    <3>2. <<issued + 1>> \in Seq(Nat)  BY <2>3
    <3> QED  BY <2>3, <2>5, <3>1, <3>2, ConcatAssociative
  <2>8. Unsent' = Append(Unsent, issued + 1)  BY <2>6, <2>7
  <2>9. Chan!Accept  BY <2>1, <2>8 DEF Chan!Accept
  <2> QED  BY <2>9 DEF Chan!Next
<1>5. CASE StartRead(u)
  BY <1>5, BeginReadChan DEF StartRead
<1> QED  BY <1>1, <1>2, <1>3, <1>4, <1>5 DEF UserStep

\* The peer's own steps and the end of a read are not seen.
LEMMA PeerChan ==
  ASSUME SendInv, PeerSend \/ PeerClose \/ ReadData \/ ReadError
  PROVE  [Chan!Next]_(Chan!chanVars)
<1>1. UNCHANGED <<main, flush, offset, epoch, sock, issued, wire>>
  BY DEF PeerSend, PeerClose, ReadData, ReadError, sendv, sockv, peerv, ghosts
<1>2. CASE queue' = queue
  BY <1>1, <1>2, Unseen, UnsentKept DEF Writtens
<1>3. CASE queue' # queue
  <2>1. \E h \in {Completion("Received", "success", 1, epoch),
                  Completion("Received", "failure", 0, epoch)} :
           queue' = Append(queue, h)
    BY <1>3 DEF PeerSend, PeerClose, ReadData, ReadError
  <2>2. \A h \in {Completion("Received", "success", 1, epoch),
                  Completion("Received", "failure", 0, epoch)} :
           h \in Handlers /\ h.op # "Written"
    <3>1. epoch \in Nat  BY DEF SendInv, VarTypes
    <3> QED  BY <3>1, HandlerTypes DEF Completion, HandlerOps, ErrorCodes
  <2> QED  BY <1>1, <2>1, <2>2, Unseen, UnsentPosted DEF SendInv
<1> QED  BY <1>2, <1>3

\* The channel comes up with what was appended since the buffers were cleared; an
\* attempt that fails is not seen.
LEMMA ConnectDoneChan ==
  ASSUME SendInv, SendInv', NEW ec \in ErrorCodes, ConnectDone(ec)
  PROVE  [Chan!Next]_(Chan!chanVars)
<1>1. sock = "connecting" /\ UNCHANGED <<connected, todo, main, issued>>
  BY DEF ConnectDone, flags, sendv, ghosts
<1>2. ~connected /\ todo[Io] # <<"ClearBuffers">>
  BY <1>1 DEF SendInv, PhaseInv
<1>3. Unsent' = Unsent
  BY <1>1, <1>2, UnsentDisconnected, UnsentDisconnectedNext
<1>4. CASE ec = "success"
  <2>1. sock' = "open" /\ wire' = <<>>  BY <1>4 DEF ConnectDone
  <2>2. Chan!Open  BY <1>1, <1>3, <2>1 DEF Chan!Open
  <2> QED  BY <2>2 DEF Chan!Next
<1>5. CASE ec # "success"
  <2>1. sock' = "closed" /\ wire' = wire  BY <1>5 DEF ConnectDone, peerv
  <2> QED  BY <1>1, <1>3, <2>1 DEF Chan!chanVars
<1> QED  BY <1>4, <1>5

\* A write delivers the front of what is unsent.
LEMMA WriteDataChan ==
  ASSUME SendInv, SendInv', WriteData
  PROVE  Chan!Deliver
<1>1. /\ UNCHANGED <<main, flush, offset, sock, epoch, issued>>
      /\ writes # <<>>
  BY DEF WriteData, sendv, ghosts
<1>2. /\ connected /\ Len(writes) = 1 /\ sock = "open"
      /\ writes[1] = SubSeq(flush, offset + 1, Len(flush))
      /\ ~Queued("Written")
  BY <1>1 DEF SendInv, BufferInv, WriteInv, PhaseInv
<1>3. /\ flush \in Seq(Nat) /\ main \in Seq(Nat) /\ offset \in Nat /\ epoch \in Nat
      /\ Len(queue) \in Nat /\ offset <= Len(flush)
  BY DEF SendInv, VarTypes, BufferInv
<1> DEFINE w == SubSeq(flush, offset + 1, Len(flush))
<1>4. Head(writes) = w /\ w \in Seq(Nat)
  <2>1. writes \in Seq(Seq(Nat))  BY DEF SendInv, VarTypes
  <2>2. Head(writes) = writes[1]
    <3> DEFINE T == Seq(Nat)
    <3>1. writes \in Seq(T) /\ Len(writes) = 1  BY <1>2, <2>1
    <3> HIDE DEF T
    <3> QED  BY <3>1
  <2> QED  BY <1>2, <1>3, <2>2, RestTypes
<1>5. PICK n \in 1..Len(w) :
         /\ wire' = wire \o SubSeq(w, 1, n)
         /\ queue' = Append(queue, Completion("Written", "success", n, epoch))
  BY <1>4 DEF WriteData
<1>6. n \in Nat /\ n \in 1..Len(w)  BY <1>4
<1>7. Unhandled = 0
  <2>1. Writtens = {}  BY <1>2 DEF Queued, Writtens
  <2> QED  BY <2>1, UnhandledNone
<1>8. Unhandled' = n
  <2> DEFINE h == Completion("Written", "success", n, epoch)
  <2>1. h \in Handlers /\ h.op = "Written" /\ h.conn = epoch /\ h.n = n
    BY <1>3, <1>6, HandlerTypes DEF Completion, HandlerOps, ErrorCodes
  <2>2. queue' = Append(queue, h)  BY <1>5
  <2> HIDE DEF h
  <2>3. /\ Len(queue') = Len(queue) + 1
        /\ queue'[Len(queue) + 1] = h
        /\ \A i \in 1..Len(queue) : queue'[i] = queue[i]
    BY <2>1, <2>2, AppendStep DEF SendInv
  <2>4. Writtens' = {Len(queue) + 1}
    <3>1. \A i \in 1..Len(queue) : queue[i].op # "Written"  BY <1>2 DEF Queued
    <3>2. Len(queue) + 1 \in Writtens'  BY <1>1, <1>3, <2>1, <2>3 DEF Writtens
    <3>3. ASSUME NEW i \in Writtens' PROVE i = Len(queue) + 1
      <4>1. i \in 1..Len(queue') /\ queue'[i].op = "Written"  BY DEF Writtens
      <4>2. i \notin 1..Len(queue)  BY <2>3, <3>1, <4>1
      <4> QED  BY <1>3, <2>3, <4>1, <4>2
    <3> QED  BY <3>2, <3>3
  <2>5. (CHOOSE i \in Writtens' : TRUE) = Len(queue) + 1
    <3>1. \E i \in Writtens' : TRUE  BY <2>4
    <3>2. (CHOOSE i \in Writtens' : TRUE) \in Writtens'  BY <3>1
    <3> QED  BY <2>4, <3>2
  <2> QED  BY <2>1, <2>3, <2>4, <2>5 DEF Unhandled, Writtens
<1>9. Unsent = w \o main
  <2>1. offset + 0 + 1 = offset + 1  BY <1>3
  <2> QED  BY <1>7, <2>1 DEF Unsent
<1>10. Unsent' = SubSeq(w, n + 1, Len(w)) \o main
  <2>1. SubSeq(w, n + 1, Len(w)) = SubSeq(flush, offset + n + 1, Len(flush))
    BY <1>3, <1>6, RestOfRest
  <2>2. Unsent' = SubSeq(flush, offset + n + 1, Len(flush)) \o main
    BY <1>1, <1>8 DEF Unsent
  <2> QED  BY <2>1, <2>2
<1> HIDE DEF w
<1>11. /\ n \in 1..Len(Unsent)
       /\ wire' = wire \o SubSeq(Unsent, 1, n)
       /\ Unsent' = SubSeq(Unsent, n + 1, Len(Unsent))
  BY <1>3, <1>4, <1>5, <1>9, <1>10, TakeFront
<1> QED  BY <1>1, <1>2, <1>11 DEF Chan!Deliver

\* A write that fails is not seen.
LEMMA WriteErrorChan ==
  ASSUME SendInv, WriteError
  PROVE  [Chan!Next]_(Chan!chanVars)
<1>1. /\ UNCHANGED <<main, flush, offset, sock, epoch, issued, wire>>
      /\ writes # <<>>
  BY DEF WriteError, sendv, peerv, ghosts
<1>2. Writtens = {} /\ epoch \in Nat /\ Len(queue) \in Nat
  BY <1>1 DEF SendInv, WriteInv, Queued, Writtens, VarTypes
<1> DEFINE h == Completion("Written", "failure", 0, epoch)
<1>3. h \in Handlers /\ h.op = "Written" /\ h.conn = epoch /\ h.n = 0
  BY <1>2, HandlerTypes DEF Completion, HandlerOps, ErrorCodes
<1>4. queue' = Append(queue, h)  BY DEF WriteError
<1> HIDE DEF h
<1>5. /\ Len(queue') = Len(queue) + 1
      /\ queue'[Len(queue) + 1] = h
      /\ \A i \in 1..Len(queue) : queue'[i] = queue[i]
  BY <1>3, <1>4, AppendStep DEF SendInv
<1>6. Writtens' = {Len(queue) + 1}
  BY <1>1, <1>2, <1>3, <1>5 DEF Writtens
<1>7. (CHOOSE i \in Writtens' : TRUE) = Len(queue) + 1
  <2>1. \E i \in Writtens' : TRUE  BY <1>6
  <2>2. (CHOOSE i \in Writtens' : TRUE) \in Writtens'  BY <2>1
  <2> QED  BY <1>6, <2>2
<1>8. Unhandled' = 0  BY <1>3, <1>5, <1>6, <1>7 DEF Unhandled, Writtens
<1>9. Unhandled = 0  BY <1>2, UnhandledNone
<1> QED  BY <1>1, <1>8, <1>9, Unseen DEF Unsent

\* A handler of the io thread that is not one of a write.
LEMMA HandlersChan ==
  ASSUME SendInv, SendInv',
         ConnectHandler \/ AsyncConnectHandler \/ DisconnectHandler \/ SendHandler
            \/ AsyncReceiveHandler
  PROVE  [Chan!Next]_(Chan!chanVars)
<1>1. UNCHANGED <<connected, main, flush, offset, epoch, issued, wire>>
  BY DEF ConnectHandler, AsyncConnectHandler, DisconnectHandler, SendHandler,
         AsyncReceiveHandler, flags, sendv, sockv, peerv, ghosts
<1>2. \E op \in HandlerOps \ {"Written"} :
         \E s \in {<<>>, <<"TrySend">>, <<"Disconnect">>, <<"TryReceive">>,
                   <<"SetConnected", "TryReceive", "TryReceive">>} : Run(op, s)
  <2>1. CASE ConnectHandler  BY <2>1 DEF ConnectHandler, HandlerOps
  <2>2. CASE AsyncConnectHandler  BY <2>2 DEF AsyncConnectHandler, HandlerOps
  <2>3. CASE DisconnectHandler  BY <2>3 DEF DisconnectHandler, HandlerOps
  <2>4. CASE SendHandler  BY <2>4 DEF SendHandler, HandlerOps
  <2>5. CASE AsyncReceiveHandler
    BY <2>5 DEF AsyncReceiveHandler, AfterCompletion, HandlerOps
  <2> QED  BY <2>1, <2>2, <2>3, <2>4, <2>5
<1>3. Unsent' = Unsent
  BY <1>1, <1>2, UnsentTaken, StackTypes, StackFacts
<1>4. CASE ConnectHandler /\ sock = "open" /\ ~connected /\ ~connecting
  <2>1. sock' = "connecting"  BY <1>4 DEF ConnectHandler
  <2>2. Chan!Close  BY <1>1, <1>3, <1>4, <2>1 DEF Chan!Close
  <2> QED  BY <2>2 DEF Chan!Next
<1>5. CASE ~(ConnectHandler /\ sock = "open" /\ ~connected /\ ~connecting)
  <2>1. \/ sock' = sock
        \/ ConnectHandler /\ ~connected /\ ~connecting /\ sock' = "connecting"
    BY DEF ConnectHandler, AsyncConnectHandler, DisconnectHandler, SendHandler,
           AsyncReceiveHandler, sockv
  <2> QED  BY <1>1, <1>3, <1>5, <2>1 DEF Chan!chanVars
<1> QED  BY <1>4, <1>5

\* The handler of a write takes what was written off the flush buffer.
LEMMA AsyncWriteHandlerChan ==
  ASSUME SendInv, SendInv', AsyncWriteHandler
  PROVE  [Chan!Next]_(Chan!chanVars)
<1> DEFINE s == AfterCompletion(Head(queue).ec, "TrySend")
<1>1. UNCHANGED <<connected, main, epoch, issued, wire, sock>>
  BY DEF AsyncWriteHandler, flags, sockv, peerv, ghosts
<1>2. /\ todo'[Io] = s /\ todo[Io] = <<>>
      /\ Len(queue) \in Nat /\ Len(queue) > 0 /\ Len(queue') = Len(queue) - 1
      /\ queue[1] \in Handlers /\ queue[1].op = "Written" /\ Head(queue) = queue[1]
      /\ \A i \in 1..Len(queue') : i + 1 \in 1..Len(queue) /\ queue'[i] = queue[i + 1]
  <2>1. s \in Seq(Steps) /\ s \in IoStacks
    BY StackTypes DEF AfterCompletion
  <2>2. Run("Written", s)  BY DEF AsyncWriteHandler
  <2> HIDE DEF s
  <2> QED  BY <2>1, <2>2, RunStack
<1>3. CASE ~connected
  <2>1. s = <<>>  BY <1>3 DEF AfterCompletion
  <2>2. Unsent' = Unsent
    BY <1>1, <1>2, <1>3, <2>1, StackFacts, UnsentDisconnected, UnsentDisconnectedNext
  <2> QED  BY <1>1, <2>2, Unseen
<1>4. CASE connected
  <2> DEFINE n == queue[1].n
  <2>1. Writtens = {1} /\ n \in Nat /\ n <= Len(flush) - offset
    <3>1. 1 \in 1..Len(queue)  BY <1>2
    <3>2. queue[1].n <= Len(flush) - offset
      BY <1>2, <1>4, <3>1 DEF SendInv, WriteInv
    <3>3. queue[1].n \in Nat  BY <1>2 DEF Handlers
    <3> QED  BY <1>2, <1>4, <3>1, <3>2, <3>3, WrittensOfConnected
  <2>2. Unhandled = n  BY <1>2, <2>1, UnhandledOne
  <2>3. Unhandled' = 0
    <3>1. Writtens' = {}
      <4>1. ASSUME NEW i \in Writtens' PROVE FALSE
        <5>1. i \in 1..Len(queue') /\ i + 1 \in Writtens /\ i \in Nat /\ i >= 1
          BY <1>1, <1>2, <4>1 DEF Writtens
        <5> QED  BY <2>1, <5>1
      <4> QED  BY <4>1
    <3> QED  BY <3>1 DEF Unhandled, Writtens
  <2>4. /\ flush \in Seq(Nat) /\ offset \in Nat /\ main \in Seq(Nat) /\ Len(flush) \in Nat
        /\ offset <= Len(flush)
    BY DEF SendInv, VarTypes, BufferInv
  <2>5. SubSeq(flush', offset' + 0 + 1, Len(flush')) = SubSeq(flush, offset + n + 1, Len(flush))
    <3>1. CASE n = 0
      <4>1. flush' = flush /\ offset' = offset
        BY <1>2, <3>1 DEF AsyncWriteHandler
      <4> QED  BY <2>4, <3>1, <4>1
    <3>2. CASE n > 0 /\ offset + n = Len(flush)
      <4>1. flush' = <<>> /\ offset' = 0
        BY <1>2, <1>4, <3>2 DEF AsyncWriteHandler, FlushAfter, OffsetAfter
      <4>2. SubSeq(flush, offset + n + 1, Len(flush)) = <<>>
        <5>1. n \in Nat /\ offset \in Nat /\ offset + n = Len(flush)  BY <2>1, <2>4, <3>2
        <5> HIDE DEF n
        <5>2. offset + n + 1 \in Nat /\ offset + n + 1 > Len(flush)  BY <5>1
        <5> QED  BY <2>4, <5>2, RestOfNothing
      <4>3. SubSeq(flush', offset' + 0 + 1, Len(flush')) = <<>>
        <5>1. flush' \in Seq(Nat) /\ Len(flush') = 0  BY <4>1
        <5>2. offset' + 0 + 1 \in Nat /\ offset' + 0 + 1 > 0  BY <4>1
        <5> QED  BY <5>1, <5>2, RestOfNothing
      <4> QED  BY <4>2, <4>3
    <3>3. CASE n > 0 /\ offset + n # Len(flush)
      <4>1. flush' = flush /\ offset' = offset + n
        BY <1>2, <1>4, <3>3 DEF AsyncWriteHandler, FlushAfter, OffsetAfter
      <4>2. offset' + 0 + 1 = offset + n + 1  BY <2>1, <2>4, <4>1
      <4> QED  BY <4>1, <4>2
    <3>4. n = 0 \/ n > 0  BY <2>1
    <3> QED  BY <3>1, <3>2, <3>3, <3>4
  <2> HIDE DEF n
  <2>6. Unsent' = Unsent  BY <1>1, <2>2, <2>3, <2>5 DEF Unsent
  <2> QED  BY <1>1, <2>6, Unseen
<1> QED  BY <1>3, <1>4

\* A swap moves the main buffer, which is not being written, behind an empty one.
LEMMA TrySendChan ==
  ASSUME SendInv, TrySend
  PROVE  [Chan!Next]_(Chan!chanVars)
<1>1. UNCHANGED <<queue, epoch, sock, issued, wire>>
  BY DEF TrySend, peerv, ghosts
<1>2. CASE SendBlocked \/ flush # <<>>
  <2>1. UNCHANGED <<main, flush, offset>>  BY <1>2 DEF TrySend, sendv
  <2> QED  BY <1>1, <2>1, Unseen, UnsentKept DEF Writtens
<1>3. CASE ~SendBlocked /\ flush = <<>>
  <2>1. flush' = main /\ offset' = 0 /\ main' = <<>>
    BY <1>3 DEF TrySend
  <2>2. connected /\ ~sending  BY <1>3 DEF SendBlocked
  <2>3. Writtens = {}  BY <2>2 DEF SendInv, WriteInv, Writtens
  <2>4. Unhandled = 0  BY <2>3, UnhandledNone
  <2>5. Unhandled' = 0
    <3>1. Writtens' = {}  BY <1>1, <2>3 DEF Writtens
    <3> QED  BY <3>1 DEF Unhandled, Writtens
  <2>6. main \in Seq(Nat) /\ offset = 0 /\ Len(flush) = 0 /\ flush \in Seq(Nat)
    <3>1. main \in Seq(Nat) /\ offset \in Nat  BY DEF SendInv, VarTypes
    <3>2. Len(flush) = 0 /\ flush \in Seq(Nat)  BY <1>3
    <3>3. offset <= Len(flush)  BY DEF SendInv, BufferInv
    <3> QED  BY <1>1, <3>1, <3>2, <3>3
  <2>7. Unsent = main
    <3>1. SubSeq(flush, 1, Len(flush)) = <<>>  BY <2>6, RestOfNothing
    <3>2. offset + 0 + 1 = 1  BY <2>6
    <3> QED  BY <2>4, <2>6, <3>1, <3>2, ConcatEmptySeq DEF Unsent
  <2>8. Unsent' = main
    <3>1. SubSeq(main, 1, Len(main)) = main  BY <2>6, SubSeqFull
    <3>2. offset' + 0 + 1 = 1  BY <2>1
    <3> QED  BY <2>1, <2>5, <2>6, <3>1, <3>2, ConcatEmptySeq DEF Unsent
  <2> QED  BY <1>1, <2>7, <2>8, Unseen
<1> QED  BY <1>2, <1>3

\* The first half of a disconnect closes the channel, and drops nothing yet: the
\* handler of the write it aborts has written nothing.
LEMMA DisconnectChan ==
  ASSUME SendInv, Disconnect
  PROVE  [Chan!Next]_(Chan!chanVars)
<1>1. UNCHANGED <<main, flush, offset, epoch, issued, wire>>
  BY DEF Disconnect, sendv, peerv, ghosts
<1>2. CASE ~connected
  <2>1. UNCHANGED <<queue, sock>>  BY <1>2 DEF Disconnect
  <2> QED  BY <1>1, <2>1, Unseen, UnsentKept DEF Writtens
<1>3. CASE connected
  <2>1. queue' = queue \o Aborted /\ sock' = "closed"  BY <1>3 DEF Disconnect
  <2>2. sock = "open"  BY <1>3 DEF SendInv, PhaseInv
  <2>3. /\ queue \in Seq(Handlers) /\ Aborted \in Seq(Handlers) /\ epoch \in Nat
        /\ reads \in Nat /\ Len(Aborted) = reads + Len(writes)
        /\ \A i \in 1..Len(Aborted) : Aborted[i].n = 0
    BY AbortedTypes DEF SendInv, VarTypes
  <2> HIDE DEF Handlers
  <2>4. /\ Len(queue) \in Nat /\ Len(Aborted) \in Nat
        /\ Len(queue') = Len(queue) + Len(Aborted)
        /\ \A i \in 1..(Len(queue) + Len(Aborted)) :
              queue'[i] = IF i <= Len(queue) THEN queue[i] ELSE Aborted[i - Len(queue)]
    <3>1. Len(queue) \in Nat /\ Len(Aborted) \in Nat  BY <2>3
    <3>2. /\ Len(queue \o Aborted) = Len(queue) + Len(Aborted)
          /\ \A i \in 1..(Len(queue) + Len(Aborted)) :
                (queue \o Aborted)[i] = IF i <= Len(queue) THEN queue[i]
                                        ELSE Aborted[i - Len(queue)]
      <4>1. \A T : \A a, b \in Seq(T) :
               /\ Len(a \o b) = Len(a) + Len(b)
               /\ \A i \in 1..(Len(a) + Len(b)) :
                     (a \o b)[i] = IF i <= Len(a) THEN a[i] ELSE b[i - Len(a)]
        BY ConcatProperties
      <4> HIDE DEF Aborted
      <4> QED  BY <2>3, <4>1
    <3> QED  BY <2>1, <3>1, <3>2
  <2>5. \A i \in 1..Len(queue) : queue'[i] = queue[i] /\ i \in 1..Len(queue')
    BY <2>4
  <2>6. Unsent' = Unsent
    <3>1. CASE writes = <<>>
      <4>1. \A i \in 1..Len(Aborted) : Aborted[i].op # "Written"
        <5>1. Len(writes) = 0  BY <3>1
        <5>2. Aborted = [i \in 1..reads |-> Completion("Received", "failure", 0, epoch)]
                        \o [i \in 1..0 |-> Completion("Written", "failure", 0, epoch)]
          BY <5>1 DEF Aborted
        <5> DEFINE R == [i \in 1..reads |-> Completion("Received", "failure", 0, epoch)]
                   W == [i \in 1..0 |-> Completion("Written", "failure", 0, epoch)]
        <5>3. /\ Completion("Received", "failure", 0, epoch) \in Handlers
              /\ Completion("Received", "failure", 0, epoch).op # "Written"
          BY <2>3, HandlerTypes DEF Completion, HandlerOps, ErrorCodes
        <5>4. R \in Seq(Handlers) /\ Len(R) = reads
              /\ \A i \in 1..reads : R[i] = Completion("Received", "failure", 0, epoch)
          BY <2>3, <5>3
        <5>5. W = <<>>  OBVIOUS
        <5> HIDE DEF R, W
        <5>6. Aborted = R  BY <5>2, <5>4, <5>5, ConcatEmptySeq DEF R, W
        <5> QED  BY <5>3, <5>4, <5>6
      <4>2. \A i \in 1..Len(queue') : queue'[i].op = "Written" => i \in 1..Len(queue)
        <5> SUFFICES ASSUME NEW i \in 1..Len(queue'), ~(i \in 1..Len(queue))
                     PROVE  queue'[i].op # "Written"
          OBVIOUS
        <5>1. i - Len(queue) \in 1..Len(Aborted) /\ ~(i <= Len(queue))
          BY <2>4
        <5> QED  BY <2>4, <4>1, <5>1
      <4>3. Writtens' = Writtens
        BY <1>1, <2>5, <4>2 DEF Writtens
      <4>4. \A i \in Writtens : queue'[i] = queue[i]  BY <2>5 DEF Writtens
      <4> QED  BY <1>1, <4>3, <4>4, UnsentKept
    <3>2. CASE writes # <<>>
      <4>1. Writtens = {}  BY <3>2 DEF SendInv, WriteInv, Queued, Writtens
      <4>2. Unhandled = 0  BY <4>1, UnhandledNone
      <4>3. \A i \in Writtens' : queue'[i].n = 0
        <5> SUFFICES ASSUME NEW i \in Writtens' PROVE queue'[i].n = 0
          OBVIOUS
        <5>1. i \in 1..Len(queue') /\ queue'[i].op = "Written" /\ queue'[i].conn = epoch
          BY <1>1 DEF Writtens
        <5>2. ~(i \in 1..Len(queue))
          BY <2>5, <4>1, <5>1 DEF Writtens
        <5>3. i - Len(queue) \in 1..Len(Aborted) /\ ~(i <= Len(queue))
          BY <2>4, <5>1, <5>2
        <5> QED  BY <2>3, <2>4, <5>1, <5>3
      <4>4. Unhandled' = 0
        <5>1. Unhandled' = IF Writtens' = {} THEN 0
                           ELSE queue'[CHOOSE i \in Writtens' : TRUE].n
          BY DEF Unhandled, Writtens
        <5>2. CASE Writtens' = {}  BY <5>1, <5>2
        <5>3. CASE Writtens' # {}
          <6>1. (CHOOSE i \in Writtens' : TRUE) \in Writtens'  BY <5>3
          <6> QED  BY <4>3, <5>1, <5>3, <6>1
        <5> QED  BY <5>2, <5>3
      <4> QED  BY <1>1, <4>2, <4>4 DEF Unsent
    <3> QED  BY <3>1, <3>2
  <2>7. Chan!Close  BY <1>1, <2>1, <2>2, <2>6 DEF Chan!Close
  <2> QED  BY <2>7 DEF Chan!Next
<1> QED  BY <1>2, <1>3

\* The second half drops what is unsent, on a channel that is down.
LEMMA ClearBuffersChan ==
  ASSUME SendInv, SendInv', ClearBuffers
  PROVE  Chan!Drop
<1>1. /\ todo[Io] = <<"ClearBuffers">> /\ todo'[Io] = <<>>
  <2>1. Goto(Io, "ClearBuffers", <<>>)  BY DEF ClearBuffers
  <2>2. <<>> \in Seq(Steps) /\ <<>> \o <<>> = <<>>  OBVIOUS
  <2> QED  BY <2>1, <2>2, IoGoto
<1>2. ~connected /\ sock = "closed"  BY <1>1 DEF SendInv, PhaseInv
<1>3. ~connected' /\ main' = <<>> /\ UNCHANGED <<sock, issued, wire>>
  BY <1>2 DEF ClearBuffers, flags, sockv, peerv
<1>4. Unsent' = <<>>
  BY <1>1, <1>3, StackFacts, UnsentDisconnectedNext
<1> QED  BY <1>2, <1>3, <1>4 DEF Chan!Drop

\* The other two steps of a handler.
LEMMA ConnectedChan ==
  ASSUME SendInv, SetConnected \/ TryReceive
  PROVE  [Chan!Next]_(Chan!chanVars)
<1>1. CASE SetConnected \/ (TryReceive /\ ReceiveBlocked)
  <2>1. UNCHANGED <<main, flush, offset, queue, epoch, sock, issued, wire>>
    BY <1>1 DEF SetConnected, TryReceive, sendv, sockv, peerv, ghosts
  <2> QED  BY <2>1, Unseen, UnsentKept DEF Writtens
<1>2. CASE TryReceive /\ ~ReceiveBlocked
  BY <1>2, BeginReadChan DEF TryReceive
<1> QED  BY <1>1, <1>2

-----------------------------------------------------------------------------
(* The theorem.                                                            *)

LEMMA InitChan == Init => Chan!Init
<1> SUFFICES ASSUME Init PROVE Chan!Init  OBVIOUS
<1>1. SendInv /\ ~connected /\ todo[Io] = <<>> /\ main = <<>>
  BY InitSendInv DEF Init, Threads
<1>2. Unsent = <<>>  BY <1>1, StackFacts, UnsentDisconnected
<1> QED  BY <1>2 DEF Init, Chan!Init

LEMMA NextChan ==
  SendInv /\ SendInv' /\ [Next]_vars => [Chan!Next]_(Chan!chanVars)
<1> SUFFICES ASSUME SendInv, SendInv', [Next]_vars
             PROVE  [Chan!Next]_(Chan!chanVars)
  OBVIOUS
<1>1. CASE UNCHANGED vars
  <2>1. UNCHANGED <<main, flush, offset, queue, epoch, sock, issued, wire>>
    BY <1>1 DEF vars, sendv, sockv, peerv, ghosts
  <2> QED  BY <2>1, Unseen, UnsentKept DEF Writtens
<1>2. ASSUME NEW u \in Users, Call(u) \/ UserStep(u) PROVE [Chan!Next]_(Chan!chanVars)
  BY <1>2, UserChan
<1>3. CASE IoStep
  <2>1. CASE ClearBuffers  BY <2>1, ClearBuffersChan DEF Chan!Next
  <2> QED
    BY <1>3, <2>1, HandlersChan, AsyncWriteHandlerChan, ConnectedChan, TrySendChan,
       DisconnectChan DEF IoStep
<1>4. CASE Kernel
  <2>1. CASE WriteData  BY <2>1, WriteDataChan DEF Chan!Next
  <2> QED  BY <1>4, <2>1, ConnectDoneChan, PeerChan, WriteErrorChan DEF Kernel
<1>5. CASE PeerSend \/ PeerClose  BY <1>5, PeerChan
<1> QED  BY <1>1, <1>2, <1>3, <1>4, <1>5 DEF Next

\* TCPClient implements SendChannel: what SendAsync accepts reaches the peer in
\* the order it was accepted, each unit once, and nothing is dropped from the
\* buffers while the connection is open.
THEOREM SendAsyncIsAChannel == Spec => ImplementsSendChannel
<1>1. Init => Chan!Init  BY InitChan
<1>2. SendInv /\ SendInv' /\ [Next]_vars => [Chan!Next]_(Chan!chanVars)  BY NextChan
<1> QED  BY <1>1, <1>2, SendInvariant, PTL DEF Spec, ImplementsSendChannel, Chan!Spec

\* What the channel's steps keep: the buffered units end with the one accepted
\* last, and on an open connection those delivered come right before them.
GaplessInv ==
    /\ issued \in Nat /\ Unsent \in Seq(Nat) /\ wire \in Seq(Nat)
    /\ \A i \in 1..Len(Unsent) : Unsent[i] = issued - Len(Unsent) + i
    /\ sock = "open" =>
          \A i \in 1..Len(wire) : wire[i] = issued - Len(Unsent) - Len(wire) + i

LEMMA NextGapless ==
  ASSUME GaplessInv, [Chan!Next]_(Chan!chanVars)
  PROVE  GaplessInv'
<1>1. issued \in Nat /\ Unsent \in Seq(Nat) /\ wire \in Seq(Nat)
  BY DEF GaplessInv
<1>2. Len(Unsent) \in Nat /\ Len(wire) \in Nat  BY <1>1
<1>3. CASE UNCHANGED Chan!chanVars
  BY <1>3 DEF GaplessInv, Chan!chanVars
<1>4. CASE Chan!Accept
  <2>1. /\ issued' = issued + 1 /\ Unsent' = Append(Unsent, issued + 1)
        /\ (sock' = "open") = (sock = "open") /\ wire' = wire
    BY <1>4 DEF Chan!Accept
  <2>2. /\ Unsent' \in Seq(Nat) /\ Len(Unsent') = Len(Unsent) + 1
        /\ Unsent'[Len(Unsent) + 1] = issued + 1
        /\ \A i \in 1..Len(Unsent) : Unsent'[i] = Unsent[i]
    BY <1>1, <2>1
  <2>3. \A i \in 1..Len(Unsent') : Unsent'[i] = issued' - Len(Unsent') + i
    <3> SUFFICES ASSUME NEW i \in 1..Len(Unsent')
                 PROVE  Unsent'[i] = issued' - Len(Unsent') + i
      OBVIOUS
    <3>1. CASE i = Len(Unsent) + 1  BY <1>1, <1>2, <2>1, <2>2, <3>1
    <3>2. CASE i # Len(Unsent) + 1
      <4>1. i \in 1..Len(Unsent)  BY <1>2, <2>2, <3>2
      <4>2. Unsent[i] = issued - Len(Unsent) + i  BY <4>1 DEF GaplessInv
      <4> QED  BY <1>1, <1>2, <2>1, <2>2, <4>1, <4>2
    <3> QED  BY <3>1, <3>2
  <2>4. sock' = "open" =>
          \A i \in 1..Len(wire') : wire'[i] = issued' - Len(Unsent') - Len(wire') + i
    <3> SUFFICES ASSUME sock = "open", NEW i \in 1..Len(wire)
                 PROVE  wire[i] = issued' - Len(Unsent') - Len(wire) + i
      BY <2>1
    <3>1. wire[i] = issued - Len(Unsent) - Len(wire) + i  BY DEF GaplessInv
    <3> QED  BY <1>1, <1>2, <2>1, <2>2, <3>1
  <2> QED  BY <1>1, <2>1, <2>2, <2>3, <2>4 DEF GaplessInv
<1>5. CASE Chan!Deliver
  <2>1. PICK n \in 1..Len(Unsent) :
           /\ wire' = wire \o SubSeq(Unsent, 1, n)
           /\ Unsent' = SubSeq(Unsent, n + 1, Len(Unsent))
    BY <1>5 DEF Chan!Deliver
  <2>2. sock = "open" /\ issued' = issued  BY <1>5 DEF Chan!Deliver
  <2>3. /\ wire' \in Seq(Nat) /\ Len(wire') = Len(wire) + n
        /\ Unsent' \in Seq(Nat) /\ Len(Unsent') = Len(Unsent) - n
        /\ \A i \in 1..Len(wire) : wire'[i] = wire[i]
        /\ \A i \in 1..n : wire'[Len(wire) + i] = Unsent[i]
        /\ \A i \in 1..Len(Unsent') : Unsent'[i] = Unsent[n + i]
    <3> DEFINE d == wire
               b == Unsent
               d2 == wire'
               b2 == Unsent'
    <3>1. /\ d \in Seq(Nat) /\ b \in Seq(Nat) /\ n \in 1..Len(b)
          /\ d2 = d \o SubSeq(b, 1, n) /\ b2 = SubSeq(b, n + 1, Len(b))
      BY <1>1, <2>1
    <3> HIDE DEF d, b, d2, b2
    <3>2. /\ d2 \in Seq(Nat) /\ Len(d2) = Len(d) + n
          /\ b2 \in Seq(Nat) /\ Len(b2) = Len(b) - n
          /\ \A i \in 1..Len(d) : d2[i] = d[i]
          /\ \A i \in 1..n : d2[Len(d) + i] = b[i]
          /\ \A i \in 1..Len(b2) : b2[i] = b[n + i]
      <4>1. /\ SubSeq(b, 1, n) \in Seq(Nat) /\ Len(SubSeq(b, 1, n)) = n
            /\ \A i \in 1..n : SubSeq(b, 1, n)[i] = b[i]
        BY <3>1
      <4>2. /\ b2 \in Seq(Nat) /\ Len(b2) = Len(b) - n
            /\ \A i \in 1..(Len(b) - n) : b2[i] = b[n + i]
        <5>1. Len(b) \in Nat /\ n \in Nat /\ n <= Len(b)  BY <3>1
        <5> QED  BY <3>1, <5>1, RestTypes
      <4> QED  BY <3>1, <4>1, <4>2
    <3> QED  BY <3>2 DEF d, b, d2, b2
  <2>4. \A i \in 1..Len(Unsent') : Unsent'[i] = issued' - Len(Unsent') + i
    <3> SUFFICES ASSUME NEW i \in 1..Len(Unsent')
                 PROVE  Unsent'[i] = issued' - Len(Unsent') + i
      OBVIOUS
    <3>1. n + i \in 1..Len(Unsent)  BY <1>2, <2>3
    <3>2. Unsent[n + i] = issued - Len(Unsent) + (n + i)  BY <3>1 DEF GaplessInv
    <3> QED  BY <1>1, <1>2, <2>2, <2>3, <3>2
  <2>5. \A i \in 1..Len(wire') : wire'[i] = issued' - Len(Unsent') - Len(wire') + i
    <3> SUFFICES ASSUME NEW i \in 1..Len(wire')
                 PROVE  wire'[i] = issued' - Len(Unsent') - Len(wire') + i
      OBVIOUS
    <3>1. CASE i <= Len(wire)
      <4>1. i \in 1..Len(wire)  BY <1>2, <2>3, <3>1
      <4>2. wire[i] = issued - Len(Unsent) - Len(wire) + i
        BY <2>2, <4>1 DEF GaplessInv
      <4> QED  BY <1>1, <1>2, <2>2, <2>3, <4>1, <4>2
    <3>2. CASE i > Len(wire)
      <4> DEFINE k == i - Len(wire)
      <4>1. k \in 1..n /\ k \in 1..Len(Unsent) /\ i = Len(wire) + k
        BY <1>2, <2>3, <3>2
      <4>2. Unsent[k] = issued - Len(Unsent) + k  BY <4>1 DEF GaplessInv
      <4>3. wire'[i] = Unsent[k]  BY <2>3, <4>1
      <4> QED  BY <1>1, <1>2, <2>2, <2>3, <4>2, <4>3
    <3> QED  BY <1>2, <2>3, <3>1, <3>2
  <2> QED  BY <1>1, <2>2, <2>3, <2>4, <2>5 DEF GaplessInv
<1>6. CASE Chan!Open
  <2>1. wire' = <<>> /\ issued' = issued /\ Unsent' = Unsent
    BY <1>6 DEF Chan!Open
  <2> QED  BY <2>1 DEF GaplessInv
<1>7. CASE Chan!Close
  <2>1. /\ ~(sock' = "open")
        /\ wire' = wire /\ issued' = issued /\ Unsent' = Unsent
    BY <1>7 DEF Chan!Close
  <2> QED  BY <2>1 DEF GaplessInv
<1>8. CASE Chan!Drop
  <2>1. /\ ~(sock' = "open")
        /\ wire' = wire /\ issued' = issued /\ Unsent' = <<>>
    BY <1>8 DEF Chan!Drop
  <2> QED  BY <2>1 DEF GaplessInv
<1> QED  BY <1>3, <1>4, <1>5, <1>6, <1>7, <1>8 DEF Chan!Next

\* What the peer was sent on the open connection, followed by what is still in the
\* buffers, is a gapless stretch of the accepted units that ends with the last one:
\* no unit is lost, doubled or overtaken anywhere between SendAsync and the peer.
THEOREM NothingIsSkipped == Spec => []Chan!Gapless
<1>1. Init => GaplessInv
  <2> SUFFICES ASSUME Init PROVE GaplessInv  OBVIOUS
  <2>1. issued = 0 /\ Unsent = <<>> /\ wire = <<>>  BY InitChan DEF Chan!Init
  <2> QED  BY <2>1 DEF GaplessInv
<1>2. GaplessInv /\ SendInv /\ SendInv' /\ [Next]_vars => GaplessInv'
  BY NextChan, NextGapless
<1>3. GaplessInv => Chan!Gapless
  <2> SUFFICES ASSUME GaplessInv, sock = "open"
               PROVE  \A i \in 1..Len(wire \o Unsent) :
                         (wire \o Unsent)[i] = issued - Len(wire \o Unsent) + i
    BY DEF Chan!Gapless
  <2>1. /\ issued \in Nat /\ Unsent \in Seq(Nat) /\ wire \in Seq(Nat)
        /\ Len(Unsent) \in Nat /\ Len(wire) \in Nat
        /\ \A i \in 1..Len(Unsent) : Unsent[i] = issued - Len(Unsent) + i
        /\ \A i \in 1..Len(wire) : wire[i] = issued - Len(Unsent) - Len(wire) + i
    BY DEF GaplessInv
  <2> HIDE DEF Unsent
  <2>2. Len(wire \o Unsent) = Len(wire) + Len(Unsent)  BY <2>1
  <2> SUFFICES ASSUME NEW i \in 1..(Len(wire) + Len(Unsent))
               PROVE  (wire \o Unsent)[i] = issued - (Len(wire) + Len(Unsent)) + i
    BY <2>2
  <2>3. CASE i <= Len(wire)
    <3>1. i \in 1..Len(wire) /\ (wire \o Unsent)[i] = wire[i]  BY <2>1, <2>3
    <3> QED  BY <2>1, <3>1
  <2>4. CASE i > Len(wire)
    <3> DEFINE k == i - Len(wire)
    <3>1. k \in 1..Len(Unsent) /\ (wire \o Unsent)[i] = Unsent[k]  BY <2>1, <2>4
    <3>2. Unsent[k] = issued - Len(Unsent) + k  BY <2>1, <3>1
    <3> QED  BY <2>1, <3>1, <3>2
  <2> QED  BY <2>1, <2>3, <2>4
<1> QED  BY <1>1, <1>2, <1>3, SendInvariant, PTL DEF Spec
=============================================================================
