--------------------------- MODULE TCPServerProofs ---------------------------
(***************************************************************************)
(* Proofs about TCPServer: one accept at a time and always one while it is *)
(* started, sessions that are registered while they are connected and read *)
(* until they are not, and a Stop that tells them all, for a server that   *)
(* one thread calls, any number of io_services, calls and accepts.         *)
(***************************************************************************)
EXTENDS TCPServer, SequenceTheorems, FiniteSetTheorems, TLAPS

-----------------------------------------------------------------------------
(* Lemmas about queues.                                                    *)

InQ(q, h) == \E i \in 1..Len(q) : q[i] = h

Commands == {"Start", "Stop", "Accepted"}
SessionOps == {"Read", "Disconnect", "Unregister"}

LEMMA HasIn == \A q, op : Has(q, op) <=> \E h : InQ(q, h) /\ h.op = op
BY DEF Has, InQ

LEMMA EmptyQueue ==
  /\ \A h : ~InQ(<<>>, h)
  /\ \A op : ~Has(<<>>, op) /\ Once(<<>>, op)
  /\ \A op, ops : NoneAfter(<<>>, op, ops)
BY DEF InQ, Has, Once, NoneAfter

LEMMA Concatenated ==
  ASSUME NEW T, NEW a \in Seq(T), NEW b \in Seq(T)
  PROVE  /\ a \o b \in Seq(T) /\ Len(a) \in Nat /\ Len(b) \in Nat
         /\ Len(a \o b) = Len(a) + Len(b)
         /\ \A i \in 1..Len(a) : (a \o b)[i] = a[i]
         /\ \A i \in 1..Len(b) : (a \o b)[Len(a) + i] = b[i]
<1>1. Len(a) \in Nat /\ Len(b) \in Nat /\ Len(a \o b) = Len(a) + Len(b)  OBVIOUS
<1>2. \A i \in 1..Len(a) : i \in 1..Len(a \o b)  BY <1>1
<1>3. \A i \in 1..Len(b) : /\ Len(a) + i \in 1..Len(a \o b) /\ ~(Len(a) + i <= Len(a))
                         /\ (Len(a) + i) - Len(a) = i
  BY <1>1
<1> QED  BY <1>1, <1>2, <1>3

\* A handler is taken from the queue q.
LEMMA QueueTail ==
  ASSUME NEW T, NEW q \in Seq(T), q # <<>>
  PROVE  /\ Tail(q) \in Seq(T) /\ Head(q) \in T
         /\ \A h : InQ(q, h) <=> h = Head(q) \/ InQ(Tail(q), h)
         /\ \A op : Once(q, op) => /\ Once(Tail(q), op)
                                   /\ Head(q).op = op => ~Has(Tail(q), op)
         /\ \A op, ops : NoneAfter(q, op, ops) =>
               /\ NoneAfter(Tail(q), op, ops)
               /\ Head(q).op = op => \A x \in ops : ~Has(Tail(q), x)
<1> DEFINE p == Tail(q)
<1>1. /\ p \in Seq(T) /\ Len(q) \in Nat /\ Len(q) > 0 /\ Head(q) = q[1] /\ q[1] \in T
      /\ Len(p) = Len(q) - 1 /\ \A i \in 1..Len(p) : p[i] = q[i + 1]
  OBVIOUS
<1> HIDE DEF p
<1>2. /\ 1 \in 1..Len(q)
      /\ \A i \in 1..Len(p) : i + 1 \in 1..Len(q) /\ i + 1 # 1 /\ 1 < i + 1
      /\ \A i \in 1..Len(q) : i # 1 => i - 1 \in 1..Len(p) /\ (i - 1) + 1 = i
  BY <1>1
<1>3. ASSUME NEW h PROVE InQ(q, h) <=> h = Head(q) \/ InQ(p, h)
  <2>1. ASSUME InQ(q, h) PROVE h = Head(q) \/ InQ(p, h)
    <3>1. PICK i \in 1..Len(q) : q[i] = h  BY <2>1 DEF InQ
    <3>2. i # 1 => i - 1 \in 1..Len(p) /\ p[i - 1] = q[i]  BY <1>1, <1>2
    <3> QED  BY <1>1, <3>1, <3>2 DEF InQ
  <2>2. InQ(p, h) => InQ(q, h)  BY <1>1, <1>2 DEF InQ
  <2>3. h = Head(q) => InQ(q, h)  BY <1>1, <1>2 DEF InQ
  <2> QED  BY <2>1, <2>2, <2>3
<1>4. ASSUME NEW op, Once(q, op)
      PROVE  Once(p, op) /\ (Head(q).op = op => ~Has(p, op))
  <2>1. Once(p, op)
    <3> SUFFICES ASSUME NEW i \in 1..Len(p), NEW j \in 1..Len(p), p[i].op = op, p[j].op = op
                 PROVE  i = j
      BY DEF Once
    <3> DEFINE x == i + 1  y == j + 1
    <3>1. /\ x \in 1..Len(q) /\ q[x].op = op
          /\ y \in 1..Len(q) /\ q[y].op = op
      BY <1>1, <1>2
    <3> HIDE DEF x, y
    <3>2. x = y  BY <1>4, <3>1 DEF Once
    <3> QED  BY <3>2 DEF x, y
  <2>2. ASSUME Head(q).op = op, NEW i \in 1..Len(p), p[i].op = op PROVE FALSE
    <3>1. i + 1 = 1  BY <1>1, <1>2, <1>4, <2>2 DEF Once
    <3> QED  BY <3>1
  <2> QED  BY <2>1, <2>2 DEF Has
<1>5. ASSUME NEW op, NEW ops, NoneAfter(q, op, ops)
      PROVE  /\ NoneAfter(p, op, ops)
             /\ Head(q).op = op => \A x \in ops : ~Has(p, x)
  <2>1. NoneAfter(p, op, ops)
    <3> SUFFICES ASSUME NEW i \in 1..Len(p), NEW j \in 1..Len(p), i < j, p[i].op = op
                 PROVE  p[j].op \notin ops
      BY DEF NoneAfter
    <3>1. i + 1 < j + 1  OBVIOUS
    <3> QED  BY <1>1, <1>2, <1>5, <3>1 DEF NoneAfter
  <2>2. ASSUME Head(q).op = op, NEW i \in 1..Len(p), p[i].op \in ops PROVE FALSE
    BY <1>1, <1>2, <1>5, <2>2 DEF NoneAfter
  <2> QED  BY <2>1, <2>2 DEF Has
<1> QED  BY <1>1, <1>3, <1>4, <1>5 DEF p

\* Handlers b are put behind those of the queue a.
LEMMA QueueConcat ==
  ASSUME NEW T, NEW a \in Seq(T), NEW b \in Seq(T)
  PROVE  /\ a \o b \in Seq(T)
         /\ \A h : InQ(a \o b, h) <=> InQ(a, h) \/ InQ(b, h)
         /\ \A op : /\ Once(a, op) /\ ~Has(b, op) => Once(a \o b, op)
                    /\ ~Has(a, op) /\ Once(b, op) => Once(a \o b, op)
         /\ \A op, ops :
               /\ NoneAfter(a, op, ops) /\ (\A x \in ops : ~Has(b, x))
                     => NoneAfter(a \o b, op, ops)
               /\ ~Has(a, op) /\ NoneAfter(b, op, ops) => NoneAfter(a \o b, op, ops)
<1> DEFINE p == a \o b  m == Len(a)  n == Len(b)
<1>1. /\ p \in Seq(T) /\ m \in Nat /\ n \in Nat /\ Len(p) = m + n
      /\ \A i \in 1..m : p[i] = a[i]
      /\ \A i \in 1..n : p[m + i] = b[i]
  BY Concatenated
<1> HIDE DEF p, m, n
<1>2. /\ \A i \in 1..m : i \in 1..Len(p)
      /\ \A i \in 1..n : m + i \in 1..Len(p)
      /\ \A i \in 1..Len(p) : i \in 1..m \/ (i - m \in 1..n /\ m + (i - m) = i)
  BY <1>1
<1>3. \A i \in 1..Len(p) : \/ i \in 1..m /\ p[i] = a[i]
                           \/ i - m \in 1..n /\ p[i] = b[i - m]
  <2> TAKE i \in 1..Len(p)
  <2>1. CASE i \in 1..m  BY <1>1, <2>1
  <2>2. CASE i - m \in 1..n /\ m + (i - m) = i
    <3> DEFINE k == i - m
    <3>1. k \in 1..n /\ m + k = i  BY <2>2
    <3> HIDE DEF k
    <3>2. p[i] = b[k]  BY <1>1, <3>1
    <3> QED  BY <3>1, <3>2 DEF k
  <2> QED  BY <1>2, <2>1, <2>2
<1>4. ASSUME NEW h PROVE InQ(p, h) <=> InQ(a, h) \/ InQ(b, h)
  <2>1. InQ(p, h) => InQ(a, h) \/ InQ(b, h)  BY <1>3 DEF InQ, m, n
  <2>2. InQ(a, h) => InQ(p, h)  BY <1>1, <1>2 DEF InQ, m
  <2>3. InQ(b, h) => InQ(p, h)
    <3> SUFFICES ASSUME NEW i \in 1..n, b[i] = h PROVE InQ(p, h)
      BY DEF InQ, n
    <3>1. m + i \in 1..Len(p) /\ p[m + i] = h  BY <1>1, <1>2
    <3> QED  BY <3>1 DEF InQ
  <2> QED  BY <2>1, <2>2, <2>3
<1>5. ASSUME NEW op, Once(a, op), ~Has(b, op) PROVE Once(p, op)
  BY <1>3, <1>5 DEF Once, Has, m, n
<1>6. ASSUME NEW op, ~Has(a, op), Once(b, op) PROVE Once(p, op)
  <2> SUFFICES ASSUME NEW i \in 1..Len(p), NEW j \in 1..Len(p), p[i].op = op, p[j].op = op
               PROVE  i = j
    BY DEF Once
  <2>1. i - m \in 1..n /\ j - m \in 1..n /\ b[i - m].op = op /\ b[j - m].op = op
    BY <1>3, <1>6 DEF Has, m
  <2>2. i - m = j - m  BY <1>6, <2>1 DEF Once, n
  <2> QED  BY <1>1, <2>2
<1>7. ASSUME NEW op, NEW ops, NoneAfter(a, op, ops), \A x \in ops : ~Has(b, x)
      PROVE  NoneAfter(p, op, ops)
  <2> SUFFICES ASSUME NEW i \in 1..Len(p), NEW j \in 1..Len(p), i < j, p[i].op = op,
                      p[j].op \in ops
               PROVE  FALSE
    BY DEF NoneAfter
  <2>1. j \in 1..m /\ p[j] = a[j]  BY <1>3, <1>7 DEF Has, n
  <2>2. i \in 1..m  BY <1>1, <2>1
  <2>3. p[i] = a[i]  BY <1>1, <2>2
  <2> QED  BY <1>7, <2>1, <2>2, <2>3 DEF NoneAfter, m
<1>8. ASSUME NEW op, NEW ops, ~Has(a, op), NoneAfter(b, op, ops)
      PROVE  NoneAfter(p, op, ops)
  <2> SUFFICES ASSUME NEW i \in 1..Len(p), NEW j \in 1..Len(p), i < j, p[i].op = op,
                      p[j].op \in ops
               PROVE  FALSE
    BY DEF NoneAfter
  <2>1. i - m \in 1..n /\ p[i] = b[i - m]  BY <1>3, <1>8 DEF Has, m
  <2>2. j \notin 1..m  BY <1>1, <2>1
  <2>3. j - m \in 1..n /\ p[j] = b[j - m]  BY <1>3, <2>2
  <2>4. i - m < j - m  BY <1>1
  <2> QED  BY <1>8, <2>1, <2>3, <2>4 DEF NoneAfter, n
<1> QED  BY <1>1, <1>4, <1>5, <1>6, <1>7, <1>8 DEF p

\* A single handler.
LEMMA Single ==
  ASSUME NEW h
  PROVE  /\ \A x : InQ(<<h>>, x) <=> x = h
         /\ \A op : Once(<<h>>, op) /\ (Has(<<h>>, op) <=> h.op = op)
         /\ \A op, ops : NoneAfter(<<h>>, op, ops)
<1>1. \A x : Len(<<x>>) = 1 /\ <<x>>[1] = x  OBVIOUS
<1> DEFINE q == <<h>>
<1>2. Len(q) = 1 /\ q[1] = h  BY <1>1
<1> HIDE DEF q
<1>3. \A i \in 1..Len(q) : i = 1  BY <1>2
<1>4. 1 \in 1..Len(q)  BY <1>2
<1>5. /\ \A x : InQ(q, x) <=> x = h
      /\ \A op : Once(q, op) /\ (Has(q, op) <=> h.op = op)
  BY <1>2, <1>3, <1>4 DEF InQ, Once, Has
<1>6. \A op, ops : NoneAfter(q, op, ops)
  BY <1>3 DEF NoneAfter
<1> QED  BY <1>5, <1>6 DEF q

-----------------------------------------------------------------------------
(* Lemmas about the state.                                                 *)

LEMMA ServerThreadType == ServerThread \in IoThreads
BY ServerThreads DEF IoThreads

LEMMA ThreadOfType == \A s \in Sessions : ThreadOf(s) \in IoThreads
BY ServerThreads, ServerBounds DEF ThreadOf, IoThreads, Sessions, Bound

LEMMA BoundType == Bound \in Nat /\ MaxCalls \in Nat /\ MaxAccepts \in Nat
BY ServerBounds DEF Bound

LEMMA HandlerTypes ==
  /\ \A name \in {"Start", "Stop", "DisconnectAll"} :
        Call(name) \in Handlers /\ Call(name).op = name
  /\ \A ok \in BOOLEAN : Accepted(ok) \in Handlers /\ Accepted(ok).op = "Accepted"
  /\ \A s \in Sessions, ok \in BOOLEAN :
        Read(s, ok) \in Handlers /\ Read(s, ok).op = "Read" /\ Read(s, ok).session = s
  /\ \A s \in Sessions, name \in {"Disconnect", "Unregister"} :
        On(s, name) \in Handlers /\ On(s, name).op = name /\ On(s, name).session = s
<1>1. \A name \in {"Start", "Stop", "DisconnectAll"} :
         Call(name) \in Handlers /\ Call(name).op = name
  BY DEF Call, Handlers
<1>2. \A ok \in BOOLEAN : Accepted(ok) \in Handlers /\ Accepted(ok).op = "Accepted"
  BY DEF Accepted, Handlers
<1>3. \A s \in Sessions, ok \in BOOLEAN :
         Read(s, ok) \in Handlers /\ Read(s, ok).op = "Read" /\ Read(s, ok).session = s
  BY DEF Read, Handlers
<1>4. \A s \in Sessions, name \in {"Disconnect", "Unregister"} :
         On(s, name) \in Handlers /\ On(s, name).op = name /\ On(s, name).session = s
  BY DEF On, Handlers
<1> QED  BY <1>1, <1>2, <1>3, <1>4

\* What a handler of each kind is.
LEMMA HandlerShapes ==
  \A h \in Handlers :
     /\ h.op \in Commands \cup SessionOps \cup {"DisconnectAll"}
     /\ h.op \in SessionOps => h.session \in Sessions
     /\ h.op = "Read" => h.ok \in BOOLEAN /\ h = Read(h.session, h.ok)
     /\ h.op \in {"Disconnect", "Unregister"} => h = On(h.session, h.op)
     /\ h.op = "Accepted" => h.ok \in BOOLEAN
<1> SUFFICES ASSUME NEW h \in Handlers
             PROVE  /\ h.op \in Commands \cup SessionOps \cup {"DisconnectAll"}
                    /\ h.op \in SessionOps => h.session \in Sessions
                    /\ h.op = "Read" => h.ok \in BOOLEAN /\ h = Read(h.session, h.ok)
                    /\ h.op \in {"Disconnect", "Unregister"} => h = On(h.session, h.op)
                    /\ h.op = "Accepted" => h.ok \in BOOLEAN
  OBVIOUS
<1>1. CASE h \in [op : {"Start", "Stop", "DisconnectAll"}]
  BY <1>1 DEF Commands, SessionOps
<1>2. CASE h \in [op : {"Accepted"}, ok : BOOLEAN]
  BY <1>2 DEF Commands, SessionOps
<1>3. CASE h \in [op : {"Read"}, session : Sessions, ok : BOOLEAN]
  BY <1>3 DEF Commands, SessionOps, Read
<1>4. CASE h \in [op : {"Disconnect", "Unregister"}, session : Sessions]
  BY <1>4 DEF Commands, SessionOps, On
<1> QED  BY <1>1, <1>2, <1>3, <1>4 DEF Handlers

LEMMA TakenQueue ==
  ASSUME TypeOK, NEW t \in IoThreads, queue[t] # <<>>
  PROVE  /\ Taken(t) \in [IoThreads -> Seq(Handlers)]
         /\ Taken(t)[t] = Tail(queue[t])
         /\ \A x \in IoThreads : x # t => Taken(t)[x] = queue[x]
         /\ First(t) \in Handlers
         /\ \A x \in IoThreads : \A h :
               InQ(queue[x], h) <=> InQ(Taken(t)[x], h) \/ (x = t /\ h = First(t))
<1>1. queue \in [IoThreads -> Seq(Handlers)] /\ queue[t] \in Seq(Handlers)  BY DEF TypeOK
<1>2. /\ Tail(queue[t]) \in Seq(Handlers) /\ First(t) \in Handlers
      /\ \A h : InQ(queue[t], h) <=> h = First(t) \/ InQ(Tail(queue[t]), h)
  BY <1>1, QueueTail DEF First
<1>3. /\ Taken(t) \in [IoThreads -> Seq(Handlers)] /\ Taken(t)[t] = Tail(queue[t])
      /\ \A x \in IoThreads : x # t => Taken(t)[x] = queue[x]
  BY <1>1, <1>2 DEF Taken
<1> QED  BY <1>2, <1>3

LEMMA PutQueue ==
  ASSUME NEW q \in [IoThreads -> Seq(Handlers)], NEW t \in IoThreads, NEW b \in Seq(Handlers)
  PROVE  /\ Put(q, t, b) \in [IoThreads -> Seq(Handlers)]
         /\ Put(q, t, b)[t] = q[t] \o b
         /\ \A x \in IoThreads : x # t => Put(q, t, b)[x] = q[x]
         /\ \A x \in IoThreads : \A h :
               InQ(Put(q, t, b)[x], h) <=> InQ(q[x], h) \/ (x = t /\ InQ(b, h))
<1>1. /\ q[t] \o b \in Seq(Handlers)
      /\ \A h : InQ(q[t] \o b, h) <=> InQ(q[t], h) \/ InQ(b, h)
  BY QueueConcat
<1>2. /\ Put(q, t, b) \in [IoThreads -> Seq(Handlers)] /\ Put(q, t, b)[t] = q[t] \o b
      /\ \A x \in IoThreads : x # t => Put(q, t, b)[x] = q[x]
  BY <1>1 DEF Put
<1> QED  BY <1>1, <1>2

\* A step that adds or takes no command leaves their order alone.
LEMMA CommandsKept ==
  ASSUME ServerInv, started' = started, stopping' = stopping, accepts' = accepts,
         created' = created, todo' = todo, calls' = calls, accepted' = accepted,
         crashed' = crashed,
         \A op \in Commands : Has(queue'[ServerThread], op) <=> Has(Serving, op),
         Once(Serving, "Accepted") => Once(queue'[ServerThread], "Accepted"),
         \A op, ops : NoneAfter(Serving, op, ops) /\ ops \subseteq Commands
                         => NoneAfter(queue'[ServerThread], op, ops)
  PROVE  StackInv' /\ CommandInv' /\ AcceptInv' /\ CountInv'
<1>1. StackInv'  BY DEF ServerInv, StackInv
<1>2. \A u \in Users : At(u)' = At(u)  BY DEF At
<1>3. /\ NoneAfter(Serving, "Stop", {"Start"}) => NoneAfter(queue'[ServerThread], "Stop", {"Start"})
      /\ NoneAfter(Serving, "Start", {"Stop", "Accepted"})
            => NoneAfter(queue'[ServerThread], "Start", {"Stop", "Accepted"})
      /\ Has(queue'[ServerThread], "Start") <=> Has(Serving, "Start")
      /\ Has(queue'[ServerThread], "Stop") <=> Has(Serving, "Stop")
      /\ Has(queue'[ServerThread], "Accepted") <=> Has(Serving, "Accepted")
  BY DEF Commands
<1>4. Serving' = queue'[ServerThread]  BY DEF Serving
<1>5. CommandInv'  BY <1>2, <1>3, <1>4 DEF ServerInv, CommandInv
<1>6. AcceptInv'  BY <1>3, <1>4 DEF ServerInv, AcceptInv
<1>7. CountInv'  BY <1>2, <1>3, <1>4 DEF ServerInv, CountInv
<1> QED  BY <1>1, <1>5, <1>6, <1>7

\* Fresh and Queued in terms of InQ.
LEMMA InQueue ==
  /\ \A t, h : Queued(t, h) <=> InQ(queue[t], h)
  /\ \A s : Fresh(s) <=> /\ s \notin sessions \cup connected \cup reading
                        /\ \A t \in IoThreads : \A h : InQ(queue[t], h) => ~IsOf(h, s)
BY DEF Queued, Fresh, InQ

LEMMA InNextQueue ==
  /\ \A t, h : Queued(t, h)' <=> InQ(queue'[t], h)
  /\ \A s : Fresh(s)' <=> /\ s \notin sessions' \cup connected' \cup reading'
                         /\ \A t \in IoThreads : \A h : InQ(queue'[t], h) => ~IsOf(h, s)
BY DEF Queued, Fresh, InQ

\* A step that leaves the sessions and their handlers alone.
LEMMA SessionsKept ==
  ASSUME ServerInv, sessions' = sessions, connected' = connected, reading' = reading,
         crashed' = crashed,
         stopping' = <<"ClearStarted">> => stopping = <<"ClearStarted">>,
         \A t \in IoThreads : \A h : h.op \in SessionOps => (InQ(queue'[t], h) <=> InQ(queue[t], h))
  PROVE  SessionInv' /\ ToldInv' /\ \A s : Fresh(s) => Fresh(s)'
<1>1. \A s : Fresh(s) => Fresh(s)'
  BY InQueue, InNextQueue DEF IsOf, SessionOps
<1>2. /\ \A s \in Sessions : ThreadOf(s) \in IoThreads
      /\ ServerThread \in IoThreads /\ connected \subseteq Sessions /\ sessions \subseteq Sessions
  BY ThreadOfType, ServerThreadType DEF ServerInv, TypeOK
<1>3. \A s \in Sessions :
         /\ Queued(ServerThread, On(s, "Unregister"))' <=> Queued(ServerThread, On(s, "Unregister"))
         /\ Queued(ThreadOf(s), On(s, "Disconnect"))' <=> Queued(ThreadOf(s), On(s, "Disconnect"))
         /\ \A ok \in BOOLEAN : Queued(ThreadOf(s), Read(s, ok))' <=> Queued(ThreadOf(s), Read(s, ok))
  <2> TAKE s \in Sessions
  <2>1. /\ On(s, "Unregister").op \in SessionOps /\ On(s, "Disconnect").op \in SessionOps
        /\ \A ok \in BOOLEAN : Read(s, ok).op \in SessionOps
    BY HandlerTypes DEF SessionOps
  <2> QED  BY <1>2, <2>1, InQueue, InNextQueue
<1>4. SessionsAreAlive' /\ ClientIsWatched'
  BY <1>2, <1>3 DEF ServerInv, SessionInv, SessionsAreAlive, ClientIsWatched
<1>5. SessionInv'
  BY <1>2, <1>3, <1>4 DEF ServerInv, SessionInv
<1>6. ToldInv'
  BY <1>2, <1>3 DEF ServerInv, ToldInv
<1> QED  BY <1>1, <1>5, <1>6

\* A step that accepts nothing.
LEMMA FreshKept ==
  ASSUME ServerInv, created' = created,
         accepts' # {} \/ Has(queue'[ServerThread], "Accepted")
            => accepts # {} \/ Has(Serving, "Accepted"),
         \A s \in Sessions \cup {created} : Fresh(s) => Fresh(s)'
  PROVE  FreshInv'
BY DEF ServerInv, FreshInv, Serving

-----------------------------------------------------------------------------
(* Calls.                                                                  *)

CallNames == {"Start", "Stop", "DisconnectAll", "AwaitStopped", "StartAgain"}

NextOf(s) == IF s = <<>> THEN "Idle" ELSE Head(s)
Restarts(s) == s # <<>> /\ s[Len(s)] = "StartAgain"

LEMMA CallStackFacts ==
  \A s \in CallStacks :
     /\ s \in Seq(CallNames)
     /\ s # <<>> => /\ Head(s) \in CallNames
                    /\ Tail(s) \in CallStacks
                    /\ NextOf(Tail(s)) \in {"Idle", "AwaitStopped", "StartAgain"}
                    /\ Restarts(Tail(s)) => Restarts(s)
                    /\ Head(s) \in {"Start", "DisconnectAll"} => Tail(s) = <<>> /\ ~Restarts(s)
                    /\ Head(s) = "StartAgain" => Restarts(s)
<1> SUFFICES ASSUME NEW s \in CallStacks
             PROVE  /\ s \in Seq(CallNames)
                    /\ s # <<>> =>
                          /\ Head(s) \in CallNames
                          /\ Tail(s) \in CallStacks
                          /\ NextOf(Tail(s)) \in {"Idle", "AwaitStopped", "StartAgain"}
                          /\ Restarts(Tail(s)) => Restarts(s)
                          /\ Head(s) \in {"Start", "DisconnectAll"} => Tail(s) = <<>> /\ ~Restarts(s)
                          /\ Head(s) = "StartAgain" => Restarts(s)
  OBVIOUS
<1>1. CASE s = <<>>  BY <1>1
<1>2. CASE s \in {<<"Start">>, <<"Stop">>, <<"DisconnectAll">>, <<"StartAgain">>}
  <2>1. PICK x \in {"Start", "Stop", "DisconnectAll", "StartAgain"} : s = <<x>>
    BY <1>2
  <2>2. s \in Seq(CallNames) /\ s # <<>> /\ Head(s) = x /\ Tail(s) = <<>> /\ s[Len(s)] = x
    BY <2>1 DEF CallNames
  <2>3. NextOf(<<>>) = "Idle" /\ ~Restarts(<<>>) /\ (Restarts(s) <=> x = "StartAgain")
    BY <2>2 DEF NextOf, Restarts
  <2>4. <<>> \in CallStacks /\ x \in CallNames  BY DEF CallStacks, CallNames
  <2> HIDE DEF CallStacks
  <2> QED  BY <2>2, <2>3, <2>4
<1>3. CASE s = <<"AwaitStopped", "StartAgain">>
  <2>1. s \in Seq(CallNames) /\ s # <<>> /\ Head(s) = "AwaitStopped" /\ s[Len(s)] = "StartAgain"
    BY <1>3 DEF CallNames
  <2>2. Tail(s) = <<"StartAgain">>  BY <1>3
  <2>3. Head(<<"StartAgain">>) = "StartAgain" /\ <<"StartAgain">> # <<>>
    OBVIOUS
  <2> QED  BY <2>1, <2>2, <2>3 DEF NextOf, Restarts, CallStacks, CallNames
<1>4. CASE s = <<"Stop", "AwaitStopped", "StartAgain">>
  <2>1. s \in Seq(CallNames) /\ s # <<>> /\ Head(s) = "Stop" /\ s[Len(s)] = "StartAgain"
    BY <1>4 DEF CallNames
  <2>2. Tail(s) = <<"AwaitStopped", "StartAgain">>  BY <1>4
  <2>3. /\ Head(<<"AwaitStopped", "StartAgain">>) = "AwaitStopped"
        /\ <<"AwaitStopped", "StartAgain">> # <<>>
    OBVIOUS
  <2> QED  BY <2>1, <2>2, <2>3 DEF NextOf, Restarts, CallStacks, CallNames
<1> QED  BY <1>1, <1>2, <1>3, <1>4 DEF CallStacks

LEMMA AtNext == \A u : At(u) = NextOf(todo[u])
BY DEF At, NextOf

LEMMA AtNextStep == \A u : At(u)' = NextOf(todo'[u])
BY DEF At, NextOf

\* The parts of CountInv.
Calling(u) == \/ Restarts(todo[u])
              \/ ~started /\ Has(Serving, "Start")
              \/ ~started /\ At(u) = "Start"
Ending == started /\ stopping = <<>> /\ Has(Serving, "Accepted")

LEMMA Counted ==
  ASSUME NEW u, Users = {u}
  PROVE  CountInv <=>
            /\ created + (IF Calling(u) THEN 1 ELSE 0) + (IF Ending THEN 1 ELSE 0)
                  <= calls + accepted
            /\ started \/ Has(Serving, "Accepted") => created >= 1
<1>1. (\E x \in Users : todo[x] # <<>> /\ todo[x][Len(todo[x])] = "StartAgain")
         <=> Restarts(todo[u])
  BY DEF Restarts
<1>2. (\E x \in Users : At(x) = "Start") <=> At(u) = "Start"
  OBVIOUS
<1> QED  BY <1>1, <1>2 DEF CountInv, Calling, Ending

\* A step that creates nothing and sets nothing more aside.
LEMMA CountKept ==
  ASSUME NEW u, Users = {u}, ServerInv, created' = created, calls' = calls,
         accepted' = accepted,
         Calling(u)' => Calling(u), Ending' => Ending,
         started' \/ Has(Serving', "Accepted") => started \/ Has(Serving, "Accepted")
  PROVE  CountInv'
<1>1. created \in Nat /\ calls \in Nat /\ accepted \in Nat
  BY BoundType DEF ServerInv, TypeOK
<1>2. CountInv' <=>
         /\ created' + (IF Calling(u)' THEN 1 ELSE 0) + (IF Ending' THEN 1 ELSE 0)
               <= calls' + accepted'
         /\ started' \/ Has(Serving', "Accepted") => created' >= 1
  <2>1. Users' = Users  OBVIOUS
  <2>2. (\E x \in Users : todo'[x] # <<>> /\ todo'[x][Len(todo'[x])] = "StartAgain")
           <=> Restarts(todo'[u])
    BY DEF Restarts
  <2>3. (\E x \in Users : At(x)' = "Start") <=> At(u)' = "Start"
    OBVIOUS
  <2> QED  BY <2>2, <2>3 DEF CountInv, Calling, Ending
<1>3. /\ created + (IF Calling(u) THEN 1 ELSE 0) + (IF Ending THEN 1 ELSE 0)
            <= calls + accepted
      /\ started \/ Has(Serving, "Accepted") => created >= 1
  BY Counted DEF ServerInv
<1> QED  BY <1>1, <1>2, <1>3

\* A call begins.
LEMMA EnterKeeps ==
  ASSUME NEW u, Users = {u}, ServerInv, NEW steps \in CallStacks, Enter(u, steps),
         NextOf(steps) \in {"Start", "Stop", "DisconnectAll"},
         NextOf(steps) = "Start" => ~started,
         NextOf(steps) = "Stop" => started
  PROVE  ServerInv'
<1>1. TypeOK /\ StackInv  BY DEF ServerInv
<1>2. /\ started' = started /\ accepts' = accepts /\ created' = created /\ detached' = detached
      /\ sessions' = sessions /\ connected' = connected /\ reading' = reading /\ queue' = queue
      /\ stopping' = stopping /\ crashed' = crashed /\ accepted' = accepted
      /\ calls' = calls + 1 /\ calls < MaxCalls /\ todo[u] = <<>>
      /\ todo' = [todo EXCEPT ![u] = steps]
  BY DEF Enter
<1>3. todo' \in [Users -> Seq(CallNames)] /\ todo'[u] = steps
  BY <1>1, <1>2, CallStackFacts DEF TypeOK, CallNames
<1>4. TypeOK'
  <2>1. calls' \in 0..MaxCalls  BY <1>1, <1>2, BoundType DEF TypeOK
  <2> QED  BY <1>1, <1>2, <1>3, <2>1 DEF TypeOK, CallNames
<1>5. StackInv'  BY <1>1, <1>2, <1>3 DEF StackInv
<1>6. At(u)' = NextOf(steps) /\ Serving' = Serving  BY <1>2, <1>3, AtNextStep DEF Serving
<1>7. CommandInv'
  BY <1>2, <1>6 DEF ServerInv, CommandInv
<1>8. AcceptInv'  BY <1>2, <1>6 DEF ServerInv, AcceptInv
<1>9. CountInv'
  <2>1. created \in Nat /\ calls \in Nat /\ accepted \in Nat
    BY <1>1, BoundType DEF TypeOK
  <2> QED  BY <1>2, <1>6, <2>1 DEF ServerInv, CountInv
<1>10. FreshInv' /\ SessionInv' /\ ToldInv'
  BY <1>2, SessionsKept, FreshKept DEF Serving
<1> QED  BY <1>4, <1>5, <1>7, <1>8, <1>9, <1>10 DEF ServerInv

LEMMA UserCallKeeps ==
  ASSUME NEW u, Users = {u}, ServerInv, UserCall(u)
  PROVE  ServerInv'
<1> DEFINE again == <<"Stop", "AwaitStopped", "StartAgain">>
<1>1. /\ <<"Start">> \in CallStacks /\ <<"Stop">> \in CallStacks
      /\ <<"DisconnectAll">> \in CallStacks /\ again \in CallStacks
  BY DEF CallStacks
<1>2. \A x : NextOf(<<x>>) = x  BY DEF NextOf
<1>3. NextOf(again) = "Stop"  BY DEF NextOf
<1> HIDE DEF again
<1>4. CASE Start(u)
  <2>1. ~started /\ Enter(u, <<"Start">>)  BY <1>4 DEF Start
  <2>2. NextOf(<<"Start">>) = "Start"  BY <1>2
  <2> QED  BY <1>1, <2>1, <2>2, EnterKeeps
<1>5. CASE Stop(u)
  <2>1. started /\ Enter(u, <<"Stop">>)  BY <1>5 DEF Stop
  <2>2. NextOf(<<"Stop">>) = "Stop"  BY <1>2
  <2> QED  BY <1>1, <2>1, <2>2, EnterKeeps
<1>6. CASE DisconnectAll(u)
  <2>1. Enter(u, <<"DisconnectAll">>)  BY <1>6 DEF DisconnectAll
  <2>2. NextOf(<<"DisconnectAll">>) = "DisconnectAll"  BY <1>2
  <2> QED  BY <1>1, <2>1, <2>2, EnterKeeps
<1>7. CASE Restart(u)
  <2>1. started /\ Enter(u, again)  BY <1>7 DEF Restart, again
  <2> QED  BY <1>1, <1>3, <2>1, EnterKeeps
<1> QED  BY <1>4, <1>5, <1>6, <1>7 DEF UserCall

LEMMA PostKeeps ==
  ASSUME NEW u, Users = {u}, ServerInv, Post(u)
  PROVE  ServerInv'
<1>1. TypeOK /\ StackInv  BY DEF ServerInv
<1>2. /\ started' = started /\ accepts' = accepts /\ created' = created /\ detached' = detached
      /\ sessions' = sessions /\ connected' = connected /\ reading' = reading
      /\ stopping' = stopping /\ crashed' = crashed /\ accepted' = accepted /\ calls' = calls
      /\ todo' = [todo EXCEPT ![u] = Tail(todo[u])]
  BY <1>1 DEF Post, TypeOK
<1>3. PICK name \in {"Start", "Stop", "DisconnectAll"} :
         Goto(u, name) /\ queue' = Put(queue, ServerThread, <<Call(name)>>)
  BY DEF Post
<1>4. todo[u] # <<>> /\ Head(todo[u]) = name /\ todo[u] \in CallStacks
  BY <1>1, <1>3 DEF Goto, StackInv
<1> DEFINE s == todo[u]  p == Tail(todo[u])  b == <<Call(name)>>  q == queue'[ServerThread]
<1>5. /\ p \in CallStacks /\ p \in Seq(CallNames)
      /\ NextOf(s) = name /\ NextOf(p) \in {"Idle", "AwaitStopped", "StartAgain"}
      /\ name = "Start" => ~Restarts(s) /\ NextOf(p) = "Idle"
      /\ Restarts(p) => Restarts(s)
      /\ name = "DisconnectAll" => NextOf(p) = "Idle"
  <2>1. NextOf(<<>>) = "Idle"  BY DEF NextOf
  <2>2. NextOf(s) = name  BY <1>4 DEF NextOf
  <2> QED  BY <1>4, <2>1, <2>2, CallStackFacts
<1>6. todo' \in [Users -> Seq(CallNames)] /\ todo'[u] = p
  BY <1>1, <1>2, <1>5 DEF TypeOK, CallNames
<1>7. At(u) = name /\ At(u)' = NextOf(p)
  BY <1>5, <1>6, AtNext, AtNextStep
<1> HIDE DEF p, s
<1>8. /\ Call(name) \in Handlers /\ Call(name).op = name /\ b \in Seq(Handlers)
      /\ queue \in [IoThreads -> Seq(Handlers)] /\ Serving \in Seq(Handlers)
  BY <1>1, HandlerTypes, ServerThreadType DEF TypeOK, Serving
<1>9. /\ queue' \in [IoThreads -> Seq(Handlers)] /\ q = Serving \o b
      /\ \A x \in IoThreads : \A h :
            InQ(queue'[x], h) <=> InQ(queue[x], h) \/ (x = ServerThread /\ InQ(b, h))
  BY <1>3, <1>8, PutQueue, ServerThreadType DEF Serving
<1>10. /\ \A h : InQ(b, h) <=> h = Call(name)
       /\ \A op : Has(b, op) <=> op = name
       /\ \A op : Once(b, op)
       /\ \A op, ops : NoneAfter(b, op, ops)
  BY <1>8, Single
<1> HIDE DEF b
<1>11. /\ \A h : InQ(q, h) <=> InQ(Serving, h) \/ InQ(b, h)
       /\ \A op : Once(Serving, op) /\ ~Has(b, op) => Once(q, op)
       /\ \A op, ops : /\ NoneAfter(Serving, op, ops) /\ (\A x \in ops : ~Has(b, x))
                            => NoneAfter(q, op, ops)
                       /\ ~Has(Serving, op) /\ NoneAfter(b, op, ops) => NoneAfter(q, op, ops)
  BY <1>8, <1>9, QueueConcat
<1>12. \A op : Has(q, op) <=> Has(Serving, op) \/ op = name
  BY <1>10, <1>11, HasIn
<1>13. /\ Once(q, "Accepted") /\ (Has(q, "Accepted") <=> Has(Serving, "Accepted"))
       /\ started => NoneAfter(q, "Stop", {"Start"})
       /\ ~started => NoneAfter(q, "Start", {"Stop", "Accepted"})
       /\ Has(q, "Start") <=> Has(Serving, "Start") \/ name = "Start"
       /\ Has(q, "Stop") <=> Has(Serving, "Stop") \/ name = "Stop"
  <2>1. Once(Serving, "Accepted")  BY DEF ServerInv, AcceptInv
  <2>2. started => NoneAfter(Serving, "Stop", {"Start"}) /\ (name = "Start" => ~Has(Serving, "Stop"))
    BY <1>7 DEF ServerInv, CommandInv
  <2>3. ~started => /\ NoneAfter(Serving, "Start", {"Stop", "Accepted"})
                    /\ name = "Stop" => ~Has(Serving, "Start")
    BY <1>7 DEF ServerInv, CommandInv
  <2>4. started => NoneAfter(q, "Stop", {"Start"})
    BY <1>10, <1>11, <2>2
  <2>5. ~started => NoneAfter(q, "Start", {"Stop", "Accepted"})
    BY <1>10, <1>11, <2>3
  <2> QED  BY <1>10, <1>11, <1>12, <2>1, <2>4, <2>5
<1>14. Serving' = q  BY DEF Serving
<1> HIDE DEF q
<1>15. TypeOK'
  BY <1>1, <1>2, <1>6, <1>9 DEF TypeOK, CallNames
<1>16. StackInv'  BY <1>1, <1>2, <1>5, <1>6 DEF StackInv
<1>17. CommandInv'
  BY <1>2, <1>5, <1>7, <1>13, <1>14 DEF ServerInv, CommandInv
<1>18. AcceptInv'
  BY <1>2, <1>13, <1>14 DEF ServerInv, AcceptInv
<1>19. CountInv'
  <2>1. Calling(u)' => Calling(u)
    BY <1>2, <1>5, <1>6, <1>7, <1>13, <1>14 DEF Calling, s
  <2>2. Ending' => Ending  BY <1>2, <1>13, <1>14 DEF Ending
  <2> QED  BY <1>2, <1>13, <1>14, <2>1, <2>2, CountKept
<1>20. FreshInv' /\ SessionInv' /\ ToldInv'
  <2>1. \A x \in IoThreads : \A h : h.op \in SessionOps => (InQ(queue'[x], h) <=> InQ(queue[x], h))
    BY <1>8, <1>9, <1>10 DEF SessionOps
  <2>2. Has(queue'[ServerThread], "Accepted") => Has(Serving, "Accepted")
    BY <1>13 DEF q
  <2> QED  BY <1>2, <2>1, <2>2, SessionsKept, FreshKept
<1> QED  BY <1>15, <1>16, <1>17, <1>18, <1>19, <1>20 DEF ServerInv

LEMMA AwaitStoppedKeeps ==
  ASSUME NEW u, Users = {u}, ServerInv, AwaitStopped(u)
  PROVE  ServerInv'
<1>1. TypeOK /\ StackInv  BY DEF ServerInv
<1>2. /\ started' = started /\ accepts' = accepts /\ created' = created /\ detached' = detached
      /\ sessions' = sessions /\ connected' = connected /\ reading' = reading
      /\ stopping' = stopping /\ crashed' = crashed /\ accepted' = accepted /\ calls' = calls
      /\ queue' = queue
  BY DEF AwaitStopped
<1>3. todo[u] # <<>> /\ todo[u] \in CallStacks
  BY <1>1 DEF AwaitStopped, Goto, StackInv
<1>4. PICK p \in CallStacks :
         /\ todo' = [todo EXCEPT ![u] = p]
         /\ NextOf(p) \in {"Idle", "AwaitStopped", "StartAgain", "Start"}
         /\ NextOf(p) = "Start" => ~started /\ Restarts(todo[u]) /\ ~Restarts(p)
         /\ Restarts(p) => Restarts(todo[u])
         /\ NextOf(p) \in {"AwaitStopped", "StartAgain"} =>
               ~started /\ At(u) \in {"AwaitStopped", "StartAgain"}
  <2>1. CASE Goto(u, "AwaitStopped") /\ ~started /\ todo' = [todo EXCEPT ![u] = Tail(@)]
    <3>1. todo' = [todo EXCEPT ![u] = Tail(todo[u])]  BY <1>1, <2>1 DEF TypeOK
    <3>2. At(u) = "AwaitStopped"  BY <2>1 DEF Goto, At
    <3>3. /\ Tail(todo[u]) \in CallStacks
          /\ NextOf(Tail(todo[u])) \in {"Idle", "AwaitStopped", "StartAgain"}
          /\ Restarts(Tail(todo[u])) => Restarts(todo[u])
      BY <1>3, CallStackFacts
    <3> QED  BY <2>1, <3>1, <3>2, <3>3
  <2>2. CASE /\ Goto(u, "StartAgain")
             /\ todo' = [todo EXCEPT ![u] = IF started THEN <<>> ELSE <<"Start">>]
    <3>1. Restarts(todo[u])  BY <1>3, <2>2, CallStackFacts DEF Goto
    <3>2. <<>> \in CallStacks /\ <<"Start">> \in CallStacks  BY DEF CallStacks
    <3>3. NextOf(<<>>) = "Idle" /\ ~Restarts(<<>>)  BY DEF NextOf, Restarts
    <3>4. NextOf(<<"Start">>) = "Start"  BY DEF NextOf
    <3>5. ~Restarts(<<"Start">>)  BY DEF Restarts
    <3>6. CASE started
      <4>1. todo' = [todo EXCEPT ![u] = <<>>]  BY <2>2, <3>6
      <4> QED  BY <3>2, <3>3, <4>1
    <3>7. CASE ~started
      <4>1. todo' = [todo EXCEPT ![u] = <<"Start">>]  BY <2>2, <3>7
      <4> QED  BY <3>1, <3>2, <3>4, <3>5, <3>7, <4>1
    <3> QED  BY <3>6, <3>7
  <2> QED  BY <2>1, <2>2 DEF AwaitStopped
<1>5. todo' \in [Users -> Seq(CallNames)] /\ todo'[u] = p
  BY <1>1, <1>4, CallStackFacts DEF TypeOK, CallNames
<1>6. At(u)' = NextOf(p) /\ Serving' = Serving
  BY <1>2, <1>5, AtNextStep DEF Serving
<1>7. TypeOK'  BY <1>1, <1>2, <1>5 DEF TypeOK, CallNames
<1>8. StackInv'  BY <1>1, <1>2, <1>5 DEF StackInv
<1>9. CommandInv'
  BY <1>2, <1>4, <1>6 DEF ServerInv, CommandInv
<1>10. AcceptInv'  BY <1>2, <1>6 DEF ServerInv, AcceptInv
<1>11. CountInv'
  <2>1. Calling(u)' => Calling(u)
    BY <1>2, <1>4, <1>5, <1>6 DEF Calling
  <2>2. Ending' => Ending  BY <1>2, <1>6 DEF Ending
  <2> QED  BY <1>2, <1>6, <2>1, <2>2, CountKept
<1>12. FreshInv' /\ SessionInv' /\ ToldInv'
  BY <1>2, SessionsKept, FreshKept DEF Serving
<1> QED  BY <1>7, <1>8, <1>9, <1>10, <1>11, <1>12 DEF ServerInv

-----------------------------------------------------------------------------
(* Starting and stopping.                                                  *)

LEMMA StopStackFacts ==
  \A s \in StopStacks :
     s # <<>> => /\ Tail(s) \in StopStacks \ {StopSteps}
                 /\ Tail(s) = <<>> <=> Head(s) = "ClearStarted"
                 /\ Tail(s) = <<"ClearStarted">> <=> Head(s) = "DisconnectAll"
                 /\ s = StopSteps <=> Head(s) = "CloseAcceptor"
<1> DEFINE three == <<"ResetServer", "DisconnectAll", "ClearStarted">>
           two == <<"DisconnectAll", "ClearStarted">>
           one == <<"ClearStarted">>
<1>1. Tail(StopSteps) = three /\ Tail(three) = two /\ Tail(two) = one /\ Tail(one) = <<>>
  BY DEF StopSteps
<1>2. /\ Head(StopSteps) = "CloseAcceptor" /\ Head(three) = "ResetServer"
      /\ Head(two) = "DisconnectAll" /\ Head(one) = "ClearStarted"
  BY DEF StopSteps
<1>3. Len(StopSteps) = 4 /\ Len(three) = 3 /\ Len(two) = 2 /\ Len(one) = 1 /\ Len(<<>>) = 0
  BY DEF StopSteps
<1>4. StopStacks = {<<>>, StopSteps, three, two, one}  BY DEF StopStacks
<1> HIDE DEF three, two, one
<1>5. /\ <<>> # one /\ <<>> # two /\ <<>> # three /\ <<>> # StopSteps
      /\ one # two /\ one # three /\ one # StopSteps
      /\ two # three /\ two # StopSteps /\ three # StopSteps
  <2>1. /\ one # two /\ one # three /\ one # StopSteps
        /\ two # three /\ two # StopSteps /\ three # StopSteps
    BY <1>2
  <2>2. \A s : Len(s) \in {1, 2, 3, 4} => s # <<>>  BY <1>3
  <2>3. /\ Len(one) \in {1, 2, 3, 4} /\ Len(two) \in {1, 2, 3, 4}
        /\ Len(three) \in {1, 2, 3, 4} /\ Len(StopSteps) \in {1, 2, 3, 4}
    BY <1>3
  <2> QED  BY <2>1, <2>2, <2>3
<1>6. \A s \in StopStacks :
         s # <<>> => /\ Tail(s) \in StopStacks \ {StopSteps}
                     /\ Tail(s) = <<>> <=> Head(s) = "ClearStarted"
                     /\ Tail(s) = one <=> Head(s) = "DisconnectAll"
                     /\ s = StopSteps <=> Head(s) = "CloseAcceptor"
  <2> SUFFICES ASSUME NEW s \in StopStacks, s # <<>>
               PROVE  /\ Tail(s) \in StopStacks \ {StopSteps}
                      /\ Tail(s) = <<>> <=> Head(s) = "ClearStarted"
                      /\ Tail(s) = one <=> Head(s) = "DisconnectAll"
                      /\ s = StopSteps <=> Head(s) = "CloseAcceptor"
    OBVIOUS
  <2>1. CASE s = StopSteps  BY <1>1, <1>2, <1>4, <1>5, <2>1
  <2>2. CASE s = three  BY <1>1, <1>2, <1>4, <1>5, <2>2
  <2>3. CASE s = two  BY <1>1, <1>2, <1>4, <1>5, <2>3
  <2>4. CASE s = one  BY <1>1, <1>2, <1>4, <1>5, <2>4
  <2> QED  BY <1>4, <2>1, <2>2, <2>3, <2>4
<1> QED  BY <1>6 DEF one

\* The types of TypeOK.
LEMMA StopStackTypes == StopStacks = {SubSeq(StopSteps, i, Len(StopSteps)) : i \in 1..5}
<1> DEFINE S == {"CloseAcceptor", "ResetServer", "DisconnectAll", "ClearStarted"}
           three == <<"ResetServer", "DisconnectAll", "ClearStarted">>
           two == <<"DisconnectAll", "ClearStarted">>
           one == <<"ClearStarted">>
<1>1. StopSteps \in Seq(S) /\ Len(StopSteps) = 4  BY DEF StopSteps
<1>2. Tail(StopSteps) = three /\ Tail(three) = two /\ Tail(two) = one /\ Tail(one) = <<>>
  BY DEF StopSteps
<1>3. SubSeq(StopSteps, 1, 4) = StopSteps
  BY <1>1, SubSeqFull
<1>4. \A m \in 1..4, k \in 2..5 :
         k = m + 1 => Tail(SubSeq(StopSteps, m, 4)) = SubSeq(StopSteps, k, 4)
  BY <1>1, HeadTailOfSubSeq
<1> HIDE DEF three, two, one
<1>5. SubSeq(StopSteps, 2, 4) = three
  <2>1. Tail(SubSeq(StopSteps, 1, 4)) = SubSeq(StopSteps, 2, 4)  BY <1>4
  <2> QED  BY <1>2, <1>3, <2>1
<1>6. SubSeq(StopSteps, 3, 4) = two
  <2>1. Tail(SubSeq(StopSteps, 2, 4)) = SubSeq(StopSteps, 3, 4)  BY <1>4
  <2> QED  BY <1>2, <1>5, <2>1
<1>7. SubSeq(StopSteps, 4, 4) = one
  <2>1. Tail(SubSeq(StopSteps, 3, 4)) = SubSeq(StopSteps, 4, 4)  BY <1>4
  <2> QED  BY <1>2, <1>6, <2>1
<1>8. SubSeq(StopSteps, 5, 4) = <<>>
  <2>1. Tail(SubSeq(StopSteps, 4, 4)) = SubSeq(StopSteps, 5, 4)  BY <1>4
  <2> QED  BY <1>2, <1>7, <2>1
<1>9. 1..5 = {1, 2, 3, 4, 5}  OBVIOUS
<1>10. StopStacks = {<<>>, StopSteps, three, two, one}
  BY DEF StopStacks, three, two, one
<1> QED  BY <1>1, <1>3, <1>5, <1>6, <1>7, <1>8, <1>9, <1>10

\* What every session is told, in whatever order.
LEMMA Posted ==
  ASSUME NEW S \in SUBSET Sessions
  PROVE  /\ PostAll(S) \in Seq(Handlers)
         /\ \A h : InQ(PostAll(S), h) <=> \E s \in S : h = On(s, "Disconnect")
<1>1. IsFiniteSet(Sessions)
  BY BoundType, FS_Interval DEF Sessions
<1>2. IsFiniteSet(S)  BY <1>1, FS_Subset
<1> DEFINE n == Cardinality(S)
<1>3. n \in Nat /\ ExistsBijection(1..n, S)  BY <1>2, FS_CardinalityType
<1>4. PICK f \in [1..n -> S] : IsInjective(f) /\ \A s \in S : \E i \in 1..n : f[i] = s
  BY <1>3 DEF ExistsBijection, Bijection, Injection, Surjection, IsInjective
<1> DEFINE g == SetToSeq(S)
<1>5. g \in [1..n -> S] /\ IsInjective(g)  BY <1>4 DEF SetToSeq
<1> HIDE DEF g
<1>6. g \in Injection(1..n, S)  BY <1>5 DEF Injection, IsInjective
<1>7. g \in Surjection(1..n, S)
  <2>1. IsFiniteSet(1..n) /\ Cardinality(1..n) = Cardinality(S)
    BY <1>3, FS_Interval
  <2> QED  BY <1>2, <1>6, <2>1, FS_Injection
<1>8. \A s \in S : \E i \in 1..n : g[i] = s  BY <1>7 DEF Surjection
<1> DEFINE p == PostAll(S)
<1>9. p = [i \in 1..n |-> On(g[i], "Disconnect")]  BY DEF PostAll, g
<1>10. p \in [1..n -> Handlers]  BY <1>5, <1>9, HandlerTypes
<1> HIDE DEF n
<1>11. p \in Seq(Handlers) /\ Len(p) = n
  <2>1. \A k \in Nat : \A r \in [1..k -> Handlers] : r \in Seq(Handlers) /\ Len(r) = k
    OBVIOUS
  <2> HIDE DEF p
  <2> QED  BY <1>3, <1>10, <2>1
<1>12. \A i \in 1..n : p[i] = On(g[i], "Disconnect")  BY <1>9
<1> HIDE DEF p
<1>13. \A h : InQ(p, h) <=> \E s \in S : h = On(s, "Disconnect")
  BY <1>5, <1>8, <1>11, <1>12 DEF InQ
<1> QED  BY <1>11, <1>13 DEF p

\* The server's thread takes a handler.
LEMMA ServingTaken ==
  ASSUME ServerInv, NEW name, Ready(ServerThread, name),
         NEW q, q = Taken(ServerThread)[ServerThread]
  PROVE  /\ queue[ServerThread] # <<>> /\ stopping = <<>>
         /\ First(ServerThread) \in Handlers /\ First(ServerThread).op = name
         /\ Taken(ServerThread) \in [IoThreads -> Seq(Handlers)] /\ q \in Seq(Handlers)
         /\ \A x \in IoThreads : x # ServerThread => Taken(ServerThread)[x] = queue[x]
         /\ \A op : Has(Serving, op) <=> op = name \/ Has(q, op)
         /\ Once(q, "Accepted") /\ (name = "Accepted" => ~Has(q, "Accepted"))
         /\ \A op, ops : NoneAfter(Serving, op, ops) =>
               NoneAfter(q, op, ops) /\ (name = op => \A x \in ops : ~Has(q, x))
         /\ \A x \in IoThreads : \A h :
               InQ(queue[x], h) <=>
               InQ(Taken(ServerThread)[x], h) \/ (x = ServerThread /\ h = First(ServerThread))
<1>1. TypeOK /\ ServerThread \in IoThreads  BY ServerThreadType DEF ServerInv
<1>2. queue[ServerThread] # <<>> /\ stopping = <<>> /\ First(ServerThread).op = name
  BY DEF Ready
<1>3. /\ Taken(ServerThread) \in [IoThreads -> Seq(Handlers)]
      /\ Taken(ServerThread)[ServerThread] = Tail(queue[ServerThread])
      /\ \A x \in IoThreads : x # ServerThread => Taken(ServerThread)[x] = queue[x]
      /\ \A x \in IoThreads : \A h :
            InQ(queue[x], h) <=>
            InQ(Taken(ServerThread)[x], h) \/ (x = ServerThread /\ h = First(ServerThread))
  BY <1>1, <1>2, TakenQueue
<1> HIDE DEF Taken
<1>3a. q = Tail(Serving) /\ First(ServerThread) = Head(Serving) /\ Serving \in Seq(Handlers)
  BY <1>1, <1>3 DEF Serving, First, TypeOK
<1>4. Once(Serving, "Accepted")  BY DEF ServerInv, AcceptInv
<1>5. /\ q \in Seq(Handlers) /\ First(ServerThread) \in Handlers
      /\ \A h : InQ(Serving, h) <=> h = First(ServerThread) \/ InQ(q, h)
      /\ Once(q, "Accepted") /\ (name = "Accepted" => ~Has(q, "Accepted"))
      /\ \A op, ops : NoneAfter(Serving, op, ops) =>
            NoneAfter(q, op, ops) /\ (name = op => \A x \in ops : ~Has(q, x))
  BY <1>2, <1>4, <1>3a, QueueTail DEF Serving
<1>6. \A op : Has(Serving, op) <=> op = name \/ Has(q, op)
  BY <1>2, <1>5, HasIn
<1> QED  BY <1>2, <1>3, <1>5, <1>6

\* A command is taken that has no effect any more.
LEMMA CommandDropped ==
  ASSUME NEW u, Users = {u}, ServerInv, NEW name \in {"Start", "Stop"},
         Ready(ServerThread, name), queue' = Taken(ServerThread),
         started' = started, stopping' = stopping, accepts' = accepts, created' = created,
         detached' = detached, sessions' = sessions, connected' = connected,
         reading' = reading, todo' = todo, crashed' = crashed, calls' = calls,
         accepted' = accepted
  PROVE  ServerInv'
<1> DEFINE q == queue'[ServerThread]
<1> DEFINE p == Taken(ServerThread)[ServerThread]
<1>0. /\ Taken(ServerThread) \in [IoThreads -> Seq(Handlers)]
      /\ First(ServerThread).op = name
      /\ \A op : Has(Serving, op) <=> op = name \/ Has(p, op)
      /\ Once(p, "Accepted")
      /\ \A op, ops : NoneAfter(Serving, op, ops) => NoneAfter(p, op, ops)
      /\ \A x \in IoThreads : \A h :
            InQ(queue[x], h) <=>
            InQ(Taken(ServerThread)[x], h) \/ (x = ServerThread /\ h = First(ServerThread))
  BY ServingTaken
<1>1. /\ queue' \in [IoThreads -> Seq(Handlers)]
      /\ First(ServerThread).op = name
      /\ \A op : Has(Serving, op) <=> op = name \/ Has(q, op)
      /\ Once(q, "Accepted")
      /\ \A op, ops : NoneAfter(Serving, op, ops) => NoneAfter(q, op, ops)
      /\ \A x \in IoThreads : \A h :
            InQ(queue[x], h) <=> InQ(queue'[x], h) \/ (x = ServerThread /\ h = First(ServerThread))
  BY <1>0
<1>2. Serving' = q  BY DEF Serving
<1>3. Has(Serving, "Accepted") <=> Has(q, "Accepted")  BY <1>1
<1> HIDE DEF q
<1>4. At(u)' = At(u)  BY DEF At
<1>5. TypeOK' /\ StackInv'  BY <1>1 DEF ServerInv, TypeOK, StackInv
<1>6. CommandInv'  BY <1>1, <1>2, <1>4 DEF ServerInv, CommandInv
<1>7. AcceptInv'  BY <1>1, <1>2, <1>3 DEF ServerInv, AcceptInv
<1>8. CountInv'
  <2>1. Calling(u)' => Calling(u)  BY <1>1, <1>2, <1>4 DEF Calling
  <2>2. Ending' => Ending  BY <1>2, <1>3 DEF Ending
  <2> QED  BY <1>2, <1>3, <2>1, <2>2, CountKept
<1>9. FreshInv' /\ SessionInv' /\ ToldInv'
  <2>1. \A x \in IoThreads : \A h : h.op \in SessionOps => (InQ(queue'[x], h) <=> InQ(queue[x], h))
    BY <1>1 DEF SessionOps
  <2>2. Has(queue'[ServerThread], "Accepted") => Has(Serving, "Accepted")
    BY <1>3 DEF q
  <2> QED  BY <2>1, <2>2, SessionsKept, FreshKept
<1> QED  BY <1>5, <1>6, <1>7, <1>8, <1>9 DEF ServerInv

LEMMA Aborts ==
  ASSUME TypeOK, AcceptInv
  PROVE  /\ accepts = {} => AbortedAccepts = <<>>
         /\ accepts # {} => AbortedAccepts = <<Accepted(FALSE)>>
<1>1. accepts \subseteq {created}  BY DEF AcceptInv
<1>2. CASE accepts = {}
  <2>1. Cardinality(accepts) = 0  BY <1>2, FS_EmptySet
  <2>2. AbortedAccepts = [i \in 1..0 |-> Accepted(FALSE)]  BY <2>1 DEF AbortedAccepts
  <2>3. \A x : [i \in 1..0 |-> x] = <<>>  OBVIOUS
  <2> QED  BY <1>2, <2>2, <2>3
<1>3. CASE accepts # {}
  <2>1. accepts = {created}  BY <1>1, <1>3
  <2>2. Cardinality(accepts) = 1  BY <2>1, FS_Singleton
  <2>3. AbortedAccepts = [i \in 1..1 |-> Accepted(FALSE)]  BY <2>2 DEF AbortedAccepts
  <2>4. \A x : [i \in 1..1 |-> x] = <<x>>  OBVIOUS
  <2> QED  BY <1>3, <2>3, <2>4
<1> QED  BY <1>2, <1>3

LEMMA StartHandlerKeeps ==
  ASSUME NEW u, Users = {u}, ServerInv, StartHandler
  PROVE  ServerInv'
<1>1. /\ Ready(ServerThread, "Start") /\ detached' = detached /\ sessions' = sessions
      /\ connected' = connected /\ reading' = reading /\ stopping' = stopping /\ todo' = todo
      /\ crashed' = crashed /\ calls' = calls /\ accepted' = accepted
  BY DEF StartHandler
<1>2. CASE started
  BY <1>1, <1>2, CommandDropped DEF StartHandler
<1>3. CASE ~started
  <2> DEFINE p == Taken(ServerThread)[ServerThread]  q == queue'[ServerThread]
  <2>1. /\ stopping = <<>> /\ First(ServerThread).op = "Start"
        /\ Taken(ServerThread) \in [IoThreads -> Seq(Handlers)] /\ p \in Seq(Handlers)
        /\ \A op : Has(Serving, op) <=> op = "Start" \/ Has(p, op)
        /\ Once(p, "Accepted")
        /\ \A op, ops : NoneAfter(Serving, op, ops) =>
              NoneAfter(p, op, ops) /\ ("Start" = op => \A x \in ops : ~Has(p, x))
        /\ \A x \in IoThreads : \A h :
              InQ(queue[x], h) <=>
              InQ(Taken(ServerThread)[x], h) \/ (x = ServerThread /\ h = First(ServerThread))
    BY <1>1, ServingTaken
  <2>2. accepts = {} /\ AbortedAccepts = <<>>
    BY <1>3, Aborts DEF ServerInv, AcceptInv
  <2>3. queue' = Taken(ServerThread)
    <3>1. queue' = Put(Taken(ServerThread), ServerThread, <<>>)
      BY <1>3, <2>2 DEF StartHandler
    <3>2. <<>> \in Seq(Handlers) /\ p \o <<>> = p  BY <2>1
    <3> DEFINE f == Taken(ServerThread)
    <3>3. f \in [IoThreads -> Seq(Handlers)] /\ f[ServerThread] \o <<>> = f[ServerThread]
      BY <2>1, <3>2
    <3> HIDE DEF f
    <3>4. /\ Put(f, ServerThread, <<>>) \in [IoThreads -> Seq(Handlers)]
          /\ Put(f, ServerThread, <<>>)[ServerThread] = f[ServerThread] \o <<>>
          /\ \A x \in IoThreads : x # ServerThread => Put(f, ServerThread, <<>>)[x] = f[x]
      BY <3>2, <3>3, PutQueue, ServerThreadType
    <3>5. Put(f, ServerThread, <<>>) = f  BY <3>3, <3>4
    <3> QED  BY <3>1, <3>5 DEF f
  <2>4. started' = TRUE /\ created' = created + 1 /\ accepts' = {created + 1}
    BY <1>3 DEF StartHandler, Accept
  <2>5. /\ \A op : Has(Serving, op) <=> op = "Start" \/ Has(q, op)
        /\ Once(q, "Accepted") /\ ~Has(q, "Accepted") /\ ~Has(q, "Stop")
    <3>1. NoneAfter(Serving, "Start", {"Stop", "Accepted"})
      BY <1>3 DEF ServerInv, CommandInv
    <3> QED  BY <2>1, <2>3, <3>1
  <2>6. NoneAfter(q, "Stop", {"Start"})  BY <2>5 DEF NoneAfter, Has
  <2>7. Serving' = q  BY DEF Serving
  <2> HIDE DEF p, q
  <2>8. At(u)' = At(u)  BY <1>1 DEF At
  <2>9. Calling(u) /\ ~Restarts(todo[u]) /\ ~Ending
    <3>1. Has(Serving, "Start")  BY <2>1
    <3>2. At(u) \notin {"Stop", "AwaitStopped", "StartAgain"}
      BY <1>3, <3>1 DEF ServerInv, CommandInv
    <3>3. ~Restarts(todo[u])
      <4>1. todo[u] \in CallStacks  BY DEF ServerInv, StackInv
      <4>2. CASE todo[u] = <<>>  BY <4>2 DEF Restarts
      <4>3. CASE todo[u] # <<>>
        <5>1. Head(todo[u]) \in {"Start", "DisconnectAll"}
          BY <3>2, <4>1, <4>3, CallStackFacts DEF At, CallNames
        <5> QED  BY <4>1, <4>3, <5>1, CallStackFacts
      <4> QED  BY <4>2, <4>3
    <3> QED  BY <1>3, <3>1, <3>3 DEF Calling, Ending
  <2>10. /\ created \in Nat /\ calls \in 0..MaxCalls /\ accepted \in 0..MaxAccepts
         /\ created + 1 <= calls + accepted
    <3>1. created \in Nat /\ calls \in 0..MaxCalls /\ accepted \in 0..MaxAccepts
      BY BoundType DEF ServerInv, TypeOK
    <3> QED  BY <2>9, <3>1, Counted DEF ServerInv
  <2>11. created + 1 \in Sessions /\ created + 1 \in 0..Bound
    BY <2>10, BoundType DEF Sessions, Bound
  <2>12. TypeOK'
    BY <1>1, <2>1, <2>3, <2>4, <2>11 DEF ServerInv, TypeOK
  <2>13. StackInv'  BY <1>1 DEF ServerInv, StackInv
  <2>14. CommandInv'
    BY <1>1, <2>1, <2>4, <2>5, <2>6, <2>7, <2>8 DEF CommandInv
  <2>15. AcceptInv'
    BY <1>1, <2>1, <2>4, <2>5, <2>7 DEF AcceptInv, StopStacks
  <2>16. CountInv'
    <3>1. \A x \in Users : ~(todo'[x] # <<>> /\ todo'[x][Len(todo'[x])] = "StartAgain")
      BY <1>1, <2>9 DEF Restarts
    <3>2. started' /\ created' = created + 1 /\ ~Has(Serving', "Accepted")
          /\ calls' = calls /\ accepted' = accepted
      BY <1>1, <2>4, <2>5, <2>7
    <3> QED  BY <2>10, <3>1, <3>2 DEF CountInv
  <2>17. SessionInv' /\ ToldInv' /\ \A s : Fresh(s) => Fresh(s)'
    <3> DEFINE f == First(ServerThread)
    <3>1. /\ f.op \notin SessionOps
          /\ \A x \in IoThreads : \A h :
                InQ(queue[x], h) <=> InQ(queue'[x], h) \/ (x = ServerThread /\ h = f)
      BY <2>1, <2>3 DEF SessionOps
    <3> HIDE DEF f
    <3>2. \A x \in IoThreads : \A h : h.op \in SessionOps => (InQ(queue'[x], h) <=> InQ(queue[x], h))
      BY <3>1
    <3> QED  BY <1>1, <3>2, SessionsKept
  <2>18. FreshInv'
    <3>1. \A s \in Sessions : s > created => Fresh(s)  BY DEF ServerInv, FreshInv
    <3>2. /\ \A s \in Sessions : s > created + 1 => s > created
          /\ created + 1 > created
      BY <2>10, BoundType DEF Sessions
    <3>3. /\ \A s \in Sessions : s > created + 1 => Fresh(s)'
          /\ Fresh(created + 1)
      BY <2>11, <2>17, <3>1, <3>2
    <3>4. \A s : s = created' /\ Fresh(s) => Fresh(created)'
      BY <1>1, <2>17, InQueue, InNextQueue
    <3> QED  BY <2>4, <3>3, <3>4 DEF FreshInv
  <2> QED  BY <2>12, <2>13, <2>14, <2>15, <2>16, <2>17, <2>18 DEF ServerInv
<1> QED  BY <1>2, <1>3

LEMMA StopHandlerKeeps ==
  ASSUME NEW u, Users = {u}, ServerInv, StopHandler
  PROVE  ServerInv'
<1>1. /\ Ready(ServerThread, "Stop") /\ started' = started /\ accepts' = accepts
      /\ created' = created /\ detached' = detached /\ sessions' = sessions
      /\ connected' = connected /\ reading' = reading /\ todo' = todo
      /\ crashed' = crashed /\ calls' = calls /\ accepted' = accepted
      /\ queue' = Taken(ServerThread)
  BY DEF StopHandler
<1> DEFINE p == Taken(ServerThread)[ServerThread]  q == queue'[ServerThread]
           f == First(ServerThread)
<1>2. /\ stopping = <<>> /\ f.op = "Stop"
      /\ Taken(ServerThread) \in [IoThreads -> Seq(Handlers)]
      /\ \A op : Has(Serving, op) <=> op = "Stop" \/ Has(p, op)
      /\ Once(p, "Accepted")
      /\ \A op, ops : NoneAfter(Serving, op, ops) =>
            NoneAfter(p, op, ops) /\ ("Stop" = op => \A x \in ops : ~Has(p, x))
      /\ \A x \in IoThreads : \A h :
            InQ(queue[x], h) <=>
            InQ(Taken(ServerThread)[x], h) \/ (x = ServerThread /\ h = f)
  BY <1>1, ServingTaken
<1>3. CASE ~started
  <2>1. stopping' = stopping  BY <1>2, <1>3 DEF StopHandler
  <2> QED  BY <1>1, <2>1, CommandDropped
<1>4. CASE started
  <2>1. stopping' = StopSteps  BY <1>4 DEF StopHandler
  <2>2. /\ queue' \in [IoThreads -> Seq(Handlers)]
        /\ \A op : Has(Serving, op) <=> op = "Stop" \/ Has(q, op)
        /\ Once(q, "Accepted") /\ NoneAfter(q, "Stop", {"Start"}) /\ ~Has(q, "Start")
        /\ \A x \in IoThreads : \A h :
              InQ(queue[x], h) <=> InQ(queue'[x], h) \/ (x = ServerThread /\ h = f)
    <3>1. NoneAfter(Serving, "Stop", {"Start"})  BY <1>4 DEF ServerInv, CommandInv
    <3> QED  BY <1>1, <1>2, <3>1
  <2>3. Serving' = q  BY DEF Serving
  <2>4. Has(q, "Accepted") <=> Has(Serving, "Accepted")  BY <2>2
  <2>5. Has(Serving, "Stop")  BY <2>2
  <2> HIDE DEF p, q, f
  <2>6. At(u)' = At(u)  BY <1>1 DEF At
  <2>7. StopSteps \in StopStacks /\ StopSteps # <<>> /\ StopSteps # <<"ClearStarted">>
    <3>1. Len(StopSteps) = 4 /\ Len(<<>>) = 0 /\ Len(<<"ClearStarted">>) = 1  BY DEF StopSteps
    <3> QED  BY <3>1 DEF StopStacks
  <2>8. TypeOK'
    BY <1>1, <2>1, <2>2, <2>7, StopStackTypes DEF ServerInv, TypeOK
  <2>9. StackInv'  BY <1>1, <2>1, <2>7 DEF ServerInv, StackInv
  <2>10. CommandInv'
    BY <1>1, <1>4, <2>2, <2>3, <2>5, <2>6 DEF ServerInv, CommandInv
  <2>11. AcceptInv'
    BY <1>1, <1>4, <2>1, <2>2, <2>3, <2>4, <2>7 DEF ServerInv, AcceptInv
  <2>12. CountInv'
    <3>1. Calling(u)' => Calling(u)  BY <1>1, <1>4, <2>6 DEF Calling
    <3>2. ~Ending'  BY <2>1, <2>7 DEF Ending
    <3> QED  BY <1>1, <1>4, <3>1, <3>2, CountKept
  <2>13. FreshInv' /\ SessionInv' /\ ToldInv'
    <3>1. \A x \in IoThreads : \A h : h.op \in SessionOps => (InQ(queue'[x], h) <=> InQ(queue[x], h))
      BY <1>2, <2>2 DEF SessionOps
    <3>2. Has(queue'[ServerThread], "Accepted") => Has(Serving, "Accepted")
      BY <2>4 DEF q
    <3> QED  BY <1>1, <2>1, <2>7, <3>1, <3>2, SessionsKept, FreshKept
  <2> QED  BY <2>8, <2>9, <2>10, <2>11, <2>12, <2>13 DEF ServerInv
<1> QED  BY <1>3, <1>4

\* The handler of Stop takes a step.
LEMMA StopAtFacts ==
  ASSUME ServerInv, NEW step, StopAt(step)
  PROVE  /\ created' = created /\ sessions' = sessions /\ connected' = connected
         /\ reading' = reading /\ todo' = todo /\ crashed' = crashed /\ calls' = calls
         /\ accepted' = accepted
         /\ stopping # <<>> /\ started /\ ~Has(Serving, "Start")
         /\ stopping' \in StopStacks \ {StopSteps} /\ StackInv'
         /\ stopping' \in {SubSeq(StopSteps, i, Len(StopSteps)) : i \in 1..5}
         /\ stopping' = <<>> <=> step = "ClearStarted"
         /\ stopping' = <<"ClearStarted">> <=> step = "DisconnectAll"
         /\ step # "CloseAcceptor" => accepts = {}
<1>1. /\ created' = created /\ sessions' = sessions /\ connected' = connected
      /\ reading' = reading /\ todo' = todo /\ crashed' = crashed /\ calls' = calls
      /\ accepted' = accepted
      /\ stopping # <<>> /\ Head(stopping) = step /\ stopping' = Tail(stopping)
  BY DEF StopAt
<1>2. started /\ ~Has(Serving, "Start")  BY <1>1 DEF ServerInv, CommandInv
<1>3. /\ stopping \in StopStacks
      /\ stopping' \in StopStacks \ {StopSteps}
      /\ stopping' = <<>> <=> step = "ClearStarted"
      /\ stopping' = <<"ClearStarted">> <=> step = "DisconnectAll"
      /\ stopping = StopSteps <=> step = "CloseAcceptor"
  BY <1>1, StopStackFacts DEF ServerInv, StackInv
<1>4. step # "CloseAcceptor" => accepts = {}
  BY <1>1, <1>3 DEF ServerInv, AcceptInv
<1>5. StackInv'  BY <1>1, <1>3 DEF ServerInv, StackInv
<1>6. stopping' \in {SubSeq(StopSteps, i, Len(StopSteps)) : i \in 1..5}
  BY <1>3, StopStackTypes
<1> QED  BY <1>1, <1>2, <1>3, <1>4, <1>5, <1>6

LEMMA ResetServerKeeps ==
  ASSUME NEW u, Users = {u}, ServerInv, ResetServer
  PROVE  ServerInv'
<1> DEFINE step == "ResetServer"
<1>1. /\ created' = created /\ sessions' = sessions /\ connected' = connected
      /\ reading' = reading /\ todo' = todo /\ crashed' = crashed /\ calls' = calls
      /\ accepted' = accepted
      /\ stopping # <<>> /\ started /\ ~Has(Serving, "Start")
      /\ stopping' \in StopStacks \ {StopSteps} /\ StackInv'
      /\ stopping' \in {SubSeq(StopSteps, i, Len(StopSteps)) : i \in 1..5}
      /\ stopping' # <<>> /\ stopping' # <<"ClearStarted">>
      /\ accepts = {}
  BY StopAtFacts DEF ResetServer
<1>2. started' = started /\ accepts' = accepts /\ queue' = queue
      /\ detached' = detached \cup {created}
  BY DEF ResetServer
<1>3. Serving' = Serving /\ At(u)' = At(u)  BY <1>1, <1>2 DEF Serving, At
<1>4. created \in Sessions
  <2>1. created >= 1  BY <1>1 DEF ServerInv, CountInv
  <2> QED  BY <2>1, BoundType DEF ServerInv, TypeOK, Sessions
<1>5. TypeOK'  BY <1>1, <1>2, <1>4 DEF ServerInv, TypeOK
<1>6. CommandInv'  BY <1>1, <1>2, <1>3 DEF ServerInv, CommandInv
<1>7. AcceptInv'  BY <1>1, <1>2, <1>3 DEF ServerInv, AcceptInv
<1>8. CountInv'
  <2>1. Calling(u)' => Calling(u)  BY <1>1, <1>2, <1>3 DEF Calling
  <2>2. ~Ending'  BY <1>1 DEF Ending
  <2> QED  BY <1>1, <1>2, <1>3, <2>1, <2>2, CountKept
<1>9. FreshInv' /\ SessionInv' /\ ToldInv'
  BY <1>1, <1>2, SessionsKept, FreshKept DEF Serving
<1> QED  BY <1>1, <1>5, <1>6, <1>7, <1>8, <1>9 DEF ServerInv

LEMMA ClearStartedKeeps ==
  ASSUME NEW u, Users = {u}, ServerInv, ClearStarted
  PROVE  ServerInv'
<1>1. /\ created' = created /\ sessions' = sessions /\ connected' = connected
      /\ reading' = reading /\ todo' = todo /\ crashed' = crashed /\ calls' = calls
      /\ accepted' = accepted
      /\ stopping # <<>> /\ started /\ ~Has(Serving, "Start")
      /\ stopping' \in StopStacks \ {StopSteps} /\ StackInv'
      /\ stopping' \in {SubSeq(StopSteps, i, Len(StopSteps)) : i \in 1..5}
      /\ stopping' = <<>> /\ stopping' # <<"ClearStarted">>
      /\ accepts = {}
  BY StopAtFacts DEF ClearStarted
<1>2. started' = FALSE /\ accepts' = accepts /\ queue' = queue /\ detached' = detached
  BY DEF ClearStarted
<1>3. Serving' = Serving /\ At(u)' = At(u)  BY <1>1, <1>2 DEF Serving, At
<1>4. TypeOK'  BY <1>1, <1>2 DEF ServerInv, TypeOK
<1>5. At(u) # "Start"  BY <1>1 DEF ServerInv, CommandInv
<1>6. NoneAfter(Serving, "Start", {"Stop", "Accepted"})
  BY <1>1 DEF NoneAfter, Has
<1>7. CommandInv'  BY <1>1, <1>2, <1>3, <1>5, <1>6 DEF ServerInv, CommandInv
<1>8. AcceptInv'  BY <1>1, <1>2, <1>3 DEF ServerInv, AcceptInv
<1>9. CountInv'
  <2>1. Calling(u)' => Calling(u)  BY <1>1, <1>2, <1>3, <1>5 DEF Calling
  <2>2. ~Ending'  BY <1>2 DEF Ending
  <2> QED  BY <1>1, <1>2, <1>3, <2>1, <2>2, CountKept
<1>10. FreshInv' /\ SessionInv' /\ ToldInv'
  BY <1>1, <1>2, SessionsKept, FreshKept DEF Serving
<1> QED  BY <1>1, <1>4, <1>7, <1>8, <1>9, <1>10 DEF ServerInv

LEMMA CloseAcceptorKeeps ==
  ASSUME NEW u, Users = {u}, ServerInv, CloseAcceptor
  PROVE  ServerInv'
<1> DEFINE b == AbortedAccepts  q == queue'[ServerThread]
<1>1. /\ created' = created /\ sessions' = sessions /\ connected' = connected
      /\ reading' = reading /\ todo' = todo /\ crashed' = crashed /\ calls' = calls
      /\ accepted' = accepted
      /\ stopping # <<>> /\ started /\ ~Has(Serving, "Start")
      /\ stopping' \in StopStacks \ {StopSteps} /\ StackInv'
      /\ stopping' \in {SubSeq(StopSteps, i, Len(StopSteps)) : i \in 1..5}
      /\ stopping' # <<>> /\ stopping' # <<"ClearStarted">>
  BY StopAtFacts DEF CloseAcceptor
<1>2. started' = started /\ accepts' = {} /\ detached' = detached
      /\ queue' = Put(queue, ServerThread, b)
  BY DEF CloseAcceptor
<1>3. Once(Serving, "Accepted") /\ (accepts # {} => ~Has(Serving, "Accepted"))
  BY DEF ServerInv, AcceptInv
<1>4. /\ b \in Seq(Handlers) /\ Once(b, "Accepted")
      /\ \A h : InQ(b, h) => h.op = "Accepted" /\ accepts # {}
  <2>1. CASE accepts = {}
    <3>1. b = <<>>  BY <2>1, Aborts DEF ServerInv
    <3> QED  BY <3>1, EmptyQueue
  <2>2. CASE accepts # {}
    <3> DEFINE a == Accepted(FALSE)
    <3>1. b = <<a>>  BY <2>2, Aborts DEF ServerInv
    <3>2. a \in Handlers /\ a.op = "Accepted"  BY HandlerTypes
    <3> HIDE DEF a
    <3>3. Once(<<a>>, "Accepted") /\ \A h : InQ(<<a>>, h) => h = a  BY Single
    <3>4. <<a>> \in Seq(Handlers)  BY <3>2
    <3> QED  BY <2>2, <3>1, <3>2, <3>3, <3>4
  <2> QED  BY <2>1, <2>2
<1>5. \A op : Has(b, op) => op = "Accepted" /\ accepts # {}  BY <1>4, HasIn
<1>6. queue \in [IoThreads -> Seq(Handlers)] /\ Serving \in Seq(Handlers)
  BY ServerThreadType DEF ServerInv, TypeOK, Serving
<1> HIDE DEF b, q
<1>7. /\ queue' \in [IoThreads -> Seq(Handlers)] /\ q = Serving \o b
      /\ \A x \in IoThreads : \A h :
            InQ(queue'[x], h) <=> InQ(queue[x], h) \/ (x = ServerThread /\ InQ(b, h))
  BY <1>2, <1>4, <1>6, PutQueue, ServerThreadType DEF Serving, q
<1>8. /\ \A h : InQ(q, h) <=> InQ(Serving, h) \/ InQ(b, h)
      /\ \A op : /\ Once(Serving, op) /\ ~Has(b, op) => Once(q, op)
                 /\ ~Has(Serving, op) /\ Once(b, op) => Once(q, op)
      /\ \A op, ops : NoneAfter(Serving, op, ops) /\ (\A x \in ops : ~Has(b, x))
                         => NoneAfter(q, op, ops)
  BY <1>4, <1>6, <1>7, QueueConcat
<1>9. \A op : Has(q, op) <=> Has(Serving, op) \/ Has(b, op)
  BY <1>8, HasIn
<1>10. Once(q, "Accepted")
  <2>1. CASE Has(b, "Accepted")  BY <1>3, <1>4, <1>5, <1>8, <2>1
  <2>2. CASE ~Has(b, "Accepted")  BY <1>3, <1>8, <2>2
  <2> QED  BY <2>1, <2>2
<1>11. Serving' = q /\ At(u)' = At(u)  BY <1>1 DEF Serving, At, q
<1>12. TypeOK'  BY <1>1, <1>2, <1>7 DEF ServerInv, TypeOK
<1>13. CommandInv'
  <2>1. NoneAfter(Serving, "Stop", {"Start"})  BY <1>1 DEF ServerInv, CommandInv
  <2>2. NoneAfter(q, "Stop", {"Start"}) /\ ~Has(q, "Start") /\ (Has(q, "Stop") => Has(Serving, "Stop"))
    BY <1>1, <1>5, <1>8, <1>9, <2>1
  <2> QED  BY <1>1, <1>2, <1>11, <2>2 DEF ServerInv, CommandInv
<1>14. AcceptInv'  BY <1>1, <1>2, <1>10, <1>11 DEF ServerInv, AcceptInv
<1>15. CountInv'
  <2>1. Calling(u)' => Calling(u)  BY <1>1, <1>2, <1>11 DEF Calling
  <2>2. ~Ending'  BY <1>1 DEF Ending
  <2> QED  BY <1>1, <1>2, <2>1, <2>2, CountKept
<1>16. FreshInv' /\ SessionInv' /\ ToldInv'
  <2>1. \A x \in IoThreads : \A h : h.op \in SessionOps => (InQ(queue'[x], h) <=> InQ(queue[x], h))
    BY <1>4, <1>7 DEF SessionOps
  <2>2. Has(q, "Accepted") => accepts # {} \/ Has(Serving, "Accepted")
    BY <1>5, <1>9
  <2>3. accepts' # {} \/ Has(queue'[ServerThread], "Accepted")
           => accepts # {} \/ Has(Serving, "Accepted")
    BY <1>2, <2>2 DEF q
  <2> QED  BY <1>1, <2>1, <2>3, SessionsKept, FreshKept
<1> QED  BY <1>1, <1>12, <1>13, <1>14, <1>15, <1>16 DEF ServerInv

\* All sessions of each thread are told, on top of the queues q.
LEMMA AllTold ==
  ASSUME sessions \subseteq Sessions, NEW q \in [IoThreads -> Seq(Handlers)],
         DisconnectAllFrom(q)
  PROVE  /\ queue' \in [IoThreads -> Seq(Handlers)]
         /\ \A t \in IoThreads : \A h :
               /\ InQ(q[t], h) => InQ(queue'[t], h)
               /\ InQ(queue'[t], h) =>
                     InQ(q[t], h) \/ \E s \in DisconnectsOn(t) : h = On(s, "Disconnect")
         /\ started => \A t \in IoThreads : \A s \in DisconnectsOn(t) :
                          InQ(queue'[t], On(s, "Disconnect"))
         /\ \A t \in IoThreads :
               /\ \A op \in Commands : Has(queue'[t], op) <=> Has(q[t], op)
               /\ \A op \in Commands : Once(q[t], op) => Once(queue'[t], op)
               /\ \A op, ops : NoneAfter(q[t], op, ops) /\ ops \subseteq Commands
                                  => NoneAfter(queue'[t], op, ops)
<1>1. CASE ~started
  <2>1. queue' = q  BY <1>1 DEF DisconnectAllFrom
  <2> QED  BY <1>1, <2>1
<1>2. CASE started
  <2>1. queue' = [t \in IoThreads |-> q[t] \o PostAll(DisconnectsOn(t))]
    BY <1>2 DEF DisconnectAllFrom
  <2>2. ASSUME NEW t \in IoThreads
        PROVE  /\ queue'[t] \in Seq(Handlers)
               /\ \A h : InQ(queue'[t], h) <=>
                     InQ(q[t], h) \/ \E s \in DisconnectsOn(t) : h = On(s, "Disconnect")
               /\ \A op \in Commands : Has(queue'[t], op) <=> Has(q[t], op)
               /\ \A op \in Commands : Once(q[t], op) => Once(queue'[t], op)
               /\ \A op, ops : NoneAfter(q[t], op, ops) /\ ops \subseteq Commands
                                  => NoneAfter(queue'[t], op, ops)
    <3> DEFINE S == DisconnectsOn(t)  b == PostAll(S)  a == q[t]  c == queue'[t]
    <3>1. S \in SUBSET Sessions  BY DEF DisconnectsOn
    <3>2. c = a \o b /\ a \in Seq(Handlers)  BY <2>1
    <3> HIDE DEF S, a, c
    <3>3. b \in Seq(Handlers) /\ \A h : InQ(b, h) <=> \E s \in S : h = On(s, "Disconnect")
      BY <3>1, Posted
    <3> HIDE DEF b
    <3>4. \A h : InQ(b, h) => h.op = "Disconnect"  BY <3>1, <3>3, HandlerTypes
    <3>5. \A op \in Commands : ~Has(b, op)  BY <3>4, HasIn DEF Commands
    <3>6. /\ c \in Seq(Handlers)
          /\ \A h : InQ(c, h) <=> InQ(a, h) \/ InQ(b, h)
          /\ \A op : Once(a, op) /\ ~Has(b, op) => Once(c, op)
          /\ \A op, ops : NoneAfter(a, op, ops) /\ (\A x \in ops : ~Has(b, x))
                             => NoneAfter(c, op, ops)
      BY <3>2, <3>3, QueueConcat
    <3>7. \A op \in Commands : Has(c, op) <=> Has(a, op)  BY <3>5, <3>6, HasIn
    <3>8. /\ \A op \in Commands : Once(a, op) => Once(c, op)
          /\ \A op, ops : NoneAfter(a, op, ops) /\ ops \subseteq Commands => NoneAfter(c, op, ops)
      BY <3>5, <3>6
    <3>9. \A h : InQ(c, h) <=> InQ(a, h) \/ \E s \in S : h = On(s, "Disconnect")
      BY <3>3, <3>6
    <3> QED  BY <3>6, <3>7, <3>8, <3>9 DEF S, a, c
  <2>3. queue' \in [IoThreads -> Seq(Handlers)]
    <3>1. \A t \in IoThreads : q[t] \o PostAll(DisconnectsOn(t)) \in Seq(Handlers)
      BY <2>1, <2>2
    <3> QED  BY <2>1, <3>1
  <2> QED  BY <2>2, <2>3
<1> QED  BY <1>1, <1>2

\* Sessions that are connected are told to disconnect.
LEMMA SessionsTold ==
  ASSUME ServerInv, sessions' = sessions, connected' = connected, reading' = reading,
         crashed' = crashed,
         \A t \in IoThreads : \A h : h.op \in SessionOps =>
            /\ InQ(queue[t], h) => InQ(queue'[t], h)
            /\ InQ(queue'[t], h) =>
                  InQ(queue[t], h) \/ \E s \in DisconnectsOn(t) : h = On(s, "Disconnect"),
         stopping' = <<"ClearStarted">> =>
            \A s \in connected : Queued(ThreadOf(s), On(s, "Disconnect"))'
  PROVE  SessionInv' /\ ToldInv' /\ \A s : Fresh(s) => Fresh(s)'
<1>1. /\ \A s \in Sessions : ThreadOf(s) \in IoThreads
      /\ ServerThread \in IoThreads /\ connected \subseteq Sessions /\ sessions \subseteq Sessions
  BY ThreadOfType, ServerThreadType DEF ServerInv, TypeOK
<1>2. ASSUME NEW s, Fresh(s) PROVE Fresh(s)'
  <2>1. s \notin sessions \cup connected \cup reading
    BY <1>2, InQueue
  <2>2. ASSUME NEW t \in IoThreads, NEW h, InQ(queue'[t], h) PROVE ~IsOf(h, s)
    <3>1. CASE InQ(queue[t], h)  BY <1>2, <3>1, InQueue
    <3>2. CASE ~InQ(queue[t], h) /\ h.op \in SessionOps
      <4>1. PICK x \in DisconnectsOn(t) : h = On(x, "Disconnect")  BY <2>2, <3>2
      <4>2. x \in connected /\ h.session = x
        BY <1>1, <4>1, HandlerTypes DEF DisconnectsOn
      <4> QED  BY <2>1, <4>2 DEF IsOf
    <3>3. CASE h.op \notin SessionOps  BY <3>3 DEF IsOf, SessionOps
    <3> QED  BY <3>1, <3>2, <3>3
  <2> QED  BY <2>1, <2>2, InNextQueue
<1>3. \A s \in Sessions :
         /\ Queued(ServerThread, On(s, "Unregister"))' <=> Queued(ServerThread, On(s, "Unregister"))
         /\ \A ok \in BOOLEAN : Queued(ThreadOf(s), Read(s, ok))' <=> Queued(ThreadOf(s), Read(s, ok))
  <2> TAKE s \in Sessions
  <2>1. /\ On(s, "Unregister").op = "Unregister"
        /\ \A ok \in BOOLEAN : Read(s, ok).op = "Read"
        /\ \A t, x : x \in DisconnectsOn(t) => On(x, "Disconnect").op = "Disconnect"
    BY <1>1, HandlerTypes DEF DisconnectsOn
  <2>2. \A t \in IoThreads : \A h :
           h.op \in SessionOps /\ h.op # "Disconnect" => (InQ(queue'[t], h) <=> InQ(queue[t], h))
    BY <2>1
  <2> QED  BY <1>1, <2>1, <2>2, InQueue, InNextQueue DEF SessionOps
<1>4. SessionsAreAlive' /\ ClientIsWatched'
  BY <1>1, <1>3 DEF ServerInv, SessionInv, SessionsAreAlive, ClientIsWatched
<1>5. SessionInv'
  BY <1>1, <1>3, <1>4 DEF ServerInv, SessionInv
<1>6. ToldInv'  BY DEF ToldInv
<1> QED  BY <1>2, <1>5, <1>6

LEMMA DisconnectSessionsKeeps ==
  ASSUME NEW u, Users = {u}, ServerInv, DisconnectSessions
  PROVE  ServerInv'
<1> DEFINE q == queue'[ServerThread]
<1>1. /\ created' = created /\ sessions' = sessions /\ connected' = connected
      /\ reading' = reading /\ todo' = todo /\ crashed' = crashed /\ calls' = calls
      /\ accepted' = accepted
      /\ stopping # <<>> /\ started /\ ~Has(Serving, "Start")
      /\ stopping' \in StopStacks \ {StopSteps} /\ StackInv'
      /\ stopping' \in {SubSeq(StopSteps, i, Len(StopSteps)) : i \in 1..5}
      /\ stopping' # <<>> /\ accepts = {}
  BY StopAtFacts DEF DisconnectSessions
<1>2. /\ started' = started /\ accepts' = accepts /\ detached' = detached
      /\ DisconnectAllFrom(queue)
  BY DEF DisconnectSessions
<1>3. /\ queue \in [IoThreads -> Seq(Handlers)] /\ sessions \subseteq Sessions
      /\ connected \subseteq sessions
  BY DEF ServerInv, TypeOK, SessionInv
<1>4. /\ queue' \in [IoThreads -> Seq(Handlers)]
      /\ \A t \in IoThreads : \A h :
            /\ InQ(queue[t], h) => InQ(queue'[t], h)
            /\ InQ(queue'[t], h) =>
                  InQ(queue[t], h) \/ \E s \in DisconnectsOn(t) : h = On(s, "Disconnect")
      /\ \A t \in IoThreads : \A s \in DisconnectsOn(t) : InQ(queue'[t], On(s, "Disconnect"))
      /\ \A t \in IoThreads :
            /\ \A op \in Commands : Has(queue'[t], op) <=> Has(queue[t], op)
            /\ \A op \in Commands : Once(queue[t], op) => Once(queue'[t], op)
            /\ \A op, ops : NoneAfter(queue[t], op, ops) /\ ops \subseteq Commands
                               => NoneAfter(queue'[t], op, ops)
  BY <1>1, <1>2, <1>3, AllTold
<1>5. /\ \A op \in Commands : Has(q, op) <=> Has(Serving, op)
      /\ Once(Serving, "Accepted") => Once(q, "Accepted")
      /\ NoneAfter(Serving, "Stop", {"Start"}) => NoneAfter(q, "Stop", {"Start"})
  BY <1>4, ServerThreadType DEF Serving, Commands
<1>6. Serving' = q /\ At(u)' = At(u)  BY <1>1 DEF Serving, At
<1> HIDE DEF q
<1>7. TypeOK'  BY <1>1, <1>2, <1>4 DEF ServerInv, TypeOK
<1>8. CommandInv'
  BY <1>1, <1>2, <1>5, <1>6 DEF ServerInv, CommandInv, Commands
<1>9. AcceptInv'
  BY <1>1, <1>2, <1>5, <1>6 DEF ServerInv, AcceptInv, Commands
<1>10. CountInv'
  <2>1. Calling(u)' => Calling(u)  BY <1>1, <1>2, <1>6 DEF Calling
  <2>2. ~Ending'  BY <1>1 DEF Ending
  <2> QED  BY <1>1, <1>2, <2>1, <2>2, CountKept
<1>11. FreshInv' /\ SessionInv' /\ ToldInv'
  <2>1. \A t \in IoThreads : \A h : h.op \in SessionOps =>
           /\ InQ(queue[t], h) => InQ(queue'[t], h)
           /\ InQ(queue'[t], h) =>
                 InQ(queue[t], h) \/ \E s \in DisconnectsOn(t) : h = On(s, "Disconnect")
    BY <1>4
  <2>2. \A s \in connected : Queued(ThreadOf(s), On(s, "Disconnect"))'
    <3> TAKE s \in connected
    <3>1. ThreadOf(s) \in IoThreads /\ s \in DisconnectsOn(ThreadOf(s))
      BY <1>3, ThreadOfType DEF DisconnectsOn
    <3>2. InQ(queue'[ThreadOf(s)], On(s, "Disconnect"))  BY <1>4, <3>1
    <3> QED  BY <3>2, InNextQueue
  <2>3. SessionInv' /\ ToldInv' /\ \A s : Fresh(s) => Fresh(s)'
    BY <1>1, <2>1, <2>2, SessionsTold
  <2>4. Has(queue'[ServerThread], "Accepted") => Has(Serving, "Accepted")
    BY <1>5 DEF Commands, q
  <2> QED  BY <1>1, <1>2, <2>3, <2>4, FreshKept
<1> QED  BY <1>1, <1>7, <1>8, <1>9, <1>10, <1>11 DEF ServerInv

-----------------------------------------------------------------------------
(* The other handlers.                                                     *)

LEMMA DisconnectAllHandlerKeeps ==
  ASSUME NEW u, Users = {u}, ServerInv, DisconnectAllHandler
  PROVE  ServerInv'
<1> DEFINE q == Taken(ServerThread)  f == First(ServerThread)  r == queue'[ServerThread]
<1>1. /\ Ready(ServerThread, "DisconnectAll") /\ DisconnectAllFrom(q)
      /\ started' = started /\ accepts' = accepts /\ created' = created
      /\ detached' = detached /\ sessions' = sessions /\ connected' = connected
      /\ reading' = reading /\ stopping' = stopping /\ todo' = todo /\ crashed' = crashed
      /\ calls' = calls /\ accepted' = accepted
  BY DEF DisconnectAllHandler
<1>2. /\ stopping = <<>> /\ f.op = "DisconnectAll"
      /\ q \in [IoThreads -> Seq(Handlers)]
      /\ \A op : Has(Serving, op) <=> op = "DisconnectAll" \/ Has(q[ServerThread], op)
      /\ Once(q[ServerThread], "Accepted")
      /\ \A op, ops : NoneAfter(Serving, op, ops) => NoneAfter(q[ServerThread], op, ops)
      /\ \A x \in IoThreads : \A h :
            InQ(queue[x], h) <=> InQ(q[x], h) \/ (x = ServerThread /\ h = f)
  BY <1>1, ServingTaken
<1> HIDE DEF q, f
<1>3. /\ sessions \subseteq Sessions /\ connected \subseteq sessions
  BY DEF ServerInv, TypeOK, SessionInv
<1>4. /\ queue' \in [IoThreads -> Seq(Handlers)]
      /\ \A t \in IoThreads : \A h :
            /\ InQ(q[t], h) => InQ(queue'[t], h)
            /\ InQ(queue'[t], h) =>
                  InQ(q[t], h) \/ \E s \in DisconnectsOn(t) : h = On(s, "Disconnect")
      /\ \A t \in IoThreads :
            /\ \A op \in Commands : Has(queue'[t], op) <=> Has(q[t], op)
            /\ \A op \in Commands : Once(q[t], op) => Once(queue'[t], op)
            /\ \A op, ops : NoneAfter(q[t], op, ops) /\ ops \subseteq Commands
                               => NoneAfter(queue'[t], op, ops)
  <2>1. sessions \subseteq Sessions /\ q \in [IoThreads -> Seq(Handlers)] /\ DisconnectAllFrom(q)
    BY <1>1, <1>2, <1>3
  <2> QED  BY <2>1, AllTold
<1>5. /\ \A op \in Commands : Has(r, op) <=> Has(Serving, op)
      /\ Once(Serving, "Accepted") => Once(r, "Accepted")
      /\ \A op, ops : NoneAfter(Serving, op, ops) /\ ops \subseteq Commands
                         => NoneAfter(r, op, ops)
  BY <1>2, <1>4, ServerThreadType DEF Commands
<1>6. StackInv' /\ CommandInv' /\ AcceptInv' /\ CountInv'
  BY <1>1, <1>5, CommandsKept
<1>7. TypeOK'  BY <1>1, <1>4 DEF ServerInv, TypeOK
<1>8. FreshInv' /\ SessionInv' /\ ToldInv'
  <2>1. \A t \in IoThreads : \A h : h.op \in SessionOps =>
           /\ InQ(queue[t], h) => InQ(queue'[t], h)
           /\ InQ(queue'[t], h) =>
                 InQ(queue[t], h) \/ \E s \in DisconnectsOn(t) : h = On(s, "Disconnect")
    BY <1>2, <1>4 DEF SessionOps
  <2>2. \A x : Len(<<x>>) = 1 /\ Len(<<>>) = 0  OBVIOUS
  <2>3. stopping' # <<"ClearStarted">>  BY <1>1, <1>2, <2>2
  <2>4. SessionInv' /\ ToldInv' /\ \A s : Fresh(s) => Fresh(s)'
    BY <1>1, <2>1, <2>3, SessionsTold
  <2>5. Has(queue'[ServerThread], "Accepted") => Has(Serving, "Accepted")
    BY <1>5 DEF Commands
  <2> QED  BY <1>1, <2>4, <2>5, FreshKept
<1> QED  BY <1>6, <1>7, <1>8 DEF ServerInv

\* A step that is about the session s only.
LEMMA OneSession ==
  ASSUME ServerInv, NEW s \in Sessions, stopping' = stopping,
         connected' \subseteq connected \cup {s}, connected \subseteq connected' \cup {s},
         reading' \subseteq reading \cup {s}, reading \subseteq reading' \cup {s},
         sessions' \subseteq sessions \cup {s}, sessions \subseteq sessions' \cup {s},
         crashed => crashed',
         \A t \in IoThreads : \A h : h.op \in SessionOps /\ h.session # s =>
            (InQ(queue'[t], h) <=> InQ(queue[t], h)),
         s \in connected' =>
            /\ s \in sessions'
            /\ ~Queued(ServerThread, On(s, "Unregister"))'
            /\ s \in reading' \/ \E ok \in BOOLEAN : Queued(ThreadOf(s), Read(s, ok))'
            /\ stopping = <<"ClearStarted">> => Queued(ThreadOf(s), On(s, "Disconnect"))',
         s \in sessions' \ connected' =>
            crashed' \/ Queued(ServerThread, On(s, "Unregister"))'
  PROVE  SessionInv' /\ ToldInv' /\ \A x : x # s /\ Fresh(x) => Fresh(x)'
<1>1. \A x : x # s /\ Fresh(x) => Fresh(x)'
  BY InQueue, InNextQueue DEF IsOf, SessionOps
<1>2. /\ \A x \in Sessions : ThreadOf(x) \in IoThreads
      /\ ServerThread \in IoThreads /\ connected \subseteq Sessions /\ sessions \subseteq Sessions
      /\ connected' \subseteq Sessions /\ sessions' \subseteq Sessions
  BY ThreadOfType, ServerThreadType DEF ServerInv, TypeOK
<1>3. \A x \in Sessions : x # s =>
         /\ Queued(ServerThread, On(x, "Unregister"))' <=> Queued(ServerThread, On(x, "Unregister"))
         /\ Queued(ThreadOf(x), On(x, "Disconnect"))' <=> Queued(ThreadOf(x), On(x, "Disconnect"))
         /\ \A ok \in BOOLEAN : Queued(ThreadOf(x), Read(x, ok))' <=> Queued(ThreadOf(x), Read(x, ok))
  <2> SUFFICES ASSUME NEW x \in Sessions, x # s
               PROVE  /\ Queued(ServerThread, On(x, "Unregister"))'
                            <=> Queued(ServerThread, On(x, "Unregister"))
                      /\ Queued(ThreadOf(x), On(x, "Disconnect"))'
                            <=> Queued(ThreadOf(x), On(x, "Disconnect"))
                      /\ \A ok \in BOOLEAN : Queued(ThreadOf(x), Read(x, ok))'
                            <=> Queued(ThreadOf(x), Read(x, ok))
    OBVIOUS
  <2>1. /\ On(x, "Unregister").op \in SessionOps /\ On(x, "Unregister").session = x
        /\ On(x, "Disconnect").op \in SessionOps /\ On(x, "Disconnect").session = x
        /\ \A ok \in BOOLEAN : Read(x, ok).op \in SessionOps /\ Read(x, ok).session = x
    BY HandlerTypes DEF SessionOps
  <2> QED  BY <1>2, <2>1, InQueue, InNextQueue
<1>4. /\ connected \subseteq sessions /\ SessionsAreAlive /\ ClientIsWatched /\ ToldInv
      /\ \A x \in Sessions : Queued(ServerThread, On(x, "Unregister")) => x \notin connected
  BY DEF ServerInv, SessionInv
<1>5. SessionsAreAlive'
  <2> SUFFICES ASSUME ~crashed'
               PROVE  /\ connected' \subseteq sessions'
                      /\ \A x \in sessions' \ connected' : Queued(ServerThread, On(x, "Unregister"))'
    BY DEF SessionsAreAlive
  <2> QED  BY <1>2, <1>3, <1>4 DEF SessionsAreAlive
<1>6. ClientIsWatched'
  <2> SUFFICES ASSUME NEW x \in connected'
               PROVE  x \in reading' \/ \E ok \in BOOLEAN : Queued(ThreadOf(x), Read(x, ok))'
    BY DEF ClientIsWatched
  <2>1. CASE x = s  BY <2>1
  <2>2. CASE x # s
    <3>1. x \in Sessions /\ x \in connected  BY <1>2, <2>2
    <3>2. x \in reading \/ \E ok \in BOOLEAN : Queued(ThreadOf(x), Read(x, ok))
      BY <1>4, <3>1 DEF ClientIsWatched
    <3> QED  BY <1>3, <2>2, <3>1, <3>2
  <2> QED  BY <2>1, <2>2
<1>7. connected' \subseteq sessions'  BY <1>4
<1>8. \A x \in Sessions : Queued(ServerThread, On(x, "Unregister"))' => x \notin connected'
  BY <1>3, <1>4
<1>9. ToldInv'
  <2> SUFFICES ASSUME stopping = <<"ClearStarted">>, NEW x \in connected'
               PROVE  Queued(ThreadOf(x), On(x, "Disconnect"))'
    BY DEF ToldInv
  <2>1. CASE x = s  BY <2>1
  <2>2. CASE x # s  BY <1>2, <1>3, <1>4, <2>2 DEF ToldInv
  <2> QED  BY <2>1, <2>2
<1> QED  BY <1>1, <1>5, <1>6, <1>7, <1>8, <1>9 DEF SessionInv

LEMMA UnregisterSessionKeeps ==
  ASSUME NEW u, Users = {u}, ServerInv, UnregisterSession
  PROVE  ServerInv'
<1> DEFINE q == Taken(ServerThread)  f == First(ServerThread)  s == f.session
<1>1. /\ Ready(ServerThread, "Unregister") /\ sessions' = sessions \ {s} /\ queue' = q
      /\ started' = started /\ accepts' = accepts /\ created' = created
      /\ detached' = detached /\ connected' = connected
      /\ reading' = reading /\ stopping' = stopping /\ todo' = todo /\ crashed' = crashed
      /\ calls' = calls /\ accepted' = accepted
  BY DEF UnregisterSession
<1>2. /\ f \in Handlers /\ f.op = "Unregister" /\ queue[ServerThread] # <<>>
      /\ q \in [IoThreads -> Seq(Handlers)]
      /\ \A op : Has(Serving, op) <=> op = "Unregister" \/ Has(q[ServerThread], op)
      /\ Once(q[ServerThread], "Accepted")
      /\ \A op, ops : NoneAfter(Serving, op, ops) => NoneAfter(q[ServerThread], op, ops)
      /\ \A x \in IoThreads : \A h :
            InQ(queue[x], h) <=> InQ(q[x], h) \/ (x = ServerThread /\ h = f)
  BY <1>1, ServingTaken
<1> HIDE DEF q, f
<1>3. s \in Sessions /\ f = On(s, "Unregister")  BY <1>2, HandlerShapes DEF SessionOps
<1>4. InQ(queue[ServerThread], f)  BY <1>2, ServerThreadType
<1>5. s \notin connected
  BY <1>3, <1>4, InQueue DEF ServerInv, SessionInv
<1>6. ~Fresh(s)  BY <1>2, <1>4, InQueue, ServerThreadType DEF IsOf
<1>7. /\ \A op \in Commands : Has(queue'[ServerThread], op) <=> Has(Serving, op)
      /\ Once(Serving, "Accepted") => Once(queue'[ServerThread], "Accepted")
      /\ \A op, ops : NoneAfter(Serving, op, ops) /\ ops \subseteq Commands
                         => NoneAfter(queue'[ServerThread], op, ops)
  BY <1>1, <1>2 DEF Commands
<1>8. StackInv' /\ CommandInv' /\ AcceptInv' /\ CountInv'
  BY <1>1, <1>7, CommandsKept
<1>9. TypeOK'  BY <1>1, <1>2 DEF ServerInv, TypeOK
<1>10. FreshInv' /\ SessionInv' /\ ToldInv'
  <2>1. \A t \in IoThreads : \A h : h.op \in SessionOps /\ h.session # s =>
           (InQ(queue'[t], h) <=> InQ(queue[t], h))
    BY <1>1, <1>2
  <2> HIDE DEF s
  <2>2. SessionInv' /\ ToldInv' /\ \A x : x # s /\ Fresh(x) => Fresh(x)'
    BY <1>1, <1>3, <1>5, <2>1, OneSession
  <2>3. \A x : Fresh(x) => Fresh(x)'  BY <1>6, <2>2
  <2>4. Has(queue'[ServerThread], "Accepted") => Has(Serving, "Accepted")
    BY <1>7 DEF Commands
  <2> QED  BY <1>1, <2>2, <2>3, <2>4, FreshKept
<1> QED  BY <1>8, <1>9, <1>10 DEF ServerInv

LEMMA AcceptedHandlerKeeps ==
  ASSUME NEW u, Users = {u}, ServerInv, AcceptedHandler
  PROVE  ServerInv'
<1> DEFINE q == Taken(ServerThread)  f == First(ServerThread)
<1>1. /\ Ready(ServerThread, "Accepted") /\ queue' = q
      /\ started' = started /\ detached' = detached /\ stopping' = stopping
      /\ todo' = todo /\ calls' = calls /\ accepted' = accepted
  BY DEF AcceptedHandler
<1>2. /\ f \in Handlers /\ f.op = "Accepted" /\ stopping = <<>>
      /\ q \in [IoThreads -> Seq(Handlers)]
      /\ \A op : Has(Serving, op) <=> op = "Accepted" \/ Has(q[ServerThread], op)
      /\ Once(q[ServerThread], "Accepted") /\ ~Has(q[ServerThread], "Accepted")
      /\ \A op, ops : NoneAfter(Serving, op, ops) => NoneAfter(q[ServerThread], op, ops)
      /\ \A x \in IoThreads : \A h :
            InQ(queue[x], h) <=> InQ(q[x], h) \/ (x = ServerThread /\ h = f)
  BY <1>1, ServingTaken
<1>3. \/ Accept(started, accepts) /\ crashed' = crashed
      \/ created \in detached /\ created' = created /\ accepts' = accepts /\ crashed' = TRUE
  BY DEF AcceptedHandler
<1>4. \/ sessions' = sessions /\ connected' = connected /\ reading' = reading /\ crashed' = crashed
      \/ /\ sessions' = sessions \cup {created} /\ connected' = connected \cup {created}
         /\ reading' = reading \cup {created} /\ crashed' = crashed
      \/ /\ sessions' = sessions \cup {created} /\ connected' = connected
         /\ reading' = reading /\ crashed' = TRUE
  BY DEF AcceptedHandler
<1> HIDE DEF q, f
<1>5. Has(Serving, "Accepted")  BY <1>2
<1>6. accepts = {} /\ Fresh(created) /\ created >= 1
  BY <1>5 DEF ServerInv, AcceptInv, FreshInv, CountInv
<1>7. /\ created \in Nat /\ calls \in 0..MaxCalls /\ accepted \in 0..MaxAccepts
      /\ created <= Bound
      /\ created + (IF Calling(u) THEN 1 ELSE 0) + (IF Ending THEN 1 ELSE 0)
            <= calls + accepted
  BY BoundType, Counted DEF ServerInv, TypeOK
<1>8. created \in Sessions  BY <1>6, <1>7 DEF Sessions
<1>9. started => Ending  BY <1>2, <1>5 DEF Ending
<1>10. \/ created' = created /\ accepts' = {} /\ (started => crashed')
       \/ /\ started /\ created' = created + 1 /\ accepts' = {created + 1}
          /\ created + 1 \in Sessions
  <2>1. started => created + 1 \in Sessions
    BY <1>7, <1>9, BoundType DEF Bound, Sessions
  <2> QED  BY <1>3, <1>6, <2>1 DEF Accept
<1>11. Serving' = q[ServerThread] /\ At(u)' = At(u)  BY <1>1 DEF Serving, At
<1>12. TypeOK'
  <2>1. created' \in 0..Bound /\ accepts' \subseteq Sessions
    BY <1>7, <1>10, BoundType DEF Sessions
  <2>2. crashed' \in BOOLEAN  BY <1>4 DEF ServerInv, TypeOK
  <2>3. sessions' \subseteq Sessions /\ connected' \subseteq Sessions /\ reading' \subseteq Sessions
    BY <1>4, <1>8 DEF ServerInv, TypeOK
  <2> QED  BY <1>1, <1>2, <2>1, <2>2, <2>3 DEF ServerInv, TypeOK
<1>13. StackInv'  BY <1>1 DEF ServerInv, StackInv
<1>14. CommandInv'
  BY <1>1, <1>2, <1>11 DEF ServerInv, CommandInv
<1>15. AcceptInv'
  <2>1. stopping' \notin StopStacks \ {<<>>, StopSteps}  BY <1>1, <1>2
  <2> QED  BY <1>1, <1>2, <1>10, <1>11, <2>1 DEF AcceptInv
<1>16. CountInv'
  <2> DEFINE x == IF Calling(u) THEN 1 ELSE 0
  <2>1. x \in {0, 1} /\ (started => created + x + 1 <= calls + accepted)
        /\ created + x <= calls + accepted
    BY <1>7, <1>9, BoundType
  <2>2. Calling(u)' <=> Calling(u)  BY <1>1, <1>2, <1>11 DEF Calling
  <2>3. ~Ending' /\ ~Has(Serving', "Accepted")  BY <1>2, <1>11 DEF Ending
  <2>4. Users' = Users /\ (Restarts(todo[u])' <=>
           \E y \in Users : todo'[y] # <<>> /\ todo'[y][Len(todo'[y])] = "StartAgain")
    BY DEF Restarts
  <2>5. created' \in Nat /\ created' >= 1 /\ created' + x <= calls' + accepted'
    BY <1>1, <1>6, <1>7, <1>10, <2>1
  <2>6. (IF Calling(u)' THEN 1 ELSE 0) = x  BY <2>2
  <2> HIDE DEF x
  <2> QED  BY <2>1, <2>3, <2>4, <2>5, <2>6 DEF CountInv, Calling, Ending
<1>17. SessionInv' /\ ToldInv' /\ \A s : s # created /\ Fresh(s) => Fresh(s)'
  <2>1. \A t \in IoThreads : \A h : h.op \in SessionOps => (InQ(queue'[t], h) <=> InQ(queue[t], h))
    BY <1>1, <1>2 DEF SessionOps
  <2>2. stopping # <<"ClearStarted">>
    <3>1. Len(<<"ClearStarted">>) = 1 /\ Len(<<>>) = 0  OBVIOUS
    <3> QED  BY <1>2, <3>1
  <2> PICK s \in Sessions : s = created  BY <1>8
  <2>3. ~Queued(ServerThread, On(s, "Unregister"))'
    <3> DEFINE h == On(s, "Unregister")
    <3>1. h.op \in SessionOps /\ IsOf(h, s)
      BY HandlerTypes DEF IsOf, SessionOps
    <3> HIDE DEF h
    <3>2. ~InQ(queue[ServerThread], h)
      BY <1>6, <3>1, InQueue, ServerThreadType
    <3>3. ~InQ(queue'[ServerThread], h)  BY <2>1, <3>1, <3>2, ServerThreadType
    <3> QED  BY <3>3, InNextQueue DEF h
  <2>4. s \notin sessions \cup connected \cup reading  BY <1>6 DEF Fresh
  <2>5. s \in connected' => s \in sessions' /\ s \in reading'  BY <1>4, <2>4
  <2>6. s \in sessions' \ connected' => crashed'  BY <1>4, <2>4
  <2>7. /\ connected' \subseteq connected \cup {s} /\ connected \subseteq connected' \cup {s}
        /\ reading' \subseteq reading \cup {s} /\ reading \subseteq reading' \cup {s}
        /\ sessions' \subseteq sessions \cup {s} /\ sessions \subseteq sessions' \cup {s}
        /\ crashed => crashed'
    BY <1>4
  <2>8. SessionInv' /\ ToldInv' /\ \A x : x # s /\ Fresh(x) => Fresh(x)'
    BY <1>1, <2>1, <2>2, <2>3, <2>5, <2>6, <2>7, OneSession
  <2> QED  BY <2>8
<1>18. FreshInv'
  <2>1. \A s \in Sessions : s > created => Fresh(s) /\ s # created
    BY <1>7 DEF ServerInv, FreshInv, Sessions
  <2>2. \A s \in Sessions : s > created => Fresh(s)'  BY <1>17, <2>1
  <2>3. ~Has(Serving', "Accepted")  BY <1>2, <1>11
  <2>4. \A s \in Sessions : s > created' => s > created
    BY <1>7, <1>10 DEF Sessions
  <2>5. accepts' # {} => created' \in Sessions /\ created' > created
    BY <1>7, <1>10
  <2>6. accepts' # {} => Fresh(created)'
    <3>1. \A s : s = created' /\ Fresh(s)' => Fresh(created)'
      BY InNextQueue
    <3> QED  BY <2>2, <2>5, <3>1
  <2> QED  BY <2>2, <2>3, <2>4, <2>6 DEF FreshInv
<1> QED  BY <1>12, <1>13, <1>14, <1>15, <1>16, <1>17, <1>18 DEF ServerInv

\* Handlers that are no commands are put into a queue.
LEMMA PutNoCommand ==
  ASSUME NEW q \in [IoThreads -> Seq(Handlers)], NEW t \in IoThreads, NEW b \in Seq(Handlers),
         \A h : InQ(b, h) => h.op \notin Commands
  PROVE  \A x \in IoThreads :
            /\ \A op \in Commands : Has(Put(q, t, b)[x], op) <=> Has(q[x], op)
            /\ \A op \in Commands : Once(q[x], op) => Once(Put(q, t, b)[x], op)
            /\ \A op, ops : NoneAfter(q[x], op, ops) /\ ops \subseteq Commands
                               => NoneAfter(Put(q, t, b)[x], op, ops)
<1> DEFINE a == q[t]  c == a \o b  p == Put(q, t, b)
<1>1. p[t] = c /\ \A y \in IoThreads : y # t => p[y] = q[y]
  BY DEF Put
<1>2. a \in Seq(Handlers)  OBVIOUS
<1>3. \A op \in Commands : ~Has(b, op)  BY HasIn
<1> HIDE DEF a, p
<1>4. /\ \A h : InQ(c, h) <=> InQ(a, h) \/ InQ(b, h)
      /\ \A op : Once(a, op) /\ ~Has(b, op) => Once(c, op)
      /\ \A op, ops : NoneAfter(a, op, ops) /\ (\A y \in ops : ~Has(b, y)) => NoneAfter(c, op, ops)
  BY <1>2, QueueConcat
<1> HIDE DEF c
<1>5. \A op \in Commands : Has(c, op) <=> Has(a, op)  BY <1>3, <1>4, HasIn
<1>6. /\ \A op \in Commands : Once(a, op) => Once(c, op)
      /\ \A op, ops : NoneAfter(a, op, ops) /\ ops \subseteq Commands => NoneAfter(c, op, ops)
  BY <1>3, <1>4
<1>7. \A x \in IoThreads : (x = t => p[x] = c /\ q[x] = a) /\ (x # t => p[x] = q[x])
  BY <1>1 DEF a
<1>8. \A x \in IoThreads :
         /\ \A op \in Commands : Has(p[x], op) <=> Has(q[x], op)
         /\ \A op \in Commands : Once(q[x], op) => Once(p[x], op)
         /\ \A op, ops : NoneAfter(q[x], op, ops) /\ ops \subseteq Commands
                            => NoneAfter(p[x], op, ops)
  BY <1>5, <1>6, <1>7
<1> QED  BY <1>8 DEF p

\* Thread t takes a handler of a session.
LEMMA SessionTaken ==
  ASSUME ServerInv, NEW t \in IoThreads, NEW name \in {"Disconnect", "Read"}, Ready(t, name)
  PROVE  /\ First(t) \in Handlers /\ First(t).op = name /\ First(t).session \in Sessions
         /\ Taken(t) \in [IoThreads -> Seq(Handlers)]
         /\ InQ(queue[t], First(t))
         /\ \A x \in IoThreads : \A h :
               InQ(queue[x], h) <=> InQ(Taken(t)[x], h) \/ (x = t /\ h = First(t))
         /\ \A op \in Commands : Has(Taken(t)[ServerThread], op) <=> Has(Serving, op)
         /\ Once(Taken(t)[ServerThread], "Accepted")
         /\ \A op, ops : NoneAfter(Serving, op, ops) => NoneAfter(Taken(t)[ServerThread], op, ops)
<1>1. queue[t] # <<>> /\ First(t).op = name /\ TypeOK  BY DEF Ready, ServerInv
<1>2. /\ Taken(t) \in [IoThreads -> Seq(Handlers)]
      /\ \A x \in IoThreads : x # t => Taken(t)[x] = queue[x]
      /\ First(t) \in Handlers
      /\ \A x \in IoThreads : \A h :
            InQ(queue[x], h) <=> InQ(Taken(t)[x], h) \/ (x = t /\ h = First(t))
  BY <1>1, TakenQueue
<1>3. First(t).session \in Sessions  BY <1>1, <1>2, HandlerShapes DEF SessionOps
<1>4. CASE t # ServerThread
  <2>1. Taken(t)[ServerThread] = Serving  BY <1>2, <1>4, ServerThreadType DEF Serving
  <2>2. Once(Serving, "Accepted")  BY DEF ServerInv, AcceptInv
  <2> QED  BY <1>1, <1>2, <1>3, <2>1, <2>2
<1>5. CASE t = ServerThread
  <2> DEFINE p == Taken(ServerThread)[ServerThread]
  <2>1. /\ \A op : Has(Serving, op) <=> op = name \/ Has(p, op)
        /\ Once(p, "Accepted")
        /\ \A op, ops : NoneAfter(Serving, op, ops) => NoneAfter(p, op, ops)
    BY <1>5, ServingTaken
  <2> QED  BY <1>1, <1>2, <1>3, <1>5, <2>1 DEF Commands
<1> QED  BY <1>4, <1>5

\* Session s disconnects, the queues being q.
LEMMA Leaves ==
  ASSUME NEW q \in [IoThreads -> Seq(Handlers)], NEW s \in Sessions, Disconnected(s, q)
  PROVE  /\ queue' \in [IoThreads -> Seq(Handlers)]
         /\ \A x \in IoThreads : \A h :
               h.session # s => (InQ(queue'[x], h) <=> InQ(q[x], h))
         /\ \/ sessions' = sessions \ {s}
            \/ sessions' = sessions /\ InQ(queue'[ServerThread], On(s, "Unregister"))
         /\ \A op \in Commands : Has(queue'[ServerThread], op) <=> Has(q[ServerThread], op)
         /\ Once(q[ServerThread], "Accepted") => Once(queue'[ServerThread], "Accepted")
         /\ \A op, ops : NoneAfter(q[ServerThread], op, ops) /\ ops \subseteq Commands
                            => NoneAfter(queue'[ServerThread], op, ops)
<1> DEFINE b == IF s \in reading THEN <<Read(s, FALSE)>> ELSE <<>>
           t == ThreadOf(s)  p == Put(q, t, b)
<1>1. t \in IoThreads /\ ServerThread \in IoThreads  BY ThreadOfType, ServerThreadType
<1>2. /\ t = ServerThread => queue' = p /\ sessions' = sessions \ {s}
      /\ t # ServerThread => /\ queue' = Put(p, ServerThread, <<On(s, "Unregister")>>)
                             /\ sessions' = sessions
  BY DEF Disconnected
<1>3. b \in Seq(Handlers) /\ \A h : InQ(b, h) => h.session = s /\ h.op \notin Commands
  <2> DEFINE r == Read(s, FALSE)
  <2>1. r \in Handlers /\ r.session = s /\ r.op \notin Commands
    BY HandlerTypes DEF Commands
  <2> HIDE DEF r
  <2>2. <<r>> \in Seq(Handlers) /\ \A h : InQ(<<r>>, h) => h = r  BY <2>1, Single
  <2>3. CASE s \in reading
    <3>1. b = <<r>>  BY <2>3 DEF r
    <3> QED  BY <2>1, <2>2, <3>1
  <2>4. CASE s \notin reading
    <3>1. b = <<>>  BY <2>4
    <3>2. <<>> \in Seq(Handlers)  OBVIOUS
    <3> HIDE DEF b
    <3>3. \A h : ~InQ(b, h)  BY <3>1, EmptyQueue
    <3> QED  BY <3>1, <3>2, <3>3
  <2> QED  BY <2>3, <2>4
<1> DEFINE r == On(s, "Unregister")  c == <<r>>
<1>4. /\ c \in Seq(Handlers) /\ InQ(c, r)
      /\ \A h : InQ(c, h) => h.session = s /\ h.op \notin Commands
  <2>1. r \in Handlers /\ r.session = s /\ r.op \notin Commands
    BY HandlerTypes DEF Commands
  <2> HIDE DEF r
  <2>2. <<r>> \in Seq(Handlers) /\ \A h : InQ(<<r>>, h) <=> h = r  BY <2>1, Single
  <2> QED  BY <2>1, <2>2
<1> HIDE DEF b, t, r, c
<1>5. /\ p \in [IoThreads -> Seq(Handlers)]
      /\ \A x \in IoThreads : \A h : InQ(p[x], h) <=> InQ(q[x], h) \/ (x = t /\ InQ(b, h))
      /\ \A op \in Commands : Has(p[ServerThread], op) <=> Has(q[ServerThread], op)
      /\ \A op \in Commands : Once(q[ServerThread], op) => Once(p[ServerThread], op)
      /\ \A op, ops : NoneAfter(q[ServerThread], op, ops) /\ ops \subseteq Commands
                         => NoneAfter(p[ServerThread], op, ops)
  BY <1>1, <1>3, PutQueue, PutNoCommand
<1>6. CASE t = ServerThread
  BY <1>2, <1>3, <1>5, <1>6 DEF Commands
<1>7. CASE t # ServerThread
  <2> HIDE DEF p
  <2> DEFINE d == Put(p, ServerThread, c)
  <2>1. /\ d \in [IoThreads -> Seq(Handlers)]
        /\ \A x \in IoThreads : \A h : InQ(d[x], h) <=> InQ(p[x], h) \/ (x = ServerThread /\ InQ(c, h))
        /\ \A op \in Commands : Has(d[ServerThread], op) <=> Has(p[ServerThread], op)
        /\ \A op \in Commands : Once(p[ServerThread], op) => Once(d[ServerThread], op)
        /\ \A op, ops : NoneAfter(p[ServerThread], op, ops) /\ ops \subseteq Commands
                           => NoneAfter(d[ServerThread], op, ops)
    BY <1>1, <1>4, <1>5, PutQueue, PutNoCommand
  <2>2. queue' = d /\ sessions' = sessions  BY <1>2, <1>7 DEF p, c, r
  <2> HIDE DEF d
  <2>3. InQ(queue'[ServerThread], r)  BY <1>1, <1>4, <2>1, <2>2
  <2>4. \A x \in IoThreads : \A h : h.session # s => (InQ(queue'[x], h) <=> InQ(q[x], h))
    BY <1>3, <1>4, <1>5, <2>1, <2>2
  <2> QED  BY <1>5, <2>1, <2>2, <2>3, <2>4 DEF Commands, r
<1> QED  BY <1>6, <1>7

LEMMA SessionStepKeeps ==
  ASSUME NEW u, Users = {u}, ServerInv, NEW t \in IoThreads, SessionStep(t)
  PROVE  ServerInv'
<1> DEFINE q == Taken(t)  f == First(t)
<1>1. PICK name \in {"Disconnect", "Read"} : Ready(t, name)
  BY DEF SessionStep, DisconnectHandler, AsyncReceiveHandler
<1>2. /\ started' = started /\ accepts' = accepts /\ created' = created
      /\ detached' = detached /\ stopping' = stopping /\ todo' = todo /\ crashed' = crashed
      /\ calls' = calls /\ accepted' = accepted
  BY DEF SessionStep, DisconnectHandler, AsyncReceiveHandler
<1>3. /\ f \in Handlers /\ f.op = name /\ f.session \in Sessions
      /\ q \in [IoThreads -> Seq(Handlers)]
      /\ InQ(queue[t], f)
      /\ \A x \in IoThreads : \A h : InQ(queue[x], h) <=> InQ(q[x], h) \/ (x = t /\ h = f)
      /\ \A op \in Commands : Has(q[ServerThread], op) <=> Has(Serving, op)
      /\ Once(q[ServerThread], "Accepted")
      /\ \A op, ops : NoneAfter(Serving, op, ops) => NoneAfter(q[ServerThread], op, ops)
  BY <1>1, SessionTaken
<1>4. \/ f.session \in connected /\ Disconnected(f.session, q)
      \/ f.session \notin connected /\ Ignored(t)
      \/ /\ f.session \in connected /\ reading' = reading \cup {f.session} /\ queue' = q
         /\ sessions' = sessions /\ connected' = connected /\ f.op = "Read"
  BY DEF SessionStep, DisconnectHandler, AsyncReceiveHandler, Ready
<1> HIDE DEF q, f
<1> PICK s \in Sessions : s = f.session  BY <1>3
<1>5. connected \subseteq sessions /\ connected \subseteq Sessions /\ ServerThread \in IoThreads
  BY ServerThreadType DEF ServerInv, SessionInv, TypeOK
<1>6. ~Fresh(s)  BY <1>3, InQueue DEF IsOf
<1>7. CASE s \in connected /\ Disconnected(s, q)
  <2>1. connected' = connected \ {s} /\ reading' = reading \ {s}  BY <1>7 DEF Disconnected
  <2>2. /\ queue' \in [IoThreads -> Seq(Handlers)]
        /\ \A x \in IoThreads : \A h : h.session # s => (InQ(queue'[x], h) <=> InQ(q[x], h))
        /\ \/ sessions' = sessions \ {s}
           \/ sessions' = sessions /\ InQ(queue'[ServerThread], On(s, "Unregister"))
        /\ \A op \in Commands : Has(queue'[ServerThread], op) <=> Has(q[ServerThread], op)
        /\ Once(q[ServerThread], "Accepted") => Once(queue'[ServerThread], "Accepted")
        /\ \A op, ops : NoneAfter(q[ServerThread], op, ops) /\ ops \subseteq Commands
                           => NoneAfter(queue'[ServerThread], op, ops)
    BY <1>3, <1>7, Leaves
  <2>3. StackInv' /\ CommandInv' /\ AcceptInv' /\ CountInv'
    <3>1. /\ \A op \in Commands : Has(queue'[ServerThread], op) <=> Has(Serving, op)
          /\ Once(Serving, "Accepted") => Once(queue'[ServerThread], "Accepted")
          /\ \A op, ops : NoneAfter(Serving, op, ops) /\ ops \subseteq Commands
                             => NoneAfter(queue'[ServerThread], op, ops)
      BY <1>3, <2>2
    <3> QED  BY <1>2, <3>1, CommandsKept
  <2>4. TypeOK'
    BY <1>2, <2>1, <2>2 DEF ServerInv, TypeOK
  <2>5. SessionInv' /\ ToldInv' /\ \A x : x # s /\ Fresh(x) => Fresh(x)'
    <3>1. \A x \in IoThreads : \A h : h.op \in SessionOps /\ h.session # s =>
             (InQ(queue'[x], h) <=> InQ(queue[x], h))
      BY <1>3, <2>2
    <3>2. s \in sessions' \ connected' => Queued(ServerThread, On(s, "Unregister"))'
      BY <2>2, InNextQueue
    <3> QED  BY <1>2, <2>1, <2>2, <3>1, <3>2, OneSession
  <2>6. FreshInv'
    <3>1. \A x : Fresh(x) => Fresh(x)'  BY <1>6, <2>5
    <3>2. Has(queue'[ServerThread], "Accepted") => Has(Serving, "Accepted")
      BY <1>3, <2>2 DEF Commands
    <3> QED  BY <1>2, <3>1, <3>2, FreshKept
  <2> QED  BY <2>3, <2>4, <2>5, <2>6 DEF ServerInv
<1>8. CASE \/ s \notin connected /\ Ignored(t)
           \/ /\ s \in connected /\ reading' = reading \cup {s} /\ queue' = q
              /\ sessions' = sessions /\ connected' = connected /\ f.op = "Read"
  <2>1. /\ queue' = q /\ sessions' = sessions /\ connected' = connected
        /\ reading' = reading \/ (reading' = reading \cup {s} /\ s \in connected /\ f.op = "Read")
        /\ s \in connected => s \in reading' /\ f.op = "Read"
    BY <1>8 DEF Ignored, q
  <2>2. StackInv' /\ CommandInv' /\ AcceptInv' /\ CountInv'
    <3>1. /\ \A op \in Commands : Has(queue'[ServerThread], op) <=> Has(Serving, op)
          /\ Once(Serving, "Accepted") => Once(queue'[ServerThread], "Accepted")
          /\ \A op, ops : NoneAfter(Serving, op, ops) /\ ops \subseteq Commands
                             => NoneAfter(queue'[ServerThread], op, ops)
      BY <1>3, <2>1
    <3> QED  BY <1>2, <3>1, CommandsKept
  <2>3. TypeOK'
    BY <1>2, <1>3, <2>1 DEF ServerInv, TypeOK
  <2>4. /\ Queued(ServerThread, On(s, "Unregister"))' <=> Queued(ServerThread, On(s, "Unregister"))
        /\ s \in connected /\ Queued(ThreadOf(s), On(s, "Disconnect"))
              => Queued(ThreadOf(s), On(s, "Disconnect"))'
    <3>1. On(s, "Unregister").op = "Unregister" /\ On(s, "Disconnect").op = "Disconnect"
      BY HandlerTypes
    <3>2. ThreadOf(s) \in IoThreads  BY ThreadOfType
    <3> DEFINE g == On(s, "Unregister")  d == On(s, "Disconnect")
    <3>3. g # f /\ (s \in connected => d # f)
      BY <1>3, <2>1, <3>1
    <3> HIDE DEF g, d
    <3>4. /\ InQ(queue'[ServerThread], g) <=> InQ(queue[ServerThread], g)
          /\ s \in connected /\ InQ(queue[ThreadOf(s)], d) => InQ(queue'[ThreadOf(s)], d)
      BY <1>3, <1>5, <2>1, <3>2, <3>3
    <3> QED  BY <3>4, InQueue, InNextQueue DEF g, d
  <2>5. SessionInv' /\ ToldInv' /\ \A x : x # s /\ Fresh(x) => Fresh(x)'
    <3>1. \A x \in IoThreads : \A h : h.op \in SessionOps /\ h.session # s =>
             (InQ(queue'[x], h) <=> InQ(queue[x], h))
      BY <1>3, <2>1
    <3>2. s \in connected =>
             /\ ~Queued(ServerThread, On(s, "Unregister"))
             /\ stopping = <<"ClearStarted">> => Queued(ThreadOf(s), On(s, "Disconnect"))
      BY DEF ServerInv, SessionInv, ToldInv
    <3>3. s \in sessions \ connected => crashed \/ Queued(ServerThread, On(s, "Unregister"))
      BY DEF ServerInv, SessionInv, SessionsAreAlive
    <3>4. s \in connected' =>
             /\ s \in sessions' /\ s \in reading'
             /\ ~Queued(ServerThread, On(s, "Unregister"))'
             /\ stopping = <<"ClearStarted">> => Queued(ThreadOf(s), On(s, "Disconnect"))'
      BY <1>5, <2>1, <2>4, <3>2
    <3>5. s \in sessions' \ connected' => crashed' \/ Queued(ServerThread, On(s, "Unregister"))'
      BY <1>2, <2>1, <2>4, <3>3
    <3>6. reading' \subseteq reading \cup {s} /\ reading \subseteq reading' \cup {s}
      BY <2>1
    <3> QED  BY <1>2, <2>1, <3>1, <3>4, <3>5, <3>6, OneSession
  <2>6. FreshInv'
    <3>1. \A x : Fresh(x) => Fresh(x)'  BY <1>6, <2>5
    <3>2. Has(queue'[ServerThread], "Accepted") => Has(Serving, "Accepted")
      BY <1>3, <2>1 DEF Commands
    <3> QED  BY <1>2, <3>1, <3>2, FreshKept
  <2> QED  BY <2>2, <2>3, <2>5, <2>6 DEF ServerInv
<1> QED  BY <1>4, <1>7, <1>8

-----------------------------------------------------------------------------
(* Operations that end.                                                    *)

LEMMA ReadEndsKeeps ==
  ASSUME NEW u, Users = {u}, ServerInv, NEW s \in reading, NEW ok \in BOOLEAN, ReadEnds(s, ok)
  PROVE  ServerInv'
<1> DEFINE t == ThreadOf(s)  r == Read(s, ok)  b == <<r>>
<1>1. /\ reading' = reading \ {s} /\ queue' = Put(queue, t, b)
      /\ started' = started /\ accepts' = accepts /\ created' = created
      /\ detached' = detached /\ stopping' = stopping /\ todo' = todo /\ crashed' = crashed
      /\ calls' = calls /\ accepted' = accepted
      /\ sessions' = sessions /\ connected' = connected
  BY DEF ReadEnds
<1>2. /\ queue \in [IoThreads -> Seq(Handlers)] /\ s \in Sessions
      /\ connected \subseteq sessions /\ connected \subseteq Sessions
  BY DEF ServerInv, SessionInv, TypeOK
<1>3. t \in IoThreads /\ ServerThread \in IoThreads
  BY <1>2, ThreadOfType, ServerThreadType
<1>4. r \in Handlers /\ r.op = "Read" /\ r.session = s  BY <1>2, HandlerTypes
<1> HIDE DEF t, r
<1>5. b \in Seq(Handlers) /\ \A h : InQ(b, h) <=> h = r  BY <1>4, Single
<1>6. \A h : InQ(b, h) => h.op \notin Commands  BY <1>4, <1>5 DEF Commands
<1> HIDE DEF b
<1>7. /\ queue' \in [IoThreads -> Seq(Handlers)]
      /\ \A x \in IoThreads : \A h : InQ(queue'[x], h) <=> InQ(queue[x], h) \/ (x = t /\ h = r)
  <2>1. /\ Put(queue, t, b) \in [IoThreads -> Seq(Handlers)]
        /\ \A x \in IoThreads : \A h :
              InQ(Put(queue, t, b)[x], h) <=> InQ(queue[x], h) \/ (x = t /\ InQ(b, h))
    BY <1>2, <1>3, <1>5, PutQueue
  <2> QED  BY <1>1, <1>5, <2>1
<1>8. /\ \A op \in Commands : Has(queue'[ServerThread], op) <=> Has(Serving, op)
      /\ Once(Serving, "Accepted") => Once(queue'[ServerThread], "Accepted")
      /\ \A op, ops : NoneAfter(Serving, op, ops) /\ ops \subseteq Commands
                         => NoneAfter(queue'[ServerThread], op, ops)
  <2> DEFINE p == Put(queue, t, b)
  <2>1. \A x \in IoThreads :
           /\ \A op \in Commands : Has(p[x], op) <=> Has(queue[x], op)
           /\ \A op \in Commands : Once(queue[x], op) => Once(p[x], op)
           /\ \A op, ops : NoneAfter(queue[x], op, ops) /\ ops \subseteq Commands
                              => NoneAfter(p[x], op, ops)
    BY <1>2, <1>3, <1>5, <1>6, PutNoCommand
  <2> QED  BY <1>1, <1>3, <2>1 DEF Serving, Commands
<1>9. StackInv' /\ CommandInv' /\ AcceptInv' /\ CountInv'
  BY <1>1, <1>8, CommandsKept
<1>10. TypeOK'  BY <1>1, <1>7 DEF ServerInv, TypeOK
<1>11. ~Fresh(s)  BY InQueue
<1>12. SessionInv' /\ ToldInv' /\ \A x : x # s /\ Fresh(x) => Fresh(x)'
  <2>1. \A x \in IoThreads : \A h : h.op \in SessionOps /\ h.session # s =>
           (InQ(queue'[x], h) <=> InQ(queue[x], h))
    BY <1>4, <1>7
  <2>2. \E o \in BOOLEAN : Queued(ThreadOf(s), Read(s, o))'
    <3>1. InQ(queue'[t], r)  BY <1>3, <1>7
    <3> QED  BY <3>1, InNextQueue DEF t, r
  <2>3. /\ Queued(ServerThread, On(s, "Unregister"))' <=> Queued(ServerThread, On(s, "Unregister"))
        /\ Queued(ThreadOf(s), On(s, "Disconnect")) => Queued(ThreadOf(s), On(s, "Disconnect"))'
    <3> DEFINE g == On(s, "Unregister")  d == On(s, "Disconnect")
    <3>1. g # r  BY <1>2, <1>4, HandlerTypes
    <3> HIDE DEF g, d
    <3>2. /\ InQ(queue'[ServerThread], g) <=> InQ(queue[ServerThread], g)
          /\ InQ(queue[t], d) => InQ(queue'[t], d)
      BY <1>3, <1>7, <3>1
    <3> QED  BY <3>2, InQueue, InNextQueue DEF g, d, t
  <2>4. s \in connected =>
           /\ ~Queued(ServerThread, On(s, "Unregister"))
           /\ stopping = <<"ClearStarted">> => Queued(ThreadOf(s), On(s, "Disconnect"))
    BY <1>2 DEF ServerInv, SessionInv, ToldInv
  <2>5. s \in sessions \ connected => crashed \/ Queued(ServerThread, On(s, "Unregister"))
    BY DEF ServerInv, SessionInv, SessionsAreAlive
  <2> QED  BY <1>1, <1>2, <2>1, <2>2, <2>3, <2>4, <2>5, OneSession
<1>13. FreshInv'
  <2>1. \A x : Fresh(x) => Fresh(x)'  BY <1>11, <1>12
  <2>2. Has(queue'[ServerThread], "Accepted") => Has(Serving, "Accepted")
    BY <1>8 DEF Commands
  <2> QED  BY <1>1, <2>1, <2>2, FreshKept
<1> QED  BY <1>9, <1>10, <1>12, <1>13 DEF ServerInv

LEMMA AcceptEndsKeeps ==
  ASSUME NEW u, Users = {u}, ServerInv, NEW ok \in BOOLEAN, AcceptEnds(ok)
  PROVE  ServerInv'
<1> DEFINE r == Accepted(ok)  b == <<r>>  q == queue'[ServerThread]
<1>1. /\ queue' = Put(queue, ServerThread, b) /\ accepted < MaxAccepts /\ accepted' = accepted + 1
      /\ started' = started /\ created' = created /\ detached' = detached /\ sessions' = sessions
      /\ connected' = connected /\ reading' = reading /\ stopping' = stopping /\ todo' = todo
      /\ crashed' = crashed /\ calls' = calls
      /\ accepts # {} /\ \E s \in accepts : accepts' = accepts \ {s}
  BY DEF AcceptEnds
<1>2. /\ accepts \subseteq {created} /\ started /\ ~Has(Serving, "Accepted")
      /\ stopping \notin StopStacks \ {<<>>, StopSteps}
  BY <1>1 DEF ServerInv, AcceptInv
<1>3. accepts' = {}  BY <1>1, <1>2
<1>4. queue \in [IoThreads -> Seq(Handlers)] /\ Serving \in Seq(Handlers)
  BY ServerThreadType DEF ServerInv, TypeOK, Serving
<1>5. r \in Handlers /\ r.op = "Accepted"  BY HandlerTypes
<1> HIDE DEF r
<1>6. /\ b \in Seq(Handlers) /\ \A h : InQ(b, h) <=> h = r
      /\ \A op : Once(b, op) /\ (Has(b, op) <=> op = "Accepted")
  BY <1>5, Single
<1> HIDE DEF b, q
<1>7. /\ queue' \in [IoThreads -> Seq(Handlers)] /\ q = Serving \o b
      /\ \A x \in IoThreads : \A h :
            InQ(queue'[x], h) <=> InQ(queue[x], h) \/ (x = ServerThread /\ InQ(b, h))
  <2> DEFINE p == Put(queue, ServerThread, b)
  <2>1. b \in Seq(Handlers)  BY <1>6
  <2>2. /\ p \in [IoThreads -> Seq(Handlers)]
        /\ \A x \in IoThreads : \A h :
              InQ(p[x], h) <=> InQ(queue[x], h) \/ (x = ServerThread /\ InQ(b, h))
    BY <1>4, <2>1, PutQueue, ServerThreadType
  <2>3. p[ServerThread] = queue[ServerThread] \o b
    BY <1>4, ServerThreadType DEF Put
  <2> QED  BY <1>1, <2>2, <2>3 DEF Serving, q
<1>8. /\ \A h : InQ(q, h) <=> InQ(Serving, h) \/ InQ(b, h)
      /\ \A op : ~Has(Serving, op) /\ Once(b, op) => Once(q, op)
      /\ \A op, ops : NoneAfter(Serving, op, ops) /\ (\A x \in ops : ~Has(b, x))
                         => NoneAfter(q, op, ops)
  BY <1>4, <1>6, <1>7, QueueConcat
<1>9. \A op : Has(q, op) <=> Has(Serving, op) \/ op = "Accepted"
  BY <1>6, <1>8, HasIn
<1>10. Serving' = q /\ At(u)' = At(u)  BY <1>1 DEF Serving, At, q
<1>11. calls \in 0..MaxCalls /\ accepted \in 0..MaxAccepts /\ created \in Nat /\ created >= 1
  BY <1>2, BoundType DEF ServerInv, TypeOK, CountInv
<1>12. TypeOK'
  <2>1. accepted' \in 0..MaxAccepts  BY <1>1, <1>11, BoundType
  <2> QED  BY <1>1, <1>3, <1>7, <2>1 DEF ServerInv, TypeOK
<1>13. StackInv'  BY <1>1 DEF ServerInv, StackInv
<1>14. CommandInv'
  <2>1. NoneAfter(q, "Stop", {"Start"})
    <3>1. NoneAfter(Serving, "Stop", {"Start"})  BY <1>2 DEF ServerInv, CommandInv
    <3> QED  BY <1>6, <1>8, <3>1
  <2> QED  BY <1>1, <1>2, <1>9, <1>10, <2>1 DEF ServerInv, CommandInv
<1>15. AcceptInv'
  <2>1. Once(q, "Accepted") /\ Has(q, "Accepted")  BY <1>2, <1>6, <1>8, <1>9
  <2> QED  BY <1>1, <1>2, <1>3, <1>10, <2>1 DEF AcceptInv
<1>16. CountInv'
  <2> DEFINE x == IF Calling(u) THEN 1 ELSE 0  y == IF Ending' THEN 1 ELSE 0
  <2>1. x \in {0, 1} /\ y \in {0, 1} /\ created + x <= calls + accepted
    <3>1. created + x + (IF Ending THEN 1 ELSE 0) <= calls + accepted
      BY Counted DEF ServerInv
    <3> QED  BY <1>11, <3>1, BoundType
  <2>2. Calling(u)' <=> Calling(u)  BY <1>1, <1>2, <1>10 DEF Calling
  <2>3. Restarts(todo[u])' <=>
           \E z \in Users : todo'[z] # <<>> /\ todo'[z][Len(todo'[z])] = "StartAgain"
    BY DEF Restarts
  <2>4. created' >= 1 /\ created' + x + y <= calls' + accepted'
    BY <1>1, <1>11, <2>1, BoundType
  <2>5. (IF Calling(u)' THEN 1 ELSE 0) = x  BY <2>2
  <2>6. /\ created' + (IF Calling(u)' THEN 1 ELSE 0) + (IF Ending' THEN 1 ELSE 0)
              <= calls' + accepted'
        /\ created' >= 1
    BY <2>4, <2>5
  <2> HIDE DEF x, y
  <2> QED  BY <2>3, <2>6 DEF CountInv, Calling, Ending
<1>17. FreshInv' /\ SessionInv' /\ ToldInv'
  <2>1. \A x \in IoThreads : \A h : h.op \in SessionOps => (InQ(queue'[x], h) <=> InQ(queue[x], h))
    BY <1>5, <1>6, <1>7 DEF SessionOps
  <2> QED  BY <1>1, <2>1, SessionsKept, FreshKept
<1> QED  BY <1>12, <1>13, <1>14, <1>15, <1>16, <1>17 DEF ServerInv

-----------------------------------------------------------------------------
(* The inductive invariant.                                                *)

LEMMA ServerInit == Init => ServerInv
<1> SUFFICES ASSUME Init PROVE ServerInv
  OBVIOUS
<1>1. /\ started = FALSE /\ crashed = FALSE
      /\ accepts = {} /\ created = 0 /\ detached = {}
      /\ sessions = {} /\ connected = {} /\ reading = {}
      /\ queue = [t \in IoThreads |-> <<>>] /\ stopping = <<>>
      /\ todo = [u \in Users |-> <<>>] /\ calls = 0 /\ accepted = 0
  BY DEF Init
<1>2. /\ queue \in [IoThreads -> Seq(Handlers)] /\ Serving = <<>>
      /\ \A t \in IoThreads : queue[t] = <<>>
  BY <1>1, ServerThreadType DEF Serving
<1>3. \A u \in Users : todo[u] = <<>> /\ At(u) = "Idle"  BY <1>1 DEF At
<1>4. /\ \A h : ~InQ(Serving, h)
      /\ \A op : ~Has(Serving, op) /\ Once(Serving, op)
      /\ \A op, ops : NoneAfter(Serving, op, ops)
  BY <1>2, EmptyQueue
<1>5. <<>> \in StopStacks /\ <<>> \in CallStacks /\ <<>> # <<"ClearStarted">>
  <2>1. Len(<<"ClearStarted">>) = 1 /\ Len(<<>>) = 0  OBVIOUS
  <2> QED  BY <2>1 DEF StopStacks, CallStacks
<1>6. TypeOK
  <2>1. todo \in [Users -> Seq(CallNames)]  BY <1>1
  <2>2. created \in 0..Bound /\ calls \in 0..MaxCalls /\ accepted \in 0..MaxAccepts
    BY <1>1, BoundType
  <2>3. stopping \in {SubSeq(StopSteps, i, Len(StopSteps)) : i \in 1..5}
    BY <1>1, <1>5, StopStackTypes
  <2> QED  BY <1>1, <1>2, <2>1, <2>2, <2>3 DEF TypeOK, CallNames
<1>7. StackInv  BY <1>1, <1>3, <1>5 DEF StackInv
<1>8. CommandInv  BY <1>1, <1>3, <1>4 DEF CommandInv
<1>9. AcceptInv  BY <1>1, <1>4 DEF AcceptInv
<1>10. CountInv  BY <1>1, <1>3, <1>4 DEF CountInv
<1>11. FreshInv /\ SessionInv /\ ToldInv
  <2>1. \A t \in IoThreads : \A h : ~InQ(queue[t], h)  BY <1>2, EmptyQueue
  <2>2. \A s : Fresh(s)  BY <1>1, <2>1, InQueue
  <2>3. SessionInv
    BY <1>1, <1>2, <2>1 DEF SessionInv, SessionsAreAlive, ClientIsWatched
  <2> QED  BY <1>1, <2>2, <2>3 DEF FreshInv, ToldInv
<1> QED  BY <1>6, <1>7, <1>8, <1>9, <1>10, <1>11 DEF ServerInv

LEMMA ServerNext ==
  ASSUME NEW u, Users = {u}, ServerInv, [Next]_vars
  PROVE  ServerInv'
<1>1. CASE UserCall(u)  BY <1>1, UserCallKeeps
<1>2. CASE Post(u)  BY <1>2, PostKeeps
<1>3. CASE AwaitStopped(u)  BY <1>3, AwaitStoppedKeeps
<1>4. CASE StartHandler  BY <1>4, StartHandlerKeeps
<1>5. CASE StopHandler  BY <1>5, StopHandlerKeeps
<1>6. CASE CloseAcceptor  BY <1>6, CloseAcceptorKeeps
<1>7. CASE ResetServer  BY <1>7, ResetServerKeeps
<1>8. CASE DisconnectSessions  BY <1>8, DisconnectSessionsKeeps
<1>9. CASE ClearStarted  BY <1>9, ClearStartedKeeps
<1>10. CASE DisconnectAllHandler  BY <1>10, DisconnectAllHandlerKeeps
<1>11. CASE AcceptedHandler  BY <1>11, AcceptedHandlerKeeps
<1>12. CASE UnregisterSession  BY <1>12, UnregisterSessionKeeps
<1>13. CASE \E t \in IoThreads : SessionStep(t)  BY <1>13, SessionStepKeeps
<1>14. CASE \E ok \in BOOLEAN : AcceptEnds(ok)  BY <1>14, AcceptEndsKeeps
<1>15. CASE \E ok \in BOOLEAN, s \in reading : ReadEnds(s, ok)  BY <1>15, ReadEndsKeeps
<1>16. CASE UNCHANGED vars
  <2>1. /\ started' = started /\ accepts' = accepts /\ created' = created
        /\ detached' = detached /\ sessions' = sessions /\ connected' = connected
        /\ reading' = reading /\ queue' = queue /\ stopping' = stopping /\ todo' = todo
        /\ crashed' = crashed /\ calls' = calls /\ accepted' = accepted
    BY <1>16 DEF vars
  <2>2. StackInv' /\ CommandInv' /\ AcceptInv' /\ CountInv'
    BY <2>1, CommandsKept DEF Serving
  <2>3. FreshInv' /\ SessionInv' /\ ToldInv'
    BY <2>1, SessionsKept, FreshKept DEF Serving
  <2>4. TypeOK'  BY <2>1 DEF ServerInv, TypeOK
  <2> QED  BY <2>2, <2>3, <2>4 DEF ServerInv
<1> QED
  BY <1>1, <1>2, <1>3, <1>4, <1>5, <1>6, <1>7, <1>8, <1>9, <1>10, <1>11, <1>12, <1>13,
     <1>14, <1>15, <1>16
  DEF Next, UserStep, IoStep, ServerStep

\* ServerInv, from which the rest follows: if one thread calls the server, commands are
\* queued in an order in which none is in vain, there is one accept, and sessions are
\* registered and watched (TCPServer::Start, Stop, Accept and the handlers of sessions).
THEOREM ServerInvariant ==
  ASSUME NEW u, Users = {u}
  PROVE  Spec => []ServerInv
<1>1. Init => ServerInv  BY ServerInit
<1>2. ServerInv /\ [Next]_vars => ServerInv'  BY ServerNext
<1> QED  BY <1>1, <1>2, PTL DEF Spec

\* No variable leaves its type; in particular no more sessions are created than calls
\* and accepts allow.
THEOREM TCPServerTypeCorrect ==
  ASSUME NEW u, Users = {u}
  PROVE  Spec => []TypeOK
<1>1. ServerInv => TypeOK  BY DEF ServerInv
<1> QED  BY <1>1, ServerInvariant, PTL

\* How many accept handlers are queued.
LEMMA PendingFacts ==
  ASSUME TypeOK, Once(Serving, "Accepted")
  PROVE  /\ Has(Serving, "Accepted") => PendingAccepts = 1
         /\ ~Has(Serving, "Accepted") => PendingAccepts = 0
<1> DEFINE I == {i \in 1..Len(Serving) : Serving[i].op = "Accepted"}
<1>1. PendingAccepts = Cardinality(I)  BY DEF PendingAccepts, Serving
<1>2. CASE Has(Serving, "Accepted")
  <2>1. PICK i \in 1..Len(Serving) : Serving[i].op = "Accepted"  BY <1>2 DEF Has
  <2>2. I = {i}  BY <2>1 DEF Once
  <2> QED  BY <1>1, <1>2, <2>2, FS_Singleton
<1>3. CASE ~Has(Serving, "Accepted")
  <2>1. I = {}  BY <1>3 DEF Has
  <2> QED  BY <1>1, <1>3, <2>1, FS_EmptySet
<1> QED  BY <1>2, <1>3

LEMMA AcceptsFacts ==
  ASSUME accepts \subseteq {created}
  PROVE  /\ accepts = {} => Cardinality(accepts) = 0
         /\ accepts # {} => Cardinality(accepts) = 1
<1>1. accepts # {} => accepts = {created}  OBVIOUS
<1> QED  BY <1>1, FS_EmptySet, FS_Singleton

\* OneAccept: however the server is stopped and started, the accept handlers never share
\* _session (TCPServer::Accept).
THEOREM OneAcceptAtATime ==
  ASSUME NEW u, Users = {u}
  PROVE  Spec => []OneAccept
<1>1. ServerInv => OneAccept
  <2> SUFFICES ASSUME ServerInv PROVE OneAccept
    OBVIOUS
  <2>1. /\ accepts \subseteq {created} /\ Once(Serving, "Accepted") /\ TypeOK
        /\ accepts # {} => ~Has(Serving, "Accepted")
    BY DEF ServerInv, AcceptInv
  <2> QED  BY <2>1, PendingFacts, AcceptsFacts DEF OneAccept
<1> QED  BY <1>1, ServerInvariant, PTL

\* KeepsAccepting: a started server always has an accept, or its handler, whatever became
\* of the ones before.
THEOREM ServerKeepsAccepting ==
  ASSUME NEW u, Users = {u}
  PROVE  Spec => []KeepsAccepting
<1>1. ServerInv => KeepsAccepting
  <2> SUFFICES ASSUME ServerInv PROVE KeepsAccepting
    OBVIOUS
  <2>1. /\ accepts \subseteq {created} /\ Once(Serving, "Accepted") /\ TypeOK
        /\ started /\ stopping = <<>> /\ ~crashed => accepts # {} \/ Has(Serving, "Accepted")
    BY DEF ServerInv, AcceptInv
  <2> QED  BY <2>1, PendingFacts, AcceptsFacts DEF KeepsAccepting
<1> QED  BY <1>1, ServerInvariant, PTL

\* SessionsAreAlive: _sessions holds the connected sessions and those about to be removed
\* (TCPServer::RegisterSession, UnregisterSession).
THEOREM SessionsStayAlive ==
  ASSUME NEW u, Users = {u}
  PROVE  Spec => []SessionsAreAlive
<1>1. ServerInv => SessionsAreAlive  BY DEF ServerInv, SessionInv
<1> QED  BY <1>1, ServerInvariant, PTL

\* ClientIsWatched: a connected session has a read outstanding or its handler queued
\* (TCPSession::TryReceive).
THEOREM ClientsAreWatched ==
  ASSUME NEW u, Users = {u}
  PROVE  Spec => []ClientIsWatched
<1>1. ServerInv => ClientIsWatched  BY DEF ServerInv, SessionInv
<1> QED  BY <1>1, ServerInvariant, PTL

\* StopReachesSessions: the handler of Stop clears _started only when all sessions that
\* are still connected have been told (TCPServer::Stop, DisconnectAll).
THEOREM StopTellsSessions ==
  ASSUME NEW u, Users = {u}
  PROVE  Spec => StopReachesSessions
<1>1. ServerInv /\ [Next]_vars =>
         [started /\ ~started' =>
             \A s \in connected : Queued(ThreadOf(s), On(s, "Disconnect"))]_vars
  <2> SUFFICES ASSUME ServerInv, Next, started, ~started'
               PROVE  \A s \in connected : Queued(ThreadOf(s), On(s, "Disconnect"))
    OBVIOUS
  <2>1. ClearStarted
    BY DEF Next, UserCall, UserStep, IoStep, ServerStep, SessionStep, Start, Stop, DisconnectAll,
           Restart, Enter, Post, AwaitStopped, StartHandler, StopHandler, CloseAcceptor,
           ResetServer, DisconnectSessions, DisconnectAllHandler, AcceptedHandler,
           UnregisterSession, DisconnectHandler, AsyncReceiveHandler, AcceptEnds, ReadEnds
  <2>2. stopping = <<"ClearStarted">>
    <3> DEFINE two == <<"DisconnectAll", "ClearStarted">>
               three == <<"ResetServer", "DisconnectAll", "ClearStarted">>
               one == <<"ClearStarted">>
    <3>1. /\ Head(StopSteps) = "CloseAcceptor" /\ Head(three) = "ResetServer"
          /\ Head(two) = "DisconnectAll"
      BY DEF StopSteps
    <3>2. stopping \in {<<>>, StopSteps, three, two, one}
      BY DEF ServerInv, StackInv, StopStacks
    <3>3. stopping # <<>> /\ Head(stopping) = "ClearStarted"  BY <2>1 DEF ClearStarted, StopAt
    <3> HIDE DEF one, two, three
    <3>4. stopping = one  BY <3>1, <3>2, <3>3
    <3> QED  BY <3>4 DEF one
  <2> QED  BY <2>2 DEF ServerInv, ToldInv
<1> QED  BY <1>1, ServerInvariant, PTL DEF Spec, StopReachesSessions
=============================================================================
