--------------------------- MODULE SSLClientProofs ---------------------------
(***************************************************************************)
(* Proofs about SSLClient: the callbacks the application gets, the Impls   *)
(* that were replaced, the TLS streams and the reads, for any number of    *)
(* io_services and of calls, made at any time.                             *)
(***************************************************************************)
EXTENDS SSLClient, SequenceTheorems, TLAPS

-----------------------------------------------------------------------------
(* Lemmas about a queue.                                                   *)

\* The task a handler is for Impl i, if it is one; it connects Impl i; where it runs.
TaskOf(h, i) == IF h.impl = i /\ h.op \in Kinds THEN {h.op} ELSE {}
IsAsk(h, i) == h.impl = i /\ h.op \in {"Connect", "Resolve"}
Placed(q, t) == \A k \in 1..Len(q) : ThreadOf(q[k].impl) = t

LEMMA HandlerTypes ==
  /\ \A h \in Handlers : /\ h.impl \in Impls
                         /\ h.op \in {"Connect", "Resolve", "Disconnect"} \cup Kinds
                         /\ h.op \in Kinds => h.ok \in BOOLEAN
                         /\ h.op = "Disconnect" => h = On("Disconnect", h.impl)
  /\ \A op \in {"Connect", "Resolve", "Disconnect"}, i \in Impls :
        /\ On(op, i) \in Handlers
        /\ On(op, i).op = op /\ On(op, i).impl = i
  /\ \A op \in Kinds, i \in Impls, ok \in BOOLEAN :
        /\ Done(op, i, ok) \in Handlers
        /\ Done(op, i, ok).op = op /\ Done(op, i, ok).impl = i
<1>1. ASSUME NEW h \in Handlers
      PROVE  /\ h.impl \in Impls
             /\ h.op \in {"Connect", "Resolve", "Disconnect"} \cup Kinds
             /\ h.op \in Kinds => h.ok \in BOOLEAN
             /\ h.op = "Disconnect" => h = On("Disconnect", h.impl)
  <2>1. CASE h \in [op : {"Connect", "Resolve", "Disconnect"}, impl : Impls]
    BY <2>1 DEF On, Kinds
  <2>2. CASE h \in [op : Kinds, impl : Impls, ok : BOOLEAN]
    BY <2>2 DEF Kinds
  <2> QED  BY <2>1, <2>2 DEF Handlers
<1>2. ASSUME NEW op \in {"Connect", "Resolve", "Disconnect"}, NEW i \in Impls
      PROVE  On(op, i) \in Handlers /\ On(op, i).op = op /\ On(op, i).impl = i
  BY DEF On, Handlers
<1>3. ASSUME NEW op \in Kinds, NEW i \in Impls, NEW ok \in BOOLEAN
      PROVE  /\ Done(op, i, ok) \in Handlers
             /\ Done(op, i, ok).op = op /\ Done(op, i, ok).impl = i
  BY DEF Done, Handlers
<1> QED  BY <1>1, <1>2, <1>3

\* A handler is posted.
LEMMA QueueAppend ==
  ASSUME NEW q \in Seq(Handlers), NEW h \in Handlers, NEW i
  PROVE  /\ Append(q, h) \in Seq(Handlers)
         /\ TaskOps(Append(q, h), i) = TaskOps(q, i) \cup TaskOf(h, i)
         /\ Asks(Append(q, h), i) = {} <=> Asks(q, i) = {} /\ ~IsAsk(h, i)
         /\ Disconnects(Append(q, h), i) = {}
               <=> Disconnects(q, i) = {} /\ h # On("Disconnect", i)
         /\ AsksFirst(q, i) /\ ~IsAsk(h, i) => AsksFirst(Append(q, h), i)
         /\ AsksLast(q, i) /\ (Asks(q, i) = {} \/ h # On("Disconnect", i))
               => AsksLast(Append(q, h), i)
         /\ /\ TasksInOrder(q, i)
            /\ TaskOf(h, i) # {} =>
                  TaskOps(q, i) = {} \/ (TaskOps(q, i) = {"Read"} /\ h.op # "Read")
            => TasksInOrder(Append(q, h), i)
         /\ \A t : Placed(q, t) /\ ThreadOf(h.impl) = t => Placed(Append(q, h), t)
<1> DEFINE p == Append(q, h)
           n == Len(q) + 1
<1>1. /\ p \in Seq(Handlers) /\ Len(q) \in Nat /\ Len(p) = n /\ p[n] = h
      /\ \A k \in 1..Len(q) : p[k] = q[k]
  OBVIOUS
<1>2. 1..Len(p) = 1..Len(q) \cup {n} /\ n \notin 1..Len(q)  BY <1>1
<1>3. \A k \in 1..Len(q) : k < n /\ k \in Int /\ n \in Int  BY <1>1
<1>4. \A k \in 1..Len(q) : \A l \in 1..(k - 1) : l \in 1..Len(q)  BY <1>1
<1> HIDE DEF p, n
<1>5. /\ Tasks(p, i) = Tasks(q, i) \cup (IF TaskOf(h, i) = {} THEN {} ELSE {n})
      /\ Asks(p, i) = Asks(q, i) \cup (IF IsAsk(h, i) THEN {n} ELSE {})
      /\ Disconnects(p, i) = Disconnects(q, i) \cup (IF h = On("Disconnect", i) THEN {n} ELSE {})
  <2>1. ASSUME NEW k
        PROVE  k \in Tasks(p, i) <=> k \in Tasks(q, i) \/ (TaskOf(h, i) # {} /\ k = n)
    BY <1>1, <1>2 DEF Tasks, TaskOf
  <2>2. ASSUME NEW k
        PROVE  k \in Asks(p, i) <=> k \in Asks(q, i) \/ (IsAsk(h, i) /\ k = n)
    BY <1>1, <1>2 DEF Asks, IsAsk
  <2>3. ASSUME NEW k
        PROVE  k \in Disconnects(p, i)
                  <=> k \in Disconnects(q, i) \/ (h = On("Disconnect", i) /\ k = n)
    BY <1>1, <1>2 DEF Disconnects
  <2> QED  BY <2>1, <2>2, <2>3
<1>6. /\ Tasks(q, i) \subseteq 1..Len(q) /\ Asks(q, i) \subseteq 1..Len(q)
      /\ Disconnects(q, i) \subseteq 1..Len(q)
  BY DEF Tasks, Asks, Disconnects
<1>7. TaskOps(p, i) = TaskOps(q, i) \cup TaskOf(h, i)
  <2>1. \A k \in Tasks(q, i) : p[k] = q[k]  BY <1>1, <1>6
  <2>2. TaskOf(h, i) = {} \/ TaskOf(h, i) = {p[n].op}  BY <1>1 DEF TaskOf
  <2> QED  BY <1>5, <2>1, <2>2 DEF TaskOps
<1>8. AsksFirst(q, i) /\ ~IsAsk(h, i) => AsksFirst(p, i)
  BY <1>1, <1>4, <1>5, <1>6 DEF AsksFirst
<1>9. AsksLast(q, i) /\ (Asks(q, i) = {} \/ h # On("Disconnect", i)) => AsksLast(p, i)
  <2> SUFFICES ASSUME AsksLast(q, i), Asks(q, i) = {} \/ h # On("Disconnect", i),
                      NEW k \in Asks(p, i), NEW l \in Disconnects(p, i)
               PROVE  l < k
    BY DEF AsksLast
  <2>1. ~(IsAsk(h, i) /\ h = On("Disconnect", i))  BY DEF IsAsk, On
  <2>2. CASE k = n  BY <2>2, <2>1, <1>3, <1>5, <1>6
  <2>3. CASE k # n  BY <2>3, <1>5, <1>6 DEF AsksLast
  <2> QED  BY <2>2, <2>3
<1>10. ASSUME TasksInOrder(q, i),
              TaskOf(h, i) # {} =>
                 TaskOps(q, i) = {} \/ (TaskOps(q, i) = {"Read"} /\ h.op # "Read")
       PROVE  TasksInOrder(p, i)
  <2> SUFFICES ASSUME NEW k \in Tasks(p, i), NEW l \in Tasks(p, i), k < l
               PROVE  p[k].op = "Read" /\ p[l].op # "Read"
    BY DEF TasksInOrder
  <2>1. k \in Tasks(q, i)  BY <1>1, <1>3, <1>5, <1>6
  <2>2. CASE l \in Tasks(q, i)
    BY <2>1, <2>2, <1>1, <1>6, <1>10 DEF TasksInOrder
  <2>3. CASE l \notin Tasks(q, i)
    <3>1. TaskOf(h, i) # {} /\ l = n  BY <2>3, <1>5
    <3>2. q[k].op \in TaskOps(q, i)  BY <2>1 DEF TaskOps
    <3>3. q[k].op = "Read" /\ h.op # "Read"  BY <3>1, <3>2, <1>10
    <3> QED  BY <3>1, <3>3, <2>1, <1>1, <1>6
  <2> QED  BY <2>2, <2>3
<1>11. \A t : Placed(q, t) /\ ThreadOf(h.impl) = t => Placed(p, t)
  BY <1>1, <1>2 DEF Placed
<1> QED  BY <1>1, <1>5, <1>7, <1>8, <1>9, <1>10, <1>11 DEF p

\* A handler is taken.
LEMMA QueueTail ==
  ASSUME NEW q \in Seq(Handlers), q # <<>>, NEW i
  PROVE  /\ Tail(q) \in Seq(Handlers) /\ Head(q) \in Handlers
         /\ TaskOps(q, i) = TaskOps(Tail(q), i) \cup TaskOf(Head(q), i)
         /\ TasksInOrder(q, i) =>
               /\ TasksInOrder(Tail(q), i)
               /\ TaskOf(Head(q), i) # {} => "Read" \notin TaskOps(Tail(q), i)
               /\ TaskOf(Head(q), i) # {} /\ Head(q).op # "Read" => TaskOps(Tail(q), i) = {}
         /\ Asks(q, i) = {} <=> Asks(Tail(q), i) = {} /\ ~IsAsk(Head(q), i)
         /\ Disconnects(q, i) = {}
               <=> Disconnects(Tail(q), i) = {} /\ Head(q) # On("Disconnect", i)
         /\ AsksFirst(q, i) =>
               /\ AsksFirst(Tail(q), i)
               /\ Head(q).impl = i /\ ~IsAsk(Head(q), i) => Asks(Tail(q), i) = {}
         /\ AsksLast(q, i) =>
               /\ AsksLast(Tail(q), i)
               /\ IsAsk(Head(q), i) => Disconnects(Tail(q), i) = {}
         /\ \A t : Placed(q, t) => Placed(Tail(q), t) /\ ThreadOf(Head(q).impl) = t
<1> DEFINE p == Tail(q)
           h == Head(q)
<1>1. /\ p \in Seq(Handlers) /\ h \in Handlers
      /\ Len(q) \in Nat /\ Len(q) > 0 /\ h = q[1] /\ Len(p) = Len(q) - 1
      /\ \A k \in 1..Len(p) : p[k] = q[k + 1]
  OBVIOUS
<1>2. /\ 1 \in 1..Len(q)
      /\ \A k \in 1..Len(p) : k + 1 \in 1..Len(q) /\ 1 < k + 1 /\ k \in Int
      /\ \A k \in 1..Len(q) : k # 1 => k - 1 \in 1..Len(p) /\ (k - 1) + 1 = k
      /\ \A k, l \in 1..Len(p) : k + 1 < l + 1 <=> k < l
      /\ \A k \in 1..Len(p) : \A l \in 1..(k - 1) : l \in 1..Len(p) /\ l + 1 \in 1..((k + 1) - 1)
      /\ \A k \in 1..Len(p) : 1 \in 1..((k + 1) - 1)
  BY <1>1
<1> HIDE DEF p, h
<1>3. /\ Tasks(p, i) \subseteq 1..Len(p) /\ Asks(p, i) \subseteq 1..Len(p)
      /\ Disconnects(p, i) \subseteq 1..Len(p)
      /\ Tasks(q, i) \subseteq 1..Len(q) /\ Asks(q, i) \subseteq 1..Len(q)
      /\ Disconnects(q, i) \subseteq 1..Len(q)
  BY DEF Tasks, Asks, Disconnects
<1>4. /\ 1 \in Tasks(q, i) <=> TaskOf(h, i) # {}
      /\ \A k \in 1..Len(p) : k \in Tasks(p, i) <=> k + 1 \in Tasks(q, i)
  BY <1>1, <1>2 DEF Tasks, TaskOf
<1>5. /\ 1 \in Asks(q, i) <=> IsAsk(h, i)
      /\ \A k \in 1..Len(p) : k \in Asks(p, i) <=> k + 1 \in Asks(q, i)
  BY <1>1, <1>2 DEF Asks, IsAsk
<1>6. /\ 1 \in Disconnects(q, i) <=> h = On("Disconnect", i)
      /\ \A k \in 1..Len(p) : k \in Disconnects(p, i) <=> k + 1 \in Disconnects(q, i)
  BY <1>1, <1>2 DEF Disconnects
<1>7. TaskOps(q, i) = TaskOps(p, i) \cup TaskOf(h, i)
  <2>1. ASSUME NEW x \in TaskOps(q, i) PROVE x \in TaskOps(p, i) \cup TaskOf(h, i)
    <3>1. PICK k \in Tasks(q, i) : x = q[k].op  BY DEF TaskOps
    <3>2. CASE k = 1
      BY <3>1, <3>2, <1>1, <1>4 DEF TaskOf
    <3>3. CASE k # 1
      <4>1. k - 1 \in 1..Len(p) /\ (k - 1) + 1 = k  BY <3>3, <1>2, <1>3
      <4>2. k - 1 \in Tasks(p, i) /\ p[k - 1] = q[k]  BY <4>1, <1>1, <1>4
      <4> QED  BY <4>2, <3>1 DEF TaskOps
    <3> QED  BY <3>2, <3>3
  <2>2. TaskOps(p, i) \subseteq TaskOps(q, i)
    BY <1>1, <1>3, <1>4 DEF TaskOps
  <2>3. TaskOf(h, i) \subseteq TaskOps(q, i)
    BY <1>1, <1>4 DEF TaskOps, TaskOf
  <2> QED  BY <2>1, <2>2, <2>3
<1>8. ASSUME TasksInOrder(q, i)
      PROVE  /\ TasksInOrder(p, i)
             /\ TaskOf(h, i) # {} => "Read" \notin TaskOps(p, i)
             /\ TaskOf(h, i) # {} /\ h.op # "Read" => TaskOps(p, i) = {}
  <2>1. TasksInOrder(p, i)
    BY <1>1, <1>2, <1>3, <1>4, <1>8 DEF TasksInOrder
  <2>2. ASSUME TaskOf(h, i) # {}, NEW k \in Tasks(p, i)
        PROVE  h.op = "Read" /\ p[k].op # "Read"
    <3>1. k \in 1..Len(p) /\ k + 1 \in Tasks(q, i) /\ 1 \in Tasks(q, i) /\ 1 < k + 1
      BY <2>2, <1>2, <1>3, <1>4
    <3> QED  BY <3>1, <1>1, <1>8 DEF TasksInOrder
  <2> QED  BY <2>1, <2>2 DEF TaskOps
<1>9. Asks(q, i) = {} <=> Asks(p, i) = {} /\ ~IsAsk(h, i)
  BY <1>2, <1>3, <1>5
<1>10. Disconnects(q, i) = {} <=> Disconnects(p, i) = {} /\ h # On("Disconnect", i)
  BY <1>2, <1>3, <1>6
<1>11. ASSUME AsksFirst(q, i)
       PROVE  /\ AsksFirst(p, i)
              /\ h.impl = i /\ ~IsAsk(h, i) => Asks(p, i) = {}
  <2>1. ASSUME NEW k \in Asks(p, i), NEW l \in 1..(k - 1), p[l].impl = i
        PROVE  l \in Asks(p, i)
    <3>1. /\ k \in 1..Len(p) /\ k + 1 \in Asks(q, i)
          /\ l \in 1..Len(p) /\ l + 1 \in 1..((k + 1) - 1)
      BY <1>2, <1>3, <1>5
    <3>2. p[l] = q[l + 1]  BY <3>1, <1>1
    <3> QED  BY <3>1, <3>2, <2>1, <1>5, <1>11 DEF AsksFirst
  <2>2. ASSUME h.impl = i, ~IsAsk(h, i), NEW k \in Asks(p, i) PROVE FALSE
    <3>1. k \in 1..Len(p) /\ k + 1 \in Asks(q, i) /\ 1 \in 1..((k + 1) - 1)
      BY <1>2, <1>3, <1>5
    <3> QED  BY <3>1, <2>2, <1>1, <1>5, <1>11 DEF AsksFirst
  <2> QED  BY <2>1, <2>2 DEF AsksFirst
<1>12. ASSUME AsksLast(q, i)
       PROVE  /\ AsksLast(p, i)
              /\ IsAsk(h, i) => Disconnects(p, i) = {}
  <2>1. AsksLast(p, i)
    BY <1>2, <1>3, <1>5, <1>6, <1>12 DEF AsksLast
  <2>2. ASSUME IsAsk(h, i), NEW l \in Disconnects(p, i) PROVE FALSE
    <3>1. l \in 1..Len(p) /\ l + 1 \in Disconnects(q, i) /\ 1 \in Asks(q, i) /\ 1 < l + 1
      BY <2>2, <1>2, <1>3, <1>5, <1>6
    <3> QED  BY <3>1, <1>12 DEF AsksLast
  <2> QED  BY <2>1, <2>2
<1>13. \A t : Placed(q, t) => Placed(p, t) /\ ThreadOf(h.impl) = t
  BY <1>1, <1>2 DEF Placed
<1> QED  BY <1>1, <1>7, <1>8, <1>9, <1>10, <1>11, <1>12, <1>13 DEF p, h

-----------------------------------------------------------------------------
(* Lemmas about the queues.                                                *)

LEMMA ThreadOfType == \A i \in Nat : ThreadOf(i) \in IoThreads
BY SSLThreads DEF ThreadOf, IoThreads

QueueType == [IoThreads -> Seq(Handlers)]
AllPlaced(Q) ==
    \A t \in IoThreads : Placed(Q[t], t) /\ \A i \in Impls : TasksInOrder(Q[t], i)
Of(Q, i) == Q[ThreadOf(i)]
OpsIn(Q, i) == TaskOps(Of(Q, i), i)

\* What OwnInv says of the queue holds of P if it does of Q.
NoWorse(p, q, i) ==
    /\ Asks(q, i) = {} => Asks(p, i) = {}
    /\ Disconnects(q, i) = {} => Disconnects(p, i) = {}
    /\ AsksFirst(q, i) => AsksFirst(p, i)
    /\ AsksLast(q, i) => AsksLast(p, i)

LEMMA QueuesPut ==
  ASSUME TypeOK, NEW Q \in QueueType, AllPlaced(Q), NEW h \in Handlers,
         h.op \in Kinds =>
            OpsIn(Q, h.impl) = {} \/ (OpsIn(Q, h.impl) = {"Read"} /\ h.op # "Read")
  PROVE  /\ Put(Q, h) \in QueueType /\ AllPlaced(Put(Q, h))
         /\ Of(Put(Q, h), h.impl) = Append(Of(Q, h.impl), h)
         /\ \A i \in Impls :
               /\ OpsIn(Put(Q, h), i) = OpsIn(Q, i) \cup TaskOf(h, i)
               /\ i # h.impl \/ h.op \in Kinds => NoWorse(Of(Put(Q, h), i), Of(Q, i), i)
<1> DEFINE u == ThreadOf(h.impl)
           P == Put(Q, h)
           q == Q[u]
<1>0. Impls \subseteq Nat  BY DEF Impls, TypeOK
<1>1. h.impl \in Impls /\ u \in IoThreads /\ q \in Seq(Handlers)
  BY <1>0, ThreadOfType, HandlerTypes DEF QueueType
<1>2. /\ P[u] = Append(q, h) /\ \A t \in IoThreads : t # u => P[t] = Q[t]
      /\ P = [Q EXCEPT ![u] = P[u]]
  BY <1>1 DEF Put, QueueType
<1>3. Placed(q, u) /\ \A i \in Impls : TasksInOrder(q, i)
  BY <1>1 DEF AllPlaced
<1>4. u = ThreadOf(h.impl) /\ q = Q[u]  OBVIOUS
<1> HIDE DEF u, P, q
<1>5. P[u] \in Seq(Handlers) /\ Placed(P[u], u)
  BY <1>1, <1>2, <1>3, <1>4, QueueAppend
<1>6. ASSUME NEW i \in Impls
      PROVE  /\ TaskOps(P[u], i) = TaskOps(q, i) \cup TaskOf(h, i)
             /\ TasksInOrder(P[u], i)
             /\ i # h.impl \/ h.op \in Kinds => NoWorse(P[u], q, i)
  <2>1. (~IsAsk(h, i) /\ h # On("Disconnect", i)) \/ ~(i # h.impl \/ h.op \in Kinds)
    BY DEF IsAsk, On, Kinds
  <2>2. TaskOf(h, i) # {} => i = h.impl /\ h.op \in Kinds  BY DEF TaskOf
  <2>3. TaskOps(q, h.impl) = OpsIn(Q, h.impl)  BY <1>4 DEF OpsIn, Of
  <2>4. /\ TaskOps(Append(q, h), i) = TaskOps(q, i) \cup TaskOf(h, i)
        /\ TasksInOrder(Append(q, h), i)
    BY <1>1, <1>3, <2>2, <2>3, QueueAppend
  <2>5. i # h.impl \/ h.op \in Kinds => NoWorse(Append(q, h), q, i)
    BY <1>1, <2>1, QueueAppend DEF NoWorse
  <2> QED  BY <2>4, <2>5, <1>2
<1>7. P \in QueueType  BY <1>1, <1>2, <1>5 DEF QueueType
<1>8. AllPlaced(P)  BY <1>1, <1>2, <1>5, <1>6 DEF AllPlaced
<1>9. ASSUME NEW i \in Impls
      PROVE  /\ OpsIn(P, i) = OpsIn(Q, i) \cup TaskOf(h, i)
             /\ i # h.impl \/ h.op \in Kinds => NoWorse(Of(P, i), Of(Q, i), i)
  <2>1. CASE ThreadOf(i) = u
    BY <2>1, <1>4, <1>6 DEF OpsIn, Of
  <2>2. CASE ThreadOf(i) # u
    <3>1. P[ThreadOf(i)] = Q[ThreadOf(i)]  BY <2>2, <1>0, <1>2, ThreadOfType
    <3>2. TaskOf(h, i) = {}  BY <2>2, <1>4 DEF TaskOf
    <3> QED  BY <3>1, <3>2 DEF OpsIn, Of, NoWorse
  <2> QED  BY <2>1, <2>2
<1>10. Of(P, h.impl) = Append(Of(Q, h.impl), h)  BY <1>2, <1>4 DEF Of
<1> QED  BY <1>7, <1>8, <1>9, <1>10 DEF P

\* The handler a thread takes from its queue, and the Impl it is about.
LEMMA HandlerTaken ==
  ASSUME TypeOK, QueueInv, NEW t \in IoThreads, NEW op, Ready(t, op),
         NEW i, i = First(t).impl
  PROVE  /\ i \in Impls /\ ThreadOf(i) = t
         /\ rest[t] = <<>> /\ RestOf(i) = <<>>
         /\ First(t) \in Handlers
         /\ Taken(t) \in QueueType /\ AllPlaced(Taken(t))
         /\ Of(queue, i) \in Seq(Handlers) /\ Of(queue, i) # <<>>
         /\ Head(Of(queue, i)) = First(t) /\ Of(Taken(t), i) = Tail(Of(queue, i))
         /\ \A j \in Impls : NoWorse(Of(Taken(t), j), Of(queue, j), j)
         /\ \A j \in Impls \ {i} : OpsIn(Taken(t), j) = Waiting(j)
         /\ op \notin Kinds => OpsIn(Taken(t), i) = Waiting(i)
         /\ op \in Kinds => /\ Waiting(i) = OpsIn(Taken(t), i) \cup {op}
                            /\ "Read" \notin OpsIn(Taken(t), i)
                            /\ op # "Read" => OpsIn(Taken(t), i) = {}
<1> DEFINE h == First(t)
           P == Taken(t)
           q == queue[t]
<1>0. Impls \subseteq Nat  BY DEF Impls, TypeOK
<1>1. /\ queue \in QueueType /\ q \in Seq(Handlers) /\ q # <<>>
      /\ h = Head(q) /\ h.op = op /\ rest[t] = <<>> /\ i = h.impl
  BY DEF QueueType, TypeOK, Ready, First
<1>2. Placed(q, t) /\ \A j \in Impls : TasksInOrder(q, j)
  BY DEF QueueInv, Placed
<1>3. P[t] = Tail(q) /\ (\A u \in IoThreads : u # t => P[u] = queue[u])
      /\ P = [queue EXCEPT ![t] = P[t]]
  BY <1>1 DEF Taken, QueueType
<1>4. q = queue[t] /\ h = First(t)  OBVIOUS
<1> HIDE DEF h, P, q
<1>5. /\ P[t] \in Seq(Handlers) /\ h \in Handlers
      /\ Placed(P[t], t) /\ ThreadOf(h.impl) = t
  BY <1>1, <1>2, <1>3, QueueTail
<1>6. /\ i \in Impls /\ ThreadOf(i) = t /\ RestOf(i) = <<>>
      /\ Of(queue, i) = q /\ Of(P, i) = Tail(q)
  BY <1>1, <1>3, <1>4, <1>5, HandlerTypes DEF RestOf, Of
<1>7. ASSUME NEW j \in Impls
      PROVE  /\ TaskOps(q, j) = TaskOps(P[t], j) \cup TaskOf(h, j)
             /\ TasksInOrder(P[t], j)
             /\ TaskOf(h, j) # {} => "Read" \notin TaskOps(P[t], j)
             /\ TaskOf(h, j) # {} /\ h.op # "Read" => TaskOps(P[t], j) = {}
             /\ NoWorse(P[t], q, j)
  <2>1. /\ TaskOps(q, j) = TaskOps(Tail(q), j) \cup TaskOf(Head(q), j)
        /\ TasksInOrder(Tail(q), j)
        /\ TaskOf(Head(q), j) # {} => "Read" \notin TaskOps(Tail(q), j)
        /\ TaskOf(Head(q), j) # {} /\ Head(q).op # "Read" => TaskOps(Tail(q), j) = {}
    BY <1>1, <1>2, QueueTail
  <2>2. NoWorse(Tail(q), q, j)
    BY <1>1, QueueTail DEF NoWorse
  <2>3. h = Head(q) /\ P[t] = Tail(q)  BY <1>1, <1>3
  <2> QED  BY <2>1, <2>2, <2>3
<1>8. P \in QueueType  BY <1>1, <1>3, <1>5 DEF QueueType
<1>9. AllPlaced(P)
  <2> SUFFICES ASSUME NEW u \in IoThreads
               PROVE  Placed(P[u], u) /\ \A j \in Impls : TasksInOrder(P[u], j)
    BY DEF AllPlaced
  <2>1. CASE u = t  BY <2>1, <1>5, <1>7
  <2>2. CASE u # t  BY <2>2, <1>3 DEF QueueInv, Placed
  <2> QED  BY <2>1, <2>2
<1>10. ASSUME NEW j \in Impls
       PROVE  /\ NoWorse(Of(P, j), Of(queue, j), j)
              /\ j # i => OpsIn(P, j) = Waiting(j)
  <2>1. CASE ThreadOf(j) = t
    <3>1. j # i => TaskOf(h, j) = {}  BY <1>1 DEF TaskOf
    <3> QED  BY <3>1, <2>1, <1>4, <1>7 DEF OpsIn, Of, Waiting
  <2>2. CASE ThreadOf(j) # t
    <3>1. P[ThreadOf(j)] = queue[ThreadOf(j)]  BY <2>2, <1>0, <1>3, ThreadOfType
    <3> QED  BY <3>1 DEF OpsIn, Of, Waiting, NoWorse
  <2> QED  BY <2>1, <2>2
<1>11. /\ op \notin Kinds => TaskOf(h, i) = {}
       /\ op \in Kinds => TaskOf(h, i) = {op}
  BY <1>1 DEF TaskOf
<1>12. TaskOps(q, i) = Waiting(i) /\ TaskOps(P[t], i) = OpsIn(P, i)
  BY <1>4, <1>6 DEF Waiting, OpsIn, Of
<1>13. /\ op \notin Kinds => OpsIn(P, i) = Waiting(i)
       /\ op \in Kinds => /\ Waiting(i) = OpsIn(P, i) \cup {op}
                          /\ "Read" \notin OpsIn(P, i)
                          /\ op # "Read" => OpsIn(P, i) = {}
  BY <1>1, <1>6, <1>7, <1>11, <1>12
<1> QED  BY <1>1, <1>4, <1>5, <1>6, <1>8, <1>9, <1>10, <1>13 DEF h, P

-----------------------------------------------------------------------------
(* Lemmas about the operations, the running handlers and the callbacks.    *)

RestType == [IoThreads -> Seq([op : Steps, impl : Impls])]
RestPlaced(r) == \A u \in IoThreads : r[u] # <<>> => ThreadOf(Head(r[u]).impl) = u

\* What a handler of Impl i that runs on thread t has left to do becomes s.
LEMMA RestSet ==
  ASSUME TypeOK, NEW i \in Impls, NEW t, t = ThreadOf(i), rest \in RestType,
         rest[t] = <<>> \/ Head(rest[t]).impl = i,
         NEW s \in Seq([op : Steps, impl : Impls]), s = <<>> \/ Head(s).impl = i,
         rest' = [rest EXCEPT ![t] = s], RestPlaced(rest)
  PROVE  /\ rest' \in RestType /\ RestPlaced(rest')
         /\ RestOf(i)' = s
         /\ \A j \in Impls \ {i} : RestOf(j)' = RestOf(j)
<1>0. Impls \subseteq Nat  BY DEF Impls, TypeOK
<1>1. t \in IoThreads  BY <1>0, ThreadOfType
<1>2. rest'[t] = s /\ \A u \in IoThreads : u # t => rest'[u] = rest[u]
  BY <1>1 DEF RestType
<1>3. rest' \in RestType  BY <1>1 DEF RestType
<1>4. RestOf(i)' = s  BY <1>2 DEF RestOf
<1>5. ASSUME NEW j \in Impls \ {i} PROVE RestOf(j)' = RestOf(j)
  <2>1. CASE ThreadOf(j) = t  BY <2>1, <1>2 DEF RestOf
  <2>2. CASE ThreadOf(j) # t
    <3>1. rest'[ThreadOf(j)] = rest[ThreadOf(j)]  BY <2>2, <1>0, <1>2, ThreadOfType
    <3> QED  BY <3>1 DEF RestOf
  <2> QED  BY <2>1, <2>2
<1>6. RestPlaced(rest')  BY <1>2 DEF RestPlaced
<1> QED  BY <1>3, <1>4, <1>5, <1>6

\* An operation of Impl i begins or ends; all of them are aborted.
LEMMA OpsChange ==
  ASSUME NEW i \in Impls, NEW kind \in Kinds, ops \subseteq Kinds \X Impls
  PROVE  /\ ops' = ops => \A j \in Impls : Ops(j)' = Ops(j)
         /\ ops' = ops \cup {<<kind, i>>} => /\ ops' \subseteq Kinds \X Impls
                                             /\ Ops(i)' = Ops(i) \cup {kind}
                                             /\ \A j \in Impls \ {i} : Ops(j)' = Ops(j)
         /\ ops' = ops \ {<<kind, i>>} => /\ ops' \subseteq Kinds \X Impls
                                          /\ Ops(i)' = Ops(i) \ {kind}
                                          /\ \A j \in Impls \ {i} : Ops(j)' = Ops(j)
         /\ ops' = {o \in ops : o[2] # i} => /\ ops' \subseteq Kinds \X Impls
                                             /\ Ops(i)' = {}
                                             /\ \A j \in Impls \ {i} : Ops(j)' = Ops(j)
<1>1. ops' = ops => \A j \in Impls : Ops(j)' = Ops(j)
  BY DEF Ops
<1>2. ASSUME ops' = ops \cup {<<kind, i>>}
      PROVE  /\ ops' \subseteq Kinds \X Impls /\ Ops(i)' = Ops(i) \cup {kind}
             /\ \A j \in Impls \ {i} : Ops(j)' = Ops(j)
  BY <1>2 DEF Ops
<1>3. ASSUME ops' = ops \ {<<kind, i>>}
      PROVE  /\ ops' \subseteq Kinds \X Impls /\ Ops(i)' = Ops(i) \ {kind}
             /\ \A j \in Impls \ {i} : Ops(j)' = Ops(j)
  BY <1>3 DEF Ops
<1>4. ASSUME ops' = {o \in ops : o[2] # i}
      PROVE  /\ ops' \subseteq Kinds \X Impls /\ Ops(i)' = {}
             /\ \A j \in Impls \ {i} : Ops(j)' = Ops(j)
  BY <1>4 DEF Ops
<1> QED  BY <1>1, <1>2, <1>3, <1>4

LEMMA LastAppended ==
  ASSUME NEW T, NEW r \in Seq(T), NEW s \in Seq(T), NEW x \in T
  PROVE  Last(r \o Append(s, x)) = x
<1> DEFINE p == Append(s, x)
           q == r \o p
<1>1. p \in Seq(T) /\ Len(s) \in Nat /\ Len(p) = Len(s) + 1 /\ p[Len(p)] = x  OBVIOUS
<1> HIDE DEF p
<1>2. q \in Seq(T) /\ Len(r) \in Nat /\ Len(q) = Len(r) + Len(p)  BY <1>1
<1>3. Len(q) \in 1..Len(q) /\ ~(Len(q) <= Len(r)) /\ Len(q) - Len(r) = Len(p)
  BY <1>1, <1>2
<1>4. q[Len(q)] = p[Len(p)]  BY <1>1, <1>2, <1>3
<1> QED  BY <1>1, <1>4 DEF Last, p

Events == {"connected", "handshaked", "disconnected"}

\* What Impl i tells the application.
LEMMA Told ==
  ASSUME NEW i \in Impls, NEW event \in Events, told \in [Impls -> Seq(Events)],
         Tell(i, event)
  PROVE  /\ told' \in [Impls -> Seq(Events)]
         /\ \A j \in Impls \ {i} : told'[j] = told[j]
         /\ i \notin linked => told' = told
         /\ i \in linked => told'[i] = Append(told[i], event) /\ LastTold(i)' = event
<1>1. CASE i \notin linked
  BY <1>1 DEF Tell
<1>2. CASE i \in linked
  <2> DEFINE s == told[i]
             r == <<"disconnected">>
  <2>1. told' = [told EXCEPT ![i] = Append(s, event)]
    BY <1>2 DEF Tell
  <2>2. s \in Seq(Events) /\ event \in Events  OBVIOUS
  <2>3. told'[i] = Append(s, event)  BY <2>1
  <2>4. r \in Seq(Events) /\ Len(r) = 1  BY DEF Events
  <2>5. LastTold(i)' = Last(r \o Append(s, event))
    BY <2>3 DEF LastTold
  <2>8. told' \in [Impls -> Seq(Events)] /\ \A j \in Impls \ {i} : told'[j] = told[j]
    BY <2>1, <2>2
  <2>9. s = told[i]  OBVIOUS
  <2> HIDE DEF s, r
  <2>6. Last(r \o Append(s, event)) = event
    BY <2>2, <2>4, LastAppended
  <2>7. LastTold(i)' = event  BY <2>5, <2>6
  <2> QED  BY <1>2, <2>3, <2>7, <2>8, <2>9
<1> QED  BY <1>1, <1>2

-----------------------------------------------------------------------------
(* Lemmas about the stages of an Impl.                                     *)

Starters(i) == <<On("StartConnect", i)>>
Openers(i) == <<On("SetConnected", i), On("BeginHandshake", i)>>
Beginners(i) == <<On("BeginHandshake", i)>>
Clearers(i) == Tail(DisconnectSteps(i))
Tellers(i) == <<On("TellDisconnected", i), On("Unlink", i)>>
Unlinkers(i) == <<On("Unlink", i)>>

HeadIs(r, op, i) == Head(r).op = op /\ Head(r).impl = i

\* The heads and the tails of what a handler has left to do.
LEMMA RestShapes ==
  ASSUME NEW i
  PROVE  /\ Starters(i) # <<>> /\ HeadIs(Starters(i), "StartConnect", i)
         /\ Tail(Starters(i)) = <<>>
         /\ Openers(i) # <<>> /\ HeadIs(Openers(i), "SetConnected", i)
         /\ Tail(Openers(i)) = Beginners(i)
         /\ Beginners(i) # <<>> /\ HeadIs(Beginners(i), "BeginHandshake", i)
         /\ Tail(Beginners(i)) = <<>>
         /\ DisconnectSteps(i) # <<>> /\ HeadIs(DisconnectSteps(i), "Reset", i)
         /\ Tail(DisconnectSteps(i)) = Clearers(i)
         /\ Clearers(i) # <<>> /\ HeadIs(Clearers(i), "ClearFlags", i)
         /\ Tail(Clearers(i)) = Tellers(i)
         /\ Tellers(i) # <<>> /\ HeadIs(Tellers(i), "TellDisconnected", i)
         /\ Tail(Tellers(i)) = Unlinkers(i)
         /\ Unlinkers(i) # <<>> /\ HeadIs(Unlinkers(i), "Unlink", i)
         /\ Tail(Unlinkers(i)) = <<>>
<1>1. \A op : On(op, i).op = op /\ On(op, i).impl = i  BY DEF On
<1>2. /\ Starters(i) # <<>> /\ HeadIs(Starters(i), "StartConnect", i)
      /\ Tail(Starters(i)) = <<>>
  BY <1>1 DEF HeadIs, Starters
<1>3. /\ Openers(i) # <<>> /\ HeadIs(Openers(i), "SetConnected", i)
      /\ Tail(Openers(i)) = Beginners(i)
  BY <1>1 DEF HeadIs, Openers, Beginners
<1>4. /\ Beginners(i) # <<>> /\ HeadIs(Beginners(i), "BeginHandshake", i)
      /\ Tail(Beginners(i)) = <<>>
  BY <1>1 DEF HeadIs, Beginners
<1>5. /\ DisconnectSteps(i) # <<>> /\ HeadIs(DisconnectSteps(i), "Reset", i)
      /\ Tail(DisconnectSteps(i)) = Clearers(i)
  BY <1>1 DEF HeadIs, DisconnectSteps, Clearers
<1>6. /\ Clearers(i) # <<>> /\ HeadIs(Clearers(i), "ClearFlags", i)
      /\ Tail(Clearers(i)) = Tellers(i)
  BY <1>1 DEF HeadIs, DisconnectSteps, Clearers, Tellers
<1>7. /\ Tellers(i) # <<>> /\ HeadIs(Tellers(i), "TellDisconnected", i)
      /\ Tail(Tellers(i)) = Unlinkers(i)
  BY <1>1 DEF HeadIs, Tellers, Unlinkers
<1>8. /\ Unlinkers(i) # <<>> /\ HeadIs(Unlinkers(i), "Unlink", i)
      /\ Tail(Unlinkers(i)) = <<>>
  BY <1>1 DEF HeadIs, Unlinkers
<1> QED  BY <1>2, <1>3, <1>4, <1>5, <1>6, <1>7, <1>8

LEMMA RestTypes ==
  ASSUME NEW i \in Impls
  PROVE  /\ Starters(i) \in Seq([op : Steps, impl : Impls])
         /\ Openers(i) \in Seq([op : Steps, impl : Impls])
         /\ DisconnectSteps(i) \in Seq([op : Steps, impl : Impls])
<1>1. \A op \in Steps : On(op, i) \in [op : Steps, impl : Impls]  BY DEF On
<1>2. {"StartConnect", "SetConnected", "BeginHandshake", "Reset", "ClearFlags",
       "TellDisconnected", "Unlink"} \subseteq Steps
  BY DEF Steps
<1>3. Starters(i) \in Seq([op : Steps, impl : Impls])  BY <1>1, <1>2 DEF Starters
<1>4. Openers(i) \in Seq([op : Steps, impl : Impls])  BY <1>1, <1>2 DEF Openers
<1>5. DisconnectSteps(i) \in Seq([op : Steps, impl : Impls])
  BY <1>1, <1>2 DEF DisconnectSteps
<1> QED  BY <1>3, <1>4, <1>5

\* The marks of the stages.
LEMMA StageFacts ==
  ASSUME NEW i
  PROVE  /\ Down(i) => /\ ~IsBusy(i) /\ i \notin receiving
                       /\ Ops(i) = {} /\ Waiting(i) \subseteq {"Read"}
                       /\ RestOf(i) \in {Tellers(i), Unlinkers(i), <<>>}
         /\ Attempting(i) =>
               /\ i \notin connected \cup handshaking \cup handshaked \cup receiving
               /\ RestOf(i) \in {<<>>, Starters(i), Openers(i)}
         /\ Starting(i) => /\ ~IsBusy(i) /\ Ops(i) = {} /\ Waiting(i) = {}
                           /\ RestOf(i) = Starters(i)
         /\ Opening(i) => /\ ~IsBusy(i) /\ Ops(i) = {} /\ Waiting(i) = {}
                          /\ RestOf(i) = Openers(i)
         /\ Resolving(i) =>
               /\ i \in resolving /\ i \notin connecting
               /\ RestOf(i) = <<>> /\ Waiting(i) \subseteq {"Read", "Resolved"}
         /\ Connecting(i) =>
               /\ i \in connecting /\ i \notin resolving
               /\ RestOf(i) = <<>> /\ Waiting(i) \subseteq {"Read", "Connected"}
         /\ Opened(i) =>
               /\ i \in connected
               /\ i \notin resolving \cup connecting \cup handshaking \cup handshaked \cup receiving
               /\ Ops(i) = {} /\ Waiting(i) = {} /\ RestOf(i) = Beginners(i)
         /\ Handshaking(i) =>
               /\ i \in connected \cap handshaking
               /\ i \notin resolving \cup connecting \cup handshaked \cup receiving
               /\ RestOf(i) = <<>> /\ Waiting(i) \subseteq {"Handshake"}
         /\ Established(i) =>
               /\ i \in connected \cap handshaked \cap receiving
               /\ i \notin resolving \cup connecting \cup handshaking
               /\ RestOf(i) = <<>> /\ Waiting(i) \subseteq {"Read"}
         /\ Closing(i) \/ Clearing(i) =>
               /\ i \in connected
               /\ i \notin resolving \cup connecting \cup handshaking
               /\ Ops(i) = {} /\ Waiting(i) \subseteq {"Read"}
         /\ Closing(i) => RestOf(i) = DisconnectSteps(i)
         /\ Clearing(i) => RestOf(i) = Clearers(i)
<1>1. Down(i) => /\ ~IsBusy(i) /\ i \notin receiving
                 /\ Ops(i) = {} /\ Waiting(i) \subseteq {"Read"}
                 /\ RestOf(i) \in {Tellers(i), Unlinkers(i), <<>>}
  BY DEF Down, Unflagged, Tellers, Unlinkers
<1>2. /\ Starting(i) => /\ ~IsBusy(i) /\ Ops(i) = {} /\ Waiting(i) = {}
                        /\ RestOf(i) = Starters(i)
      /\ Opening(i) => /\ ~IsBusy(i) /\ Ops(i) = {} /\ Waiting(i) = {}
                       /\ RestOf(i) = Openers(i)
  BY DEF Starting, Opening, Unflagged, Starters, Openers
<1>3. /\ Resolving(i) =>
            /\ i \in resolving /\ i \notin connecting
            /\ RestOf(i) = <<>> /\ Waiting(i) \subseteq {"Read", "Resolved"}
      /\ Connecting(i) =>
            /\ i \in connecting /\ i \notin resolving
            /\ RestOf(i) = <<>> /\ Waiting(i) \subseteq {"Read", "Connected"}
  BY DEF Resolving, Connecting, Awaits
<1>4. Attempting(i) =>
         /\ i \notin connected \cup handshaking \cup handshaked \cup receiving
         /\ RestOf(i) \in {<<>>, Starters(i), Openers(i)}
  <2>1. Resolving(i) \/ Connecting(i)
           => i \notin connected \cup handshaking \cup handshaked \cup receiving
    BY DEF Resolving, Connecting
  <2>2. Starting(i) \/ Opening(i)
           => i \notin connected \cup handshaking \cup handshaked \cup receiving
    BY DEF Starting, Opening, Unflagged, IsBusy
  <2> QED  BY <1>2, <1>3, <2>1, <2>2 DEF Attempting
<1>5. Opened(i) =>
         /\ i \in connected
         /\ i \notin resolving \cup connecting \cup handshaking \cup handshaked \cup receiving
         /\ Ops(i) = {} /\ Waiting(i) = {} /\ RestOf(i) = Beginners(i)
  BY DEF Opened, Beginners
<1>6. /\ Handshaking(i) =>
            /\ i \in connected \cap handshaking
            /\ i \notin resolving \cup connecting \cup handshaked \cup receiving
            /\ RestOf(i) = <<>> /\ Waiting(i) \subseteq {"Handshake"}
      /\ Established(i) =>
            /\ i \in connected \cap handshaked \cap receiving
            /\ i \notin resolving \cup connecting \cup handshaking
            /\ RestOf(i) = <<>> /\ Waiting(i) \subseteq {"Read"}
  BY DEF Handshaking, Established, Awaits
<1>7. /\ Closing(i) \/ Clearing(i) =>
            /\ i \in connected
            /\ i \notin resolving \cup connecting \cup handshaking
            /\ Ops(i) = {} /\ Waiting(i) \subseteq {"Read"}
      /\ Closing(i) => RestOf(i) = DisconnectSteps(i)
      /\ Clearing(i) => RestOf(i) = Clearers(i)
  BY DEF Closing, Clearing, Ending, Clearers
<1> QED  BY <1>1, <1>2, <1>3, <1>4, <1>5, <1>6, <1>7

\* What a thread that runs no handler of Impl i is at with it.
LEMMA StageAtRest ==
  ASSUME NEW i, StageInv(i), RestOf(i) = <<>>
  PROVE  /\ Down(i) \/ Resolving(i) \/ Connecting(i) \/ Handshaking(i) \/ Established(i)
         /\ ~IsBusy(i) => Down(i)
<1>1. Down(i) \/ Resolving(i) \/ Connecting(i) \/ Handshaking(i) \/ Established(i)
  BY StageFacts, RestShapes DEF StageInv, Attempting, Open
<1> QED  BY <1>1, StageFacts DEF IsBusy

-----------------------------------------------------------------------------
(* What a step keeps of an Impl.                                           *)

SameStage(j) ==
  /\ j \in resolving' <=> j \in resolving
  /\ j \in connecting' <=> j \in connecting
  /\ j \in connected' <=> j \in connected
  /\ j \in handshaking' <=> j \in handshaking
  /\ j \in handshaked' <=> j \in handshaked
  /\ j \in receiving' <=> j \in receiving
  /\ Ops(j)' = Ops(j) /\ Waiting(j)' = Waiting(j) /\ RestOf(j)' = RestOf(j)

\* The stage and the rest of the handler are as they were, but for the operations.
Ended(j) == RestOf(j) \in {Clearers(j), Tellers(j)}
SameKind(j) ==
  /\ j \in connected' <=> j \in connected
  /\ Down(j) => Down(j)'
  /\ Attempting(j)' <=> Attempting(j)
  /\ Opened(j) => Opened(j)'
  /\ Handshaking(j) => Handshaking(j)'
  /\ Established(j) => Established(j)'
  /\ Closing(j)' <=> Closing(j)
  /\ Clearing(j)' <=> Clearing(j)
  /\ RestOf(j)' = RestOf(j)

\* What was told of Impl j and what is queued for it are as they were.
SameRecord(j) ==
  /\ NoWorse(Of(queue', j), Of(queue, j), j)
  /\ j \in linked => j \in linked' \cup refused'
  /\ j \in refused => j \in refused'
  /\ used'[j] = used[j] /\ told'[j] = told[j]
  /\ ToConnect(j)' => ToConnect(j)
  /\ ToDisconnect(j)' => ToDisconnect(j)
Same(j) == SameStage(j) /\ SameRecord(j)

LEMMA StageFrame ==
  ASSUME NEW j, SameStage(j)
  PROVE  SameKind(j)
<1>1. /\ Unflagged(j)' <=> Unflagged(j)
      /\ \A kind, left : Awaits(j, kind, left)' <=> Awaits(j, kind, left)
      /\ Ending(j)' <=> Ending(j)
  BY DEF SameStage, Unflagged, IsBusy, Awaits, Ending
<1>2. /\ Down(j)' <=> Down(j)
      /\ Starting(j)' <=> Starting(j)
      /\ Opening(j)' <=> Opening(j)
  BY <1>1 DEF SameStage, Down, Starting, Opening
<1>3. (Resolving(j)' <=> Resolving(j)) /\ (Connecting(j)' <=> Connecting(j))
  BY <1>1 DEF SameStage, Resolving, Connecting
<1>4. /\ Opened(j)' <=> Opened(j)
      /\ Handshaking(j)' <=> Handshaking(j)
      /\ Established(j)' <=> Established(j)
  BY <1>1 DEF SameStage, Opened, Handshaking, Established
<1>5. (Closing(j)' <=> Closing(j)) /\ (Clearing(j)' <=> Clearing(j))
  BY <1>1 DEF SameStage, Closing, Clearing
<1>6. Attempting(j)' <=> Attempting(j)  BY <1>2, <1>3 DEF Attempting
<1> QED  BY <1>2, <1>4, <1>5, <1>6 DEF SameKind, SameStage

LEMMA ImplFrame ==
  ASSUME NEW j, SameKind(j), SameRecord(j), current' = current, overtaken => overtaken',
         ImplInv(j)
  PROVE  ImplInv(j)'
<1>1. LastTold(j)' = LastTold(j)  BY DEF SameRecord, LastTold
<1>2. StageInv(j)'
  BY DEF ImplInv, StageInv, Open, SameKind
<1>3. UsedInv(j)'
  BY <1>1 DEF ImplInv, UsedInv, SameKind, SameRecord
<1>4. ASSUME OwnInv(j) PROVE OwnInv(j)'
  <2> DEFINE q == queue[ThreadOf(j)]
             p == queue'[ThreadOf(j)]
  <2>1. NoWorse(p, q, j)  BY DEF SameRecord, Of
  <2>2. /\ j < current => Clearing(j) \/ Down(j)
        /\ Asks(q, j) # {} => j = current /\ ~Closing(j) /\ ~Clearing(j)
        /\ j \in connected => AsksFirst(q, j)
        /\ j \notin connected => AsksLast(q, j) /\ (ToDisconnect(j) => Asks(q, j) = {})
        /\ Attempting(j) => Disconnects(q, j) = {} /\ ~ToDisconnect(j)
    BY <1>4 DEF OwnInv
  <2>3. OwnInv(j)' <=>
          /\ j < current' => Clearing(j)' \/ Down(j)'
          /\ Asks(p, j) # {} => j = current' /\ ~Closing(j)' /\ ~Clearing(j)'
          /\ j \in connected' => AsksFirst(p, j)
          /\ j \notin connected' => AsksLast(p, j) /\ (ToDisconnect(j)' => Asks(p, j) = {})
          /\ Attempting(j)' => Disconnects(p, j) = {} /\ ~ToDisconnect(j)'
    BY DEF OwnInv
  <2> HIDE DEF p, q
  <2> QED  BY <2>1, <2>2, <2>3 DEF NoWorse, SameKind, SameRecord
<1>5. ASSUME KnownInv(j), j \notin refused' PROVE KnownInv(j)'
  <2> DEFINE q == queue[ThreadOf(j)]
             p == queue'[ThreadOf(j)]
  <2>1. Asks(q, j) = {} => Asks(p, j) = {}  BY DEF SameRecord, Of, NoWorse
  <2>2. Ended(j)' <=> Ended(j)
    BY DEF SameKind, Ended, Clearers, Tellers, DisconnectSteps
  <2>3. /\ used[j] <= 1
        /\ j = current =>
              \/ /\ Down(j) /\ used[j] = 0
                 /\ (ToConnect(j) \/ Asks(q, j) # {}) => j \in linked
              \/ Attempting(j) /\ j \in linked /\ used[j] = 0
              \/ Opened(j) /\ j \in linked /\ used[j] = 0 /\ LastTold(j) = "connected"
              \/ Handshaking(j) /\ j \in linked /\ LastTold(j) = "connected"
              \/ Established(j) /\ j \in linked /\ LastTold(j) = "handshaked"
              \/ Closing(j) /\ j \in linked /\ LastTold(j) # "disconnected"
        /\ Ended(j) => LastTold(j) # "disconnected"
    BY <1>5 DEF KnownInv, Ended, Clearers, Tellers
  <2>4. KnownInv(j)' <=>
          /\ used'[j] <= 1
          /\ j = current' =>
                \/ /\ Down(j)' /\ used'[j] = 0
                   /\ (ToConnect(j)' \/ Asks(p, j) # {}) => j \in linked'
                \/ Attempting(j)' /\ j \in linked' /\ used'[j] = 0
                \/ Opened(j)' /\ j \in linked' /\ used'[j] = 0 /\ LastTold(j)' = "connected"
                \/ Handshaking(j)' /\ j \in linked' /\ LastTold(j)' = "connected"
                \/ Established(j)' /\ j \in linked' /\ LastTold(j)' = "handshaked"
                \/ Closing(j)' /\ j \in linked' /\ LastTold(j)' # "disconnected"
          /\ Ended(j)' => LastTold(j)' # "disconnected"
    BY DEF KnownInv, Ended, Clearers, Tellers
  <2> HIDE DEF p, q
  <2> QED  BY <2>1, <2>2, <2>3, <2>4, <1>1, <1>5 DEF SameKind, SameRecord
<1> QED  BY <1>2, <1>3, <1>4, <1>5 DEF ImplInv, SameRecord

SetTypes ==
  /\ linked \subseteq Impls /\ resolving \subseteq Impls /\ connecting \subseteq Impls
  /\ connected \subseteq Impls /\ handshaking \subseteq Impls /\ handshaked \subseteq Impls
  /\ receiving \subseteq Impls /\ refused \subseteq Impls
  /\ ops \subseteq Kinds \X Impls
  /\ used \in [Impls -> Nat] /\ told \in [Impls -> Seq(Events)]

LEMMA TypeParts ==
  /\ TypeOK <=> /\ SetTypes /\ queue \in QueueType /\ rest \in RestType /\ current \in Nat
                /\ todo \in Seq([op : CallSteps, impl : Impls])
                /\ calls \in 0..MaxCalls /\ overtaken \in BOOLEAN
  /\ TypeOK' <=> /\ SetTypes' /\ queue' \in QueueType' /\ rest' \in RestType'
                 /\ current' \in Nat
                 /\ todo' \in Seq([op : CallSteps, impl : Impls'])
                 /\ calls' \in 0..MaxCalls /\ overtaken' \in BOOLEAN
  /\ current' = current => /\ Impls' = Impls /\ QueueType' = QueueType
                           /\ RestType' = RestType
<1>1. TypeOK <=> /\ SetTypes /\ queue \in QueueType /\ rest \in RestType /\ current \in Nat
                 /\ todo \in Seq([op : CallSteps, impl : Impls])
                 /\ calls \in 0..MaxCalls /\ overtaken \in BOOLEAN
  BY DEF TypeOK, SetTypes, QueueType, RestType, Events
<1>2. TypeOK' <=> /\ SetTypes' /\ queue' \in QueueType' /\ rest' \in RestType'
                  /\ current' \in Nat
                  /\ todo' \in Seq([op : CallSteps, impl : Impls'])
                  /\ calls' \in 0..MaxCalls /\ overtaken' \in BOOLEAN
  BY DEF TypeOK, SetTypes, QueueType, RestType, Events
<1>3. current' = current => /\ Impls' = Impls /\ QueueType' = QueueType
                            /\ RestType' = RestType
  BY DEF Impls, QueueType, RestType, Handlers
<1> QED  BY <1>1, <1>2, <1>3

\* The conjuncts of SetTypes one by one, after a step.
LEMMA SetsAre ==
  SetTypes' <=>
    /\ linked' \subseteq Impls' /\ resolving' \subseteq Impls' /\ connecting' \subseteq Impls'
    /\ connected' \subseteq Impls' /\ handshaking' \subseteq Impls'
    /\ handshaked' \subseteq Impls' /\ receiving' \subseteq Impls' /\ refused' \subseteq Impls'
    /\ ops' \subseteq Kinds \X Impls'
    /\ used' \in [Impls' -> Nat] /\ told' \in [Impls' -> Seq(Events)]
BY DEF SetTypes

LEMMA QueueIs ==
  /\ \A i : Waiting(i) = OpsIn(queue, i) /\ Waiting(i)' = OpsIn(queue', i)
  /\ QueueInv <=> AllPlaced(queue) /\ RestPlaced(rest)
  /\ QueueInv' <=> AllPlaced(queue)' /\ RestPlaced(rest')
  /\ current' = current => (AllPlaced(queue)' <=> AllPlaced(queue'))
<1>1. \A i : Waiting(i) = OpsIn(queue, i) /\ Waiting(i)' = OpsIn(queue', i)
  BY DEF Waiting, OpsIn, Of
<1>2. QueueInv <=> AllPlaced(queue) /\ RestPlaced(rest)
  BY DEF QueueInv, AllPlaced, Placed, RestPlaced
<1>3. QueueInv' <=> AllPlaced(queue)' /\ RestPlaced(rest')
  BY DEF QueueInv, AllPlaced, Placed, RestPlaced
<1>4. current' = current => (AllPlaced(queue)' <=> AllPlaced(queue'))
  BY DEF AllPlaced, Placed, Impls
<1> QED  BY <1>1, <1>2, <1>3, <1>4

\* A step about one Impl.
LEMMA ImplStep ==
  ASSUME SSLInv, UNCHANGED <<current, todo, calls, overtaken>>, NEW i \in Impls,
         SetTypes', queue' \in QueueType, AllPlaced(queue'),
         rest' \in RestType, RestPlaced(rest'),
         \A j \in Impls \ {i} : Same(j),
         ImplInv(i)'
  PROVE  SSLInv'
<1>1. TypeOK'  BY TypeParts DEF SSLInv
<1>2. QueueInv'  BY QueueIs
<1>3. TodoInv'  BY DEF SSLInv, TodoInv
<1>4. \A j \in Impls : ImplInv(j)'
  BY StageFrame, ImplFrame DEF SSLInv, Same
<1> QED  BY <1>1, <1>2, <1>3, <1>4, TypeParts DEF SSLInv

-----------------------------------------------------------------------------
(* Each step of a running handler keeps the invariant.                     *)

LEMMA StepTaken ==
  ASSUME SSLInv, NEW t \in IoThreads, NEW op, Step(t, op), NEW i, i = Head(rest[t]).impl
  PROVE  /\ i \in Impls /\ ImplInv(i)
         /\ rest' \in RestType /\ RestPlaced(rest')
         /\ \A j \in Impls \ {i} : RestOf(j)' = RestOf(j)
         /\ op = "StartConnect" => Starting(i) /\ RestOf(i)' = <<>>
         /\ op = "SetConnected" => Opening(i) /\ RestOf(i)' = Beginners(i)
         /\ op = "BeginHandshake" => Opened(i) /\ RestOf(i)' = <<>>
         /\ op = "Reset" => Closing(i) /\ RestOf(i)' = Clearers(i)
         /\ op = "ClearFlags" => Clearing(i) /\ RestOf(i)' = Tellers(i)
         /\ op = "TellDisconnected" =>
               Down(i) /\ RestOf(i) = Tellers(i) /\ RestOf(i)' = Unlinkers(i)
         /\ op = "Unlink" => Down(i) /\ RestOf(i) = Unlinkers(i) /\ RestOf(i)' = <<>>
<1> DEFINE r == rest[t]
           s == Tail(r)
<1>1. /\ r \in Seq([op : Steps, impl : Impls]) /\ r # <<>> /\ Head(r).op = op
      /\ Head(r).impl = i /\ rest' = [rest EXCEPT ![t] = s]
      /\ rest \in RestType /\ TypeOK /\ RestPlaced(rest)
  BY TypeParts, QueueIs DEF Step, SSLInv, RestType
<1>2. i \in Impls /\ s \in Seq([op : Steps, impl : Impls])
  <2> DEFINE T == [op : Steps, impl : Impls]
  <2>1. r \in Seq(T) /\ r # <<>>  BY <1>1
  <2>2. \A h \in T : h.impl \in Impls  OBVIOUS
  <2> HIDE DEF r, T
  <2>3. Head(r) \in T /\ Tail(r) \in Seq(T)  BY <2>1
  <2>4. Head(r).impl \in Impls  BY <2>2, <2>3
  <2> QED  BY <2>3, <2>4, <1>1 DEF T
<1>3. ThreadOf(i) = t  BY <1>1 DEF RestPlaced
<1>4. RestOf(i) = r  BY <1>1, <1>3 DEF RestOf
<1>5. s = Tail(r) /\ op = Head(r).op /\ r # <<>>  BY <1>1
<1>6. rest[t] = <<>> \/ Head(rest[t]).impl = i  BY <1>1
<1>7. ImplInv(i)  BY <1>2 DEF SSLInv
<1> HIDE DEF r, s
<1>8. \/ Starting(i) /\ r = Starters(i)
      \/ Opening(i) /\ r = Openers(i)
      \/ Opened(i) /\ r = Beginners(i)
      \/ Closing(i) /\ r = DisconnectSteps(i)
      \/ Clearing(i) /\ r = Clearers(i)
      \/ Down(i) /\ r \in {Tellers(i), Unlinkers(i)}
  BY <1>4, <1>5, <1>7, StageFacts DEF ImplInv, StageInv, Attempting, Open
<1>9. /\ s = <<>> \/ Head(s).impl = i
      /\ op = "StartConnect" => Starting(i) /\ s = <<>>
      /\ op = "SetConnected" => Opening(i) /\ s = Beginners(i)
      /\ op = "BeginHandshake" => Opened(i) /\ s = <<>>
      /\ op = "Reset" => Closing(i) /\ s = Clearers(i)
      /\ op = "ClearFlags" => Clearing(i) /\ s = Tellers(i)
      /\ op = "TellDisconnected" => Down(i) /\ r = Tellers(i) /\ s = Unlinkers(i)
      /\ op = "Unlink" => Down(i) /\ r = Unlinkers(i) /\ s = <<>>
  <2>1. CASE Starting(i) /\ r = Starters(i)
    <3>1. op = "StartConnect" /\ s = <<>>  BY ONLY <2>1, <1>5, RestShapes DEF HeadIs
    <3> QED  BY <2>1, <3>1
  <2>2. CASE Opening(i) /\ r = Openers(i)
    <3>1. /\ Head(Openers(i)).op = "SetConnected" /\ Tail(Openers(i)) = Beginners(i)
          /\ Head(Beginners(i)).impl = i
      BY ONLY RestShapes DEF HeadIs
    <3>2. op = "SetConnected" /\ s = Beginners(i) /\ Head(s).impl = i  BY ONLY <2>2, <3>1, <1>5
    <3> QED  BY <2>2, <3>2
  <2>3. CASE Opened(i) /\ r = Beginners(i)
    <3>1. op = "BeginHandshake" /\ s = <<>>  BY ONLY <2>3, <1>5, RestShapes DEF HeadIs
    <3> QED  BY <2>3, <3>1
  <2>4. CASE Closing(i) /\ r = DisconnectSteps(i)
    <3>1. /\ Head(DisconnectSteps(i)).op = "Reset" /\ Tail(DisconnectSteps(i)) = Clearers(i)
          /\ Head(Clearers(i)).impl = i
      BY ONLY RestShapes DEF HeadIs
    <3>2. op = "Reset" /\ s = Clearers(i) /\ Head(s).impl = i  BY ONLY <2>4, <3>1, <1>5
    <3> QED  BY <2>4, <3>2
  <2>5. CASE Clearing(i) /\ r = Clearers(i)
    <3>1. /\ Head(Clearers(i)).op = "ClearFlags" /\ Tail(Clearers(i)) = Tellers(i)
          /\ Head(Tellers(i)).impl = i
      BY ONLY RestShapes DEF HeadIs
    <3>2. op = "ClearFlags" /\ s = Tellers(i) /\ Head(s).impl = i  BY ONLY <2>5, <3>1, <1>5
    <3> QED  BY <2>5, <3>2
  <2>6. CASE Down(i) /\ r = Tellers(i)
    <3>1. /\ Head(Tellers(i)).op = "TellDisconnected" /\ Tail(Tellers(i)) = Unlinkers(i)
          /\ Head(Unlinkers(i)).impl = i
      BY ONLY RestShapes DEF HeadIs
    <3>2. op = "TellDisconnected" /\ s = Unlinkers(i) /\ Head(s).impl = i  BY ONLY <2>6, <3>1, <1>5
    <3> QED  BY <2>6, <3>2
  <2>7. CASE Down(i) /\ r = Unlinkers(i)
    <3>1. op = "Unlink" /\ s = <<>>  BY ONLY <2>7, <1>5, RestShapes DEF HeadIs
    <3> QED  BY <2>7, <3>1
  <2> QED  BY <1>8, <2>1, <2>2, <2>3, <2>4, <2>5, <2>6, <2>7
<1>10. /\ rest' \in RestType /\ RestPlaced(rest') /\ RestOf(i)' = s
       /\ \A j \in Impls \ {i} : RestOf(j)' = RestOf(j)
  BY <1>1, <1>2, <1>3, <1>6, <1>9, RestSet
<1> QED  BY <1>2, <1>4, <1>7, <1>9, <1>10

LEMMA QueueKept ==
  ASSUME SSLInv, queue' = queue
  PROVE  /\ queue' \in QueueType /\ AllPlaced(queue')
         /\ \A j : /\ Waiting(j)' = Waiting(j)
                   /\ NoWorse(Of(queue', j), Of(queue, j), j)
<1>1. queue \in QueueType /\ AllPlaced(queue)  BY TypeParts, QueueIs DEF SSLInv
<1>2. \A j : Waiting(j)' = Waiting(j)  BY DEF Waiting
<1>3. \A j : NoWorse(Of(queue', j), Of(queue, j), j)  BY DEF NoWorse
<1> QED  BY <1>1, <1>2, <1>3

\* Connected or not, an Impl that is about to connect, or not connected any more, has no
\* disconnect in its way.
LEMMA OwnFacts ==
  ASSUME NEW i, OwnInv(i)
  PROVE  /\ i < current => Clearing(i) \/ Down(i)
         /\ Asks(Of(queue, i), i) # {} => i = current /\ ~Closing(i) /\ ~Clearing(i)
         /\ i \in connected => AsksFirst(Of(queue, i), i)
         /\ i \notin connected =>
               /\ AsksLast(Of(queue, i), i)
               /\ ToDisconnect(i) => Asks(Of(queue, i), i) = {}
         /\ Attempting(i) => Disconnects(Of(queue, i), i) = {} /\ ~ToDisconnect(i)
BY DEF OwnInv, Of

LEMMA OwnNext ==
  ASSUME NEW i,
         i < current' => Clearing(i)' \/ Down(i)',
         Asks(Of(queue', i), i) # {} => i = current' /\ ~Closing(i)' /\ ~Clearing(i)',
         i \in connected' => AsksFirst(Of(queue', i), i),
         i \notin connected' =>
               /\ AsksLast(Of(queue', i), i)
               /\ ToDisconnect(i)' => Asks(Of(queue', i), i) = {},
         Attempting(i)' => Disconnects(Of(queue', i), i) = {} /\ ~ToDisconnect(i)'
  PROVE  OwnInv(i)'
BY DEF OwnInv, Of

\* What KnownInv says of an Impl that is linked.
Known(i) ==
    \/ Attempting(i) /\ used[i] = 0
    \/ Opened(i) /\ used[i] = 0 /\ LastTold(i) = "connected"
    \/ Handshaking(i) /\ LastTold(i) = "connected"
    \/ Established(i) /\ LastTold(i) = "handshaked"
    \/ Closing(i) /\ LastTold(i) # "disconnected"

LEMMA KnownFacts ==
  ASSUME NEW i, KnownInv(i)
  PROVE  /\ used[i] <= 1
         /\ i = current =>
               \/ i \in linked /\ Known(i)
               \/ /\ Down(i) /\ used[i] = 0
                  /\ (ToConnect(i) \/ Asks(Of(queue, i), i) # {}) => i \in linked
         /\ Ended(i) => LastTold(i) # "disconnected"
BY DEF KnownInv, Of, Known, Ended, Clearers, Tellers

LEMMA KnownNext ==
  ASSUME NEW i,
         used'[i] <= 1,
         i = current' =>
               \/ i \in linked' /\ Known(i)'
               \/ /\ Down(i)' /\ used'[i] = 0
                  /\ (ToConnect(i)' \/ Asks(Of(queue', i), i) # {}) => i \in linked',
         Ended(i)' => LastTold(i)' # "disconnected"
  PROVE  KnownInv(i)'
BY DEF KnownInv, Of, Known, Ended, Clearers, Tellers

\* An Impl is in one stage at a time.
Apart(i) ==
  /\ Attempting(i) => /\ ~Down(i) /\ ~Opened(i) /\ ~Handshaking(i) /\ ~Established(i)
                      /\ ~Closing(i) /\ ~Clearing(i) /\ ~Ended(i)
  /\ Opened(i) => /\ ~Down(i) /\ ~Handshaking(i) /\ ~Established(i)
                  /\ ~Closing(i) /\ ~Clearing(i) /\ ~Ended(i)
  /\ Handshaking(i) => /\ ~Down(i) /\ ~Established(i)
                       /\ ~Closing(i) /\ ~Clearing(i) /\ ~Ended(i)
  /\ Established(i) => ~Down(i) /\ ~Closing(i) /\ ~Clearing(i) /\ ~Ended(i)
  /\ Closing(i) => ~Down(i) /\ ~Clearing(i) /\ ~Ended(i)
  /\ Clearing(i) => ~Down(i)
  /\ Attempting(i) \/ Down(i) => i \notin connected
  /\ Opened(i) \/ Handshaking(i) \/ Established(i) \/ Closing(i) \/ Clearing(i)
        => i \in connected

LEMMA StagesApart == ASSUME NEW i PROVE Apart(i)
<1> DEFINE r == RestOf(i)
<1>1. /\ r = <<>> => ~Ended(i)
      /\ r = Starters(i) => ~Ended(i) /\ r # <<>> /\ r # Tellers(i) /\ r # Unlinkers(i)
      /\ r = Openers(i) => ~Ended(i) /\ r # <<>> /\ r # Tellers(i) /\ r # Unlinkers(i)
      /\ r = Beginners(i) => ~Ended(i) /\ r # <<>> /\ r # DisconnectSteps(i)
      /\ r = DisconnectSteps(i) => ~Ended(i) /\ r # <<>>
      /\ r = Clearers(i) => r # <<>>
  <2> DEFINE s == r
  <2>1. Ended(i) <=> s = Clearers(i) \/ s = Tellers(i)  BY DEF Ended
  <2> HIDE DEF s
  <2> QED  BY ONLY <2>1, RestShapes DEF HeadIs, s
<1>2. IsBusy(i) <=> i \in resolving \cup connecting \cup connected \cup handshaking
                              \cup handshaked
  BY DEF IsBusy
<1>3. Attempting(i) => Resolving(i) \/ Starting(i) \/ Connecting(i) \/ Opening(i)
  BY DEF Attempting
<1>4. Attempting(i) => ~Ended(i) /\ ~Down(i)
  BY <1>1, <1>2, <1>3, StageFacts
<1>5. /\ Opened(i) \/ Handshaking(i) \/ Established(i) => ~Ended(i) /\ r # DisconnectSteps(i)
                                                         /\ r # Clearers(i)
      /\ Closing(i) => ~Ended(i)
  BY <1>1, StageFacts, RestShapes DEF Ended
<1>6. /\ Closing(i) => ~Clearing(i)
      /\ Opened(i) => ~Handshaking(i) /\ ~Established(i)
      /\ Handshaking(i) => ~Established(i)
  BY <1>5, StageFacts DEF Ended
<1>7. /\ Closing(i) \/ Clearing(i) => ~Down(i)
      /\ Opened(i) \/ Handshaking(i) \/ Established(i) => ~Down(i)
  BY <1>2, StageFacts
<1>8. /\ Attempting(i) \/ Down(i) => i \notin connected
      /\ Opened(i) \/ Handshaking(i) \/ Established(i) \/ Closing(i) \/ Clearing(i)
            => i \in connected
  BY <1>2, StageFacts
<1> QED  BY <1>4, <1>5, <1>6, <1>7, <1>8, StageFacts DEF Apart

LEMMA StagesApartNext == ASSUME NEW i PROVE Apart(i)'
BY StagesApart, PTL

\* An attempt to connect goes on.
LEMMA AttemptKept ==
  ASSUME NEW i, ImplInv(i), Attempting(i), Attempting(i)', SameRecord(i),
         UNCHANGED <<current, overtaken>>
  PROVE  ImplInv(i)'
<1>1. Apart(i) /\ Apart(i)'  BY StagesApart, StagesApartNext
<1>2. LastTold(i)' = LastTold(i)  BY DEF SameRecord, LastTold
<1>3. StageInv(i)'  BY DEF StageInv
<1>4. UsedInv(i)'  BY <1>1, <1>2 DEF ImplInv, UsedInv, SameRecord, Apart
<1>5. ASSUME OwnInv(i) PROVE OwnInv(i)'
  BY <1>1, <1>5, OwnFacts, OwnNext DEF Apart, SameRecord, NoWorse
<1>6. ASSUME KnownInv(i), i \notin refused' PROVE KnownInv(i)'
  BY <1>1, <1>2, <1>6, KnownFacts, KnownNext DEF Apart, SameRecord, Known
<1> QED  BY <1>3, <1>4, <1>5, <1>6 DEF ImplInv, SameRecord

LEMMA StartConnectInv ==
  ASSUME SSLInv, NEW t \in IoThreads, StartConnect(t), NEW i, i = Head(rest[t]).impl
  PROVE  SSLInv'
<1>1. /\ Step(t, "StartConnect")
      /\ connecting' = connecting \cup {i} /\ ops' = ops \cup {<<"Connected", i>>}
      /\ UNCHANGED <<current, linked, resolving, connected, handshaking, handshaked,
                     receiving, queue, todo, calls, used, told, refused, overtaken>>
  BY DEF StartConnect, app, history
<1>2. /\ i \in Impls /\ ImplInv(i) /\ rest' \in RestType /\ RestPlaced(rest')
      /\ \A j \in Impls \ {i} : RestOf(j)' = RestOf(j)
      /\ Starting(i) /\ RestOf(i)' = <<>>
  BY <1>1, StepTaken
<1>3. /\ queue' \in QueueType /\ AllPlaced(queue')
      /\ \A j : Waiting(j)' = Waiting(j) /\ NoWorse(Of(queue', j), Of(queue, j), j)
  BY <1>1, QueueKept
<1>4. SetTypes  BY TypeParts DEF SSLInv
<1>5. /\ ops' \subseteq Kinds \X Impls /\ Ops(i)' = Ops(i) \cup {"Connected"}
      /\ \A j \in Impls \ {i} : Ops(j)' = Ops(j)
  BY <1>1, <1>2, <1>4, OpsChange DEF SetTypes, Kinds
<1>6. SetTypes'
  BY <1>1, <1>2, <1>4, <1>5, TypeParts, SetsAre DEF SetTypes
<1>7. \A j \in Impls \ {i} : Same(j)
  BY <1>1, <1>2, <1>3, <1>5 DEF Same, SameStage, SameRecord, ToConnect, ToDisconnect
<1>8. /\ ~IsBusy(i) /\ i \notin receiving /\ Ops(i) = {} /\ Waiting(i) = {}
      /\ RestOf(i) # <<>>
  BY <1>2, StageFacts, RestShapes DEF Attempting
<1>9. Connecting(i)'
  BY <1>1, <1>2, <1>3, <1>5, <1>8 DEF Connecting, Awaits, IsBusy
<1>10. Attempting(i) /\ Attempting(i)'  BY <1>2, <1>9 DEF Attempting
<1>11. SameRecord(i)
  BY <1>1, <1>3 DEF SameRecord, ToConnect, ToDisconnect
<1>12. ImplInv(i)'
  BY <1>1, <1>2, <1>10, <1>11, AttemptKept
<1> QED  BY <1>1, <1>2, <1>3, <1>6, <1>7, <1>12, ImplStep

\* Handlers of Impl i that are no tasks and no disconnects are connects.
LEMMA OnlyAsks ==
  ASSUME NEW q \in Seq(Handlers), NEW i, TaskOps(q, i) = {}, Disconnects(q, i) = {}
  PROVE  AsksFirst(q, i)
<1> SUFFICES ASSUME NEW k \in Asks(q, i), NEW l \in 1..(k - 1), q[l].impl = i
             PROVE  l \in Asks(q, i)
  BY DEF AsksFirst
<1>1. k \in 1..Len(q) /\ Len(q) \in Nat  BY DEF Asks
<1>2. l \in 1..Len(q)  BY <1>1
<1>3. q[l] \in Handlers  BY <1>2
<1>4. l \notin Tasks(q, i)  BY DEF TaskOps
<1>5. q[l].op \notin Kinds  BY <1>2, <1>4 DEF Tasks
<1>6. q[l] # On("Disconnect", i)  BY <1>2 DEF Disconnects
<1>7. q[l].op \in {"Connect", "Resolve"}  BY <1>3, <1>5, <1>6, HandlerTypes
<1> QED  BY <1>2, <1>7 DEF Asks

LEMMA QueueOf == ASSUME SSLInv, NEW i \in Impls PROVE Of(queue, i) \in Seq(Handlers)
<1>1. queue \in QueueType /\ i \in Nat  BY TypeParts DEF SSLInv, Impls
<1> QED  BY <1>1, ThreadOfType DEF Of, QueueType

LEMMA SetConnectedInv ==
  ASSUME SSLInv, NEW t \in IoThreads, SetConnected(t), NEW i, i = Head(rest[t]).impl
  PROVE  SSLInv'
<1>1. /\ Step(t, "SetConnected")
      /\ connected' = connected \cup {i} /\ Tell(i, "connected")
      /\ UNCHANGED <<current, linked, resolving, connecting, handshaking, handshaked,
                     receiving, ops, queue, todo, calls, used, refused, overtaken>>
  BY DEF SetConnected, app
<1>2. /\ i \in Impls /\ ImplInv(i) /\ rest' \in RestType /\ RestPlaced(rest')
      /\ \A j \in Impls \ {i} : RestOf(j)' = RestOf(j)
      /\ Opening(i) /\ RestOf(i)' = Beginners(i)
  BY <1>1, StepTaken
<1>3. /\ queue' \in QueueType /\ AllPlaced(queue')
      /\ \A j : Waiting(j)' = Waiting(j) /\ NoWorse(Of(queue', j), Of(queue, j), j)
  BY <1>1, QueueKept
<1>4. SetTypes  BY TypeParts DEF SSLInv
<1>5. \A j : Ops(j)' = Ops(j)  BY <1>1 DEF Ops
<1>6. /\ told' \in [Impls -> Seq(Events)] /\ \A j \in Impls \ {i} : told'[j] = told[j]
      /\ i \in linked => LastTold(i)' = "connected"
  BY <1>1, <1>2, <1>4, Told DEF SetTypes, Events
<1>7. SetTypes'
  BY <1>1, <1>2, <1>4, <1>6, TypeParts, SetsAre DEF SetTypes
<1>8. \A j \in Impls \ {i} : Same(j)
  BY <1>1, <1>2, <1>3, <1>5, <1>6 DEF Same, SameStage, SameRecord, ToConnect, ToDisconnect
<1>9. /\ ~IsBusy(i) /\ i \notin receiving /\ Ops(i) = {} /\ Waiting(i) = {} /\ Attempting(i)
  BY <1>2, StageFacts DEF Attempting
<1>10. Opened(i)'
  BY <1>1, <1>2, <1>3, <1>5, <1>9 DEF Opened, IsBusy, Beginners
<1>11. Apart(i) /\ Apart(i)'  BY StagesApart, StagesApartNext
<1>12. StageInv(i)' /\ UsedInv(i)'
  BY <1>1, <1>10, <1>11 DEF StageInv, Open, UsedInv, Apart
<1>13. ASSUME OwnInv(i) PROVE OwnInv(i)'
  <2>1. AsksFirst(Of(queue, i), i)
    <3>1. Disconnects(Of(queue, i), i) = {}  BY <1>9, <1>13, OwnFacts
    <3>2. TaskOps(Of(queue, i), i) = {}  BY <1>9 DEF Waiting, Of
    <3> QED  BY <1>2, <3>1, <3>2, OnlyAsks, QueueOf
  <2> QED  BY <2>1, <1>1, <1>3, <1>9, <1>10, <1>11, <1>13, OwnFacts, OwnNext DEF Apart, NoWorse
<1>14. ASSUME KnownInv(i) PROVE KnownInv(i)'
  BY <1>1, <1>6, <1>9, <1>10, <1>11, <1>14, KnownFacts, KnownNext DEF Apart, Known
<1>15. ImplInv(i)'
  BY <1>1, <1>2, <1>12, <1>13, <1>14 DEF ImplInv
<1> QED  BY <1>1, <1>2, <1>3, <1>7, <1>8, <1>15, ImplStep

LEMMA BeginHandshakeInv ==
  ASSUME SSLInv, NEW t \in IoThreads, BeginHandshake(t), NEW i, i = Head(rest[t]).impl
  PROVE  SSLInv'
<1>1. /\ Step(t, "BeginHandshake")
      /\ handshaking' = handshaking \cup {i} /\ ops' = ops \cup {<<"Handshake", i>>}
      /\ used' = [used EXCEPT ![i] = @ + 1]
      /\ UNCHANGED <<current, linked, resolving, connecting, connected, handshaked,
                     receiving, queue, todo, calls, told, refused, overtaken>>
  BY DEF BeginHandshake, app
<1>2. /\ i \in Impls /\ ImplInv(i) /\ rest' \in RestType /\ RestPlaced(rest')
      /\ \A j \in Impls \ {i} : RestOf(j)' = RestOf(j)
      /\ Opened(i) /\ RestOf(i)' = <<>>
  BY <1>1, StepTaken
<1>3. /\ queue' \in QueueType /\ AllPlaced(queue')
      /\ \A j : Waiting(j)' = Waiting(j) /\ NoWorse(Of(queue', j), Of(queue, j), j)
  BY <1>1, QueueKept
<1>4. SetTypes /\ current \in Nat  BY TypeParts DEF SSLInv
<1>5. /\ ops' \subseteq Kinds \X Impls /\ Ops(i)' = Ops(i) \cup {"Handshake"}
      /\ \A j \in Impls \ {i} : Ops(j)' = Ops(j)
  BY <1>1, <1>2, <1>4, OpsChange DEF SetTypes, Kinds
<1>6. /\ used' \in [Impls -> Nat] /\ used'[i] = used[i] + 1 /\ used[i] \in Nat
      /\ \A j \in Impls \ {i} : used'[j] = used[j]
  <2>1. used \in [Impls -> Nat]  BY <1>4 DEF SetTypes
  <2> QED  BY <2>1, <1>1, <1>2
<1>7. SetTypes'
  BY <1>1, <1>2, <1>4, <1>5, <1>6, TypeParts, SetsAre DEF SetTypes
<1>8. \A j \in Impls \ {i} : Same(j)
  BY <1>1, <1>2, <1>3, <1>5, <1>6 DEF Same, SameStage, SameRecord, ToConnect, ToDisconnect
<1>9. Handshaking(i)'
  BY <1>1, <1>2, <1>3, <1>5 DEF Opened, Handshaking, Awaits
<1>10. Apart(i) /\ Apart(i)'  BY StagesApart, StagesApartNext
<1>11. StageInv(i)' /\ UsedInv(i)'
  BY <1>6, <1>9 DEF StageInv, Open, UsedInv
<1>12. ASSUME OwnInv(i) PROVE OwnInv(i)'
  BY <1>1, <1>2, <1>3, <1>9, <1>10, <1>12, OwnFacts, OwnNext DEF Apart, NoWorse
<1>13. ASSUME OwnInv(i), KnownInv(i) PROVE KnownInv(i)'
  <2>1. i = current  BY <1>2, <1>4, <1>10, <1>13, OwnFacts DEF Apart, Impls
  <2>2. i \in linked /\ used[i] = 0 /\ LastTold(i) = "connected"
    BY <2>1, <1>2, <1>10, <1>13, KnownFacts DEF Apart, Known
  <2>3. LastTold(i)' = LastTold(i)  BY <1>1 DEF LastTold
  <2> QED  BY <2>2, <2>3, <1>1, <1>6, <1>9, <1>10, KnownNext DEF Apart, Known
<1>14. ImplInv(i)'
  BY <1>1, <1>2, <1>11, <1>12, <1>13 DEF ImplInv
<1> QED  BY <1>1, <1>2, <1>3, <1>7, <1>8, <1>14, ImplStep

LEMMA ClearFlagsInv ==
  ASSUME SSLInv, NEW t \in IoThreads, ClearFlags(t), NEW i, i = Head(rest[t]).impl
  PROVE  SSLInv'
<1>1. /\ Step(t, "ClearFlags")
      /\ resolving' = resolving \ {i} /\ connecting' = connecting \ {i}
      /\ connected' = connected \ {i} /\ handshaking' = handshaking \ {i}
      /\ handshaked' = handshaked \ {i} /\ receiving' = receiving \ {i}
      /\ UNCHANGED <<current, linked, ops, queue, todo, calls, used, told, refused, overtaken>>
  BY DEF ClearFlags, app, history
<1>2. /\ i \in Impls /\ ImplInv(i) /\ rest' \in RestType /\ RestPlaced(rest')
      /\ \A j \in Impls \ {i} : RestOf(j)' = RestOf(j)
      /\ Clearing(i) /\ RestOf(i)' = Tellers(i)
  BY <1>1, StepTaken
<1>3. /\ queue' \in QueueType /\ AllPlaced(queue')
      /\ \A j : Waiting(j)' = Waiting(j) /\ NoWorse(Of(queue', j), Of(queue, j), j)
  BY <1>1, QueueKept
<1>4. SetTypes  BY TypeParts DEF SSLInv
<1>5. \A j : Ops(j)' = Ops(j)  BY <1>1 DEF Ops
<1>6. SetTypes'
  BY <1>1, <1>4, TypeParts, SetsAre DEF SetTypes
<1>7. \A j \in Impls \ {i} : Same(j)
  BY <1>1, <1>2, <1>3, <1>5 DEF Same, SameStage, SameRecord, ToConnect, ToDisconnect
<1>8. Ops(i) = {} /\ Waiting(i) \subseteq {"Read"} /\ RestOf(i) = Clearers(i)
  BY <1>2, StageFacts
<1>9. Down(i)'
  BY <1>1, <1>2, <1>3, <1>5, <1>8 DEF Down, Unflagged, IsBusy, Tellers
<1>10. Apart(i) /\ Apart(i)'  BY StagesApart, StagesApartNext
<1>11. StageInv(i)'  BY <1>9 DEF StageInv
<1>12. UsedInv(i)'
  BY <1>1, <1>2, <1>10 DEF ImplInv, UsedInv, Apart
<1>13. ASSUME OwnInv(i) PROVE OwnInv(i)'
  <2>1. Asks(Of(queue', i), i) = {}  BY <1>2, <1>3, <1>13, OwnFacts DEF NoWorse
  <2>2. AsksLast(Of(queue', i), i)  BY <2>1 DEF AsksLast
  <2> QED  BY <2>1, <2>2, <1>9, <1>10, OwnNext DEF Apart
<1>14. ASSUME KnownInv(i) PROVE KnownInv(i)'
  <2>1. i # current  BY <1>2, <1>10, <1>14, KnownFacts DEF Apart, Known
  <2>2. Ended(i) /\ LastTold(i)' = LastTold(i)  BY <1>1, <1>8 DEF Ended, LastTold
  <2> QED  BY <2>1, <2>2, <1>1, <1>14, KnownFacts, KnownNext
<1>15. ImplInv(i)'
  BY <1>1, <1>2, <1>11, <1>12, <1>13, <1>14 DEF ImplInv
<1> QED  BY <1>1, <1>2, <1>3, <1>6, <1>7, <1>15, ImplStep

LEMMA EndedNext ==
  ASSUME NEW i
  PROVE  /\ Ended(i)' <=> RestOf(i)' \in {Clearers(i), Tellers(i)}
         /\ <<>> \notin {Clearers(i), Tellers(i), Unlinkers(i)}
         /\ Unlinkers(i) \notin {Clearers(i), Tellers(i)}
<1>1. Ended(i)' <=> RestOf(i)' \in {Clearers(i), Tellers(i)}
  BY DEF Ended, Clearers, DisconnectSteps, Tellers
<1>2. <<>> \notin {Clearers(i), Tellers(i), Unlinkers(i)}  BY RestShapes
<1>3. Unlinkers(i) \notin {Clearers(i), Tellers(i)}  BY RestShapes DEF HeadIs
<1> QED  BY <1>1, <1>2, <1>3

\* An Impl whose handler is still to tell of the end, or to unlink the client, has been used,
\* and replaced.
LEMMA DownFacts ==
  ASSUME NEW i, ImplInv(i), Down(i), RestOf(i) # <<>>
  PROVE  /\ used[i] # 0
         /\ KnownInv(i) => i # current
<1>1. Apart(i)  BY StagesApart
<1>2. used[i] # 0  BY <1>1 DEF ImplInv, UsedInv, Apart
<1> QED  BY <1>1, <1>2, KnownFacts DEF Apart, Known

LEMMA TellDisconnectedInv ==
  ASSUME SSLInv, NEW t \in IoThreads, TellDisconnected(t), NEW i, i = Head(rest[t]).impl
  PROVE  SSLInv'
<1>1. /\ Step(t, "TellDisconnected") /\ Tell(i, "disconnected")
      /\ UNCHANGED <<current, linked, resolving, connecting, connected, handshaking,
                     handshaked, receiving, ops, queue, todo, calls, used, refused, overtaken>>
  BY DEF TellDisconnected, flags, app
<1>2. /\ i \in Impls /\ ImplInv(i) /\ rest' \in RestType /\ RestPlaced(rest')
      /\ \A j \in Impls \ {i} : RestOf(j)' = RestOf(j)
      /\ Down(i) /\ RestOf(i) = Tellers(i) /\ RestOf(i)' = Unlinkers(i)
  BY <1>1, StepTaken
<1>3. /\ queue' \in QueueType /\ AllPlaced(queue')
      /\ \A j : Waiting(j)' = Waiting(j) /\ NoWorse(Of(queue', j), Of(queue, j), j)
  BY <1>1, QueueKept
<1>4. SetTypes  BY TypeParts DEF SSLInv
<1>5. \A j : Ops(j)' = Ops(j)  BY <1>1 DEF Ops
<1>6. told' \in [Impls -> Seq(Events)] /\ \A j \in Impls \ {i} : told'[j] = told[j]
  BY <1>1, <1>2, <1>4, Told DEF SetTypes, Events
<1>7. SetTypes'
  BY <1>1, <1>4, <1>6, TypeParts, SetsAre DEF SetTypes
<1>8. \A j \in Impls \ {i} : Same(j)
  BY <1>1, <1>2, <1>3, <1>5, <1>6 DEF Same, SameStage, SameRecord, ToConnect, ToDisconnect
<1>9. Down(i)'
  BY <1>1, <1>2, <1>3, <1>5 DEF Down, Unflagged, IsBusy, Unlinkers
<1>10. Apart(i) /\ Apart(i)'  BY StagesApart, StagesApartNext
<1>11. RestOf(i) # <<>> /\ ~Ended(i)'
  BY <1>2, EndedNext
<1>12. used[i] # 0 /\ (KnownInv(i) => i # current)  BY <1>2, <1>11, DownFacts
<1>13. StageInv(i)' /\ UsedInv(i)'
  BY <1>1, <1>9, <1>12 DEF StageInv, UsedInv
<1>14. ASSUME OwnInv(i) PROVE OwnInv(i)'
  BY <1>1, <1>2, <1>3, <1>9, <1>10, <1>14, OwnFacts, OwnNext
     DEF Apart, NoWorse, ToDisconnect
<1>15. ASSUME KnownInv(i) PROVE KnownInv(i)'
  BY <1>1, <1>11, <1>12, <1>15, KnownFacts, KnownNext
<1>16. ImplInv(i)'
  BY <1>1, <1>2, <1>13, <1>14, <1>15 DEF ImplInv
<1> QED  BY <1>1, <1>2, <1>3, <1>7, <1>8, <1>16, ImplStep

LEMMA UnlinkInv ==
  ASSUME SSLInv, NEW t \in IoThreads, Unlink(t), NEW i, i = Head(rest[t]).impl
  PROVE  SSLInv'
<1>1. /\ Step(t, "Unlink") /\ linked' = linked \ {i}
      /\ UNCHANGED <<current, resolving, connecting, connected, handshaking, handshaked,
                     receiving, ops, queue, todo, calls, used, told, refused, overtaken>>
  BY DEF Unlink, flags, app, history
<1>2. /\ i \in Impls /\ ImplInv(i) /\ rest' \in RestType /\ RestPlaced(rest')
      /\ \A j \in Impls \ {i} : RestOf(j)' = RestOf(j)
      /\ Down(i) /\ RestOf(i) = Unlinkers(i) /\ RestOf(i)' = <<>>
  BY <1>1, StepTaken
<1>3. /\ queue' \in QueueType /\ AllPlaced(queue')
      /\ \A j : Waiting(j)' = Waiting(j) /\ NoWorse(Of(queue', j), Of(queue, j), j)
  BY <1>1, QueueKept
<1>4. SetTypes  BY TypeParts DEF SSLInv
<1>5. \A j : Ops(j)' = Ops(j)  BY <1>1 DEF Ops
<1>7. SetTypes'
  BY <1>1, <1>4, TypeParts, SetsAre DEF SetTypes
<1>8. \A j \in Impls \ {i} : Same(j)
  BY <1>1, <1>2, <1>3, <1>5 DEF Same, SameStage, SameRecord, ToConnect, ToDisconnect
<1>9. Down(i)'
  BY <1>1, <1>2, <1>3, <1>5 DEF Down, Unflagged, IsBusy
<1>10. Apart(i) /\ Apart(i)'  BY StagesApart, StagesApartNext
<1>11. RestOf(i) # <<>> /\ ~Ended(i)'
  BY <1>2, EndedNext
<1>12. used[i] # 0 /\ (KnownInv(i) => i # current)  BY <1>2, <1>11, DownFacts
<1>13. StageInv(i)' /\ UsedInv(i)'
  BY <1>1, <1>9, <1>12 DEF StageInv, UsedInv
<1>14. ASSUME OwnInv(i) PROVE OwnInv(i)'
  BY <1>1, <1>2, <1>3, <1>9, <1>10, <1>14, OwnFacts, OwnNext
     DEF Apart, NoWorse, ToDisconnect
<1>15. ASSUME KnownInv(i) PROVE KnownInv(i)'
  BY <1>1, <1>11, <1>12, <1>15, KnownFacts, KnownNext
<1>16. ImplInv(i)'
  BY <1>1, <1>2, <1>13, <1>14, <1>15 DEF ImplInv
<1> QED  BY <1>1, <1>2, <1>3, <1>7, <1>8, <1>16, ImplStep

-----------------------------------------------------------------------------
(* Each handler keeps the invariant.                                       *)

\* A handler of Impl i that posts none.
LEMMA HandlerFrame ==
  ASSUME SSLInv, NEW t \in IoThreads, NEW op, Ready(t, op), NEW i, i = First(t).impl,
         queue' = Taken(t)
  PROVE  /\ queue' \in QueueType /\ AllPlaced(queue')
         /\ i \in Impls /\ ImplInv(i) /\ RestOf(i) = <<>>
         /\ \A j \in Impls : NoWorse(Of(queue', j), Of(queue, j), j)
         /\ \A j \in Impls \ {i} : Waiting(j)' = Waiting(j)
         /\ op \notin Kinds => Waiting(i)' = Waiting(i)
         /\ op \in Kinds => /\ Waiting(i) = Waiting(i)' \cup {op}
                            /\ "Read" \notin Waiting(i)'
                            /\ op # "Read" => Waiting(i)' = {}
<1>1. TypeOK /\ QueueInv  BY DEF SSLInv
<1>2. /\ i \in Impls /\ RestOf(i) = <<>>
      /\ Taken(t) \in QueueType /\ AllPlaced(Taken(t))
      /\ \A j \in Impls : NoWorse(Of(Taken(t), j), Of(queue, j), j)
      /\ \A j \in Impls \ {i} : OpsIn(Taken(t), j) = Waiting(j)
      /\ op \notin Kinds => OpsIn(Taken(t), i) = Waiting(i)
      /\ op \in Kinds => /\ Waiting(i) = OpsIn(Taken(t), i) \cup {op}
                         /\ "Read" \notin OpsIn(Taken(t), i)
                         /\ op # "Read" => OpsIn(Taken(t), i) = {}
  <2>1. i \in Impls /\ RestOf(i) = <<>>  BY <1>1, HandlerTaken
  <2>2. Taken(t) \in QueueType /\ AllPlaced(Taken(t))  BY <1>1, HandlerTaken
  <2>3. \A j \in Impls : NoWorse(Of(Taken(t), j), Of(queue, j), j)  BY <1>1, HandlerTaken
  <2>4. \A j \in Impls \ {i} : OpsIn(Taken(t), j) = Waiting(j)  BY <1>1, HandlerTaken
  <2>5. /\ op \notin Kinds => OpsIn(Taken(t), i) = Waiting(i)
        /\ op \in Kinds => /\ Waiting(i) = OpsIn(Taken(t), i) \cup {op}
                           /\ "Read" \notin OpsIn(Taken(t), i)
                           /\ op # "Read" => OpsIn(Taken(t), i) = {}
    <3>1. op \notin Kinds => OpsIn(Taken(t), i) = Waiting(i)  BY <1>1, HandlerTaken
    <3>2. op \in Kinds => "Read" \notin OpsIn(Taken(t), i)  BY <1>1, HandlerTaken
    <3>3. op \in Kinds /\ op # "Read" => OpsIn(Taken(t), i) = {}  BY <1>1, HandlerTaken
    <3>4. op \in Kinds => Waiting(i) = OpsIn(Taken(t), i) \cup {op}  BY <1>1, HandlerTaken
    <3> QED  BY <3>1, <3>2, <3>3, <3>4
  <2> QED  BY <2>1, <2>2, <2>3, <2>4, <2>5
<1>3. \A j : Waiting(j)' = OpsIn(Taken(t), j)  BY QueueIs
<1>4. ImplInv(i)  BY <1>2 DEF SSLInv
<1> QED  BY <1>2, <1>3, <1>4

\* What it has left to do, if anything.
LEMMA RestNext ==
  ASSUME SSLInv, NEW t \in IoThreads, NEW op, Ready(t, op), NEW i, i = First(t).impl
  PROVE  /\ rest' = rest => /\ rest' \in RestType /\ RestPlaced(rest')
                            /\ \A j : RestOf(j)' = RestOf(j)
         /\ \A s \in {Starters(i), Openers(i), DisconnectSteps(i)} :
               rest' = [rest EXCEPT ![t] = s] =>
                  /\ rest' \in RestType /\ RestPlaced(rest') /\ RestOf(i)' = s
                  /\ \A j \in Impls \ {i} : RestOf(j)' = RestOf(j)
<1>1. TypeOK /\ QueueInv /\ rest \in RestType /\ RestPlaced(rest)
  BY TypeParts, QueueIs DEF SSLInv
<1>2. i \in Impls /\ t = ThreadOf(i) /\ rest[t] = <<>>  BY <1>1, HandlerTaken
<1>3. rest' = rest => \A j : RestOf(j)' = RestOf(j)  BY DEF RestOf
<1>4. ASSUME NEW s \in {Starters(i), Openers(i), DisconnectSteps(i)},
             rest' = [rest EXCEPT ![t] = s]
      PROVE  /\ rest' \in RestType /\ RestPlaced(rest') /\ RestOf(i)' = s
             /\ \A j \in Impls \ {i} : RestOf(j)' = RestOf(j)
  <2>1. s \in Seq([op : Steps, impl : Impls]) /\ Head(s).impl = i
    <3>1. CASE s = Starters(i)  BY <3>1, <1>2, RestTypes, RestShapes DEF HeadIs
    <3>2. CASE s = Openers(i)  BY <3>2, <1>2, RestTypes, RestShapes DEF HeadIs
    <3>3. CASE s = DisconnectSteps(i)  BY <3>3, <1>2, RestTypes, RestShapes DEF HeadIs
    <3> QED  BY <3>1, <3>2, <3>3
  <2> QED  BY <2>1, <1>1, <1>2, <1>4, RestSet
<1> QED  BY <1>1, <1>3, <1>4

\* The handlers of the two ConnectAsync.
LEMMA BeginKeeps ==
  ASSUME SSLInv, NEW t \in IoThreads, NEW op \in {"Connect", "Resolve"}, Ready(t, op),
         NEW i, i = First(t).impl, queue' = Taken(t),
         UNCHANGED <<current, linked, connected, handshaking, handshaked, receiving, rest,
                     todo, calls, used, told, refused, overtaken>>,
         \/ IsBusy(i) /\ UNCHANGED <<resolving, connecting, ops>>
         \/ /\ ~IsBusy(i)
            /\ \/ /\ connecting' = connecting \cup {i} /\ UNCHANGED resolving
                  /\ ops' = ops \cup {<<"Connected", i>>}
               \/ /\ resolving' = resolving \cup {i} /\ UNCHANGED connecting
                  /\ ops' = ops \cup {<<"Resolved", i>>}
  PROVE  SSLInv'
<1>1. /\ queue' \in QueueType /\ AllPlaced(queue')
      /\ rest' \in RestType /\ RestPlaced(rest')
      /\ i \in Impls /\ ImplInv(i) /\ RestOf(i) = <<>>
      /\ \A j : RestOf(j)' = RestOf(j)
      /\ \A j \in Impls : NoWorse(Of(queue', j), Of(queue, j), j)
      /\ \A j \in Impls \ {i} : Waiting(j)' = Waiting(j)
      /\ Waiting(i)' = Waiting(i)
  <2>1. op \notin Kinds  BY DEF Kinds
  <2> QED  BY <2>1, HandlerFrame, RestNext
<1>2. SetTypes  BY TypeParts DEF SSLInv
<1>3. \A j \in Impls : SameRecord(j)
  BY <1>1 DEF SameRecord, ToConnect, ToDisconnect
<1>4. CASE IsBusy(i) /\ UNCHANGED <<resolving, connecting, ops>>
  <2>1. \A j : Ops(j)' = Ops(j)  BY <1>4 DEF Ops
  <2>2. \A j \in Impls : Same(j)
    BY <1>1, <1>3, <1>4, <2>1 DEF Same, SameStage
  <2>3. SetTypes'  BY <1>2, <1>4, TypeParts, SetsAre DEF SetTypes
  <2>4. ImplInv(i)'  BY <1>1, <2>2, StageFrame, ImplFrame DEF Same
  <2> QED  BY <1>1, <2>2, <2>3, <2>4, ImplStep
<1>5. ASSUME ~IsBusy(i),
             \/ /\ connecting' = connecting \cup {i} /\ UNCHANGED resolving
                /\ ops' = ops \cup {<<"Connected", i>>}
             \/ /\ resolving' = resolving \cup {i} /\ UNCHANGED connecting
                /\ ops' = ops \cup {<<"Resolved", i>>}
      PROVE  SSLInv'
  <2>1. Down(i)  BY <1>1, <1>5, StageAtRest DEF ImplInv
  <2>2. /\ i \notin resolving \cup connecting \cup connected \cup handshaking \cup handshaked
        /\ i \notin receiving /\ Ops(i) = {} /\ Waiting(i) \subseteq {"Read"}
    BY <2>1, StageFacts DEF IsBusy
  <2>3. /\ ops' \subseteq Kinds \X Impls
        /\ \A j \in Impls \ {i} : Ops(j)' = Ops(j)
        /\ Attempting(i)'
    <3>1. CASE /\ connecting' = connecting \cup {i} /\ UNCHANGED resolving
               /\ ops' = ops \cup {<<"Connected", i>>}
      <4>1. /\ ops' \subseteq Kinds \X Impls /\ Ops(i)' = {"Connected"}
            /\ \A j \in Impls \ {i} : Ops(j)' = Ops(j)
        BY <3>1, <1>1, <1>2, <2>2, OpsChange DEF SetTypes, Kinds
      <4>2. Connecting(i)'  BY <3>1, <4>1, <1>1, <2>2 DEF Connecting, Awaits
      <4> QED  BY <4>1, <4>2 DEF Attempting
    <3>2. CASE /\ resolving' = resolving \cup {i} /\ UNCHANGED connecting
               /\ ops' = ops \cup {<<"Resolved", i>>}
      <4>1. /\ ops' \subseteq Kinds \X Impls /\ Ops(i)' = {"Resolved"}
            /\ \A j \in Impls \ {i} : Ops(j)' = Ops(j)
        BY <3>2, <1>1, <1>2, <2>2, OpsChange DEF SetTypes, Kinds
      <4>2. Resolving(i)'  BY <3>2, <4>1, <1>1, <2>2 DEF Resolving, Awaits
      <4> QED  BY <4>1, <4>2 DEF Attempting
    <3> QED  BY <1>5, <3>1, <3>2
  <2>4. SetTypes'
    BY <1>1, <1>2, <1>5, <2>3, TypeParts, SetsAre DEF SetTypes
  <2>5. \A j \in Impls \ {i} : Same(j)
    BY <1>1, <1>3, <1>5, <2>3 DEF Same, SameStage
  <2>6. Apart(i) /\ Apart(i)'  BY StagesApart, StagesApartNext
  <2>7. LastTold(i)' = LastTold(i) /\ i \notin connected'  BY <2>2 DEF LastTold
  <2>8. StageInv(i)' /\ UsedInv(i)'
    BY <1>1, <2>2, <2>3, <2>7 DEF ImplInv, StageInv, UsedInv
  <2>9. /\ Asks(Of(queue, i), i) # {}
        /\ AsksLast(Of(queue, i), i) => Disconnects(Of(queue', i), i) = {}
    <3>1. /\ Of(queue, i) \in Seq(Handlers) /\ Of(queue, i) # <<>>
          /\ Head(Of(queue, i)) = First(t) /\ Of(queue', i) = Tail(Of(queue, i))
      BY HandlerTaken DEF SSLInv
    <3>2. IsAsk(First(t), i)  BY DEF Ready, IsAsk
    <3> QED  BY <3>1, <3>2, QueueTail
  <2>10. ASSUME OwnInv(i) PROVE OwnInv(i)'
    <3>1. i = current /\ ~ToDisconnect(i)  BY <2>2, <2>9, <2>10, OwnFacts
    <3>2. ~(i < current) /\ current' = current  BY <3>1, TypeParts DEF SSLInv
    <3>3. /\ NoWorse(Of(queue', i), Of(queue, i), i) /\ AsksLast(Of(queue, i), i)
          /\ Disconnects(Of(queue', i), i) = {}
      BY <1>1, <2>2, <2>9, <2>10, OwnFacts
    <3>4. ~ToDisconnect(i)'  BY <3>1 DEF ToDisconnect
    <3> QED
      BY <2>3, <2>6, <2>7, <3>1, <3>2, <3>3, <3>4, OwnNext DEF Apart, NoWorse
  <2>11. ASSUME KnownInv(i) PROVE KnownInv(i)'
    BY <2>1, <2>3, <2>6, <2>7, <2>9, <2>11, KnownFacts, KnownNext DEF Apart, Known
  <2>12. ImplInv(i)'  BY <1>1, <2>8, <2>10, <2>11 DEF ImplInv
  <2> QED  BY <1>1, <2>4, <2>5, <2>12, ImplStep
<1> QED  BY <1>4, <1>5

LEMMA ConnectHandlerInv ==
  ASSUME SSLInv, NEW t \in IoThreads, ConnectHandler(t), NEW i, i = First(t).impl
  PROVE  SSLInv'
<1>1. /\ Ready(t, "Connect") /\ Begin(t, connecting, "Connected") /\ queue' = Taken(t)
      /\ UNCHANGED <<current, linked, resolving, connected, handshaking, handshaked,
                     receiving, rest, todo, calls, used, told, refused, overtaken>>
  BY DEF ConnectHandler, app, history
<1>2. IF IsBusy(i)
        THEN connecting' = connecting /\ ops' = ops
        ELSE connecting' = connecting \cup {i} /\ ops' = ops \cup {<<"Connected", i>>}
  BY <1>1 DEF Begin
<1> QED  BY <1>1, <1>2, BeginKeeps

LEMMA ResolveHandlerInv ==
  ASSUME SSLInv, NEW t \in IoThreads, ResolveHandler(t), NEW i, i = First(t).impl
  PROVE  SSLInv'
<1>1. /\ Ready(t, "Resolve") /\ Begin(t, resolving, "Resolved") /\ queue' = Taken(t)
      /\ UNCHANGED <<current, linked, connecting, connected, handshaking, handshaked,
                     receiving, rest, todo, calls, used, told, refused, overtaken>>
  BY DEF ResolveHandler, app, history
<1>2. IF IsBusy(i)
        THEN resolving' = resolving /\ ops' = ops
        ELSE resolving' = resolving \cup {i} /\ ops' = ops \cup {<<"Resolved", i>>}
  BY <1>1 DEF Begin
<1> QED  BY <1>1, <1>2, BeginKeeps

\* An attempt to connect fails.
LEMMA AttemptFails ==
  ASSUME SSLInv, NEW i \in Impls, Attempting(i), Down(i)', RestOf(i)' = <<>>,
         NoWorse(Of(queue', i), Of(queue, i), i),
         UNCHANGED <<current, linked, todo, used, refused, overtaken>>,
         LastTold(i)' = LastTold(i) \/ LastTold(i)' = "disconnected"
  PROVE  ImplInv(i)'
<1>1. ImplInv(i) /\ Apart(i) /\ Apart(i)'  BY StagesApart, StagesApartNext DEF SSLInv
<1>2. StageInv(i)' /\ UsedInv(i)'
  BY <1>1 DEF ImplInv, StageInv, UsedInv, Apart
<1>3. ASSUME OwnInv(i) PROVE OwnInv(i)'
  BY <1>1, <1>3, OwnFacts, OwnNext DEF Apart, NoWorse, ToDisconnect
<1>4. ASSUME KnownInv(i) PROVE KnownInv(i)'
  BY <1>1, <1>4, EndedNext, KnownFacts, KnownNext DEF Apart, Known
<1> QED  BY <1>1, <1>2, <1>3, <1>4 DEF ImplInv

LEMMA AsyncResolveHandlerInv ==
  ASSUME SSLInv, NEW t \in IoThreads, AsyncResolveHandler(t), NEW i, i = First(t).impl
  PROVE  SSLInv'
<1>1. /\ Ready(t, "Resolved") /\ queue' = Taken(t) /\ resolving' = resolving \ {i}
      /\ Opens(t, connecting \cup connected \cup handshaking \cup handshaked, Starters(i))
      /\ UNCHANGED <<current, linked, connecting, connected, handshaking, handshaked,
                     receiving, ops, todo, calls, used, refused, overtaken>>
  BY DEF AsyncResolveHandler, app, Starters
<1>2. /\ queue' \in QueueType /\ AllPlaced(queue')
      /\ i \in Impls /\ ImplInv(i) /\ RestOf(i) = <<>>
      /\ \A j \in Impls : NoWorse(Of(queue', j), Of(queue, j), j)
      /\ \A j \in Impls \ {i} : Waiting(j)' = Waiting(j)
      /\ Waiting(i) = Waiting(i)' \cup {"Resolved"} /\ Waiting(i)' = {}
  <2>1. "Resolved" \in Kinds /\ "Resolved" # "Read"  BY DEF Kinds
  <2> QED  BY <1>1, <2>1, HandlerFrame
<1>3. SetTypes  BY TypeParts DEF SSLInv
<1>4. \A j : Ops(j)' = Ops(j)  BY <1>1 DEF Ops
<1>5. Resolving(i)  BY <1>2, StageAtRest, StageFacts DEF ImplInv
<1>6. /\ i \notin connecting \cup connected \cup handshaking \cup handshaked \cup receiving
      /\ Ops(i) = {} /\ Attempting(i)
  BY <1>2, <1>5 DEF Resolving, Awaits, Attempting
<1>7. CASE First(t).ok /\ rest' = [rest EXCEPT ![t] = Starters(i)] /\ told' = told
  <2>1. /\ rest' \in RestType /\ RestPlaced(rest') /\ RestOf(i)' = Starters(i)
        /\ \A j \in Impls \ {i} : RestOf(j)' = RestOf(j)
    BY <1>1, <1>7, RestNext
  <2>2. Starting(i)'
    BY <1>1, <1>2, <1>4, <1>6, <2>1 DEF Starting, Unflagged, IsBusy, Starters
  <2>3. Attempting(i)'  BY <2>2 DEF Attempting
  <2>4. SameRecord(i)
    BY <1>1, <1>2, <1>7 DEF SameRecord, ToConnect, ToDisconnect
  <2>5. ImplInv(i)'  BY <1>1, <1>2, <1>6, <2>3, <2>4, AttemptKept
  <2>6. SetTypes'  BY <1>1, <1>3, <1>7, TypeParts, SetsAre DEF SetTypes
  <2>7. \A j \in Impls \ {i} : Same(j)
    BY <1>1, <1>2, <1>4, <1>7, <2>1 DEF Same, SameStage, SameRecord, ToConnect, ToDisconnect
  <2> QED  BY <1>1, <1>2, <2>1, <2>5, <2>6, <2>7, ImplStep
<1>8. CASE ~First(t).ok /\ Tell(i, "disconnected") /\ rest' = rest
  <2>1. /\ rest' \in RestType /\ RestPlaced(rest') /\ \A j : RestOf(j)' = RestOf(j)
    BY <1>1, <1>8, RestNext
  <2>2. /\ told' \in [Impls -> Seq(Events)] /\ \A j \in Impls \ {i} : told'[j] = told[j]
        /\ LastTold(i)' = LastTold(i) \/ LastTold(i)' = "disconnected"
    <3>1. told' = told => LastTold(i)' = LastTold(i)  BY DEF LastTold
    <3> QED  BY <1>2, <1>3, <1>8, <3>1, Told DEF SetTypes, Events
  <2>3. Down(i)'
    BY <1>1, <1>2, <1>4, <1>6, <2>1 DEF Down, Unflagged, IsBusy
  <2>4. ImplInv(i)'  BY <1>1, <1>2, <1>6, <2>1, <2>2, <2>3, AttemptFails
  <2>5. SetTypes'  BY <1>1, <1>3, <2>2, TypeParts, SetsAre DEF SetTypes
  <2>6. \A j \in Impls \ {i} : Same(j)
    BY <1>1, <1>2, <1>4, <2>1, <2>2 DEF Same, SameStage, SameRecord, ToConnect, ToDisconnect
  <2> QED  BY <1>1, <1>2, <2>1, <2>4, <2>5, <2>6, ImplStep
<1> QED  BY <1>1, <1>6, <1>7, <1>8 DEF Opens

LEMMA AsyncConnectHandlerInv ==
  ASSUME SSLInv, NEW t \in IoThreads, AsyncConnectHandler(t), NEW i, i = First(t).impl
  PROVE  SSLInv'
<1>1. /\ Ready(t, "Connected") /\ queue' = Taken(t) /\ connecting' = connecting \ {i}
      /\ Opens(t, resolving \cup connected \cup handshaking \cup handshaked, Openers(i))
      /\ UNCHANGED <<current, linked, resolving, connected, handshaking, handshaked,
                     receiving, ops, todo, calls, used, refused, overtaken>>
  BY DEF AsyncConnectHandler, app, Openers
<1>2. /\ queue' \in QueueType /\ AllPlaced(queue')
      /\ i \in Impls /\ ImplInv(i) /\ RestOf(i) = <<>>
      /\ \A j \in Impls : NoWorse(Of(queue', j), Of(queue, j), j)
      /\ \A j \in Impls \ {i} : Waiting(j)' = Waiting(j)
      /\ Waiting(i) = Waiting(i)' \cup {"Connected"} /\ Waiting(i)' = {}
  <2>1. "Connected" \in Kinds /\ "Connected" # "Read"  BY DEF Kinds
  <2> QED  BY <1>1, <2>1, HandlerFrame
<1>3. SetTypes  BY TypeParts DEF SSLInv
<1>4. \A j : Ops(j)' = Ops(j)  BY <1>1 DEF Ops
<1>5. Connecting(i)  BY <1>2, StageAtRest, StageFacts DEF ImplInv
<1>6. /\ i \notin resolving \cup connected \cup handshaking \cup handshaked \cup receiving
      /\ Ops(i) = {} /\ Attempting(i)
  BY <1>2, <1>5 DEF Connecting, Awaits, Attempting
<1>7. CASE First(t).ok /\ rest' = [rest EXCEPT ![t] = Openers(i)] /\ told' = told
  <2>1. /\ rest' \in RestType /\ RestPlaced(rest') /\ RestOf(i)' = Openers(i)
        /\ \A j \in Impls \ {i} : RestOf(j)' = RestOf(j)
    BY <1>1, <1>7, RestNext
  <2>2. Opening(i)'
    BY <1>1, <1>2, <1>4, <1>6, <2>1 DEF Opening, Unflagged, IsBusy, Openers
  <2>3. Attempting(i)'  BY <2>2 DEF Attempting
  <2>4. SameRecord(i)
    BY <1>1, <1>2, <1>7 DEF SameRecord, ToConnect, ToDisconnect
  <2>5. ImplInv(i)'  BY <1>1, <1>2, <1>6, <2>3, <2>4, AttemptKept
  <2>6. SetTypes'  BY <1>1, <1>3, <1>7, TypeParts, SetsAre DEF SetTypes
  <2>7. \A j \in Impls \ {i} : Same(j)
    BY <1>1, <1>2, <1>4, <1>7, <2>1 DEF Same, SameStage, SameRecord, ToConnect, ToDisconnect
  <2> QED  BY <1>1, <1>2, <2>1, <2>5, <2>6, <2>7, ImplStep
<1>8. CASE ~First(t).ok /\ Tell(i, "disconnected") /\ rest' = rest
  <2>1. /\ rest' \in RestType /\ RestPlaced(rest') /\ \A j : RestOf(j)' = RestOf(j)
    BY <1>1, <1>8, RestNext
  <2>2. /\ told' \in [Impls -> Seq(Events)] /\ \A j \in Impls \ {i} : told'[j] = told[j]
        /\ LastTold(i)' = LastTold(i) \/ LastTold(i)' = "disconnected"
    <3>1. told' = told => LastTold(i)' = LastTold(i)  BY DEF LastTold
    <3> QED  BY <1>2, <1>3, <1>8, <3>1, Told DEF SetTypes, Events
  <2>3. Down(i)'
    BY <1>1, <1>2, <1>4, <1>6, <2>1 DEF Down, Unflagged, IsBusy
  <2>4. ImplInv(i)'  BY <1>1, <1>2, <1>6, <2>1, <2>2, <2>3, AttemptFails
  <2>5. SetTypes'  BY <1>1, <1>3, <2>2, TypeParts, SetsAre DEF SetTypes
  <2>6. \A j \in Impls \ {i} : Same(j)
    BY <1>1, <1>2, <1>4, <2>1, <2>2 DEF Same, SameStage, SameRecord, ToConnect, ToDisconnect
  <2> QED  BY <1>1, <1>2, <2>1, <2>4, <2>5, <2>6, ImplStep
<1> QED  BY <1>1, <1>6, <1>7, <1>8 DEF Opens

\* The queues a disconnect leaves: the read is aborted, if there is one.
LEMMA AbortedQueue ==
  ASSUME SSLInv, NEW t \in IoThreads, NEW op, Ready(t, op), NEW i, i = First(t).impl,
         ~IsAsk(First(t), i), i \in connected, OwnInv(i) \/ overtaken,
         <<"Read", i>> \in ops => OpsIn(Taken(t), i) = {},
         queue' = IF <<"Read", i>> \in ops THEN Put(Taken(t), Done("Read", i, FALSE))
                                           ELSE Taken(t)
  PROVE  /\ queue' \in QueueType /\ AllPlaced(queue')
         /\ \A j \in Impls : NoWorse(Of(queue', j), Of(queue, j), j)
         /\ \A j \in Impls \ {i} : Waiting(j)' = Waiting(j)
         /\ Waiting(i)' = OpsIn(Taken(t), i)
               \/ (Waiting(i)' = {"Read"} /\ OpsIn(Taken(t), i) = {})
         /\ OwnInv(i) => Asks(Of(queue', i), i) = {}
<1> DEFINE q == Taken(t)
           h == Done("Read", i, FALSE)
<1>1. TypeOK /\ QueueInv  BY DEF SSLInv
<1>2. /\ i \in Impls /\ q \in QueueType /\ AllPlaced(q)
      /\ Of(queue, i) \in Seq(Handlers) /\ Of(queue, i) # <<>>
      /\ Head(Of(queue, i)) = First(t) /\ Of(q, i) = Tail(Of(queue, i))
  BY <1>1, HandlerTaken
<1>3. \A j \in Impls : NoWorse(Of(q, j), Of(queue, j), j)  BY <1>1, HandlerTaken
<1>4. \A j \in Impls \ {i} : OpsIn(q, j) = Waiting(j)  BY <1>1, HandlerTaken
<1>5. OwnInv(i) => Asks(Of(q, i), i) = {}
  <2>1. OwnInv(i) => AsksFirst(Of(queue, i), i)  BY OwnFacts
  <2> QED  BY <2>1, <1>2, QueueTail
<1>6. "Read" \in Kinds /\ h \in Handlers /\ h.op = "Read" /\ h.impl = i
  BY <1>2, HandlerTypes DEF Kinds
<1>7. \A j : Waiting(j)' = OpsIn(queue', j)  BY QueueIs
<1>8. /\ TaskOf(h, i) = {"Read"}
      /\ \A j \in Impls \ {i} : TaskOf(h, j) = {}
  BY <1>6 DEF TaskOf
<1>9. <<"Read", i>> \in ops => OpsIn(q, i) = {}  OBVIOUS
<1>10. queue' = IF <<"Read", i>> \in ops THEN Put(q, h) ELSE q  OBVIOUS
<1> HIDE DEF q, h
<1>11. CASE <<"Read", i>> \notin ops
  BY <1>2, <1>3, <1>4, <1>5, <1>7, <1>10, <1>11 DEF q
<1>12. CASE <<"Read", i>> \in ops
  <2>1. queue' = Put(q, h) /\ OpsIn(q, i) = {}  BY <1>9, <1>10, <1>12
  <2>2. /\ Put(q, h) \in QueueType /\ AllPlaced(Put(q, h))
        /\ \A j \in Impls :
              /\ OpsIn(Put(q, h), j) = OpsIn(q, j) \cup TaskOf(h, j)
              /\ j # h.impl \/ h.op \in Kinds => NoWorse(Of(Put(q, h), j), Of(q, j), j)
    BY <1>1, <1>2, <1>6, <2>1, QueuesPut
  <2>3. \A j \in Impls : NoWorse(Of(queue', j), Of(q, j), j)
    BY <1>6, <2>1, <2>2
  <2>4. \A j \in Impls : NoWorse(Of(queue', j), Of(queue, j), j)
    BY <1>3, <2>3 DEF NoWorse
  <2>5. OwnInv(i) => Asks(Of(queue', i), i) = {}
    BY <1>2, <1>5, <2>3 DEF NoWorse
  <2>6. \A j \in Impls \ {i} : Waiting(j)' = Waiting(j)
    BY <1>4, <1>7, <1>8, <2>1, <2>2
  <2>7. Waiting(i)' = {"Read"}  BY <1>2, <1>7, <1>8, <2>1, <2>2
  <2> QED  BY <2>1, <2>2, <2>4, <2>5, <2>6, <2>7 DEF q
<1> QED  BY <1>11, <1>12

\* A disconnect that is not refused.
LEMMA DisconnectKeeps ==
  ASSUME SSLInv, NEW t \in IoThreads, NEW op, Ready(t, op), NEW i, i = First(t).impl,
         ~IsAsk(First(t), i), Handshaking(i) \/ Established(i),
         ~(i \notin connected \/ i \in resolving \cup connecting \cup handshaking'),
         Disconnect(t, i, Taken(t)),
         <<"Read", i>> \in ops => OpsIn(Taken(t), i) = {},
         OpsIn(Taken(t), i) \subseteq {"Read"},
         UNCHANGED <<current, resolving, connecting, connected, handshaked, todo, calls,
                     used, told, overtaken>>,
         handshaking' \in {handshaking, handshaking \ {i}},
         receiving' \in {receiving, receiving \ {i}}
  PROVE  SSLInv'
<1>1. /\ rest' = [rest EXCEPT ![t] = DisconnectSteps(i)]
      /\ ops' = {o \in ops : o[2] # i}
      /\ queue' = IF <<"Read", i>> \in ops THEN Put(Taken(t), Done("Read", i, FALSE))
                                           ELSE Taken(t)
      /\ UNCHANGED <<linked, refused>>
  BY DEF Disconnect
<1>2. i \in Impls  BY HandlerTaken DEF SSLInv
<1>3. ImplInv(i) /\ SetTypes  BY <1>2, TypeParts DEF SSLInv
<1>4. /\ queue' \in QueueType /\ AllPlaced(queue')
      /\ \A j \in Impls : NoWorse(Of(queue', j), Of(queue, j), j)
      /\ \A j \in Impls \ {i} : Waiting(j)' = Waiting(j)
      /\ Waiting(i)' \subseteq {"Read"}
      /\ OwnInv(i) => Asks(Of(queue', i), i) = {}
  <2>1. OwnInv(i) \/ overtaken  BY <1>3 DEF ImplInv
  <2>2. /\ queue' \in QueueType /\ AllPlaced(queue')
        /\ \A j \in Impls : NoWorse(Of(queue', j), Of(queue, j), j)
        /\ \A j \in Impls \ {i} : Waiting(j)' = Waiting(j)
        /\ Waiting(i)' = OpsIn(Taken(t), i)
              \/ (Waiting(i)' = {"Read"} /\ OpsIn(Taken(t), i) = {})
        /\ OwnInv(i) => Asks(Of(queue', i), i) = {}
    BY <1>1, <2>1, AbortedQueue
  <2> QED  BY <2>2
<1>5. /\ rest' \in RestType /\ RestPlaced(rest') /\ RestOf(i)' = DisconnectSteps(i)
      /\ \A j \in Impls \ {i} : RestOf(j)' = RestOf(j)
  BY <1>1, RestNext
<1>6. /\ ops' \subseteq Kinds \X Impls /\ Ops(i)' = {}
      /\ \A j \in Impls \ {i} : Ops(j)' = Ops(j)
  <2>1. "Read" \in Kinds  BY DEF Kinds
  <2> QED  BY <1>1, <1>2, <1>3, <2>1, OpsChange DEF SetTypes
<1>7. SetTypes'
  BY <1>1, <1>3, <1>6, TypeParts, SetsAre DEF SetTypes
<1>8. \A j \in Impls \ {i} : Same(j)
  BY <1>1, <1>4, <1>5, <1>6 DEF Same, SameStage, SameRecord, ToConnect, ToDisconnect
<1>9. Closing(i)'
  <2>1. DisconnectSteps(i)' = DisconnectSteps(i)  BY DEF DisconnectSteps
  <2> QED  BY <1>4, <1>5, <1>6, <2>1 DEF Closing, Ending
<1>10. Apart(i) /\ Apart(i)'  BY StagesApart, StagesApartNext
<1>11. StageInv(i)' /\ UsedInv(i)'
  BY <1>3, <1>9, <1>10 DEF ImplInv, StageInv, UsedInv, Apart
<1>12. ASSUME OwnInv(i) PROVE OwnInv(i)'
  <2>1. Asks(Of(queue', i), i) = {}  BY <1>4, <1>12
  <2>2. AsksFirst(Of(queue', i), i)  BY <2>1 DEF AsksFirst
  <2>3. ~(i < current)  BY <1>10, <1>12, OwnFacts DEF Apart
  <2> QED  BY <2>1, <2>2, <2>3, <1>9, <1>10, OwnNext DEF Apart
<1>13. ASSUME KnownInv(i) PROVE KnownInv(i)'
  <2>1. LastTold(i)' = LastTold(i)  BY DEF LastTold
  <2> QED  BY <2>1, <1>1, <1>9, <1>10, <1>13, KnownFacts, KnownNext DEF Apart, Known
<1>14. ImplInv(i)'
  BY <1>1, <1>3, <1>11, <1>12, <1>13 DEF ImplInv
<1> QED  BY <1>2, <1>4, <1>5, <1>7, <1>8, <1>14, ImplStep

LEMMA DisconnectHandlerInv ==
  ASSUME SSLInv, NEW t \in IoThreads, DisconnectHandler(t), NEW i, i = First(t).impl
  PROVE  SSLInv'
<1>1. /\ Ready(t, "Disconnect") /\ Disconnect(t, i, Taken(t))
      /\ UNCHANGED <<current, resolving, connecting, connected, handshaking, handshaked,
                     receiving, todo, calls, used, told, overtaken>>
  BY DEF DisconnectHandler, flags, app
<1>2. i \in Impls /\ RestOf(i) = <<>> /\ OpsIn(Taken(t), i) = Waiting(i)
  <2>1. "Disconnect" \notin Kinds /\ TypeOK /\ QueueInv  BY DEF Kinds, SSLInv
  <2>2. i \in Impls /\ RestOf(i) = <<>>  BY <1>1, <2>1, HandlerTaken
  <2>3. OpsIn(Taken(t), i) = Waiting(i)  BY <1>1, <2>1, HandlerTaken
  <2> QED  BY <2>2, <2>3
<1>3. ImplInv(i) /\ SetTypes  BY <1>2, TypeParts DEF SSLInv
<1>4. CASE i \notin connected \/ i \in resolving \cup connecting \cup handshaking'
  <2>1. LoseClient(i) /\ queue' = Taken(t) /\ UNCHANGED <<rest, ops>>
    BY <1>1, <1>4 DEF Disconnect
  <2>2. linked' = linked \ {i} /\ refused' = refused \cup {i}  BY <2>1 DEF LoseClient
  <2>3. /\ queue' \in QueueType /\ AllPlaced(queue')
        /\ \A j \in Impls : NoWorse(Of(queue', j), Of(queue, j), j)
        /\ \A j \in Impls \ {i} : Waiting(j)' = Waiting(j)
        /\ Waiting(i)' = Waiting(i)
    <3>1. "Disconnect" \notin Kinds  BY DEF Kinds
    <3> QED  BY <1>1, <2>1, <3>1, HandlerFrame
  <2>4. /\ rest' \in RestType /\ RestPlaced(rest') /\ \A j : RestOf(j)' = RestOf(j)
    BY <1>1, <2>1, RestNext
  <2>5. \A j : Ops(j)' = Ops(j)  BY <2>1 DEF Ops
  <2>6. \A j \in Impls : Same(j)
    BY <1>1, <2>2, <2>3, <2>4, <2>5 DEF Same, SameStage, SameRecord, ToConnect, ToDisconnect
  <2>7. ImplInv(i)'  BY <1>1, <1>2, <1>3, <2>6, StageFrame, ImplFrame DEF Same
  <2>8. SetTypes'
    BY <1>1, <1>2, <1>3, <2>1, <2>2, TypeParts, SetsAre DEF SetTypes
  <2> QED  BY <1>1, <1>2, <2>3, <2>4, <2>6, <2>7, <2>8, ImplStep
<1>5. CASE ~(i \notin connected \/ i \in resolving \cup connecting \cup handshaking')
  <2>1. Established(i)
    BY <1>1, <1>2, <1>3, <1>5, StageAtRest, StageFacts DEF ImplInv, IsBusy
  <2>2. Waiting(i) \subseteq {"Read"} /\ (<<"Read", i>> \in ops => Waiting(i) = {})
    BY <2>1 DEF Established, Awaits, Ops, Kinds
  <2>3. ~IsAsk(First(t), i)  BY <1>1 DEF Ready, IsAsk
  <2> QED  BY <1>1, <1>2, <1>5, <2>1, <2>2, <2>3, DisconnectKeeps
<1> QED  BY <1>4, <1>5

LEMMA HandshakeHandlerInv ==
  ASSUME SSLInv, NEW t \in IoThreads, HandshakeHandler(t), NEW i, i = First(t).impl
  PROVE  SSLInv'
<1>1. /\ Ready(t, "Handshake") /\ handshaking' = handshaking \ {i}
      /\ UNCHANGED <<current, resolving, connecting, connected, todo, calls, used, overtaken>>
  BY DEF HandshakeHandler, app
<1>2. /\ i \in Impls /\ ImplInv(i) /\ RestOf(i) = <<>>
      /\ Waiting(i) = OpsIn(Taken(t), i) \cup {"Handshake"} /\ OpsIn(Taken(t), i) = {}
  <2>1. "Handshake" \in Kinds /\ "Handshake" # "Read" /\ TypeOK /\ QueueInv
    BY DEF Kinds, SSLInv
  <2>2. i \in Impls /\ RestOf(i) = <<>>  BY <1>1, <2>1, HandlerTaken
  <2>3. Waiting(i) = OpsIn(Taken(t), i) \cup {"Handshake"}  BY <1>1, <2>1, HandlerTaken
  <2>4. OpsIn(Taken(t), i) = {}  BY <1>1, <2>1, HandlerTaken
  <2> QED  BY <2>2, <2>3, <2>4 DEF SSLInv
<1>3. SetTypes  BY TypeParts DEF SSLInv
<1>4. Handshaking(i)  BY <1>2, StageAtRest, StageFacts DEF ImplInv
<1>5. /\ i \in connected \cap handshaking
      /\ i \notin resolving \cup connecting \cup handshaked \cup receiving
      /\ Ops(i) = {}
  BY <1>2, <1>4 DEF Handshaking, Awaits
<1>6. Apart(i) /\ Apart(i)'  BY StagesApart, StagesApartNext
<1>7. CASE /\ handshaked' = handshaked \cup {i}
           /\ Tell(i, "handshaked") /\ TryReceive(i)
           /\ queue' = Taken(t) /\ UNCHANGED <<linked, rest, refused>>
  <2>1. receiving' = receiving \cup {i} /\ ops' = ops \cup {<<"Read", i>>}
    BY <1>5, <1>7 DEF TryReceive
  <2>2. /\ queue' \in QueueType /\ AllPlaced(queue')
        /\ \A j \in Impls : NoWorse(Of(queue', j), Of(queue, j), j)
        /\ \A j \in Impls \ {i} : Waiting(j)' = Waiting(j)
        /\ Waiting(i)' = {}
    <3>1. "Handshake" \in Kinds /\ "Handshake" # "Read"  BY DEF Kinds
    <3> QED  BY <1>1, <1>7, <3>1, HandlerFrame
  <2>3. rest' \in RestType /\ RestPlaced(rest') /\ \A j : RestOf(j)' = RestOf(j)
    BY <1>1, <1>7, RestNext
  <2>4. /\ told' \in [Impls -> Seq(Events)] /\ \A j \in Impls \ {i} : told'[j] = told[j]
        /\ i \in linked => LastTold(i)' = "handshaked"
    BY <1>2, <1>3, <1>7, Told DEF SetTypes, Events
  <2>5. /\ ops' \subseteq Kinds \X Impls /\ Ops(i)' = {"Read"}
        /\ \A j \in Impls \ {i} : Ops(j)' = Ops(j)
    <3>1. "Read" \in Kinds /\ ops \subseteq Kinds \X Impls  BY <1>3 DEF Kinds, SetTypes
    <3> QED  BY <1>2, <1>5, <2>1, <3>1, OpsChange
  <2>6. SetTypes'
    BY <1>1, <1>2, <1>3, <1>7, <2>1, <2>4, <2>5, TypeParts, SetsAre DEF SetTypes
  <2>7. \A j \in Impls \ {i} : Same(j)
    BY <1>1, <1>7, <2>1, <2>2, <2>3, <2>4, <2>5
       DEF Same, SameStage, SameRecord, ToConnect, ToDisconnect
  <2>8. Established(i)'
    BY <1>1, <1>2, <1>5, <1>7, <2>1, <2>2, <2>3, <2>5 DEF Established, Awaits
  <2>9. StageInv(i)'  BY <2>8 DEF StageInv, Open
  <2>10. UsedInv(i)'
    BY <1>1, <1>2, <1>4, <1>6 DEF ImplInv, UsedInv, Apart
  <2>11. ASSUME OwnInv(i) PROVE OwnInv(i)'
    BY <1>1, <1>2, <1>4, <1>5, <1>6, <2>2, <2>8, <2>11, OwnFacts, OwnNext DEF Apart, NoWorse
  <2>12. ASSUME KnownInv(i) PROVE KnownInv(i)'
    BY <1>1, <1>4, <1>6, <1>7, <2>4, <2>8, <2>12, KnownFacts, KnownNext DEF Apart, Known
  <2>13. ImplInv(i)'
    BY <1>1, <1>2, <1>7, <2>9, <2>10, <2>11, <2>12 DEF ImplInv
  <2> QED  BY <1>1, <1>2, <2>2, <2>3, <2>6, <2>7, <2>13, ImplStep
<1>8. CASE Disconnect(t, i, Taken(t)) /\ UNCHANGED <<handshaked, receiving, told>>
  <2>1. ~IsAsk(First(t), i)  BY <1>1 DEF Ready, IsAsk
  <2>2. ~(i \notin connected \/ i \in resolving \cup connecting \cup handshaking')
    BY <1>1, <1>5
  <2> QED  BY <1>1, <1>2, <1>4, <1>8, <2>1, <2>2, DisconnectKeeps
<1> QED  BY <1>5, <1>7, <1>8 DEF HandshakeHandler

LEMMA AsyncReceiveHandlerInv ==
  ASSUME SSLInv, NEW t \in IoThreads, AsyncReceiveHandler(t), NEW i, i = First(t).impl
  PROVE  SSLInv'
<1>1. /\ Ready(t, "Read")
      /\ UNCHANGED <<current, resolving, connecting, connected, handshaking, handshaked,
                     todo, calls, used, told, overtaken>>
  BY DEF AsyncReceiveHandler, app
<1>2. /\ i \in Impls /\ ImplInv(i) /\ RestOf(i) = <<>>
      /\ Waiting(i) = OpsIn(Taken(t), i) \cup {"Read"} /\ "Read" \notin OpsIn(Taken(t), i)
  <2>1. "Read" \in Kinds /\ TypeOK /\ QueueInv  BY DEF Kinds, SSLInv
  <2>2. i \in Impls /\ RestOf(i) = <<>>  BY <1>1, <2>1, HandlerTaken
  <2>3. Waiting(i) = OpsIn(Taken(t), i) \cup {"Read"}  BY <1>1, <2>1, HandlerTaken
  <2>4. "Read" \notin OpsIn(Taken(t), i)  BY <1>1, <2>1, HandlerTaken
  <2> QED  BY <2>2, <2>3, <2>4 DEF SSLInv
<1>3. SetTypes  BY TypeParts DEF SSLInv
<1>4. /\ Down(i) \/ Resolving(i) \/ Connecting(i) \/ Established(i)
      /\ i \in handshaked <=> Established(i)
  BY <1>2, StageAtRest, StageFacts DEF ImplInv, IsBusy, Attempting
<1>5. CASE /\ i \in handshaked /\ ops' = ops \cup {<<"Read", i>>}
           /\ queue' = Taken(t) /\ UNCHANGED <<linked, receiving, rest, refused>>
  <2>1. /\ Established(i) /\ Ops(i) = {} /\ OpsIn(Taken(t), i) = {}
        /\ i \in connected \cap handshaked \cap receiving
        /\ i \notin resolving \cup connecting \cup handshaking
    BY <1>2, <1>4, <1>5 DEF Established, Awaits
  <2>2. /\ queue' \in QueueType /\ AllPlaced(queue')
        /\ \A j \in Impls : NoWorse(Of(queue', j), Of(queue, j), j)
        /\ \A j \in Impls \ {i} : Waiting(j)' = Waiting(j)
    BY <1>1, <1>5, HandlerFrame
  <2>3. Waiting(i)' = {}  BY <1>5, <2>1, QueueIs
  <2>4. rest' \in RestType /\ RestPlaced(rest') /\ \A j : RestOf(j)' = RestOf(j)
    BY <1>1, <1>5, RestNext
  <2>5. /\ ops' \subseteq Kinds \X Impls /\ Ops(i)' = {"Read"}
        /\ \A j \in Impls \ {i} : Ops(j)' = Ops(j)
    <3>1. "Read" \in Kinds /\ ops \subseteq Kinds \X Impls  BY <1>3 DEF Kinds, SetTypes
    <3> QED  BY <1>2, <1>5, <2>1, <3>1, OpsChange
  <2>6. SetTypes'
    BY <1>1, <1>3, <1>5, <2>5, TypeParts, SetsAre DEF SetTypes
  <2>7. \A j \in Impls \ {i} : Same(j)
    BY <1>1, <1>5, <2>2, <2>4, <2>5 DEF Same, SameStage, SameRecord, ToConnect, ToDisconnect
  <2>8. Established(i)'
    BY <1>1, <1>2, <1>5, <2>1, <2>3, <2>4, <2>5 DEF Established, Awaits
  <2>9. SameKind(i)
    <3>1. Apart(i) /\ Apart(i)'  BY StagesApart, StagesApartNext
    <3> QED  BY <1>1, <2>1, <2>4, <2>8, <3>1 DEF SameKind, Apart
  <2>10. SameRecord(i)
    BY <1>1, <1>2, <1>5, <2>2 DEF SameRecord, ToConnect, ToDisconnect
  <2>11. ImplInv(i)'  BY <1>1, <1>2, <2>9, <2>10, ImplFrame
  <2> QED  BY <1>1, <1>2, <2>2, <2>4, <2>6, <2>7, <2>11, ImplStep
<1>6. CASE /\ i \in handshaked /\ receiving' = receiving \ {i}
           /\ Disconnect(t, i, Taken(t))
  <2>1. /\ Established(i) /\ OpsIn(Taken(t), i) = {} /\ Ops(i) = {}
        /\ i \in connected /\ i \notin resolving \cup connecting \cup handshaking
    BY <1>2, <1>4, <1>6 DEF Established, Awaits
  <2>2. ~IsAsk(First(t), i)  BY <1>1 DEF Ready, IsAsk
  <2>3. ~(i \notin connected \/ i \in resolving \cup connecting \cup handshaking')
    BY <1>1, <2>1
  <2> QED  BY <1>1, <1>2, <1>6, <2>1, <2>2, <2>3, DisconnectKeeps
<1>7. CASE /\ i \notin handshaked /\ receiving' = receiving \ {i}
           /\ queue' = Taken(t) /\ UNCHANGED <<linked, ops, rest, refused>>
  <2>1. i \notin receiving /\ receiving' = receiving
    <3>1. i \notin receiving  BY <1>4, <1>7 DEF Down, Unflagged, Resolving, Connecting
    <3> QED  BY <3>1, <1>7
  <2>2. /\ queue' \in QueueType /\ AllPlaced(queue')
        /\ \A j \in Impls : NoWorse(Of(queue', j), Of(queue, j), j)
        /\ \A j \in Impls \ {i} : Waiting(j)' = Waiting(j)
    BY <1>1, <1>7, HandlerFrame
  <2>3. Waiting(i) = Waiting(i)' \cup {"Read"} /\ "Read" \notin Waiting(i)'
    BY <1>2, <1>7, QueueIs
  <2>4. rest' \in RestType /\ RestPlaced(rest') /\ \A j : RestOf(j)' = RestOf(j)
    BY <1>1, <1>7, RestNext
  <2>5. \A j : Ops(j)' = Ops(j)  BY <1>7 DEF Ops
  <2>6. SetTypes'
    BY <1>1, <1>3, <1>7, <2>1, TypeParts, SetsAre DEF SetTypes
  <2>7. \A j \in Impls \ {i} : Same(j)
    BY <1>1, <1>7, <2>1, <2>2, <2>4, <2>5
       DEF Same, SameStage, SameRecord, ToConnect, ToDisconnect
  <2>8. SameRecord(i)
    BY <1>1, <1>2, <1>7, <2>2 DEF SameRecord, ToConnect, ToDisconnect
  <2>9. Apart(i) /\ Apart(i)'  BY StagesApart, StagesApartNext
  <2>10. CASE Down(i)
    <3>1. Down(i)'
      BY <1>1, <2>1, <2>3, <2>4, <2>5, <2>10 DEF Down, Unflagged, IsBusy
    <3>2. SameKind(i)  BY <1>1, <2>4, <2>9, <2>10, <3>1 DEF SameKind, Apart
    <3> QED  BY <1>1, <1>2, <2>2, <2>4, <2>6, <2>7, <2>8, <3>2, ImplFrame, ImplStep
  <2>11. CASE Resolving(i) \/ Connecting(i)
    <3>1. Attempting(i)  BY <2>11 DEF Attempting
    <3>2. Attempting(i)'
      <4>1. Resolving(i) => Resolving(i)'
        BY <1>1, <2>1, <2>3, <2>4, <2>5 DEF Resolving, Awaits
      <4>2. Connecting(i) => Connecting(i)'
        BY <1>1, <2>1, <2>3, <2>4, <2>5 DEF Connecting, Awaits
      <4> QED  BY <4>1, <4>2, <2>11 DEF Attempting
    <3>3. ImplInv(i)'  BY <1>1, <1>2, <2>8, <3>1, <3>2, AttemptKept
    <3> QED  BY <1>1, <1>2, <2>2, <2>4, <2>6, <2>7, <3>3, ImplStep
  <2> QED  BY <1>4, <1>7, <2>10, <2>11
<1> QED  BY <1>5, <1>6, <1>7 DEF AsyncReceiveHandler

LEMMA OpEndsInv ==
  ASSUME SSLInv, NEW o \in ops, NEW ok \in BOOLEAN, OpEnds(o, ok)
  PROVE  SSLInv'
<1> DEFINE kind == o[1]
           i == o[2]
           h == Done(kind, i, ok)
<1>1. /\ ops' = ops \ {o} /\ queue' = Put(queue, h)
      /\ UNCHANGED <<current, linked, resolving, connecting, connected, handshaking,
                     handshaked, receiving, rest, todo, calls, used, told, refused, overtaken>>
  BY DEF OpEnds, flags, app, history
<1>2. /\ SetTypes /\ TypeOK /\ queue \in QueueType /\ AllPlaced(queue)
      /\ rest \in RestType /\ RestPlaced(rest)
  BY TypeParts, QueueIs DEF SSLInv
<1>3. kind \in Kinds /\ i \in Impls /\ o = <<kind, i>>  BY <1>2 DEF SetTypes
<1>4. h \in Handlers /\ h.op = kind /\ h.impl = i  BY <1>3, HandlerTypes
<1> HIDE DEF kind, i, h
<1>5. ImplInv(i)  BY <1>3 DEF SSLInv
<1>6. Ops(i) # {}  BY <1>3 DEF Ops
<1>7. \/ /\ Resolving(i) /\ kind = "Resolved" /\ Ops(i) = {kind}
         /\ Waiting(i) \subseteq {"Read"} /\ RestOf(i) = <<>>
      \/ /\ Connecting(i) /\ kind = "Connected" /\ Ops(i) = {kind}
         /\ Waiting(i) \subseteq {"Read"} /\ RestOf(i) = <<>>
      \/ /\ Handshaking(i) /\ kind = "Handshake" /\ Ops(i) = {kind}
         /\ Waiting(i) = {} /\ RestOf(i) = <<>>
      \/ /\ Established(i) /\ kind = "Read" /\ Ops(i) = {kind}
         /\ Waiting(i) = {} /\ RestOf(i) = <<>>
  <2>1. kind \in Ops(i)  BY <1>3 DEF Ops
  <2>2. ASSUME NEW k, NEW left, Awaits(i, k, left)
        PROVE  kind = k /\ Ops(i) = {kind} /\ Waiting(i) \subseteq left /\ RestOf(i) = <<>>
    BY <2>1, <2>2 DEF Awaits
  <2>3. Resolving(i) \/ Connecting(i) \/ Handshaking(i) \/ Established(i)
    BY <1>5, <1>6, StageFacts DEF ImplInv, StageInv, Attempting, Open
  <2>4. Resolving(i) => kind = "Resolved" /\ Ops(i) = {kind}
                        /\ Waiting(i) \subseteq {"Read"} /\ RestOf(i) = <<>>
    BY <2>2 DEF Resolving
  <2>5. Connecting(i) => kind = "Connected" /\ Ops(i) = {kind}
                         /\ Waiting(i) \subseteq {"Read"} /\ RestOf(i) = <<>>
    BY <2>2 DEF Connecting
  <2>6. Handshaking(i) => kind = "Handshake" /\ Ops(i) = {kind}
                          /\ Waiting(i) \subseteq {} /\ RestOf(i) = <<>>
    BY <2>2 DEF Handshaking
  <2>7. Established(i) => kind = "Read" /\ Ops(i) = {kind}
                          /\ Waiting(i) \subseteq {} /\ RestOf(i) = <<>>
    BY <2>2 DEF Established
  <2> QED  BY <2>3, <2>4, <2>5, <2>6, <2>7
<1>8. Waiting(i) = {} \/ (Waiting(i) = {"Read"} /\ kind # "Read")  BY <1>7
<1>9. /\ queue' \in QueueType /\ AllPlaced(queue')
      /\ \A j \in Impls : /\ OpsIn(queue', j) = OpsIn(queue, j) \cup TaskOf(h, j)
                          /\ NoWorse(Of(queue', j), Of(queue, j), j)
  <2>1. OpsIn(queue, h.impl) = {} \/ (OpsIn(queue, h.impl) = {"Read"} /\ h.op # "Read")
    BY <1>4, <1>8, QueueIs
  <2>2. h.op \in Kinds  BY <1>3, <1>4
  <2> QED  BY <1>1, <1>2, <1>4, <2>1, <2>2, QueuesPut
<1>10. /\ Waiting(i)' = Waiting(i) \cup {kind}
       /\ \A j \in Impls \ {i} : Waiting(j)' = Waiting(j)
  <2>1. TaskOf(h, i) = {kind} /\ \A j \in Impls \ {i} : TaskOf(h, j) = {}
    BY <1>3, <1>4 DEF TaskOf
  <2> QED  BY <1>3, <1>9, <2>1, QueueIs
<1>11. /\ ops' \subseteq Kinds \X Impls /\ Ops(i)' = Ops(i) \ {kind}
       /\ \A j \in Impls \ {i} : Ops(j)' = Ops(j)
  BY <1>1, <1>2, <1>3, OpsChange DEF SetTypes
<1>12. rest' \in RestType /\ RestPlaced(rest') /\ \A j : RestOf(j)' = RestOf(j)
  BY <1>1, <1>2 DEF RestOf
<1>13. SetTypes'
  BY <1>1, <1>2, <1>11, TypeParts, SetsAre DEF SetTypes
<1>14. \A j \in Impls \ {i} : Same(j)
  BY <1>1, <1>9, <1>10, <1>11, <1>12 DEF Same, SameStage, SameRecord, ToConnect, ToDisconnect
<1>15. SameRecord(i)
  BY <1>1, <1>3, <1>9 DEF SameRecord, ToConnect, ToDisconnect
<1>16. Ops(i)' = {} /\ kind \in Waiting(i)'  BY <1>7, <1>10, <1>11
<1>17. Apart(i) /\ Apart(i)'  BY StagesApart, StagesApartNext
<1>18. CASE Resolving(i) \/ Connecting(i)
  <2>1. Resolving(i) => Resolving(i)'
    BY <1>1, <1>7, <1>10, <1>12, <1>16, <1>17, <1>18, StageFacts DEF Resolving, Awaits
  <2>2. Connecting(i) => Connecting(i)'
    BY <1>1, <1>7, <1>10, <1>12, <1>16, <1>17, <1>18, StageFacts DEF Connecting, Awaits
  <2>3. Attempting(i) /\ Attempting(i)'  BY <1>18, <2>1, <2>2 DEF Attempting
  <2>4. ImplInv(i)'  BY <1>1, <1>5, <1>15, <2>3, AttemptKept
  <2> QED  BY <1>1, <1>3, <1>9, <1>12, <1>13, <1>14, <2>4, ImplStep
<1>19. CASE Handshaking(i) \/ Established(i)
  <2>1. Handshaking(i) /\ kind = "Handshake" => Handshaking(i)'
    BY <1>1, <1>7, <1>10, <1>12, <1>16 DEF Handshaking, Awaits
  <2>2. Established(i) /\ kind = "Read" => Established(i)'
    BY <1>1, <1>7, <1>10, <1>12, <1>16 DEF Established, Awaits
  <2>3. /\ Handshaking(i) => Handshaking(i)' /\ ~Established(i)
        /\ Established(i) => Established(i)' /\ ~Handshaking(i)
    <3>1. /\ Handshaking(i) => kind = "Handshake" /\ ~Established(i)
          /\ Established(i) => kind = "Read" /\ ~Handshaking(i)
      <4>1. Handshaking(i) \/ Established(i) => ~Resolving(i) /\ ~Connecting(i)
        BY <1>17 DEF Apart, Attempting
      <4>2. ~(Handshaking(i) /\ Established(i))  BY <1>17 DEF Apart
      <4> QED  BY <4>1, <4>2, <1>7
    <3> QED  BY <2>1, <2>2, <3>1
  <2>4. SameKind(i)
    BY <1>1, <1>12, <1>17, <1>19, <2>3 DEF SameKind, Apart
  <2>5. ImplInv(i)'  BY <1>1, <1>5, <1>15, <2>4, ImplFrame
  <2> QED  BY <1>1, <1>3, <1>9, <1>12, <1>13, <1>14, <2>5, ImplStep
<1> QED  BY <1>7, <1>18, <1>19

LEMMA SeqGrows == ASSUME NEW S, NEW T, S \subseteq T PROVE Seq(S) \subseteq Seq(T)
<1> SUFFICES ASSUME NEW s \in Seq(S) PROVE s \in Seq(T)
  OBVIOUS
<1>1. Len(s) \in Nat /\ s = [k \in 1..Len(s) |-> s[k]] /\ \A k \in 1..Len(s) : s[k] \in T
  OBVIOUS
<1> QED  BY <1>1, SeqDef

\* The client's Impl is replaced: nothing is known yet of the fresh one.
LEMMA ImplAdded ==
  ASSUME SSLInv, current' = current + 1, UNCHANGED <<queue, todo, calls, overtaken>>,
         linked' = linked, flags' = flags, ops' = ops, refused' = refused,
         rest' \in RestType, RestPlaced(rest'), NEW n, n = current + 1,
         used' = [i \in 0..n |-> IF i \in Impls THEN used[i] ELSE 0],
         told' = [i \in 0..n |-> IF i \in Impls THEN told[i] ELSE <<>>]
  PROVE  /\ TypeOK' /\ QueueInv' /\ TodoInv'
         /\ Impls' = Impls \cup {n} /\ n \notin Impls
         /\ \A j \in Impls : used'[j] = used[j] /\ told'[j] = told[j]
         /\ ImplInv(n)'
<1>1. /\ SetTypes /\ TypeOK /\ queue \in QueueType /\ AllPlaced(queue)
      /\ current \in Nat /\ n \in Nat
      /\ todo \in Seq([op : CallSteps, impl : Impls])
      /\ calls \in 0..MaxCalls /\ overtaken \in BOOLEAN
  BY TypeParts, QueueIs DEF SSLInv
<1>2. /\ Impls = 0..current /\ Impls' = 0..n /\ Impls' = Impls \cup {n} /\ n \notin Impls
      /\ Impls \subseteq Impls' /\ n \in Impls'
  BY <1>1 DEF Impls
<1>3. /\ used' \in [Impls' -> Nat] /\ told' \in [Impls' -> Seq(Events)]
      /\ \A j \in Impls : used'[j] = used[j] /\ told'[j] = told[j]
      /\ used'[n] = 0 /\ told'[n] = <<>>
  <2>1. used \in [Impls -> Nat] /\ told \in [Impls -> Seq(Events)]  BY <1>1 DEF SetTypes
  <2>2. used' \in [Impls' -> Nat] /\ used'[n] = 0 /\ \A j \in Impls : used'[j] = used[j]
    BY <2>1, <1>2
  <2>3. <<>> \in Seq(Events)  OBVIOUS
  <2>4. told' \in [Impls' -> Seq(Events)] /\ told'[n] = <<>>
        /\ \A j \in Impls : told'[j] = told[j]
    BY <2>1, <2>3, <1>2
  <2> QED  BY <2>2, <2>4
<1>4. /\ resolving' = resolving /\ connecting' = connecting /\ connected' = connected
      /\ handshaking' = handshaking /\ handshaked' = handshaked /\ receiving' = receiving
  BY DEF flags
<1>5. SetTypes'
  BY <1>1, <1>2, <1>3, <1>4, SetsAre DEF SetTypes
<1>6. queue' \in QueueType'
  <2>1. Handlers \subseteq Handlers'
    <3>1. Handlers' = [op : {"Connect", "Resolve", "Disconnect"}, impl : Impls']
                      \cup [op : Kinds, impl : Impls', ok : BOOLEAN]
      BY DEF Handlers
    <3>2. [op : {"Connect", "Resolve", "Disconnect"}, impl : Impls]
             \subseteq [op : {"Connect", "Resolve", "Disconnect"}, impl : Impls']
      BY <1>2
    <3>3. [op : Kinds, impl : Impls, ok : BOOLEAN]
             \subseteq [op : Kinds, impl : Impls', ok : BOOLEAN]
      BY <1>2
    <3> QED  BY <3>1, <3>2, <3>3 DEF Handlers
  <2>2. Seq(Handlers) \subseteq Seq(Handlers')  BY <2>1, SeqGrows
  <2>3. QueueType' = [IoThreads -> Seq(Handlers')]  BY DEF QueueType
  <2> QED  BY <1>1, <2>2, <2>3 DEF QueueType
<1>7. rest' \in RestType'
  <2>1. [op : Steps, impl : Impls] \subseteq [op : Steps, impl : Impls']  BY <1>2
  <2>2. Seq([op : Steps, impl : Impls]) \subseteq Seq([op : Steps, impl : Impls'])
    BY <2>1, SeqGrows
  <2>3. RestType' = [IoThreads -> Seq([op : Steps, impl : Impls'])]  BY DEF RestType
  <2> QED  BY <2>2, <2>3 DEF RestType
<1>8. todo' \in Seq([op : CallSteps, impl : Impls'])
  <2>1. [op : CallSteps, impl : Impls] \subseteq [op : CallSteps, impl : Impls']  BY <1>2
  <2> QED  BY <1>1, <2>1, SeqGrows
<1>9. TypeOK'
  BY <1>1, <1>5, <1>6, <1>7, <1>8, TypeParts
<1>10. ASSUME NEW t \in IoThreads, NEW k \in 1..Len(queue[t]) PROVE queue[t][k].impl # n
  <2>1. queue[t] \in Seq(Handlers)  BY <1>1 DEF QueueType
  <2>2. queue[t][k] \in Handlers  BY <2>1
  <2> QED  BY <2>2, <1>2, HandlerTypes
<1>11. /\ \A t \in IoThreads : /\ Tasks(queue[t], n) = {} /\ Asks(queue[t], n) = {}
                               /\ Disconnects(queue[t], n) = {}
       /\ ThreadOf(n) \in IoThreads
  <2>1. On("Disconnect", n).impl = n  BY DEF On
  <2> QED  BY <1>1, <1>10, <2>1, ThreadOfType DEF Tasks, Asks, Disconnects
<1>12. QueueInv'
  <2>1. \A t \in IoThreads : Placed(queue[t], t) /\ \A i \in Impls' : TasksInOrder(queue[t], i)
    BY <1>1, <1>2, <1>11 DEF AllPlaced, TasksInOrder
  <2>2. AllPlaced(queue)'  BY <2>1 DEF AllPlaced, Placed
  <2> QED  BY <2>2, QueueIs
<1>13. TodoInv'  BY DEF SSLInv, TodoInv
<1>14. /\ Ops(n)' = {} /\ Waiting(n)' = {} /\ Asks(Of(queue', n), n) = {}
       /\ Disconnects(Of(queue', n), n) = {}
  <2>1. Ops(n)' = {}  BY <1>1, <1>2 DEF SetTypes, Ops
  <2> QED  BY <1>11, <2>1 DEF Waiting, TaskOps, Of
<1>15. RestOf(n)' = <<>>
  <2> DEFINE r == rest'[ThreadOf(n)]
             T == [op : Steps, impl : Impls]
  <2>1. r \in Seq(T)  BY <1>11 DEF RestType
  <2>2. \A h \in T : h.impl # n  BY <1>2
  <2>3. RestOf(n)' = IF r # <<>> /\ Head(r).impl = n THEN r ELSE <<>>  BY DEF RestOf
  <2> HIDE DEF r, T
  <2>4. r # <<>> => Head(r) \in T  BY <2>1
  <2> QED  BY <2>2, <2>3, <2>4
<1>16. /\ n \notin linked \cup resolving \cup connecting \cup connected \cup handshaking
                  \cup handshaked \cup receiving \cup refused
       /\ ~ToConnect(n)' /\ ~ToDisconnect(n)'
  <2>1. todo' # <<>> => Head(todo').impl # n
    <3> DEFINE T == [op : CallSteps, impl : Impls]
    <3>1. \A h \in T : h.impl # n  BY <1>2
    <3>2. todo \in Seq(T)  BY <1>1
    <3> HIDE DEF T
    <3> QED  BY <3>1, <3>2
  <2>2. \A op : On(op, n).impl = n  BY DEF On
  <2>3. ~ToConnect(n)' /\ ~ToDisconnect(n)'  BY <2>1, <2>2 DEF ToConnect, ToDisconnect
  <2> QED  BY <1>1, <1>2, <2>3 DEF SetTypes
<1>17. Down(n)'
  BY <1>4, <1>14, <1>15, <1>16 DEF Down, Unflagged, IsBusy
<1>18. LastTold(n)' = "disconnected"
  <2>1. LastTold(n)' = Last(<<"disconnected">> \o <<>>)  BY <1>3 DEF LastTold
  <2>2. <<"disconnected">> \o <<>> = <<"disconnected">>  OBVIOUS
  <2> QED  BY <2>1, <2>2 DEF Last
<1>19. Apart(n)' /\ ~Ended(n)'  BY <1>15, StagesApartNext, EndedNext
<1>20. OwnInv(n)'
  BY <1>1, <1>14, <1>16, <1>17, <1>19, OwnNext DEF Apart, AsksFirst, AsksLast
<1>21. KnownInv(n)'
  <2>1. used'[n] = 0 /\ used'[n] <= 1  BY <1>3
  <2>2. Asks(Of(queue', n), n) = {}  BY <1>14
  <2> QED  BY <2>1, <2>2, <1>16, <1>17, <1>19, KnownNext
<1>22. ImplInv(n)'
  BY <1>15, <1>17, <1>18, <1>20, <1>21 DEF ImplInv, StageInv, UsedInv
<1> QED  BY <1>2, <1>3, <1>9, <1>12, <1>13, <1>22

LEMMA ResetInv ==
  ASSUME SSLInv, NEW t \in IoThreads, Reset(t), NEW i, i = Head(rest[t]).impl
  PROVE  SSLInv'
<1>1. /\ Step(t, "Reset")
      /\ UNCHANGED <<linked, resolving, connecting, connected, handshaking, handshaked,
                     receiving, ops, queue, todo, calls, refused, overtaken>>
  BY DEF Reset, flags, app
<1>2. /\ i \in Impls /\ ImplInv(i) /\ rest' \in RestType /\ RestPlaced(rest')
      /\ \A j \in Impls \ {i} : RestOf(j)' = RestOf(j)
      /\ Closing(i) /\ RestOf(i)' = Clearers(i)
  BY <1>1, StepTaken
<1>3. /\ queue' \in QueueType /\ AllPlaced(queue')
      /\ \A j : Waiting(j)' = Waiting(j) /\ NoWorse(Of(queue', j), Of(queue, j), j)
  BY <1>1, QueueKept
<1>4. SetTypes /\ current \in Nat  BY TypeParts DEF SSLInv
<1>5. \A j : Ops(j)' = Ops(j)  BY <1>1 DEF Ops
<1>6. Clearing(i)'
  <2>1. Clearers(i)' = Clearers(i)  BY DEF Clearers, DisconnectSteps
  <2> QED  BY <1>1, <1>2, <1>3, <1>5, <2>1 DEF Closing, Clearing, Ending, Clearers
<1>7. Apart(i) /\ Apart(i)'  BY StagesApart, StagesApartNext
<1>8. OwnInv(i) => i = current /\ Asks(Of(queue', i), i) = {}
  BY <1>1, <1>2, <1>4, <1>7, OwnFacts DEF Impls, Apart
<1>9. used[i] # 0  BY <1>2, <1>7 DEF ImplInv, UsedInv, Apart
<1>10. CASE i \notin linked
  <2>1. UNCHANGED <<current, used, told>>  BY <1>10 DEF Reset
  <2>2. SetTypes'  BY <1>1, <1>4, <2>1, TypeParts, SetsAre DEF SetTypes
  <2>3. \A j \in Impls \ {i} : Same(j)
    BY <1>1, <1>2, <1>3, <1>5, <2>1 DEF Same, SameStage, SameRecord, ToConnect, ToDisconnect
  <2>4. StageInv(i)' /\ UsedInv(i)'  BY <1>6, <1>9, <2>1 DEF StageInv, UsedInv
  <2>5. ASSUME OwnInv(i) PROVE OwnInv(i)'
    BY <1>6, <1>7, <1>8, <2>5, OwnNext DEF Apart, AsksFirst
  <2>6. ~(OwnInv(i) /\ KnownInv(i))
    BY <1>2, <1>7, <1>8, <1>10, KnownFacts DEF Apart
  <2>7. ImplInv(i)'  BY <1>1, <1>2, <2>4, <2>5, <2>6 DEF ImplInv
  <2> QED  BY <1>1, <1>2, <1>3, <2>1, <2>2, <2>3, <2>7, ImplStep
<1>11. CASE i \in linked
  <2>0. PICK n : n = current + 1  OBVIOUS
  <2>1. /\ current' = current + 1
        /\ used' = [j \in 0..n |-> IF j \in Impls THEN used[j] ELSE 0]
        /\ told' = [j \in 0..n |-> IF j \in Impls THEN told[j] ELSE <<>>]
    BY <1>11, <2>0 DEF Reset
  <2>2. n = current + 1 /\ flags' = flags  BY <1>1, <2>0 DEF flags
  <2>3. /\ TypeOK' /\ QueueInv' /\ TodoInv'
        /\ Impls' = Impls \cup {n} /\ n \notin Impls
        /\ \A j \in Impls : used'[j] = used[j] /\ told'[j] = told[j]
        /\ ImplInv(n)'
    <3>1. UNCHANGED <<queue, todo, calls, overtaken>>  BY <1>1
    <3>2. linked' = linked /\ ops' = ops /\ refused' = refused  BY <1>1
    <3>3. rest' \in RestType /\ RestPlaced(rest')  BY <1>2
    <3> QED  BY <2>1, <2>2, <3>1, <3>2, <3>3, ImplAdded
  <2>4. ImplInv(i)'
    <3>1. StageInv(i)' /\ UsedInv(i)'  BY <1>2, <1>6, <1>9, <2>3 DEF StageInv, UsedInv
    <3>2. ASSUME OwnInv(i) PROVE OwnInv(i)'
      <4>1. i < current'  BY <1>4, <1>8, <2>1, <3>2
      <4> QED  BY <4>1, <1>6, <1>7, <1>8, <3>2, OwnNext DEF Apart, AsksFirst
    <3>3. ASSUME OwnInv(i), KnownInv(i) PROVE KnownInv(i)'
      <4>1. i = current /\ i # current'  BY <1>4, <1>8, <2>1, <3>3
      <4>2. LastTold(i) # "disconnected" /\ used[i] <= 1
        BY <4>1, <1>2, <1>7, <3>3, KnownFacts DEF Apart, Known
      <4>3. LastTold(i)' = LastTold(i) /\ used'[i] = used[i]
        BY <1>2, <2>3 DEF LastTold
      <4> QED  BY <4>1, <4>2, <4>3, KnownNext
    <3> QED  BY <1>1, <1>2, <3>1, <3>2, <3>3 DEF ImplInv
  <2>5. ASSUME NEW j \in Impls \ {i} PROVE ImplInv(j)'
    <3>1. ImplInv(j) /\ Apart(j) /\ Apart(j)'
      BY StagesApart, StagesApartNext DEF SSLInv
    <3>2. SameStage(j) /\ LastTold(j)' = LastTold(j) /\ used'[j] = used[j]
      BY <1>1, <1>2, <1>3, <1>5, <2>3 DEF SameStage, LastTold
    <3>3. SameKind(j)  BY <3>2, StageFrame
    <3>4. StageInv(j)' /\ UsedInv(j)'
      BY <3>1, <3>2, <3>3 DEF ImplInv, StageInv, Open, UsedInv, SameKind
    <3>5. ~overtaken => j < current /\ ~(j = current')
      BY <1>2, <1>4, <1>8, <2>1 DEF ImplInv, Impls
    <3>6. ASSUME OwnInv(j), ~overtaken PROVE OwnInv(j)'
      <4>1. (Clearing(j) \/ Down(j)) /\ Asks(Of(queue', j), j) = {}
        BY <1>1, <1>4, <3>5, <3>6, OwnFacts
      <4>2. ToDisconnect(j)' => ToDisconnect(j)  BY <1>1 DEF ToDisconnect
      <4> QED
        BY <4>1, <4>2, <3>1, <3>3, OwnNext DEF Apart, SameKind, AsksFirst, AsksLast
    <3>7. ASSUME KnownInv(j), ~overtaken PROVE KnownInv(j)'
      <4>1. Ended(j)' <=> Ended(j)
        BY <3>2 DEF SameStage, Ended, Clearers, Tellers, DisconnectSteps
      <4> QED  BY <4>1, <3>2, <3>5, <3>7, KnownFacts, KnownNext
    <3> QED  BY <1>1, <3>1, <3>4, <3>6, <3>7 DEF ImplInv
  <2>6. \A j \in Impls' : ImplInv(j)'  BY <2>3, <2>4, <2>5
  <2> QED  BY <2>3, <2>6 DEF SSLInv
<1> QED  BY <1>10, <1>11

-----------------------------------------------------------------------------
(* Each step of the application keeps the invariant.                       *)

Task == [op : CallSteps, impl : Impls]
Awaiting == {"AwaitAndConnect", "AwaitStopped"}
OnlyFirst(s) == \A k \in 2..Len(s) : s[k].op \in Awaiting

LEMMA AppStep ==
  ASSUME SSLInv,
         UNCHANGED <<current, resolving, connecting, connected, handshaking, handshaked,
                     receiving, ops, rest, used, told>>,
         linked' \subseteq Impls, refused' \subseteq Impls, calls' \in 0..MaxCalls,
         overtaken' \in BOOLEAN, overtaken => overtaken',
         todo' \in Seq(Task), OnlyFirst(todo'),
         queue' \in QueueType, AllPlaced(queue'), \A j \in Impls : Waiting(j)' = Waiting(j),
         NEW i \in Impls,
         \A j \in Impls \ {i} : SameRecord(j),
         SameKind(i) /\ Apart(i) /\ Apart(i)' => ImplInv(i)'
  PROVE  SSLInv'
<1>1. /\ SetTypes /\ rest \in RestType /\ RestPlaced(rest) /\ current \in Nat
  BY TypeParts, QueueIs DEF SSLInv
<1>2. SetTypes'  BY <1>1, TypeParts, SetsAre DEF SetTypes
<1>3. TypeOK'  BY <1>1, <1>2, TypeParts DEF Task
<1>4. QueueInv'  BY <1>1, QueueIs
<1>5. TodoInv'  BY DEF TodoInv, OnlyFirst, Awaiting
<1>6. ASSUME NEW j \in Impls PROVE SameKind(j)
  <2>1. Ops(j)' = Ops(j) /\ RestOf(j)' = RestOf(j)  BY DEF Ops, RestOf
  <2> QED  BY <2>1, StageFrame DEF SameStage
<1>7. ASSUME NEW j \in Impls PROVE ImplInv(j)'
  <2>1. CASE j = i  BY <2>1, <1>6, StagesApart, StagesApartNext
  <2>2. CASE j # i  BY <2>2, <1>6, ImplFrame DEF SSLInv
  <2> QED  BY <2>1, <2>2
<1> QED  BY <1>3, <1>4, <1>5, <1>7, TypeParts DEF SSLInv

\* What a call has left to do.
LEMMA TodoFacts ==
  ASSUME SSLInv
  PROVE  /\ \A step \in CallSteps, i \in Impls : /\ <<On(step, i)>> \in Seq(Task)
                                                 /\ OnlyFirst(<<On(step, i)>>)
                                                 /\ Head(<<On(step, i)>>) = On(step, i)
         /\ <<>> \in Seq(Task) /\ OnlyFirst(<<>>)
         /\ todo # <<>> => /\ Head(todo).impl \in Impls
                           /\ Head(todo) = On(Head(todo).op, Head(todo).impl)
                           /\ Tail(todo) \in Seq(Task) /\ OnlyFirst(Tail(todo))
                           /\ Tail(todo) # <<>> => Head(Tail(todo)).op \in Awaiting
         /\ todo # <<>> => \A step \in CallSteps :
               LET s == <<On(step, Head(todo).impl)>> \o Tail(todo)
               IN  s \in Seq(Task) /\ OnlyFirst(s) /\ Head(s) = On(step, Head(todo).impl)
<1>1. \A step \in CallSteps, i \in Impls : On(step, i) \in Task  BY DEF On, Task
<1>2. todo \in Seq(Task) /\ OnlyFirst(todo)
  BY TypeParts DEF SSLInv, Task, TodoInv, OnlyFirst, Awaiting
<1>3. \A x \in Task : x.impl \in Impls /\ x = On(x.op, x.impl)  BY DEF Task, On
<1>4. \A x \in Task : <<x>> \in Seq(Task) /\ OnlyFirst(<<x>>) /\ Head(<<x>>) = x
  BY DEF OnlyFirst
<1>5. <<>> \in Seq(Task) /\ OnlyFirst(<<>>)  BY DEF OnlyFirst
<1> HIDE DEF Task
<1>6. ASSUME todo # <<>>
      PROVE  /\ Head(todo) \in Task /\ Tail(todo) \in Seq(Task)
             /\ \A k \in 1..Len(Tail(todo)) : Tail(todo)[k].op \in Awaiting
             /\ Tail(todo) # <<>> => Head(Tail(todo)).op \in Awaiting
  <2> DEFINE s == Tail(todo)
  <2>1. /\ Head(todo) \in Task /\ s \in Seq(Task)
        /\ Len(todo) \in Nat /\ Len(s) = Len(todo) - 1
        /\ \A k \in 1..Len(s) : s[k] = todo[k + 1] /\ k + 1 \in 2..Len(todo)
    BY <1>2, <1>6
  <2>2. \A k \in 1..Len(s) : s[k].op \in Awaiting  BY <1>2, <2>1 DEF OnlyFirst
  <2> HIDE DEF s
  <2>3. s # <<>> => 1 \in 1..Len(s) /\ Head(s) = s[1]  BY <2>1
  <2> QED  BY <2>1, <2>2, <2>3 DEF s
<1>7. ASSUME todo # <<>>
      PROVE  OnlyFirst(Tail(todo))
  BY <1>6, <1>7 DEF OnlyFirst
<1>8. ASSUME todo # <<>>, NEW x \in Task
      PROVE  LET s == <<x>> \o Tail(todo) IN s \in Seq(Task) /\ OnlyFirst(s) /\ Head(s) = x
  <2> DEFINE r == Tail(todo)
             s == <<x>> \o r
  <2>1. r \in Seq(Task) /\ \A k \in 1..Len(r) : r[k].op \in Awaiting  BY <1>6, <1>8
  <2> HIDE DEF r
  <2>2. /\ s \in Seq(Task) /\ Head(s) = x /\ Len(r) \in Nat /\ Len(s) = Len(r) + 1
        /\ \A k \in 2..Len(s) : s[k] = r[k - 1] /\ k - 1 \in 1..Len(r)
    BY <2>1
  <2>3. OnlyFirst(s)  BY <2>1, <2>2 DEF OnlyFirst
  <2> QED  BY <2>2, <2>3 DEF r
<1> QED  BY <1>1, <1>3, <1>4, <1>5, <1>6, <1>7, <1>8

\* The step a call is at, if it is not to post.
LEMMA NotPosting ==
  /\ \A op, i : On(op, i).op = op /\ On(op, i).impl = i
  /\ (todo' = <<>> \/ Head(todo').op \notin {"PostConnect", "PostDisconnect"})
        => \A i : ~ToConnect(i)' /\ ~ToDisconnect(i)'
<1>1. \A op, i : On(op, i).op = op /\ On(op, i).impl = i  BY DEF On
<1> QED  BY <1>1 DEF ToConnect, ToDisconnect

\* A step of the application that posts nothing, and goes on to a step that does not.
LEMMA QuietStep ==
  ASSUME SSLInv,
         UNCHANGED <<current, resolving, connecting, connected, handshaking, handshaked,
                     receiving, ops, queue, rest, used, told, overtaken>>,
         linked' \subseteq Impls, refused' \subseteq Impls, calls' \in 0..MaxCalls,
         \A j \in Impls : /\ j \in linked => j \in linked' \cup refused'
                          /\ j \in refused => j \in refused',
         todo' \in Seq(Task), OnlyFirst(todo'),
         todo' = <<>> \/ Head(todo').op \notin {"PostConnect", "PostDisconnect"}
  PROVE  SSLInv'
<1>1. \A j \in Impls : SameRecord(j)
  BY QueueKept, NotPosting DEF SameRecord
<1>2. current \in Impls /\ overtaken' \in BOOLEAN  BY TypeParts DEF SSLInv, Impls
<1>3. ImplInv(current)  BY <1>2 DEF SSLInv
<1>4. PICK i \in Impls : i = current  BY <1>2
<1>5. SameKind(i) => ImplInv(i)'  BY <1>1, <1>4, ImplFrame DEF SSLInv
<1> QED  BY <1>1, <1>2, <1>4, <1>5, QueueKept, AppStep

LEMMA CallInv == ASSUME SSLInv, Call PROVE SSLInv'
<1>1. /\ todo = <<>> /\ calls < MaxCalls /\ calls' = calls + 1
      /\ UNCHANGED <<current, linked, resolving, connecting, connected, handshaking,
                     handshaked, receiving, ops, queue, rest, used, told, refused, overtaken>>
  BY DEF Call, flags, history
<1>2. PICK first \in {"ConnectAsync", "DisconnectAsync"},
           after \in {<<>>, <<On("AwaitAndConnect", current)>>, <<On("AwaitStopped", current)>>} :
         todo' = <<On(first, current)>> \o after
  <2>1. PICK call \in Calls :
           todo' = <<On(IF call = "Connect" THEN "ConnectAsync" ELSE "DisconnectAsync", current)>>
                   \o (CASE call = "Reconnect" -> <<On("AwaitAndConnect", current)>>
                         [] call = "Stop" -> <<On("AwaitStopped", current)>>
                         [] OTHER -> <<>>)
    BY DEF Call
  <2>2. CASE call = "Connect"  BY <2>1, <2>2
  <2>3. CASE call = "Disconnect"  BY <2>1, <2>3
  <2>4. CASE call = "Reconnect"  BY <2>1, <2>4
  <2>5. CASE call = "Stop"  BY <2>1, <2>5
  <2> QED  BY <2>2, <2>3, <2>4, <2>5 DEF Calls
<1>3. current \in Impls /\ calls' \in 0..MaxCalls /\ SetTypes
  BY <1>1, SSLBounds, TypeParts DEF SSLInv, Impls
<1>4. On(first, current) \in Task  BY <1>3 DEF On, Task, CallSteps
<1>5. after \in Seq(Task) /\ \A k \in 1..Len(after) : after[k].op \in Awaiting
  <2>1. \A step \in Awaiting : On(step, current) \in Task /\ On(step, current).op = step
    BY <1>3 DEF On, Task, CallSteps, Awaiting
  <2>2. CASE after = <<>>  BY <2>2
  <2>3. CASE after = <<On("AwaitAndConnect", current)>>  BY <2>1, <2>3 DEF Awaiting
  <2>4. CASE after = <<On("AwaitStopped", current)>>  BY <2>1, <2>4 DEF Awaiting
  <2> QED  BY <2>2, <2>3, <2>4
<1>6. /\ todo' \in Seq(Task) /\ OnlyFirst(todo') /\ Head(todo').op = first
  <2> DEFINE x == On(first, current)
             s == <<x>> \o after
  <2>1. x \in Task /\ x.op = first /\ todo' = s  BY <1>2, <1>4 DEF On
  <2> HIDE DEF x
  <2>2. /\ s \in Seq(Task) /\ Head(s) = x
        /\ \A k \in 2..Len(s) : s[k] = after[k - 1] /\ k - 1 \in 1..Len(after)
    BY <2>1, <1>5
  <2> QED  BY <2>1, <2>2, <1>5 DEF OnlyFirst
<1> QED  BY <1>1, <1>3, <1>6, QuietStep DEF SetTypes

LEMMA AwaitInv == ASSUME SSLInv, Await PROVE SSLInv'
<1>1. /\ todo' = <<>> \/ todo' = <<On("ConnectAsync", current)>>
      /\ UNCHANGED <<current, linked, resolving, connecting, connected, handshaking,
                     handshaked, receiving, ops, queue, rest, calls, used, told, refused,
                     overtaken>>
  BY DEF Await, Goto, flags, history
<1>2. current \in Impls /\ calls \in 0..MaxCalls /\ SetTypes
  BY TypeParts DEF SSLInv, Impls
<1>3. todo' \in Seq(Task) /\ OnlyFirst(todo')
  BY <1>1, <1>2, TodoFacts DEF CallSteps
<1>4. todo' = <<>> \/ Head(todo').op = "ConnectAsync"
  BY <1>1, <1>2, TodoFacts DEF CallSteps, On
<1> QED  BY <1>1, <1>2, <1>3, <1>4, QuietStep DEF SetTypes

LEMMA ConnectAsyncInv ==
  ASSUME SSLInv, ConnectAsync, NEW i, i = Head(todo).impl
  PROVE  SSLInv'
<1>1. /\ todo # <<>> /\ linked' = linked \cup {i}
      /\ refused' = IF IsBusy(i) \/ used[i] > 0 THEN refused ELSE refused \ {i}
      /\ todo' = IF IsBusy(i) THEN <<>> ELSE <<On("PostConnect", i)>>
      /\ UNCHANGED <<current, resolving, connecting, connected, handshaking, handshaked,
                     receiving, ops, queue, rest, calls, used, told, overtaken>>
  BY DEF ConnectAsync, At, Goto, flags
<1>2. i \in Impls  BY <1>1, TodoFacts
<1>3. ImplInv(i)  BY <1>2 DEF SSLInv
<1>4. SetTypes /\ overtaken \in BOOLEAN /\ calls \in 0..MaxCalls
  BY TypeParts DEF SSLInv
<1>5. /\ todo' \in Seq(Task) /\ OnlyFirst(todo')
      /\ todo' = <<>> \/ Head(todo') = On("PostConnect", i)
  BY <1>1, <1>2, TodoFacts DEF CallSteps
<1>6. ~ToDisconnect(i)' /\ \A j \in Impls \ {i} : ~ToConnect(j)' /\ ~ToDisconnect(j)'
  BY <1>5, NotPosting DEF ToConnect, ToDisconnect
<1>7. linked' \subseteq Impls /\ refused' \subseteq Impls
  BY <1>1, <1>2, <1>4 DEF SetTypes
<1>8. \A j \in Impls \ {i} : SameRecord(j)
  BY <1>1, <1>6, QueueKept DEF SameRecord
<1>9. ASSUME SameKind(i), Apart(i), Apart(i)' PROVE ImplInv(i)'
  <2>1. LastTold(i)' = LastTold(i)  BY <1>1 DEF LastTold
  <2>2. NoWorse(Of(queue', i), Of(queue, i), i)  BY <1>1, QueueKept
  <2>3. StageInv(i)' /\ UsedInv(i)'
    BY <1>1, <1>3, <1>9, <2>1 DEF ImplInv, StageInv, UsedInv, Open, SameKind
  <2>4. ASSUME OwnInv(i) PROVE OwnInv(i)'
    <3>1. i < current => Clearing(i)' \/ Down(i)'  BY <1>9, <2>4, OwnFacts DEF SameKind
    <3>2. /\ Closing(i)' <=> Closing(i)
          /\ Clearing(i)' <=> Clearing(i)
          /\ Attempting(i)' <=> Attempting(i)
      BY <1>9 DEF SameKind
    <3> QED  BY <1>1, <1>6, <2>2, <2>4, <3>1, <3>2, OwnFacts, OwnNext DEF NoWorse
  <2>5. ASSUME KnownInv(i) PROVE KnownInv(i)'
    <3>1. i = current => \/ Known(i)
                         \/ Down(i) /\ used[i] = 0
      BY <2>5, KnownFacts
    <3>2. /\ Known(i) => Known(i)'
          /\ Down(i) => Down(i)'
      BY <1>1, <1>9, <2>1 DEF Known, SameKind
    <3>3. Ended(i)' => LastTold(i)' # "disconnected"
      BY <1>9, <2>1, <2>5, KnownFacts, EndedNext DEF SameKind, Ended
    <3>4. used'[i] <= 1 /\ i \in linked'  BY <1>1, <2>5, KnownFacts
    <3> QED  BY <1>1, <3>1, <3>2, <3>3, <3>4, KnownNext
  <2>6. ASSUME ~IsBusy(i), ~(used[i] > 0) PROVE KnownInv(i)'
    <3>1. used[i] = 0  BY <1>2, <1>4, <2>6 DEF SetTypes
    <3>2. (Down(i) /\ RestOf(i) = <<>>) \/ Attempting(i)
      BY <1>3, <2>6, <3>1, StageFacts DEF ImplInv, UsedInv, IsBusy
    <3>3. Down(i)' \/ Attempting(i)'  BY <1>9, <3>2 DEF SameKind
    <3>4. ~Ended(i)'
      BY <1>9, <3>2, EndedNext DEF SameKind, Apart
    <3>5. used'[i] = 0 /\ used'[i] <= 1 /\ i \in linked'  BY <1>1, <3>1
    <3> QED  BY <3>3, <3>4, <3>5, KnownNext DEF Known
  <2> QED  BY <1>1, <1>3, <2>3, <2>4, <2>5, <2>6 DEF ImplInv
<1> QED  BY <1>1, <1>2, <1>4, <1>5, <1>7, <1>8, <1>9, QueueKept, AppStep

LEMMA DisconnectAsyncInv ==
  ASSUME SSLInv, DisconnectAsync, NEW i, i = Head(todo).impl
  PROVE  SSLInv'
<1>1. /\ todo # <<>>
      /\ IF Refuses(i)
           THEN /\ LoseClient(i)
                /\ todo' = IF Last(todo).op = "AwaitStopped" THEN Tail(todo) ELSE <<>>
           ELSE /\ todo' = <<On("PostDisconnect", i)>> \o Tail(todo)
                /\ UNCHANGED <<linked, refused>>
      /\ UNCHANGED <<current, resolving, connecting, connected, handshaking, handshaked,
                     receiving, ops, queue, rest, calls, used, told, overtaken>>
  BY DEF DisconnectAsync, At, Goto, flags
<1>2. i \in Impls  BY <1>1, TodoFacts
<1>3. ImplInv(i)  BY <1>2 DEF SSLInv
<1>4. SetTypes /\ overtaken \in BOOLEAN /\ calls \in 0..MaxCalls
  BY TypeParts DEF SSLInv
<1>5. CASE Refuses(i)
  <2>1. linked' = linked \ {i} /\ refused' = refused \cup {i}
    BY <1>1, <1>5 DEF LoseClient
  <2>2. /\ todo' \in Seq(Task) /\ OnlyFirst(todo')
        /\ todo' = <<>> \/ Head(todo').op \in Awaiting
    BY <1>1, <1>5, TodoFacts
  <2>3. todo' = <<>> \/ Head(todo').op \notin {"PostConnect", "PostDisconnect"}
    BY <2>2 DEF Awaiting
  <2> QED  BY <1>1, <1>2, <1>4, <2>1, <2>2, <2>3, QuietStep DEF SetTypes
<1>6. CASE ~Refuses(i)
  <2>1. /\ todo' \in Seq(Task) /\ OnlyFirst(todo') /\ Head(todo') = On("PostDisconnect", i)
    <3>1. "PostDisconnect" \in CallSteps  BY DEF CallSteps
    <3> QED  BY <1>1, <1>6, <3>1, TodoFacts
  <2>2. ~ToConnect(i)' /\ \A j \in Impls \ {i} : ~ToConnect(j)' /\ ~ToDisconnect(j)'
    BY <2>1, NotPosting DEF ToConnect, ToDisconnect
  <2>3. \A j \in Impls \ {i} : SameRecord(j)
    BY <1>1, <1>6, <2>2, QueueKept DEF SameRecord
  <2>4. i \in connected  BY <1>6 DEF Refuses
  <2>5. ASSUME SameKind(i), Apart(i), Apart(i)' PROVE ImplInv(i)'
    <3>1. LastTold(i)' = LastTold(i)  BY <1>1 DEF LastTold
    <3>2. NoWorse(Of(queue', i), Of(queue, i), i)  BY <1>1, QueueKept
    <3>3. StageInv(i)' /\ UsedInv(i)'
      BY <1>1, <1>3, <2>5, <3>1 DEF ImplInv, StageInv, UsedInv, Open, SameKind
    <3>4. ASSUME OwnInv(i) PROVE OwnInv(i)'
      <4>1. i < current => Clearing(i)' \/ Down(i)'  BY <2>5, <3>4, OwnFacts DEF SameKind
      <4>2. /\ Closing(i)' <=> Closing(i)
            /\ Clearing(i)' <=> Clearing(i)
            /\ ~Attempting(i)' /\ i \in connected'
        BY <2>4, <2>5 DEF SameKind, Apart
      <4> QED  BY <1>1, <3>2, <3>4, <4>1, <4>2, OwnFacts, OwnNext DEF NoWorse
    <3>5. ASSUME KnownInv(i) PROVE KnownInv(i)'
      <4>1. i = current => i \in linked /\ Known(i)
        BY <2>4, <2>5, <3>5, KnownFacts DEF Apart
      <4>2. Known(i) => Known(i)'
        BY <1>1, <2>5, <3>1 DEF Known, SameKind
      <4>3. Ended(i)' => LastTold(i)' # "disconnected"
        BY <2>5, <3>1, <3>5, KnownFacts, EndedNext DEF SameKind, Ended
      <4>4. used'[i] <= 1 /\ linked' = linked  BY <1>1, <1>6, <3>5, KnownFacts
      <4> QED  BY <1>1, <4>1, <4>2, <4>3, <4>4, KnownNext
    <3> QED  BY <1>1, <1>3, <1>6, <3>3, <3>4, <3>5 DEF ImplInv
  <2>6. linked' \subseteq Impls /\ refused' \subseteq Impls
    BY <1>1, <1>4, <1>6 DEF SetTypes
  <2> QED  BY <1>1, <1>2, <1>4, <2>1, <2>3, <2>5, <2>6, QueueKept, AppStep
<1> QED  BY <1>5, <1>6

\* A handler that is no task is posted to Impl i.
LEMMA HandlerPosted ==
  ASSUME SSLInv, NEW op \in {"Connect", "Resolve", "Disconnect"}, NEW i \in Impls,
         queue' = Put(queue, On(op, i)), rest' = rest
  PROVE  /\ queue' \in QueueType /\ AllPlaced(queue')
         /\ \A j \in Impls : Waiting(j)' = Waiting(j)
         /\ \A j \in Impls \ {i} : NoWorse(Of(queue', j), Of(queue, j), j)
         /\ op # "Disconnect" =>
               /\ Disconnects(Of(queue, i), i) = {} => Disconnects(Of(queue', i), i) = {}
               /\ AsksLast(Of(queue, i), i) => AsksLast(Of(queue', i), i)
         /\ op = "Disconnect" =>
               /\ Asks(Of(queue, i), i) = {} => Asks(Of(queue', i), i) = {}
               /\ AsksFirst(Of(queue, i), i) => AsksFirst(Of(queue', i), i)
               /\ AsksLast(Of(queue, i), i) /\ Asks(Of(queue, i), i) = {}
                     => AsksLast(Of(queue', i), i)
<1> DEFINE h == On(op, i)
           q == Of(queue, i)
<1>1. TypeOK /\ queue \in QueueType /\ AllPlaced(queue)  BY TypeParts, QueueIs DEF SSLInv
<1>2. /\ h \in Handlers /\ h.op = op /\ h.impl = i /\ h.op \notin Kinds
      /\ q \in Seq(Handlers)
  BY HandlerTypes, QueueOf DEF Kinds
<1>3. /\ Put(queue, h) \in QueueType /\ AllPlaced(Put(queue, h))
      /\ Of(Put(queue, h), h.impl) = Append(Of(queue, h.impl), h)
      /\ \A j \in Impls :
            /\ OpsIn(Put(queue, h), j) = OpsIn(queue, j) \cup TaskOf(h, j)
            /\ j # h.impl => NoWorse(Of(Put(queue, h), j), Of(queue, j), j)
  BY <1>1, <1>2, QueuesPut
<1>4. \A j : TaskOf(h, j) = {}  BY <1>2 DEF TaskOf
<1>5. queue' = Put(queue, h) /\ Of(queue', i) = Append(q, h)  BY <1>2, <1>3
<1>6. /\ op # "Disconnect" => h # On("Disconnect", i)
      /\ op = "Disconnect" => ~IsAsk(h, i)
  BY <1>2 DEF IsAsk, On
<1> HIDE DEF h, q
<1>7. \A j \in Impls : Waiting(j)' = Waiting(j)
  BY <1>3, <1>4, <1>5, QueueIs
<1>8. op # "Disconnect" =>
         /\ Disconnects(q, i) = {} => Disconnects(Append(q, h), i) = {}
         /\ AsksLast(q, i) => AsksLast(Append(q, h), i)
  BY <1>2, <1>6, QueueAppend
<1>9. op = "Disconnect" =>
         /\ Asks(q, i) = {} => Asks(Append(q, h), i) = {}
         /\ AsksFirst(q, i) => AsksFirst(Append(q, h), i)
         /\ AsksLast(q, i) /\ Asks(q, i) = {} => AsksLast(Append(q, h), i)
  BY <1>2, <1>6, QueueAppend
<1> QED  BY <1>2, <1>3, <1>5, <1>7, <1>8, <1>9 DEF q

LEMMA PostConnectInv ==
  ASSUME SSLInv, PostConnect, NEW i, i = Head(todo).impl
  PROVE  SSLInv'
<1>1. /\ todo # <<>> /\ Head(todo).op = "PostConnect" /\ todo' = Tail(todo)
      /\ overtaken' = (overtaken \/ IsBusy(i) \/ i # current)
      /\ UNCHANGED <<current, linked, resolving, connecting, connected, handshaking, handshaked,
                     receiving, ops, rest, calls, used, told, refused>>
  BY DEF PostConnect, At, Goto, flags
<1>2. PICK op \in {"Connect", "Resolve"} : queue' = Put(queue, On(op, i))
  BY DEF PostConnect
<1>3. i \in Impls /\ ToConnect(i)  BY <1>1, TodoFacts DEF ToConnect
<1>4. ImplInv(i)  BY <1>3 DEF SSLInv
<1>5. /\ SetTypes /\ overtaken \in BOOLEAN /\ calls \in 0..MaxCalls /\ current \in Nat
  BY TypeParts DEF SSLInv
<1>6. /\ todo' \in Seq(Task) /\ OnlyFirst(todo')
      /\ todo' = <<>> \/ Head(todo').op \in Awaiting
  BY <1>1, TodoFacts
<1>7. \A j : ~ToConnect(j)' /\ ~ToDisconnect(j)'
  BY <1>6, NotPosting DEF Awaiting
<1>8. /\ queue' \in QueueType /\ AllPlaced(queue')
      /\ \A j \in Impls : Waiting(j)' = Waiting(j)
      /\ \A j \in Impls \ {i} : NoWorse(Of(queue', j), Of(queue, j), j)
      /\ Disconnects(Of(queue, i), i) = {} => Disconnects(Of(queue', i), i) = {}
      /\ AsksLast(Of(queue, i), i) => AsksLast(Of(queue', i), i)
  BY <1>1, <1>2, <1>3, HandlerPosted
<1>9. \A j \in Impls \ {i} : SameRecord(j)
  BY <1>1, <1>7, <1>8 DEF SameRecord
<1>10. ASSUME SameKind(i), Apart(i), Apart(i)' PROVE ImplInv(i)'
  <2>1. LastTold(i)' = LastTold(i)  BY <1>1 DEF LastTold
  <2>2. StageInv(i)' /\ UsedInv(i)'
    BY <1>1, <1>4, <1>10, <2>1 DEF ImplInv, StageInv, UsedInv, Open, SameKind
  <2>3. ASSUME OwnInv(i), ~overtaken' PROVE OwnInv(i)'
    <3>0. ~IsBusy(i) /\ i = current  BY <1>1, <2>3, Zenon
    <3>1. i = current' /\ i \notin connected /\ ~(i < current')
      BY <1>1, <1>5, <3>0 DEF IsBusy
    <3>2. /\ ~Closing(i)' /\ ~Clearing(i)' /\ i \notin connected'
          /\ Attempting(i)' <=> Attempting(i)
      BY <1>10, <3>1 DEF SameKind, Apart
    <3> QED  BY <1>7, <1>8, <2>3, <3>1, <3>2, OwnFacts, OwnNext
  <2>4. ASSUME KnownInv(i) PROVE KnownInv(i)'
    <3>1. i = current => \/ i \in linked /\ Known(i)
                         \/ Down(i) /\ used[i] = 0 /\ i \in linked
      BY <1>3, <2>4, KnownFacts
    <3>2. /\ Known(i) => Known(i)'
          /\ Down(i) => Down(i)'
      BY <1>1, <1>10, <2>1 DEF Known, SameKind
    <3>3. Ended(i)' => LastTold(i)' # "disconnected"
      BY <1>10, <2>1, <2>4, KnownFacts, EndedNext DEF SameKind, Ended
    <3>4. used'[i] <= 1  BY <1>1, <2>4, KnownFacts
    <3> QED  BY <1>1, <3>1, <3>2, <3>3, <3>4, KnownNext
  <2> QED  BY <1>1, <1>4, <2>2, <2>3, <2>4 DEF ImplInv
<1>11. linked' \subseteq Impls /\ refused' \subseteq Impls /\ overtaken' \in BOOLEAN
       /\ (overtaken => overtaken')
  BY <1>1, <1>5 DEF SetTypes
<1> QED  BY <1>1, <1>3, <1>5, <1>6, <1>8, <1>9, <1>10, <1>11, AppStep

LEMMA PostDisconnectInv ==
  ASSUME SSLInv, PostDisconnect, NEW i, i = Head(todo).impl
  PROVE  SSLInv'
<1>1. /\ todo # <<>> /\ Head(todo).op = "PostDisconnect" /\ todo' = Tail(todo)
      /\ queue' = Put(queue, On("Disconnect", i))
      /\ UNCHANGED <<current, linked, resolving, connecting, connected, handshaking, handshaked,
                     receiving, ops, rest, calls, used, told, refused, overtaken>>
  BY DEF PostDisconnect, At, Goto, flags, history
<1>2. i \in Impls /\ ToDisconnect(i)  BY <1>1, TodoFacts DEF ToDisconnect
<1>3. ImplInv(i)  BY <1>2 DEF SSLInv
<1>4. /\ SetTypes /\ overtaken \in BOOLEAN /\ calls \in 0..MaxCalls /\ current \in Nat
  BY TypeParts DEF SSLInv
<1>5. /\ todo' \in Seq(Task) /\ OnlyFirst(todo')
      /\ todo' = <<>> \/ Head(todo').op \in Awaiting
  BY <1>1, TodoFacts
<1>6. \A j : ~ToConnect(j)' /\ ~ToDisconnect(j)'
  BY <1>5, NotPosting DEF Awaiting
<1>7. /\ queue' \in QueueType /\ AllPlaced(queue')
      /\ \A j \in Impls : Waiting(j)' = Waiting(j)
      /\ \A j \in Impls \ {i} : NoWorse(Of(queue', j), Of(queue, j), j)
      /\ Asks(Of(queue, i), i) = {} => Asks(Of(queue', i), i) = {}
      /\ AsksFirst(Of(queue, i), i) => AsksFirst(Of(queue', i), i)
      /\ AsksLast(Of(queue, i), i) /\ Asks(Of(queue, i), i) = {}
            => AsksLast(Of(queue', i), i)
  BY <1>1, <1>2, HandlerPosted
<1>8. \A j \in Impls \ {i} : SameRecord(j)
  BY <1>1, <1>6, <1>7 DEF SameRecord
<1>9. ASSUME SameKind(i), Apart(i), Apart(i)' PROVE ImplInv(i)'
  <2>1. LastTold(i)' = LastTold(i)  BY <1>1 DEF LastTold
  <2>2. StageInv(i)' /\ UsedInv(i)'
    BY <1>1, <1>3, <1>9, <2>1 DEF ImplInv, StageInv, UsedInv, Open, SameKind
  <2>3. ASSUME OwnInv(i) PROVE OwnInv(i)'
    <3>1. i < current => Clearing(i)' \/ Down(i)'  BY <1>9, <2>3, OwnFacts DEF SameKind
    <3>2. /\ Closing(i)' <=> Closing(i)
          /\ Clearing(i)' <=> Clearing(i)
          /\ Attempting(i)' <=> Attempting(i)
          /\ i \in connected' <=> i \in connected
      BY <1>9 DEF SameKind
    <3>3. ~Attempting(i)  BY <1>2, <2>3, OwnFacts
    <3>4. i \notin connected => AsksLast(Of(queue, i), i) /\ Asks(Of(queue, i), i) = {}
      BY <1>2, <2>3, OwnFacts
    <3> QED  BY <1>1, <1>6, <1>7, <2>3, <3>1, <3>2, <3>3, <3>4, OwnFacts, OwnNext
  <2>4. ASSUME KnownInv(i) PROVE KnownInv(i)'
    <3>1. i = current => \/ i \in linked /\ Known(i)
                         \/ /\ Down(i) /\ used[i] = 0
                            /\ Asks(Of(queue, i), i) # {} => i \in linked
      BY <2>4, KnownFacts
    <3>2. /\ Known(i) => Known(i)'
          /\ Down(i) => Down(i)'
      BY <1>1, <1>9, <2>1 DEF Known, SameKind
    <3>3. Ended(i)' => LastTold(i)' # "disconnected"
      BY <1>9, <2>1, <2>4, KnownFacts, EndedNext DEF SameKind, Ended
    <3>4. used'[i] <= 1  BY <1>1, <2>4, KnownFacts
    <3> QED  BY <1>1, <1>6, <1>7, <3>1, <3>2, <3>3, <3>4, KnownNext
  <2> QED  BY <1>1, <1>3, <2>2, <2>3, <2>4 DEF ImplInv
<1>10. linked' \subseteq Impls /\ refused' \subseteq Impls
  BY <1>1, <1>4 DEF SetTypes
<1> QED  BY <1>1, <1>2, <1>4, <1>5, <1>7, <1>8, <1>9, <1>10, AppStep

-----------------------------------------------------------------------------
(* The invariant.                                                          *)

LEMMA InitInv == ASSUME Init PROVE SSLInv
<1>1. /\ current = 0 /\ Impls = {0}
      /\ linked = {} /\ resolving = {} /\ connecting = {} /\ connected = {}
      /\ handshaking = {} /\ handshaked = {} /\ receiving = {} /\ refused = {}
      /\ ops = {} /\ todo = <<>> /\ calls = 0 /\ overtaken = FALSE
      /\ queue = [t \in IoThreads |-> <<>>] /\ rest = [t \in IoThreads |-> <<>>]
      /\ used = [i \in 0..0 |-> 0] /\ told = [i \in 0..0 |-> <<>>]
  BY DEF Init, Impls
<1>2. /\ used \in [Impls -> Nat] /\ used[0] = 0
      /\ told \in [Impls -> Seq(Events)] /\ told[0] = <<>>
  <2>1. Impls = 0..0  BY <1>1 DEF Impls
  <2> QED  BY <1>1, <2>1
<1>3. SetTypes  BY <1>1, <1>2 DEF SetTypes
<1>4. TypeOK
  <2>1. queue \in QueueType /\ rest \in RestType  BY <1>1 DEF QueueType, RestType
  <2>2. todo \in Seq([op : CallSteps, impl : Impls]) /\ calls \in 0..MaxCalls
        /\ overtaken \in BOOLEAN /\ current \in Nat
    BY <1>1, SSLBounds
  <2> QED  BY <1>3, <2>1, <2>2, TypeParts
<1>5. \A t \in IoThreads : queue[t] = <<>> /\ rest[t] = <<>>  BY <1>1
<1>6. \A t \in IoThreads : \A i :
         Tasks(queue[t], i) = {} /\ Asks(queue[t], i) = {} /\ Disconnects(queue[t], i) = {}
  BY <1>5 DEF Tasks, Asks, Disconnects
<1>7. QueueInv /\ TodoInv
  <2>1. TodoInv  BY <1>1 DEF TodoInv
  <2>2. \A t \in IoThreads : /\ \A k \in 1..Len(queue[t]) : FALSE
                             /\ rest[t] = <<>>
    BY <1>5
  <2>3. \A t \in IoThreads : \A i \in Impls : TasksInOrder(queue[t], i)
    BY <1>6 DEF TasksInOrder
  <2> QED  BY <2>1, <2>2, <2>3 DEF QueueInv
<1>8. /\ ThreadOf(0) \in IoThreads /\ RestOf(0) = <<>> /\ Ops(0) = {} /\ Waiting(0) = {}
      /\ Asks(Of(queue, 0), 0) = {} /\ Disconnects(Of(queue, 0), 0) = {}
  <2>1. ThreadOf(0) \in IoThreads  BY ThreadOfType
  <2>2. RestOf(0) = <<>>  BY <1>5, <2>1 DEF RestOf
  <2>3. Ops(0) = {}  BY <1>1 DEF Ops
  <2>4. Waiting(0) = {}  BY <1>6, <2>1 DEF Waiting, TaskOps
  <2> QED  BY <1>6, <2>1, <2>2, <2>3, <2>4 DEF Of
<1>9. Down(0)  BY <1>1, <1>8 DEF Down, Unflagged, IsBusy
<1>10. LastTold(0) = "disconnected"
  <2>1. <<"disconnected">> \o told[0] = <<"disconnected">>  BY <1>2
  <2> QED  BY <2>1 DEF LastTold, Last
<1>11. OwnInv(0)
  BY <1>1, <1>8, <1>9, StagesApart
     DEF OwnInv, Of, Apart, AsksFirst, AsksLast, ToDisconnect
<1>12. KnownInv(0)
  <2>1. used[0] <= 1 /\ ~ToConnect(0)  BY <1>1, <1>2 DEF ToConnect
  <2>2. RestOf(0) \notin {Clearers(0), Tellers(0)}  BY <1>8, EndedNext
  <2> QED  BY <1>2, <1>8, <1>9, <2>1, <2>2 DEF KnownInv, Of, Clearers, Tellers
<1>13. ImplInv(0)
  BY <1>8, <1>9, <1>10, <1>11, <1>12 DEF ImplInv, StageInv, UsedInv
<1> QED  BY <1>1, <1>4, <1>7, <1>13 DEF SSLInv

LEMMA StutterInv == ASSUME SSLInv, UNCHANGED vars PROVE SSLInv'
<1>1. UNCHANGED <<current, linked, resolving, connecting, connected, handshaking, handshaked,
                  receiving, ops, queue, rest, todo, calls, used, told, refused, overtaken>>
  BY DEF vars, flags, app, history
<1>2. /\ SetTypes /\ current \in Nat /\ todo \in Seq(Task) /\ OnlyFirst(todo)
      /\ calls \in 0..MaxCalls /\ overtaken \in BOOLEAN
  BY TypeParts DEF SSLInv, Task, TodoInv, OnlyFirst, Awaiting
<1>3. /\ todo' \in Seq(Task) /\ OnlyFirst(todo') /\ calls' \in 0..MaxCalls
      /\ overtaken' \in BOOLEAN /\ linked' \subseteq Impls /\ refused' \subseteq Impls
  BY <1>1, <1>2 DEF SetTypes
<1>4. \A j \in Impls : SameRecord(j)
  BY <1>1, QueueKept DEF SameRecord, ToConnect, ToDisconnect
<1>5. PICK i \in Impls : i = current  BY <1>2 DEF Impls
<1>6. SameKind(i) => ImplInv(i)'  BY <1>1, <1>4, ImplFrame DEF SSLInv
<1> QED  BY <1>1, <1>3, <1>4, <1>6, QueueKept, AppStep

LEMMA NextInv == ASSUME SSLInv, [Next]_vars PROVE SSLInv'
<1>1. CASE Call  BY <1>1, CallInv
<1>2. CASE CallStep
  BY <1>2, ConnectAsyncInv, DisconnectAsyncInv, PostConnectInv, PostDisconnectInv, AwaitInv
     DEF CallStep
<1>3. ASSUME NEW t \in IoThreads, IoStep(t) PROVE SSLInv'
  <2>1. CASE ConnectHandler(t)  BY <2>1, ConnectHandlerInv
  <2>2. CASE ResolveHandler(t)  BY <2>2, ResolveHandlerInv
  <2>3. CASE AsyncResolveHandler(t)  BY <2>3, AsyncResolveHandlerInv
  <2>4. CASE AsyncConnectHandler(t)  BY <2>4, AsyncConnectHandlerInv
  <2>5. CASE HandshakeHandler(t)  BY <2>5, HandshakeHandlerInv
  <2>6. CASE AsyncReceiveHandler(t)  BY <2>6, AsyncReceiveHandlerInv
  <2>7. CASE DisconnectHandler(t)  BY <2>7, DisconnectHandlerInv
  <2>8. CASE StartConnect(t)  BY <2>8, StartConnectInv
  <2>9. CASE SetConnected(t)  BY <2>9, SetConnectedInv
  <2>10. CASE BeginHandshake(t)  BY <2>10, BeginHandshakeInv
  <2>11. CASE Reset(t)  BY <2>11, ResetInv
  <2>12. CASE ClearFlags(t)  BY <2>12, ClearFlagsInv
  <2>13. CASE TellDisconnected(t)  BY <2>13, TellDisconnectedInv
  <2>14. CASE Unlink(t)  BY <2>14, UnlinkInv
  <2> QED
    BY <1>3, <2>1, <2>2, <2>3, <2>4, <2>5, <2>6, <2>7, <2>8, <2>9, <2>10, <2>11, <2>12,
       <2>13, <2>14 DEF IoStep
<1>4. ASSUME NEW o \in ops, NEW ok \in BOOLEAN, OpEnds(o, ok) PROVE SSLInv'
  BY <1>4, OpEndsInv
<1>5. CASE UNCHANGED vars  BY <1>5, StutterInv
<1> QED  BY <1>1, <1>2, <1>3, <1>4, <1>5 DEF Next

-----------------------------------------------------------------------------
(* What the invariant implies.                                             *)

\* The running handlers of an Impl.
LEMMA RunningFacts ==
  ASSUME SSLInv, NEW i \in Impls
  PROVE  /\ Running(i) = {} => RestOf(i) = <<>>
         /\ RestOf(i) # <<>> => Head(RestOf(i)).op \in Running(i)
<1> DEFINE r == rest[ThreadOf(i)]
           T == [op : Steps, impl : Impls]
<1>1. r \in Seq(T)
  <2>1. rest \in RestType /\ i \in Nat  BY TypeParts DEF SSLInv, Impls
  <2> QED  BY <2>1, ThreadOfType DEF RestType
<1>2. RestOf(i) = IF r # <<>> /\ Head(r).impl = i THEN r ELSE <<>>  BY DEF RestOf
<1>3. Running(i) = {r[k].op : k \in {k \in 1..Len(r) : r[k].impl = i}}  BY DEF Running
<1> HIDE DEF r, T
<1>4. r # <<>> => 1 \in 1..Len(r) /\ Head(r) = r[1]  BY <1>1
<1>5. RestOf(i) # <<>> => r # <<>> /\ Head(r).impl = i /\ RestOf(i) = r  BY <1>2
<1>6. RestOf(i) # <<>> => Head(RestOf(i)).op \in Running(i)
  BY <1>3, <1>4, <1>5
<1> QED  BY <1>6

\* A connection that is ending has steps to run.
LEMMA EndingFacts ==
  ASSUME SSLInv, NEW i \in Impls
  PROVE  /\ Closing(i) \/ Clearing(i) =>
               Running(i) # {} /\ ~(Running(i) \subseteq {"BeginHandshake"})
         /\ Closing(i) => "Reset" \in Running(i)
<1>1. Closing(i) => Head(RestOf(i)).op = "Reset" /\ RestOf(i) # <<>>
  BY StageFacts, RestShapes DEF HeadIs
<1>2. Clearing(i) => Head(RestOf(i)).op = "ClearFlags" /\ RestOf(i) # <<>>
  BY StageFacts, RestShapes DEF HeadIs
<1> QED  BY <1>1, <1>2, RunningFacts

\* As long as no connect was overtaken, an Impl that was not replaced, and not unlinked by a
\* disconnect that was refused, is in one of these stages.
LEMMA CurrentKnown ==
  ASSUME SSLInv, ~overtaken, NEW i \in Impls \ refused
  PROVE  /\ i < current => Clearing(i) \/ Down(i)
         /\ i = current => (i \in linked /\ Known(i)) \/ (Down(i) /\ used[i] = 0)
         /\ i < current \/ i = current
<1>1. OwnInv(i) /\ KnownInv(i)  BY DEF SSLInv, ImplInv
<1>2. i < current \/ i = current  BY TypeParts DEF SSLInv, Impls
<1> QED  BY <1>1, <1>2, OwnFacts, KnownFacts

LEMMA AppKnowsHolds == ASSUME SSLInv PROVE AppKnows
<1> SUFFICES ASSUME ~overtaken, NEW i \in Impls \ refused,
                    Running(i) \subseteq {"BeginHandshake"}
             PROVE  /\ i \in handshaked => LastTold(i) = "handshaked"
                    /\ i \in connected \ handshaked => LastTold(i) = "connected"
  BY DEF AppKnows
<1>1. Apart(i) /\ ~Closing(i) /\ ~Clearing(i)  BY StagesApart, EndingFacts
<1>2. StageInv(i)  BY DEF SSLInv, ImplInv
<1>3. i \in connected =>
         /\ i = current /\ Known(i)
         /\ Opened(i) \/ Handshaking(i) \/ Established(i)
  BY <1>1, <1>2, CurrentKnown DEF Apart, StageInv, Open
<1>4. i \in handshaked => Established(i)
  BY <1>1, <1>2, StageFacts DEF StageInv, Open, IsBusy
<1>5. Established(i) => i \in connected \cap handshaked  BY StageFacts
<1> QED  BY <1>1, <1>3, <1>4, <1>5 DEF Apart, Known

LEMMA NoOrphanHolds == ASSUME SSLInv PROVE NoOrphan
<1> SUFFICES ASSUME ~overtaken, NEW i \in 0..(current - 1), Running(i) = {}
             PROVE  ~IsBusy(i) /\ \A o \in ops : o[2] # i
  BY DEF NoOrphan
<1>1. i \in Impls /\ i < current /\ SetTypes  BY TypeParts DEF SSLInv, Impls
<1>2. OwnInv(i)  BY <1>1 DEF SSLInv, ImplInv
<1>3. Down(i)  BY <1>1, <1>2, EndingFacts, OwnFacts
<1>4. ~IsBusy(i) /\ Ops(i) = {}  BY <1>3, StageFacts
<1>5. ASSUME NEW o \in ops, o[2] = i PROVE FALSE
  <2>1. o \in Kinds \X Impls  BY <1>1 DEF SetTypes
  <2>2. o = <<o[1], i>> /\ o[1] \in Kinds  BY <1>5, <2>1
  <2> QED  BY <1>4, <2>2 DEF Ops
<1> QED  BY <1>4, <1>5

LEMMA FreshStreamHolds == ASSUME SSLInv PROVE FreshStream
<1> SUFFICES ASSUME ~overtaken, NEW i \in Impls \ refused PROVE used[i] <= 1
  BY DEF FreshStream
<1>1. KnownInv(i)  BY DEF SSLInv, ImplInv
<1> QED  BY <1>1, KnownFacts

LEMMA ReadLoopAliveHolds == ASSUME SSLInv PROVE ReadLoopAlive
<1> SUFFICES ASSUME NEW i \in handshaked
             PROVE  \/ <<"Read", i>> \in ops
                    \/ \E h \in Queued(i) : h.op = "Read"
                    \/ Running(i) # {}
  BY DEF ReadLoopAlive
<1>1. i \in Impls  BY TypeParts DEF SSLInv, SetTypes
<1>2. StageInv(i)  BY <1>1 DEF SSLInv, ImplInv
<1>3. Established(i) \/ Closing(i) \/ Clearing(i)
  BY <1>2, StageFacts DEF StageInv, Open, IsBusy
<1>4. CASE Closing(i) \/ Clearing(i)  BY <1>1, <1>4, EndingFacts
<1>5. CASE Established(i)
  <2>1. "Read" \in Ops(i) \/ "Read" \in Waiting(i)  BY <1>5 DEF Established, Awaits
  <2>2. "Read" \in Ops(i) => <<"Read", i>> \in ops  BY DEF Ops
  <2>3. "Read" \in Waiting(i) => \E h \in Queued(i) : h.op = "Read"
    BY DEF Waiting, TaskOps, Tasks, Queued
  <2> QED  BY <2>1, <2>2, <2>3
<1> QED  BY <1>3, <1>4, <1>5

\* A step tells the application something of Impl j, or nothing.
Tells(j) ==
  \/ Opening(j) /\ Tell(j, "connected")
  \/ Handshaking(j) /\ Tell(j, "handshaked")
  \/ Ended(j) /\ Tell(j, "disconnected")
  \/ Attempting(j) /\ Tell(j, "disconnected")

LEMMA WhoTells ==
  ASSUME SSLInv, Next
  PROVE  (\A i \in Impls : told'[i] = told[i]) \/ \E j \in Impls : Tells(j)
<1>1. ASSUME NEW t \in IoThreads, IoStep(t)
      PROVE  (\A i \in Impls : told'[i] = told[i]) \/ \E j \in Impls : Tells(j)
  <2>1. CASE ConnectHandler(t)  BY <2>1 DEF ConnectHandler, history
  <2>2. CASE ResolveHandler(t)  BY <2>2 DEF ResolveHandler, history
  <2>3. CASE AsyncResolveHandler(t)
    <3>1. PICK i : i = First(t).impl  OBVIOUS
    <3>2. Ready(t, "Resolved") /\ (told' = told \/ Tell(i, "disconnected"))
      BY <2>3, <3>1 DEF AsyncResolveHandler, Opens
    <3>3. i \in Impls /\ RestOf(i) = <<>> /\ "Resolved" \in Waiting(i)
      <4>1. i \in Impls /\ RestOf(i) = <<>>  BY <3>1, <3>2, HandlerTaken DEF SSLInv
      <4>2. "Resolved" \in Kinds  BY DEF Kinds
      <4>3. Waiting(i) = OpsIn(Taken(t), i) \cup {"Resolved"}
        BY <3>1, <3>2, <4>2, HandlerTaken DEF SSLInv
      <4> QED  BY <4>1, <4>3
    <3>4. Resolving(i)  BY <3>3, StageAtRest, StageFacts DEF SSLInv, ImplInv
    <3> QED  BY <3>2, <3>3, <3>4 DEF Tells, Attempting
  <2>4. CASE AsyncConnectHandler(t)
    <3>1. PICK i : i = First(t).impl  OBVIOUS
    <3>2. Ready(t, "Connected") /\ (told' = told \/ Tell(i, "disconnected"))
      BY <2>4, <3>1 DEF AsyncConnectHandler, Opens
    <3>3. i \in Impls /\ RestOf(i) = <<>> /\ "Connected" \in Waiting(i)
      <4>1. i \in Impls /\ RestOf(i) = <<>>  BY <3>1, <3>2, HandlerTaken DEF SSLInv
      <4>2. "Connected" \in Kinds  BY DEF Kinds
      <4>3. Waiting(i) = OpsIn(Taken(t), i) \cup {"Connected"}
        BY <3>1, <3>2, <4>2, HandlerTaken DEF SSLInv
      <4> QED  BY <4>1, <4>3
    <3>4. Connecting(i)  BY <3>3, StageAtRest, StageFacts DEF SSLInv, ImplInv
    <3> QED  BY <3>2, <3>3, <3>4 DEF Tells, Attempting
  <2>5. CASE HandshakeHandler(t)
    <3>1. PICK i : i = First(t).impl  OBVIOUS
    <3>2. Ready(t, "Handshake") /\ (told' = told \/ Tell(i, "handshaked"))
      BY <2>5, <3>1 DEF HandshakeHandler
    <3>3. i \in Impls /\ RestOf(i) = <<>> /\ "Handshake" \in Waiting(i)
      <4>1. i \in Impls /\ RestOf(i) = <<>>  BY <3>1, <3>2, HandlerTaken DEF SSLInv
      <4>2. "Handshake" \in Kinds  BY DEF Kinds
      <4>3. Waiting(i) = OpsIn(Taken(t), i) \cup {"Handshake"}
        BY <3>1, <3>2, <4>2, HandlerTaken DEF SSLInv
      <4> QED  BY <4>1, <4>3
    <3>4. Handshaking(i)  BY <3>3, StageAtRest, StageFacts DEF SSLInv, ImplInv
    <3> QED  BY <3>2, <3>3, <3>4 DEF Tells
  <2>6. CASE AsyncReceiveHandler(t)  BY <2>6 DEF AsyncReceiveHandler
  <2>7. CASE DisconnectHandler(t)  BY <2>7 DEF DisconnectHandler
  <2>8. CASE StartConnect(t)  BY <2>8 DEF StartConnect, history
  <2>9. CASE SetConnected(t)
    <3>1. PICK i : i = Head(rest[t]).impl  OBVIOUS
    <3>2. Step(t, "SetConnected") /\ Tell(i, "connected")  BY <2>9, <3>1 DEF SetConnected
    <3>3. i \in Impls /\ Opening(i)  BY <3>1, <3>2, StepTaken
    <3> QED  BY <3>2, <3>3 DEF Tells
  <2>10. CASE BeginHandshake(t)  BY <2>10 DEF BeginHandshake
  <2>11. CASE Reset(t)
    <3>1. current \in Nat  BY TypeParts DEF SSLInv
    <3>2. Impls \subseteq 0..(current + 1)  BY <3>1 DEF Impls
    <3> QED  BY <2>11, <3>2 DEF Reset
  <2>12. CASE ClearFlags(t)  BY <2>12 DEF ClearFlags, history
  <2>13. CASE TellDisconnected(t)
    <3>1. PICK i : i = Head(rest[t]).impl  OBVIOUS
    <3>2. Step(t, "TellDisconnected") /\ Tell(i, "disconnected")
      BY <2>13, <3>1 DEF TellDisconnected
    <3>3. i \in Impls /\ RestOf(i) = Tellers(i)  BY <3>1, <3>2, StepTaken
    <3> QED  BY <3>2, <3>3 DEF Tells, Ended
  <2>14. CASE Unlink(t)  BY <2>14 DEF Unlink, history
  <2> QED
    BY <1>1, <2>1, <2>2, <2>3, <2>4, <2>5, <2>6, <2>7, <2>8, <2>9, <2>10, <2>11, <2>12,
       <2>13, <2>14 DEF IoStep
<1>2. CASE Call  BY <1>2 DEF Call, history
<1>3. CASE CallStep
  BY <1>3 DEF CallStep, ConnectAsync, DisconnectAsync, PostConnect, PostDisconnect, Await, history
<1>4. ASSUME NEW o \in ops, NEW ok \in BOOLEAN, OpEnds(o, ok) PROVE told' = told
  BY <1>4 DEF OpEnds, history
<1> QED  BY <1>1, <1>2, <1>3, <1>4 DEF Next

LEMMA CallbacksStep == ASSUME SSLInv, [Next]_vars PROVE CallbackFollows
<1> SUFFICES ASSUME ~overtaken, NEW i \in Impls \ refused, told'[i] # told[i]
             PROVE  \/ told'[i] = Append(told[i], "connected") /\ LastTold(i) = "disconnected"
                    \/ told'[i] = Append(told[i], "handshaked") /\ LastTold(i) = "connected"
                    \/ /\ told'[i] = Append(told[i], "disconnected")
                       /\ LastTold(i) # "disconnected" \/ used[i] = 0
  BY DEF CallbackFollows
<1>1. Next  BY DEF vars, history
<1>2. PICK j \in Impls : Tells(j)  BY <1>1, WhoTells
<1>3. told \in [Impls -> Seq(Events)]  BY TypeParts DEF SSLInv, SetTypes
<1>4. ASSUME NEW event \in Events, Tell(j, event)
      PROVE  i = j /\ told'[i] = Append(told[i], event)
  BY <1>3, <1>4, Told
<1>5. i = j  BY <1>2, <1>4 DEF Tells, Events
<1>6. Apart(i) /\ KnownInv(i) /\ UsedInv(i)  BY StagesApart DEF SSLInv, ImplInv
<1>7. /\ Attempting(i) => used[i] = 0 /\ i \notin connected
      /\ Handshaking(i) => LastTold(i) = "connected"
  BY <1>6, CurrentKnown DEF Apart, Known
<1>8. CASE Opening(i) /\ Tell(j, "connected")
  <2>1. LastTold(i) = "disconnected"  BY <1>6, <1>7, <1>8 DEF UsedInv, Attempting
  <2> QED  BY <1>4, <1>8, <2>1 DEF Events
<1>9. CASE Handshaking(i) /\ Tell(j, "handshaked")
  BY <1>4, <1>7, <1>9 DEF Events
<1>10. CASE Ended(i) /\ Tell(j, "disconnected")
  <2>1. LastTold(i) # "disconnected"  BY <1>6, <1>10, KnownFacts
  <2> QED  BY <1>4, <1>10, <2>1 DEF Events
<1>11. CASE Attempting(i) /\ Tell(j, "disconnected")
  BY <1>4, <1>7, <1>11 DEF Events
<1> QED  BY <1>2, <1>5, <1>8, <1>9, <1>10, <1>11 DEF Tells

-----------------------------------------------------------------------------
(* Theorems.                                                               *)

\* The client keeps its invariant whatever the application calls, and when: each Impl
\* goes through the stages of a connection, whatever handlers of an older connection are left.
THEOREM SSLInvariant == Spec => []SSLInv
<1>1. Init => SSLInv  BY InitInv
<1>2. SSLInv /\ [Next]_vars => SSLInv'  BY NextInv
<1> QED  BY <1>1, <1>2, PTL DEF Spec

\* Every variable keeps its type.
THEOREM SSLTypeCorrect == Spec => []TypeOK
<1>1. SSLInv => TypeOK  BY DEF SSLInv
<1> QED  BY <1>1, SSLInvariant, PTL

\* No callback on the way up is lost, unless a refused disconnect unlinked the client or a
\* connect was overtaken: the application knows how far its connection is.
THEOREM ApplicationKnows == Spec => []AppKnows
<1>1. SSLInv => AppKnows  BY AppKnowsHolds
<1> QED  BY <1>1, SSLInvariant, PTL

\* An Impl that was replaced has no connection, and no attempt at one, unless a connect was
\* overtaken.
THEOREM NoConnectionOrphaned == Spec => []NoOrphan
<1>1. SSLInv => NoOrphan  BY NoOrphanHolds
<1> QED  BY <1>1, SSLInvariant, PTL

\* No TLS stream is given a second handshake, on the same conditions as ApplicationKnows.
THEOREM StreamsFresh == Spec => []FreshStream
<1>1. SSLInv => FreshStream  BY FreshStreamHolds
<1> QED  BY <1>1, SSLInvariant, PTL

\* A connection that is ready has its read, or its read's handler to come, or is ending.
THEOREM ReadLoopKept == Spec => []ReadLoopAlive
<1>1. SSLInv => ReadLoopAlive  BY ReadLoopAliveHolds
<1> QED  BY <1>1, SSLInvariant, PTL

\* The callbacks that come about an Impl come in the order of a connection, on the same
\* conditions as ApplicationKnows; that of its end need not come (EndIsTold).
THEOREM CallbacksInOrder == Spec => CallbacksFollow
<1>1. SSLInv /\ [Next]_vars => CallbackFollows  BY CallbacksStep
<1>2. SSLInv /\ [Next]_vars => [CallbackFollows]_vars  BY <1>1
<1> QED  BY <1>2, SSLInvariant, PTL DEF Spec, CallbacksFollow
=============================================================================
