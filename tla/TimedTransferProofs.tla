------------------------ MODULE TimedTransferProofs ------------------------
(***************************************************************************)
(* Proofs about TimedTransfer: a timed call returns only when both of its  *)
(* handlers have run, and one that succeeds returns the size of its        *)
(* transfer, for any callers, any number of calls and of connections.      *)
(***************************************************************************)
EXTENDS TimedTransfer, SequenceTheorems, FiniteSetTheorems, TLAPS

-----------------------------------------------------------------------------
(* Counting the handlers of a call.                                        *)

Indices(q, A) == {i \in 1..Len(q) : q[i] \in A}

LEMMA IndicesFinite ==
  ASSUME NEW q \in Seq(Handlers), NEW A
  PROVE  /\ IsFiniteSet(Indices(q, A)) /\ Count(q, A) = Cardinality(Indices(q, A))
         /\ Count(q, A) \in Nat
<1>1. Len(q) \in Nat  BY LenProperties
<1>2. IsFiniteSet(1..Len(q))  BY <1>1, FS_Interval
<1>3. Indices(q, A) \in SUBSET (1..Len(q))  BY DEF Indices
<1>4. IsFiniteSet(Indices(q, A))  BY <1>2, <1>3, FS_Subset
<1>5. Count(q, A) = Cardinality(Indices(q, A))  BY DEF Count, Indices
<1> QED  BY <1>4, <1>5, FS_CardinalityType

LEMMA CountSubset ==
  ASSUME NEW q \in Seq(Handlers), NEW A, NEW B, A \subseteq B
  PROVE  Count(q, A) <= Count(q, B)
<1>1. Indices(q, A) \in SUBSET Indices(q, B)  BY DEF Indices
<1> QED  BY <1>1, IndicesFinite, FS_Subset

LEMMA CountEmpty == \A A : Count(<<>>, A) = 0
<1> TAKE A
<1>1. <<>> \in Seq(Handlers) /\ Len(<<>>) = 0  BY EmptySeq
<1>2. Indices(<<>>, A) = {}  BY <1>1 DEF Indices
<1> QED  BY <1>1, <1>2, IndicesFinite, FS_EmptySet

LEMMA CountOne ==
  ASSUME NEW h \in Handlers, NEW A
  PROVE  Count(<<h>>, A) = One(h \in A)
<1>1. <<h>> \in Seq(Handlers) /\ Len(<<h>>) = 1 /\ <<h>>[1] = h  OBVIOUS
<1>2. Indices(<<h>>, A) = IF h \in A THEN {1} ELSE {}
  <2> DEFINE q == <<h>>
  <2>1. Len(q) = 1 /\ q[1] = h  OBVIOUS
  <2> HIDE DEF q
  <2>2. 1..Len(q) = {1}  BY <2>1
  <2>3. Indices(q, A) = IF h \in A THEN {1} ELSE {}  BY <2>1, <2>2 DEF Indices
  <2> QED  BY <2>3 DEF q
<1>3. Count(<<h>>, A) = Cardinality(Indices(<<h>>, A))  BY <1>1, IndicesFinite
<1> QED  BY <1>2, <1>3, FS_EmptySet, FS_Singleton DEF One

\* The handlers of two queues, one behind the other.
LEMMA CountConcat ==
  ASSUME NEW a \in Seq(Handlers), NEW b \in Seq(Handlers), NEW A
  PROVE  Count(a \o b, A) = Count(a, A) + Count(b, A)
<1> DEFINE q == a \o b
           I == Indices(a, A)
           J == Indices(b, A)
           S == Indices(q, A)
           L == S \ I
<1>1. /\ q \in Seq(Handlers) /\ Len(q) = Len(a) + Len(b)
      /\ Len(a) \in Nat /\ Len(b) \in Nat
      /\ \A i \in 1..(Len(a) + Len(b)) : q[i] = IF i <= Len(a) THEN a[i] ELSE b[i - Len(a)]
  BY ConcatProperties, LenProperties
<1> HIDE DEF q
<1>2. /\ \A i \in 1..Len(a) : i \in 1..Len(q) /\ q[i] = a[i]
      /\ \A i \in 1..Len(b) : /\ Len(a) + i \in 1..Len(q) /\ Len(a) + i \notin 1..Len(a)
                              /\ q[Len(a) + i] = b[i]
  <2>1. ASSUME NEW i \in 1..Len(a) PROVE i \in 1..Len(q) /\ q[i] = a[i]  BY <1>1
  <2>2. ASSUME NEW i \in 1..Len(b)
        PROVE  /\ Len(a) + i \in 1..Len(q) /\ Len(a) + i \notin 1..Len(a)
               /\ q[Len(a) + i] = b[i]
    <3>1. /\ Len(a) + i \in 1..(Len(a) + Len(b)) /\ ~(Len(a) + i <= Len(a))
          /\ (Len(a) + i) - Len(a) = i
      BY <1>1
    <3>2. q[Len(a) + i] = b[(Len(a) + i) - Len(a)]  BY <1>1, <3>1
    <3> QED  BY <1>1, <3>1, <3>2
  <2> QED  BY <2>1, <2>2
<1>3. I \subseteq S  BY <1>2 DEF Indices
<1>4. ASSUME NEW i \in L PROVE i - Len(a) \in J /\ Len(a) + (i - Len(a)) = i
  <2>1. i \in 1..Len(q) /\ q[i] \in A /\ ~(i \in 1..Len(a) /\ a[i] \in A)
    BY <1>4 DEF Indices
  <2>2. i \notin 1..Len(a)  BY <1>2, <2>1
  <2>3. i - Len(a) \in 1..Len(b) /\ q[i] = b[i - Len(a)] /\ Len(a) + (i - Len(a)) = i
    BY <1>1, <2>1, <2>2
  <2> QED  BY <2>1, <2>3 DEF Indices
<1>5. ASSUME NEW i \in J PROVE Len(a) + i \in L /\ i \in Int
  BY <1>2, <1>5 DEF Indices
<1>6. ExistsBijection(J, L)
  <2> DEFINE f == [i \in J |-> Len(a) + i]
  <2>1. f \in [J -> L]  BY <1>5
  <2>2. \A i, j \in J : f[i] = f[j] => i = j  BY <1>1, <1>5
  <2>3. \A t \in L : \E i \in J : f[i] = t  BY <1>4
  <2> HIDE DEF f
  <2>4. f \in Bijection(J, L)
    BY <2>1, <2>2, <2>3 DEF Bijection, Injection, Surjection, IsInjective
  <2> QED  BY <2>4 DEF ExistsBijection
<1>7. /\ IsFiniteSet(I) /\ IsFiniteSet(J) /\ Count(a, A) = Cardinality(I)
      /\ Count(b, A) = Cardinality(J) /\ Count(q, A) = Cardinality(S)
      /\ Count(a, A) \in Nat /\ Count(b, A) \in Nat
  BY <1>1, IndicesFinite
<1> HIDE DEF I, J, S
<1>8. IsFiniteSet(L) /\ Cardinality(L) = Cardinality(J)  BY <1>6, <1>7, FS_Bijection
<1>9. I \cap L = {} /\ I \cup L = S  BY <1>3
<1>10. Cardinality(S) = Cardinality(I) + Cardinality(L) - Cardinality(I \cap L)
  <2> HIDE DEF L
  <2> QED  BY <1>7, <1>8, <1>9, FS_Union
<1>11. Cardinality(I \cap L) = 0  BY <1>9, FS_EmptySet
<1>12. Count(q, A) = Count(a, A) + Count(b, A)  BY <1>7, <1>8, <1>10, <1>11
<1> QED  BY <1>12 DEF q

\* No handler of a timer in q says that the call succeeded.
NoneOk(q) == \A i \in 1..Len(q) : q[i].op = "Timer" => q[i].ec # "ok"

LEMMA NoneOkConcat ==
  ASSUME NEW a \in Seq(Handlers), NEW b \in Seq(Handlers), NoneOk(a), NoneOk(b)
  PROVE  NoneOk(a \o b)
<1> DEFINE q == a \o b
<1>1. /\ Len(q) = Len(a) + Len(b) /\ Len(a) \in Nat /\ Len(b) \in Nat
      /\ \A i \in 1..(Len(a) + Len(b)) : q[i] = IF i <= Len(a) THEN a[i] ELSE b[i - Len(a)]
  BY ConcatProperties, LenProperties
<1> HIDE DEF q
<1>2. ASSUME NEW i \in 1..Len(q), q[i].op = "Timer" PROVE q[i].ec # "ok"
  <2>1. CASE i <= Len(a)
    <3>1. i \in 1..Len(a) /\ q[i] = a[i]  BY <1>1, <2>1
    <3> QED  BY <1>2, <3>1 DEF NoneOk
  <2>2. CASE ~(i <= Len(a))
    <3>1. i - Len(a) \in 1..Len(b) /\ q[i] = b[i - Len(a)]  BY <1>1, <2>2
    <3> QED  BY <1>2, <3>1 DEF NoneOk
  <2> QED  BY <2>1, <2>2
<1> QED  BY <1>2 DEF NoneOk, q

\* Handlers are posted behind a queue.
LEMMA Posted ==
  ASSUME NEW q \in Seq(Handlers), NEW b \in Seq(Handlers), NoneOk(q), NoneOk(b)
  PROVE  /\ q \o b \in Seq(Handlers) /\ NoneOk(q \o b)
         /\ \A A : Count(q \o b, A) = Count(q, A) + Count(b, A)
BY ConcatProperties, NoneOkConcat, CountConcat

LEMMA PostedOne ==
  ASSUME NEW q \in Seq(Handlers), NoneOk(q),
         NEW h \in Handlers, h.op = "Timer" => h.ec # "ok"
  PROVE  /\ Append(q, h) \in Seq(Handlers) /\ NoneOk(Append(q, h))
         /\ \A A : Count(Append(q, h), A) = Count(q, A) + One(h \in A)
<1> DEFINE b == <<h>>
<1>1. Append(q, h) = q \o b  OBVIOUS
<1>2. b \in Seq(Handlers) /\ Len(b) = 1 /\ b[1] = h  OBVIOUS
<1>3. \A A : Count(b, A) = One(h \in A)  BY CountOne
<1> HIDE DEF b
<1>4. NoneOk(b)  BY <1>2 DEF NoneOk
<1>5. /\ q \o b \in Seq(Handlers) /\ NoneOk(q \o b)
      /\ \A A : Count(q \o b, A) = Count(q, A) + Count(b, A)
  BY <1>2, <1>4, Posted
<1> QED  BY <1>1, <1>3, <1>5

\* The first handler is taken from a queue.
LEMMA Taken ==
  ASSUME NEW q \in Seq(Handlers), q # <<>>, NoneOk(q)
  PROVE  /\ Head(q) \in Handlers /\ (Head(q).op = "Timer" => Head(q).ec # "ok")
         /\ Tail(q) \in Seq(Handlers) /\ NoneOk(Tail(q))
         /\ \A A : Count(Tail(q), A) = Count(q, A) - One(Head(q) \in A)
         /\ \A A : Head(q) \in A => Count(q, A) >= 1
<1> DEFINE h == Head(q)
           p == Tail(q)
<1>1. /\ h \in Handlers /\ p \in Seq(Handlers) /\ Len(q) \in Nat /\ Len(q) > 0 /\ q[1] = h
      /\ Len(p) = Len(q) - 1 /\ \A i \in 1..Len(p) : p[i] = q[i + 1]
  BY HeadTailProperties, LenProperties, EmptySeq
<1>2. q = <<h>> \o p
  <2>1. /\ <<h>> \in Seq(Handlers) /\ Len(<<h>>) = 1 /\ <<h>>[1] = h
    BY <1>1
  <2>2. /\ <<h>> \o p \in Seq(Handlers) /\ Len(<<h>> \o p) = 1 + Len(p)
        /\ \A i \in 1..(1 + Len(p)) : (<<h>> \o p)[i] = IF i <= 1 THEN h ELSE p[i - 1]
    BY <1>1, <2>1
  <2> HIDE DEF h, p
  <2>3. ASSUME NEW i \in 1..Len(q) PROVE q[i] = (<<h>> \o p)[i]
    <3>1. CASE i = 1  BY <1>1, <2>2, <3>1
    <3>2. CASE i # 1
      <4>1. i - 1 \in 1..Len(p) /\ (i - 1) + 1 = i /\ ~(i <= 1) /\ i \in 1..(1 + Len(p))
        BY <1>1, <3>2
      <4> QED  BY <1>1, <2>2, <4>1
    <3> QED  BY <3>1, <3>2
  <2>4. Len(q) = Len(<<h>> \o p)  BY <1>1, <2>2
  <2> QED  BY <2>2, <2>3, <2>4, SeqEqual
<1>3. NoneOk(p)
  <2> HIDE DEF h, p
  <2> SUFFICES ASSUME NEW i \in 1..Len(p), p[i].op = "Timer" PROVE p[i].ec # "ok"
    BY DEF NoneOk
  <2>1. i + 1 \in 1..Len(q)  BY <1>1
  <2> QED  BY <1>1, <2>1 DEF NoneOk
<1>4. h.op = "Timer" => h.ec # "ok"
  <2>1. 1 \in 1..Len(q)  BY <1>1
  <2> QED  BY <1>1, <2>1 DEF NoneOk
<1> HIDE DEF h, p
<1>5. ASSUME NEW A
      PROVE  Count(q, A) = One(h \in A) + Count(p, A) /\ Count(p, A) \in Nat
  <2> DEFINE b == <<h>>
  <2>1. b \in Seq(Handlers) /\ q = b \o p  BY <1>1, <1>2
  <2>2. Count(b, A) = One(h \in A)  BY <1>1, CountOne
  <2> HIDE DEF b
  <2>3. Count(b \o p, A) = Count(b, A) + Count(p, A)  BY <1>1, <2>1, CountConcat
  <2>4. Count(p, A) \in Nat  BY <1>1, IndicesFinite
  <2> QED  BY <2>1, <2>2, <2>3, <2>4
<1>6. ASSUME NEW A
      PROVE  /\ Count(p, A) = Count(q, A) - One(h \in A)
             /\ h \in A => Count(q, A) >= 1
  BY <1>5 DEF One
<1> QED  BY <1>1, <1>3, <1>4, <1>6 DEF h, p

\* Whose handlers they are.
LEMMA TimerOf ==
  ASSUME NEW c \in Callers, NEW ec \in Errors
  PROVE  /\ Timer(c, ec) \in Handlers /\ Timer(c, ec).op = "Timer" /\ Timer(c, ec).ec = ec
         /\ \A d : (Timer(c, ec) \in Of(d) <=> d = c) /\ Timer(c, ec) \notin TransfersOf(d)
BY DEF Timer, Handlers, Of, TransfersOf

LEMMA TransferOf ==
  ASSUME NEW c \in Callers, NEW ec \in Errors, NEW n \in {0, 1}
  PROVE  /\ Transfer(c, ec, n) \in Handlers /\ Transfer(c, ec, n).op = "Transfer"
         /\ \A d : /\ Transfer(c, ec, n) \in Of(d) <=> d = c
                   /\ Transfer(c, ec, n) \in TransfersOf(d) <=> d = c
BY DEF Transfer, Handlers, Of, TransfersOf

LEMMA ReadOf ==
  ASSUME NEW ec \in Errors
  PROVE  /\ Read(ec) \in Handlers /\ Read(ec).op = "Read"
         /\ \A d : Read(ec) \notin Of(d) /\ Read(ec) \notin TransfersOf(d)
BY DEF Read, Handlers, Of, TransfersOf

\* Closing or cancelling the socket queues one handler for each outstanding transfer.
LEMMA AbortedTypes ==
  ASSUME IsFiniteSet(transfers), transfers \subseteq Callers
  PROVE  /\ Aborted \in Seq(Handlers) /\ NoneOk(Aborted)
         /\ \A c : /\ Count(Aborted, Of(c)) = One(c \in transfers)
                   /\ Count(Aborted, TransfersOf(c)) = One(c \in transfers)
<1> DEFINE aborted(c) == Transfer(c, "aborted", 0)
           S == {aborted(c) : c \in transfers}
           n == Cardinality(S)
           g == SetToSeq(S)
           r == IF reading THEN <<Read("aborted")>> ELSE <<>>
<1>1. IsFiniteSet(S)
  <2> DEFINE f == [c \in transfers |-> aborted(c)]
  <2>1. f \in [transfers -> S]  OBVIOUS
  <2>2. \A c, d \in transfers : f[c] = f[d] => c = d  BY DEF Transfer
  <2>3. \A h \in S : \E c \in transfers : f[c] = h  OBVIOUS
  <2> HIDE DEF f, S
  <2>4. f \in Bijection(transfers, S)
    BY <2>1, <2>2, <2>3 DEF Bijection, Injection, Surjection, IsInjective
  <2> QED  BY <2>4, FS_Bijection DEF ExistsBijection
<1>2. \A c \in Callers : /\ aborted(c) \in Handlers /\ aborted(c).op = "Transfer"
                         /\ \A d : /\ aborted(c) \in Of(d) <=> d = c
                                   /\ aborted(c) \in TransfersOf(d) <=> d = c
  BY TransferOf DEF Errors
<1> HIDE DEF aborted
<1>3. g \in Injection(1..n, S) /\ n \in Nat
  <2> HIDE DEF S
  <2>1. n \in Nat /\ ExistsBijection(1..n, S)  BY <1>1, FS_CardinalityType
  <2>2. \E f \in [1..n -> S] : IsInjective(f)
    BY <2>1 DEF ExistsBijection, Bijection, Injection
  <2>3. g \in [1..n -> S] /\ IsInjective(g)  BY <2>2 DEF SetToSeq
  <2> QED  BY <2>1, <2>3 DEF Injection
<1>4. g \in Surjection(1..n, S)
  <2> HIDE DEF S, g
  <2>1. n \in Nat  BY <1>3
  <2>2. Cardinality(1..n) = n
    <3> HIDE DEF n
    <3> QED  BY <2>1, FS_Interval
  <2> QED  BY <1>1, <1>3, <2>2, FS_Injection
<1>5. /\ g \in Seq(Handlers) /\ Len(g) = n
      /\ \A i \in 1..n : g[i] \in S
      /\ \A i, j \in 1..n : g[i] = g[j] => i = j
      /\ \A h \in S : \E i \in 1..n : g[i] = h
  <2>1. S \subseteq Handlers  BY <1>2
  <2> HIDE DEF S, g, n
  <2>2. g \in [1..n -> S] /\ \A i, j \in 1..n : g[i] = g[j] => i = j
    BY <1>3 DEF Injection, IsInjective
  <2>3. \A h \in S : \E i \in 1..n : g[i] = h  BY <1>4 DEF Surjection
  <2>4. g \in Seq(Handlers) /\ Len(g) = n  BY <1>3, <2>1, <2>2
  <2> QED  BY <2>2, <2>3, <2>4
<1>6. NoneOk(g)
  <2>1. \A h \in S : h.op = "Transfer"  BY <1>2
  <2> HIDE DEF S, g, n
  <2> QED  BY <1>5, <2>1 DEF NoneOk
<1>7. ASSUME NEW c, NEW A, \A d \in Callers : aborted(d) \in A <=> d = c
      PROVE  Count(g, A) = One(c \in transfers)
  <2>1. \A h \in S : h \in A => c \in transfers /\ h = aborted(c)  BY <1>7
  <2>2. c \in transfers => aborted(c) \in S /\ aborted(c) \in A  BY <1>7
  <2> HIDE DEF S, g, n
  <2>3. Count(g, A) = Cardinality(Indices(g, A)) /\ IsFiniteSet(Indices(g, A))
    BY <1>5, IndicesFinite
  <2>4. CASE c \in transfers
    <3>1. PICK i \in 1..n : g[i] = aborted(c)  BY <1>5, <2>2, <2>4
    <3>2. Indices(g, A) = {i}  BY <1>5, <2>1, <2>2, <2>4, <3>1 DEF Indices
    <3> QED  BY <2>3, <2>4, <3>2, FS_Singleton DEF One
  <2>5. CASE c \notin transfers
    <3>1. Indices(g, A) = {}  BY <1>5, <2>1, <2>5 DEF Indices
    <3> QED  BY <2>3, <2>5, <3>1, FS_EmptySet DEF One
  <2> QED  BY <2>4, <2>5
<1>8. /\ r \in Seq(Handlers) /\ NoneOk(r)
      /\ \A c : Count(r, Of(c)) = 0 /\ Count(r, TransfersOf(c)) = 0
  <2> DEFINE m == Read("aborted")
  <2>1. m \in Handlers /\ m.op = "Read" /\ \A c : m \notin Of(c) /\ m \notin TransfersOf(c)
    BY ReadOf DEF Errors
  <2>2. r = IF reading THEN <<m>> ELSE <<>>  OBVIOUS
  <2> HIDE DEF m, r
  <2>3. CASE reading
    <3>1. /\ <<m>> \in Seq(Handlers) /\ Len(<<m>>) = 1 /\ <<m>>[1] = m
          /\ \A A : Count(<<m>>, A) = One(m \in A)
      BY <2>1, CountOne
    <3>2. NoneOk(<<m>>)  BY <2>1, <3>1 DEF NoneOk
    <3>3. \A c : Count(<<m>>, Of(c)) = 0 /\ Count(<<m>>, TransfersOf(c)) = 0
      BY <2>1, <3>1 DEF One
    <3> QED  BY <2>2, <2>3, <3>1, <3>2, <3>3
  <2>4. CASE ~reading
    <3>1. <<>> \in Seq(Handlers) /\ NoneOk(<<>>)  BY DEF NoneOk
    <3> QED  BY <2>2, <2>4, <3>1, CountEmpty
  <2> QED  BY <2>3, <2>4
<1>9. Aborted = g \o r  BY DEF Aborted, aborted
<1> HIDE DEF g, r
<1>10. /\ g \o r \in Seq(Handlers) /\ NoneOk(g \o r)
       /\ \A A : Count(g \o r, A) = Count(g, A) + Count(r, A)
  BY <1>5, <1>6, <1>8, Posted
<1>11. \A c : /\ Count(g, Of(c)) = One(c \in transfers)
              /\ Count(g, TransfersOf(c)) = One(c \in transfers)
  <2> TAKE c
  <2>1. \A d \in Callers : aborted(d) \in Of(c) <=> d = c  BY <1>2
  <2>2. \A d \in Callers : aborted(d) \in TransfersOf(c) <=> d = c  BY <1>2
  <2>3. Count(g, Of(c)) = One(c \in transfers)  BY <1>7, <2>1
  <2>4. Count(g, TransfersOf(c)) = One(c \in transfers)  BY <1>7, <2>2
  <2> QED  BY <2>3, <2>4
<1>12. \A b : One(b) + 0 = One(b)  BY DEF One
<1> QED  BY <1>8, <1>9, <1>10, <1>11, <1>12


-----------------------------------------------------------------------------
(* What a call is owed: handlers that are queued, and operations that will *)
(* queue theirs.                                                           *)

Owed(c) == Count(queue, Of(c)) + One(c \in armed) + One(c \in transfers)
\* The transfers among them.
Sent(c) == Count(queue, TransfersOf(c)) + One(c \in transfers)
Owes(c) == IF Started(c) # 0 THEN Started(c) - done[c] ELSE 0
Sends(c) == One(pc[c] = "waiting" /\ ~(done[c] >= 1 /\ error[c] = "ok"))

LEMMA OwedNow ==
  ASSUME TypeOK, TwoHandlers
  PROVE  /\ \A c \in Callers : Owed(c) = Owes(c)
         /\ \A A : Count(queue, A) \in Nat
<1>1. \A A : Count(queue, A) \in Nat  BY IndicesFinite DEF TypeOK
<1>2. ASSUME NEW c \in Callers
      PROVE  Owed(c) = Owes(c)
  <2>1. done[c] \in 0..2 /\ done[c] * 1 = done[c] /\ done[c] * 0 = 0  BY DEF TypeOK
  <2>2. /\ One(Started(c) # 0) = IF Started(c) # 0 THEN 1 ELSE 0
        /\ Started(c) \in 0..2
    BY DEF One, Started
  <2>3. One(c \in armed) \in Nat /\ One(c \in transfers) \in Nat  BY DEF One
  <2>4. done[c] * One(Started(c) # 0) + Count(queue, Of(c)) + One(c \in armed)
            + One(c \in transfers) = Started(c)
    BY DEF TwoHandlers, Pending
  <2> QED  BY <1>1, <2>1, <2>2, <2>3, <2>4 DEF Owed, Owes
<1> QED  BY <1>1, <1>2

LEMMA OwedNext ==
  ASSUME TypeOK',
         \A c \in Callers : Owed(c)' = Owes(c)'
  PROVE  TwoHandlers'
<1>1. \A A : Count(queue', A) \in Nat  BY IndicesFinite DEF TypeOK
<1>2. ASSUME NEW c \in Callers
      PROVE  done'[c] * One(Started(c)' # 0) + Count(queue', Of(c)) + One(c \in armed')
                 + One(c \in transfers') = Started(c)'
  <2>1. done'[c] \in 0..2 /\ done'[c] * 1 = done'[c] /\ done'[c] * 0 = 0  BY DEF TypeOK
  <2>2. /\ One(Started(c)' # 0) = IF Started(c)' # 0 THEN 1 ELSE 0
        /\ Started(c)' \in 0..2
    BY DEF One, Started
  <2>3. One(c \in armed') \in Nat /\ One(c \in transfers') \in Nat  BY DEF One
  <2>4. Count(queue', Of(c)) + One(c \in armed') + One(c \in transfers')
            = IF Started(c)' # 0 THEN Started(c)' - done'[c] ELSE 0
    BY DEF Owed, Owes
  <2> QED  BY <1>1, <2>1, <2>2, <2>3, <2>4
<1> QED  BY <1>2 DEF TwoHandlers, Pending

\* What the steps that call no handler leave alone.
CallVars == <<pc, done, error, size, moved, storing, calls>>

\* Steps that only move what a call is owed from one place to another.
LEMMA OwedMoves ==
  ASSUME TransferInv, UNCHANGED CallVars,
         TypeOK', IsFiniteSet(transfers'), NoneOk(queue'),
         \A c \in Callers : Owed(c)' = Owed(c) /\ Sent(c)' = Sent(c)
  PROVE  TransferInv'
<1>1. /\ pc' = pc /\ done' = done /\ error' = error /\ size' = size /\ moved' = moved
      /\ storing' = storing /\ calls' = calls
  BY DEF CallVars
<1>2. TwoHandlers'
  <2>1. TypeOK /\ TwoHandlers  BY DEF TransferInv
  <2>2. \A c \in Callers : Owed(c) = Owes(c)
    BY <2>1, OwedNow
  <2>3. \A c \in Callers : Owes(c)' = Owes(c)  BY <1>1 DEF Owes, Started
  <2> QED  BY <2>2, <2>3, OwedNext
<1>3. TimerInv'  BY <1>1 DEF TransferInv, TimerInv, NoneOk
<1>4. StoringInv' /\ SizeInv'
  BY <1>1 DEF TransferInv, StoringInv, SizeInv, InTime
<1>5. \A c \in Callers : pc'[c] # "idle" => calls'[c] >= 1  BY <1>1 DEF TransferInv
<1>6. OnceInv'
  <2>1. \A c \in Callers : Sent(c) <= Sends(c)  BY DEF TransferInv, OnceInv, Sent, Sends
  <2>2. \A c \in Callers : Sent(c)' <= Sends(c)'  BY <1>1, <2>1 DEF Sends
  <2> QED  BY <2>2 DEF OnceInv, Sent, Sends
<1> QED  BY <1>2, <1>3, <1>4, <1>5, <1>6 DEF TransferInv

LEMMA TransferFacts ==
  ASSUME TransferInv
  PROVE  /\ TypeOK /\ NoneOk(queue) /\ queue \in Seq(Handlers)
         /\ IsFiniteSet(transfers) /\ transfers \subseteq Callers
         /\ \A A : Count(queue, A) \in Nat
         /\ \A c \in Callers : Owed(c) = Owes(c) /\ Sent(c) <= Sends(c)
<1>1. TypeOK /\ TwoHandlers /\ TimerInv /\ IsFiniteSet(transfers)  BY DEF TransferInv
<1>2. NoneOk(queue)  BY <1>1 DEF TimerInv, NoneOk
<1>3. queue \in Seq(Handlers) /\ transfers \subseteq Callers  BY <1>1 DEF TypeOK
<1>4. \A c \in Callers : Sent(c) <= Sends(c)  BY DEF TransferInv, OnceInv, Sent, Sends
<1> QED  BY <1>1, <1>2, <1>3, <1>4, OwedNow

-----------------------------------------------------------------------------
(* Operations that end, and the connection.                                *)

LEMMA TimerExpiresInv ==
  ASSUME TransferInv, NEW c \in Callers, TimerExpires(c)
  PROVE  TransferInv'
<1> DEFINE h == Timer(c, "timed_out")
<1>1. /\ h \in Handlers /\ h.op = "Timer" /\ h.ec = "timed_out"
      /\ \A d : (h \in Of(d) <=> d = c) /\ h \notin TransfersOf(d)
  <2>1. c \in Callers /\ "timed_out" \in Errors  BY DEF Errors
  <2> QED  BY <2>1, TimerOf
<1>2. /\ c \in armed /\ armed' = armed \ {c} /\ queue' = Append(queue, h)
      /\ UNCHANGED <<transfers, connection>> /\ UNCHANGED CallVars
  BY DEF TimerExpires, CallVars
<1> HIDE DEF h
<1>3. /\ queue' \in Seq(Handlers) /\ NoneOk(queue')
      /\ \A A : Count(queue', A) = Count(queue, A) + One(h \in A)
  BY <1>1, <1>2, TransferFacts, PostedOne
<1>4. TypeOK'  BY <1>2, <1>3, TransferFacts DEF TypeOK, CallVars, connection
<1>5. ASSUME NEW d \in Callers PROVE Owed(d)' = Owed(d) /\ Sent(d)' = Sent(d)
  <2>1. Count(queue, Of(d)) \in Nat /\ Count(queue, TransfersOf(d)) \in Nat  BY TransferFacts
  <2>2. /\ Count(queue', Of(d)) = Count(queue, Of(d)) + One(d = c)
        /\ Count(queue', TransfersOf(d)) = Count(queue, TransfersOf(d))
    BY <1>1, <1>3, <2>1 DEF One
  <2>3. One(d \in armed) = One(d = c) + One(d \in armed')  BY <1>2 DEF One
  <2>4. /\ One(d = c) \in Nat /\ One(d \in armed') \in Nat /\ One(d \in transfers) \in Nat
        /\ transfers' = transfers
    BY <1>2 DEF One
  <2> QED  BY <2>1, <2>2, <2>3, <2>4 DEF Owed, Sent
<1> QED  BY <1>2, <1>3, <1>4, <1>5, TransferFacts, OwedMoves

LEMMA TransferEndsInv ==
  ASSUME TransferInv, NEW c \in Callers, NEW ec \in {"ok", "failed"}, TransferEnds(c, ec)
  PROVE  TransferInv'
<1> DEFINE h == Transfer(c, ec, IF ec = "ok" THEN 1 ELSE 0)
<1>1. /\ h \in Handlers /\ h.op = "Transfer"
      /\ \A d : (h \in Of(d) <=> d = c) /\ (h \in TransfersOf(d) <=> d = c)
  <2>1. ec \in Errors /\ (IF ec = "ok" THEN 1 ELSE 0) \in {0, 1}  BY DEF Errors
  <2> QED  BY <2>1, TransferOf
<1>2. /\ c \in transfers /\ transfers' = transfers \ {c} /\ queue' = Append(queue, h)
      /\ UNCHANGED <<armed, connection>> /\ UNCHANGED CallVars
  BY DEF TransferEnds, CallVars
<1> HIDE DEF h
<1>3. /\ queue' \in Seq(Handlers) /\ NoneOk(queue')
      /\ \A A : Count(queue', A) = Count(queue, A) + One(h \in A)
  BY <1>1, <1>2, TransferFacts, PostedOne
<1>4. TypeOK'  BY <1>2, <1>3, TransferFacts DEF TypeOK, CallVars, connection
<1>5. ASSUME NEW d \in Callers PROVE Owed(d)' = Owed(d) /\ Sent(d)' = Sent(d)
  <2>1. Count(queue, Of(d)) \in Nat /\ Count(queue, TransfersOf(d)) \in Nat  BY TransferFacts
  <2>2. /\ Count(queue', Of(d)) = Count(queue, Of(d)) + One(d = c)
        /\ Count(queue', TransfersOf(d)) = Count(queue, TransfersOf(d)) + One(d = c)
    BY <1>1, <1>3 DEF One
  <2>3. One(d \in transfers) = One(d = c) + One(d \in transfers')  BY <1>2 DEF One
  <2>4. /\ One(d = c) \in Nat /\ One(d \in transfers') \in Nat /\ One(d \in armed) \in Nat
        /\ armed' = armed
    BY <1>2 DEF One
  <2> QED  BY <2>1, <2>2, <2>3, <2>4 DEF Owed, Sent
<1>6. IsFiniteSet(transfers')  BY <1>2, TransferFacts, FS_RemoveElement
<1> QED  BY <1>2, <1>3, <1>4, <1>5, <1>6, OwedMoves

LEMMA ReadEndsInv ==
  ASSUME TransferInv, NEW ec \in {"ok", "failed"}, ReadEnds(ec)
  PROVE  TransferInv'
<1> DEFINE h == Read(ec)
<1>1. /\ h \in Handlers /\ h.op = "Read"
      /\ \A d : h \notin Of(d) /\ h \notin TransfersOf(d)
  <2>1. ec \in Errors  BY DEF Errors
  <2> QED  BY <2>1, ReadOf
<1>2. /\ reading' = FALSE /\ queue' = Append(queue, h)
      /\ UNCHANGED <<armed, transfers, connected, connects, dropped>>
      /\ UNCHANGED CallVars
  BY DEF ReadEnds, CallVars, call
<1> HIDE DEF h
<1>3. /\ queue' \in Seq(Handlers) /\ NoneOk(queue')
      /\ \A A : Count(queue', A) = Count(queue, A) + One(h \in A)
  BY <1>1, <1>2, TransferFacts, PostedOne
<1>4. TypeOK'  BY <1>2, <1>3, TransferFacts DEF TypeOK, CallVars
<1>5. ASSUME NEW d \in Callers PROVE Owed(d)' = Owed(d) /\ Sent(d)' = Sent(d)
  <2>1. Count(queue, Of(d)) \in Nat /\ Count(queue, TransfersOf(d)) \in Nat  BY TransferFacts
  <2>2. /\ Count(queue', Of(d)) = Count(queue, Of(d))
        /\ Count(queue', TransfersOf(d)) = Count(queue, TransfersOf(d))
    BY <1>1, <1>3, <2>1 DEF One
  <2> QED  BY <1>2, <2>2 DEF Owed, Sent
<1>6. IsFiniteSet(transfers')  BY <1>2, TransferFacts
<1> QED  BY <1>2, <1>3, <1>4, <1>5, <1>6, OwedMoves

LEMMA ConnectInv ==
  ASSUME TransferInv, Connect
  PROVE  TransferInv'
<1>1. /\ connected' = TRUE /\ reading' = TRUE
      /\ connects < MaxConnects /\ connects' = connects + 1
      /\ UNCHANGED <<armed, transfers, dropped, queue>> /\ UNCHANGED CallVars
  BY DEF Connect, CallVars, call
<1>2. TypeOK'
  <2>1. connects' \in 0..MaxConnects  BY <1>1, TransferFacts, TransferBounds DEF TypeOK
  <2> QED  BY <1>1, <2>1, TransferFacts DEF TypeOK, CallVars
<1>3. \A d \in Callers : Owed(d)' = Owed(d) /\ Sent(d)' = Sent(d)
  BY <1>1 DEF Owed, Sent
<1> QED  BY <1>1, <1>2, <1>3, TransferFacts, OwedMoves

\* The socket is closed, and with it the transfers are aborted.
LEMMA Dropped ==
  ASSUME TransferInv, NEW q \in Seq(Handlers), NoneOk(q), NEW cause \in Errors,
         Disconnect(cause), queue' = IF connected THEN q \o Aborted ELSE q
  PROVE  /\ queue' \in Seq(Handlers) /\ NoneOk(queue')
         /\ transfers' \subseteq transfers /\ IsFiniteSet(transfers')
         /\ connected' \in BOOLEAN /\ reading' \in BOOLEAN /\ dropped' \subseteq Errors
         /\ \A c : /\ Count(queue', Of(c)) + One(c \in transfers')
                         = Count(q, Of(c)) + One(c \in transfers)
                   /\ Count(queue', TransfersOf(c)) + One(c \in transfers')
                         = Count(q, TransfersOf(c)) + One(c \in transfers)
<1>1. /\ Aborted \in Seq(Handlers) /\ NoneOk(Aborted)
      /\ \A c : /\ Count(Aborted, Of(c)) = One(c \in transfers)
                /\ Count(Aborted, TransfersOf(c)) = One(c \in transfers)
  BY TransferFacts, AbortedTypes
<1>2. CASE connected
  <2>1. connected' = FALSE /\ reading' = FALSE /\ transfers' = {}
        /\ dropped' = dropped \cup {cause}
    BY <1>2 DEF Disconnect
  <2>2. /\ queue' \in Seq(Handlers) /\ NoneOk(queue')
        /\ \A A : Count(queue', A) = Count(q, A) + Count(Aborted, A)
    BY <1>1, <1>2, Posted
  <2>3. \A c : One(c \in transfers') = 0 /\ One(c \in transfers) \in Nat
    BY <2>1 DEF One
  <2>4. \A A : Count(q, A) \in Nat  BY IndicesFinite
  <2>5. \A c : /\ Count(queue', Of(c)) + One(c \in transfers')
                     = Count(q, Of(c)) + One(c \in transfers)
               /\ Count(queue', TransfersOf(c)) + One(c \in transfers')
                     = Count(q, TransfersOf(c)) + One(c \in transfers)
    <3> TAKE c
    <3>1. /\ Count(queue', Of(c)) = Count(q, Of(c)) + One(c \in transfers)
          /\ Count(queue', TransfersOf(c)) = Count(q, TransfersOf(c)) + One(c \in transfers)
      BY <1>1, <2>2
    <3>2. Count(q, Of(c)) \in Nat /\ Count(q, TransfersOf(c)) \in Nat  BY <2>4
    <3> QED  BY <2>3, <3>1, <3>2
  <2>6. dropped \subseteq Errors  BY TransferFacts DEF TypeOK
  <2> QED  BY <2>1, <2>2, <2>5, <2>6, FS_EmptySet
<1>3. CASE ~connected
  <2>1. UNCHANGED <<connected, reading, transfers, dropped>> /\ queue' = q
    BY <1>3 DEF Disconnect
  <2> QED  BY <2>1, TransferFacts DEF TypeOK
<1>4. connected \in BOOLEAN  BY TransferFacts DEF TypeOK
<1> QED  BY <1>2, <1>3, <1>4


-----------------------------------------------------------------------------
(* Handlers.                                                               *)

LEMMA ReadHandlerInv ==
  ASSUME TransferInv, ReadHandler
  PROVE  TransferInv'
<1> DEFINE h == Head(queue)
           q == Tail(queue)
<1>1. /\ queue # <<>> /\ h.op = "Read" /\ UNCHANGED <<armed, connects>> /\ UNCHANGED CallVars
      /\ \/ /\ reading' = TRUE /\ queue' = q
            /\ UNCHANGED <<connected, transfers, dropped>>
         \/ connected /\ Disconnect(h.ec) /\ queue' = q \o Aborted
         \/ /\ queue' = q /\ UNCHANGED <<connected, reading, transfers, dropped>>
  BY DEF ReadHandler, Ready, CallVars
<1>2. /\ h \in Handlers /\ q \in Seq(Handlers) /\ NoneOk(q)
      /\ \A A : Count(q, A) = Count(queue, A) - One(h \in A)
  BY <1>1, TransferFacts, Taken
<1>3. h.ec \in Errors  BY <1>1, <1>2 DEF Handlers
<1>4. \A c : /\ Count(q, Of(c)) = Count(queue, Of(c))
             /\ Count(q, TransfersOf(c)) = Count(queue, TransfersOf(c))
  <2> TAKE c
  <2>1. h \notin Of(c) /\ h \notin TransfersOf(c)  BY <1>1 DEF Of, TransfersOf
  <2>2. Count(queue, Of(c)) \in Nat /\ Count(queue, TransfersOf(c)) \in Nat
    BY TransferFacts
  <2> HIDE DEF h, q
  <2> QED  BY <1>2, <2>1, <2>2 DEF One
<1> HIDE DEF h, q
<1>5. /\ queue' \in Seq(Handlers) /\ NoneOk(queue')
      /\ transfers' \subseteq transfers /\ IsFiniteSet(transfers')
      /\ connected' \in BOOLEAN /\ reading' \in BOOLEAN /\ dropped' \subseteq Errors
      /\ \A c : /\ Count(queue', Of(c)) + One(c \in transfers')
                      = Count(q, Of(c)) + One(c \in transfers)
                /\ Count(queue', TransfersOf(c)) + One(c \in transfers')
                      = Count(q, TransfersOf(c)) + One(c \in transfers)
  <2>1. CASE connected /\ Disconnect(h.ec) /\ queue' = q \o Aborted
    BY <1>2, <1>3, <2>1, Dropped
  <2>2. CASE queue' = q /\ reading' \in BOOLEAN /\ UNCHANGED <<connected, transfers, dropped>>
    BY <1>2, <2>2, TransferFacts DEF TypeOK
  <2>3. reading \in BOOLEAN  BY TransferFacts DEF TypeOK
  <2> QED  BY <1>1, <2>1, <2>2, <2>3
<1>6. TypeOK'  BY <1>1, <1>5, TransferFacts DEF TypeOK, CallVars
<1>7. ASSUME NEW d \in Callers PROVE Owed(d)' = Owed(d) /\ Sent(d)' = Sent(d)
  <2>1. /\ One(d \in armed) \in Nat /\ One(d \in transfers) \in Nat
        /\ One(d \in transfers') \in Nat /\ armed' = armed
    BY <1>1 DEF One
  <2>2. \A A : Count(queue', A) \in Nat /\ Count(queue, A) \in Nat
    BY <1>5, TransferFacts, IndicesFinite
  <2>3. /\ Count(queue', Of(d)) + One(d \in transfers')
              = Count(queue, Of(d)) + One(d \in transfers)
        /\ Count(queue', TransfersOf(d)) + One(d \in transfers')
              = Count(queue, TransfersOf(d)) + One(d \in transfers)
    BY <1>4, <1>5
  <2>4. /\ Count(queue', Of(d)) \in Nat /\ Count(queue, Of(d)) \in Nat
    BY <2>2
  <2>5. Owed(d)' = Owed(d)  BY <2>1, <2>3, <2>4 DEF Owed
  <2>6. Sent(d)' = Sent(d)  BY <2>3 DEF Sent
  <2> QED  BY <2>5, <2>6
<1> QED  BY <1>1, <1>5, <1>6, <1>7, OwedMoves

\* What a signal does: the call is owed one handler less.
LEMMA SignalFacts ==
  ASSUME TransferInv, queue # <<>>, NEW c \in Callers, NEW ec \in Errors,
         \A d : Head(queue) \in Of(d) <=> d = c,
         Signal(c, ec)
  PROVE  /\ pc[c] \in {"timing", "waiting"} /\ done[c] \in {0, 1} /\ calls[c] >= 1
         /\ pc[c] = "timing" => done[c] = 0
         /\ done' = [done EXCEPT ![c] = @ + 1]
         /\ error' = IF done[c] = 0 THEN [error EXCEPT ![c] = ec] ELSE error
         /\ queue' \in Seq(Handlers) /\ NoneOk(queue')
         /\ armed' \subseteq Callers /\ transfers' \subseteq Callers
         /\ IsFiniteSet(transfers') /\ reading' \in BOOLEAN
         /\ \A d \in Callers : /\ Owed(d)' = Owed(d) - One(d = c)
                               /\ Sent(d)' = Sent(d) - One(Head(queue) \in TransfersOf(d))
<1> DEFINE h == Head(queue)
           q == Tail(queue)
<1>1. /\ h \in Handlers /\ q \in Seq(Handlers) /\ NoneOk(q)
      /\ \A A : Count(q, A) = Count(queue, A) - One(h \in A)
      /\ \A A : h \in A => Count(queue, A) >= 1
  BY TransferFacts, Taken
<1>2. \A d : h \in Of(d) <=> d = c  OBVIOUS
<1>3. \A d : Count(q, Of(d)) = Count(queue, Of(d)) - One(d = c)  BY <1>1, <1>2 DEF One
<1>4. Count(queue, Of(c)) >= 1  BY <1>1, <1>2
<1>5. /\ pc[c] \in {"timing", "waiting"} /\ done[c] \in {0, 1} /\ calls[c] >= 1
      /\ pc[c] = "timing" => done[c] = 0
  <2>1. Owed(c) = IF Started(c) # 0 THEN Started(c) - done[c] ELSE 0
    BY TransferFacts DEF Owes
  <2>2. /\ Count(queue, Of(c)) \in Nat /\ One(c \in armed) \in Nat /\ One(c \in transfers) \in Nat
        /\ done[c] \in 0..2
    BY TransferFacts DEF One, TypeOK
  <2>3. Owed(c) >= 1  BY <1>4, <2>2 DEF Owed
  <2>4. /\ pc[c] \in {"timing", "waiting"} /\ done[c] \in {0, 1}
        /\ pc[c] = "timing" => done[c] = 0
    BY <2>1, <2>2, <2>3 DEF Started
  <2> QED  BY <2>4 DEF TransferInv
<1>6. /\ done' = [done EXCEPT ![c] = @ + 1]
      /\ error' = IF done[c] = 0 THEN [error EXCEPT ![c] = ec] ELSE error
  BY DEF Signal
<1> HIDE DEF h
<1> DEFINE b == IF c \in armed THEN <<Timer(c, "aborted")>> ELSE <<>>
<1>7. CASE done[c] = 0
  <2>1. /\ transfers' = {} /\ reading' = FALSE /\ armed' = armed \ {c}
        /\ queue' = q \o Aborted \o b
    BY <1>7 DEF Signal
  <2>2. /\ b \in Seq(Handlers) /\ NoneOk(b)
        /\ \A d : /\ Count(b, Of(d)) = One(d = c /\ c \in armed)
                  /\ Count(b, TransfersOf(d)) = 0
    <3> DEFINE m == Timer(c, "aborted")
    <3>1. /\ m \in Handlers /\ m.op = "Timer" /\ m.ec = "aborted"
          /\ \A d : (m \in Of(d) <=> d = c) /\ m \notin TransfersOf(d)
      <4>1. "aborted" \in Errors  BY DEF Errors
      <4> QED  BY <4>1, TimerOf
    <3> HIDE DEF m
    <3>2. /\ <<m>> \in Seq(Handlers) /\ Len(<<m>>) = 1 /\ <<m>>[1] = m
          /\ \A A : Count(<<m>>, A) = One(m \in A)
      BY <3>1, CountOne
    <3>3. NoneOk(<<m>>)  BY <3>1, <3>2 DEF NoneOk
    <3>4. <<>> \in Seq(Handlers) /\ NoneOk(<<>>)  BY DEF NoneOk
    <3>5. b = IF c \in armed THEN <<m>> ELSE <<>>  BY DEF m
    <3> HIDE DEF b
    <3>6. CASE c \in armed  BY <3>1, <3>2, <3>3, <3>5, <3>6 DEF One
    <3>7. CASE c \notin armed  BY <3>4, <3>5, <3>7, CountEmpty DEF One
    <3> QED  BY <3>6, <3>7
  <2>3. /\ Aborted \in Seq(Handlers) /\ NoneOk(Aborted)
        /\ \A d : /\ Count(Aborted, Of(d)) = One(d \in transfers)
                  /\ Count(Aborted, TransfersOf(d)) = One(d \in transfers)
    BY TransferFacts, AbortedTypes
  <2> HIDE DEF b, q
  <2> DEFINE a == q \o Aborted
  <2>4. a \in Seq(Handlers) /\ NoneOk(a) /\ \A A : Count(a, A) = Count(q, A) + Count(Aborted, A)
    BY <1>1, <2>3, Posted
  <2>5. queue' = a \o b  BY <2>1
  <2> HIDE DEF a
  <2>6. queue' \in Seq(Handlers) /\ NoneOk(queue')
        /\ \A A : Count(queue', A) = Count(a, A) + Count(b, A)
    BY <2>2, <2>4, <2>5, Posted
  <2>7. ASSUME NEW d \in Callers
        PROVE  /\ Owed(d)' = Owed(d) - One(d = c)
               /\ Sent(d)' = Sent(d) - One(h \in TransfersOf(d))
    <3>1. Count(queue', Of(d)) = Count(queue, Of(d)) - One(d = c) + One(d \in transfers)
                                + One(d = c /\ c \in armed)
      BY <1>3, <2>2, <2>3, <2>4, <2>6
    <3>2. One(d \in transfers') = 0  BY <2>1 DEF One
    <3>3. One(d \in armed) = One(d = c /\ c \in armed) + One(d \in armed')
      BY <2>1 DEF One
    <3>4. /\ Count(queue, Of(d)) \in Nat /\ One(d = c) \in Nat /\ One(d \in transfers) \in Nat
          /\ One(d = c /\ c \in armed) \in Nat /\ One(d \in armed') \in Nat
      BY TransferFacts DEF One
    <3>5. Owed(d)' = Count(queue', Of(d)) + One(d \in armed') + One(d \in transfers')
      BY DEF Owed
    <3>6. Owed(d) = Count(queue, Of(d)) + One(d \in armed) + One(d \in transfers)
      BY DEF Owed
    <3>7. Owed(d)' = Owed(d) - One(d = c)  BY <3>1, <3>2, <3>3, <3>4, <3>5, <3>6
    <3>8. Count(queue', TransfersOf(d))
              = Count(queue, TransfersOf(d)) - One(h \in TransfersOf(d)) + One(d \in transfers)
      <4>1. /\ Count(queue', TransfersOf(d)) = Count(a, TransfersOf(d)) + Count(b, TransfersOf(d))
            /\ Count(a, TransfersOf(d)) = Count(q, TransfersOf(d)) + Count(Aborted, TransfersOf(d))
            /\ Count(b, TransfersOf(d)) = 0
            /\ Count(Aborted, TransfersOf(d)) = One(d \in transfers)
            /\ Count(q, TransfersOf(d)) = Count(queue, TransfersOf(d)) - One(h \in TransfersOf(d))
        BY <1>1, <2>2, <2>3, <2>4, <2>6
      <4>2. Count(queue, TransfersOf(d)) \in Nat /\ One(h \in TransfersOf(d)) \in Nat
        BY TransferFacts DEF One
      <4> QED  BY <3>4, <4>1, <4>2
    <3>9. /\ Sent(d)' = Count(queue', TransfersOf(d)) + One(d \in transfers')
          /\ Sent(d) = Count(queue, TransfersOf(d)) + One(d \in transfers)
      BY DEF Sent
    <3>10. Count(queue, TransfersOf(d)) \in Nat /\ One(h \in TransfersOf(d)) \in Nat
      BY TransferFacts DEF One
    <3>11. Sent(d)' = Sent(d) - One(h \in TransfersOf(d))
      BY <3>2, <3>4, <3>8, <3>9, <3>10
    <3> QED  BY <3>7, <3>11
  <2>8. armed' \subseteq Callers /\ IsFiniteSet(transfers')
    BY <2>1, TransferFacts, FS_EmptySet DEF TypeOK
  <2> QED  BY <1>5, <1>6, <2>1, <2>6, <2>7, <2>8 DEF h
<1>8. CASE done[c] # 0
  <2>1. queue' = q /\ UNCHANGED <<transfers, reading, armed>>  BY <1>8 DEF Signal
  <2> HIDE DEF q
  <2>2. ASSUME NEW d \in Callers
        PROVE  /\ Owed(d)' = Owed(d) - One(d = c)
               /\ Sent(d)' = Sent(d) - One(h \in TransfersOf(d))
    <3>1. /\ Count(queue, Of(d)) \in Nat /\ One(d = c) \in Nat /\ One(d \in transfers) \in Nat
          /\ One(d \in armed) \in Nat
      BY TransferFacts DEF One
    <3>2. Owed(d)' = Count(q, Of(d)) + One(d \in armed) + One(d \in transfers)
      BY <2>1 DEF Owed
    <3>3. Owed(d) = Count(queue, Of(d)) + One(d \in armed) + One(d \in transfers)
      BY DEF Owed
    <3>4. Owed(d)' = Owed(d) - One(d = c)  BY <1>3, <3>1, <3>2, <3>3
    <3>5. /\ Sent(d)' = Count(q, TransfersOf(d)) + One(d \in transfers)
          /\ Sent(d) = Count(queue, TransfersOf(d)) + One(d \in transfers)
          /\ Count(q, TransfersOf(d)) = Count(queue, TransfersOf(d)) - One(h \in TransfersOf(d))
      BY <1>1, <2>1 DEF Sent
    <3>6. Count(queue, TransfersOf(d)) \in Nat /\ One(h \in TransfersOf(d)) \in Nat
      BY TransferFacts DEF One
    <3>7. Sent(d)' = Sent(d) - One(h \in TransfersOf(d))  BY <3>1, <3>5, <3>6
    <3> QED  BY <3>4, <3>7
  <2> QED  BY <1>1, <1>5, <1>6, <2>1, <2>2, TransferFacts DEF TypeOK, h
<1> QED  BY <1>7, <1>8

\* The parts of the invariant that do not look at sizes.
LEMMA SignalInv ==
  ASSUME TransferInv, queue # <<>>, NEW c \in Callers, NEW ec \in Errors,
         \A d : Head(queue) \in Of(d) <=> d = c,
         Signal(c, ec),
         UNCHANGED <<pc, size, connected, connects, dropped, calls>>,
         moved' \in [Callers -> {0, 1}],
         storing' \subseteq [caller : Callers, call : 1..MaxCalls, n : {0, 1}],
         pc[c] = "timing" => ec # "ok"
  PROVE  /\ TypeOK' /\ TwoHandlers' /\ IsFiniteSet(transfers') /\ TimerInv'
         /\ \A d \in Callers : pc'[d] # "idle" => calls'[d] >= 1
<1>1. /\ pc[c] \in {"timing", "waiting"} /\ done[c] \in {0, 1}
      /\ pc[c] = "timing" => done[c] = 0
      /\ done' = [done EXCEPT ![c] = @ + 1]
      /\ error' = IF done[c] = 0 THEN [error EXCEPT ![c] = ec] ELSE error
      /\ queue' \in Seq(Handlers) /\ NoneOk(queue')
      /\ armed' \subseteq Callers /\ transfers' \subseteq Callers
      /\ IsFiniteSet(transfers') /\ reading' \in BOOLEAN
      /\ \A d \in Callers : Owed(d)' = Owed(d) - One(d = c)
  BY SignalFacts
<1>2. TypeOK  BY TransferFacts
<1>3. done' \in [Callers -> 0..2] /\ error' \in [Callers -> Errors]
  <2>1. done \in [Callers -> 0..2] /\ error \in [Callers -> Errors]  BY <1>2 DEF TypeOK
  <2>2. done[c] + 1 \in 0..2  BY <1>1
  <2> QED  BY <1>1, <2>1, <2>2
<1>4. TypeOK'  BY <1>1, <1>2, <1>3 DEF TypeOK
<1>5. TwoHandlers'
  <2>1. ASSUME NEW d \in Callers
        PROVE  Owed(d)' = Owes(d)'
    <3>1. Owed(d) = Owes(d)  BY TransferFacts
    <3>2. done \in [Callers -> 0..2]  BY <1>2 DEF TypeOK
    <3>3. done'[d] = IF d = c THEN done[d] + 1 ELSE done[d]  BY <1>1, <3>2
    <3>4. Owed(d)' = Owed(d) - One(d = c) /\ done[d] \in 0..2  BY <1>1, <3>2
    <3>5. Started(d)' = Started(d) /\ Started(d) \in 0..2 /\ (d = c => Started(d) # 0)
      BY <1>1 DEF Started
    <3> QED  BY <3>1, <3>3, <3>4, <3>5 DEF One, Owes
  <2> QED  BY <1>4, <2>1, OwedNext
<1>6. TimerInv'
  <2>1. error \in [Callers -> Errors] /\ done \in [Callers -> 0..2]  BY <1>2 DEF TypeOK
  <2>2. ASSUME NEW d \in Callers, pc[d] = "timing", done'[d] >= 1 PROVE error'[d] # "ok"
    <3>1. CASE d = c  BY <1>1, <2>1, <2>2, <3>1
    <3>2. CASE d # c
      <4>1. done'[d] = done[d] /\ error'[d] = error[d]  BY <1>1, <2>1, <3>2
      <4> QED  BY <2>2, <4>1 DEF TransferInv, TimerInv
    <3> QED  BY <3>1, <3>2
  <2> QED  BY <1>1, <2>2 DEF TimerInv, NoneOk
<1>7. \A d \in Callers : pc'[d] # "idle" => calls'[d] >= 1  BY DEF TransferInv
<1> QED  BY <1>1, <1>4, <1>5, <1>6, <1>7

LEMMA TimerHandlerInv ==
  ASSUME TransferInv, TimerHandler
  PROVE  TransferInv'
<1> DEFINE h == Head(queue)
           c == h.caller
           ec == h.ec
<1>1. /\ storing = {} /\ queue # <<>> /\ h.op = "Timer" /\ Signal(c, ec)
      /\ UNCHANGED <<pc, size, moved, storing, connected, connects, dropped, calls>>
  BY DEF TimerHandler, Ready
<1>2. h \in Handlers /\ ec # "ok"  BY <1>1, TransferFacts, Taken
<1>3. c \in Callers /\ ec \in Errors /\ \A d : h \in Of(d) <=> d = c
  BY <1>1, <1>2 DEF Handlers, Of
<1>4. moved' \in [Callers -> {0, 1}]
      /\ storing' \subseteq [caller : Callers, call : 1..MaxCalls, n : {0, 1}]
  BY <1>1, TransferFacts DEF TypeOK
<1> HIDE DEF c, ec
<1>5. /\ TypeOK' /\ TwoHandlers' /\ IsFiniteSet(transfers') /\ TimerInv'
      /\ \A d \in Callers : pc'[d] # "idle" => calls'[d] >= 1
  BY <1>1, <1>2, <1>3, <1>4, SignalInv
<1>6. /\ done' = [done EXCEPT ![c] = @ + 1]
      /\ error' = IF done[c] = 0 THEN [error EXCEPT ![c] = ec] ELSE error
      /\ done[c] \in {0, 1}
      /\ \A d \in Callers : Sent(d)' = Sent(d) - One(h \in TransfersOf(d))
  BY <1>1, <1>3, SignalFacts
<1>7. StoringInv'  BY <1>1 DEF StoringInv
<1>8. SizeInv'
  <2> SUFFICES ASSUME NEW d \in Callers, pc[d] = "waiting", done'[d] >= 1, error'[d] = "ok"
               PROVE  size[d] = moved[d]
    BY <1>1 DEF SizeInv
  <2>1. done \in [Callers -> 0..2] /\ error \in [Callers -> Errors]
    BY TransferFacts DEF TypeOK
  <2>2. done[d] >= 1 /\ error[d] = "ok"  BY <1>2, <1>3, <1>6, <2>1 DEF ec
  <2> QED  BY <1>1, <2>2 DEF TransferInv, SizeInv
<1>9. OnceInv'
  <2> SUFFICES ASSUME NEW d \in Callers PROVE Sent(d)' <= Sends(d)'
    BY DEF OnceInv, Sent, Sends
  <2>1. h \notin TransfersOf(d)  BY <1>1 DEF TransfersOf
  <2>2. Count(queue, TransfersOf(d)) \in Nat /\ One(d \in transfers) \in Nat
    BY TransferFacts DEF One
  <2>3. Sent(d) \in Int  BY <2>2 DEF Sent
  <2>4. Sent(d)' = Sent(d)  BY <1>6, <2>1, <2>3 DEF One
  <2>5. Sent(d) <= Sends(d)  BY TransferFacts
  <2>6. done \in [Callers -> 0..2] /\ error \in [Callers -> Errors] /\ ec # "ok"
    BY <1>2, TransferFacts DEF TypeOK, ec
  <2>7. Sends(d) <= Sends(d)'  BY <1>1, <1>3, <1>6, <2>6 DEF Sends, One
  <2>8. Sends(d) \in Int /\ Sends(d)' \in Int  BY DEF Sends, One
  <2> QED  BY <2>3, <2>4, <2>5, <2>7, <2>8
<1> QED  BY <1>5, <1>7, <1>8, <1>9 DEF TransferInv

LEMMA TransferHandlerInv ==
  ASSUME TransferInv, TransferHandler
  PROVE  TransferInv'
<1> DEFINE h == Head(queue)
           c == h.caller
           ec == h.ec
           n == h.n
           s == [caller |-> c, call |-> calls[c], n |-> n]
<1>1. /\ storing = {} /\ queue # <<>> /\ h.op = "Transfer" /\ Signal(c, ec)
      /\ moved' = [moved EXCEPT ![c] = n] /\ storing' = {s}
      /\ UNCHANGED <<pc, size, connected, connects, dropped, calls>>
  BY DEF TransferHandler, Ready
<1>2. h \in Handlers  BY <1>1, TransferFacts, Taken
<1>3. c \in Callers /\ ec \in Errors /\ n \in {0, 1} 
      /\ \A d : (h \in Of(d) <=> d = c) /\ (h \in TransfersOf(d) <=> d = c)
  BY <1>1, <1>2 DEF Handlers, Of, TransfersOf
<1> HIDE DEF c, ec, n
<1>4. /\ pc[c] = "waiting" /\ done[c] \in {0, 1} /\ calls[c] >= 1
      /\ done' = [done EXCEPT ![c] = @ + 1]
      /\ error' = IF done[c] = 0 THEN [error EXCEPT ![c] = ec] ELSE error
      /\ \A d \in Callers : Sent(d)' = Sent(d) - One(h \in TransfersOf(d))
  <2>1. pc[c] = "waiting"
    <3>1. Count(queue, TransfersOf(c)) >= 1 /\ Count(queue, TransfersOf(c)) \in Nat
      BY <1>1, <1>3, TransferFacts, Taken
    <3>2. One(c \in transfers) \in Nat  BY DEF One
    <3>3. Sends(c) # 0  BY <1>3, <3>1, <3>2, TransferFacts DEF Sent
    <3> QED  BY <3>3 DEF Sends, One
  <2> QED  BY <1>1, <1>3, <2>1, SignalFacts
<1>5. /\ moved \in [Callers -> {0, 1}] /\ calls \in [Callers -> 0..MaxCalls]
      /\ done \in [Callers -> 0..2] /\ error \in [Callers -> Errors]
  BY TransferFacts DEF TypeOK
<1>6. calls[c] \in 1..MaxCalls  BY <1>3, <1>4, <1>5, TransferBounds
<1>7. moved' \in [Callers -> {0, 1}]
      /\ storing' \subseteq [caller : Callers, call : 1..MaxCalls, n : {0, 1}]
  BY <1>1, <1>3, <1>5, <1>6
<1>8. /\ TypeOK' /\ TwoHandlers' /\ IsFiniteSet(transfers') /\ TimerInv'
      /\ \A d \in Callers : pc'[d] # "idle" => calls'[d] >= 1
  BY <1>1, <1>3, <1>4, <1>7, SignalInv
<1>9. /\ s.caller = c /\ s.call = calls[c] /\ s.n = n
  OBVIOUS
<1> HIDE DEF s
<1>10. ASSUME NEW d \in Callers
       PROVE  /\ Sent(d)' = Sent(d) - One(d = c) /\ Sent(d) <= Sends(d)
              /\ Sent(d) \in Int /\ Sends(d) \in {0, 1} /\ Sends(d)' \in {0, 1}
              /\ d = c => Sent(d) >= 1
  <2>1. Count(queue, TransfersOf(d)) \in Nat /\ One(d \in transfers) \in Nat
    BY TransferFacts DEF One
  <2>2. d = c => Count(queue, TransfersOf(d)) >= 1  BY <1>1, <1>3, TransferFacts, Taken
  <2>3. Sent(d)' = Sent(d) - One(d = c)  BY <1>3, <1>4 DEF One
  <2> QED  BY <2>1, <2>2, <2>3, TransferFacts DEF Sent, Sends, One
<1>11. OnceInv'
  <2> SUFFICES ASSUME NEW d \in Callers PROVE Sent(d)' <= Sends(d)'
    BY DEF OnceInv, Sent, Sends
  <2>1. CASE d = c  BY <1>10, <2>1 DEF One
  <2>2. CASE d # c
    <3>1. Sends(d)' = Sends(d)  BY <1>1, <1>3, <1>4, <1>5, <2>2 DEF Sends
    <3> QED  BY <1>10, <2>2, <3>1 DEF One
  <2> QED  BY <2>1, <2>2
<1>12. \A r : r = s => InTime(r)'  BY <1>1, <1>4, <1>9 DEF InTime
<1>13. StoringInv'
  <2>1. s.n = moved'[s.caller]  BY <1>1, <1>3, <1>5, <1>9
  <2>2. done'[s.caller] = 2 => error'[s.caller] # "ok"
    <3>1. ASSUME done[c] = 1 PROVE error[c] # "ok"
      <4>1. pc[c] = "waiting" /\ done[c] >= 1  BY <1>4, <3>1
      <4>2. Sends(c) = 1  BY <1>3, <1>10
      <4> QED  BY <4>1, <4>2 DEF Sends, One
    <3> QED  BY <1>3, <1>4, <1>5, <1>9, <3>1
  <2>3. s.call <= calls'[s.caller] /\ pc'[s.caller] = "waiting"
    BY <1>1, <1>4, <1>5, <1>6, <1>9
  <2> QED  BY <1>1, <1>12, <2>1, <2>2, <2>3 DEF StoringInv
<1>14. SizeInv'
  <2> SUFFICES ASSUME NEW d \in Callers, pc[d] = "waiting", done'[d] >= 1, error'[d] = "ok"
               PROVE  size[d] = moved'[d] \/ \E r \in storing' : r.caller = d /\ InTime(r)'
    BY <1>1 DEF SizeInv
  <2>1. CASE d = c  BY <1>1, <1>9, <1>12, <2>1
  <2>2. CASE d # c
    <3>1. done[d] >= 1 /\ error[d] = "ok" /\ moved'[d] = moved[d]
      BY <1>1, <1>3, <1>4, <1>5, <2>2
    <3> QED  BY <1>1, <3>1 DEF TransferInv, SizeInv
  <2> QED  BY <2>1, <2>2
<1> QED  BY <1>8, <1>13, <1>14, <1>11 DEF TransferInv

-----------------------------------------------------------------------------
(* Calls.                                                                  *)

LEMMA EnterInv ==
  ASSUME TransferInv, NEW c \in Callers, Enter(c)
  PROVE  TransferInv'
<1>1. /\ pc[c] = "idle" /\ pc' = [pc EXCEPT ![c] = "entered"]
      /\ calls[c] < MaxCalls /\ calls' = [calls EXCEPT ![c] = @ + 1]
      /\ UNCHANGED <<done, error, size, armed, transfers, moved, storing, queue>>
      /\ UNCHANGED connection
  BY DEF Enter
<1>2. /\ TypeOK /\ pc \in [Callers -> Places]
      /\ calls \in [Callers -> 0..MaxCalls]
      /\ storing \subseteq [caller : Callers, call : 1..MaxCalls, n : {0, 1}]
  BY TransferFacts DEF TypeOK
<1>3. TypeOK'
  <2>1. calls' \in [Callers -> 0..MaxCalls] /\ pc' \in [Callers -> Places]
    BY <1>1, <1>2, TransferBounds DEF Places
  <2> QED  BY <1>1, <1>2, <2>1 DEF TypeOK, connection
<1>4. \A d \in Callers : /\ pc[d] = "waiting" <=> pc'[d] = "waiting"
                         /\ pc[d] = "timing" <=> pc'[d] = "timing"
                         /\ d # c => pc'[d] = pc[d] /\ calls'[d] = calls[d]
                         /\ calls[d] \in Nat
  BY <1>1, <1>2
<1>5. pc'[c] = "entered" /\ calls'[c] = calls[c] + 1  BY <1>1, <1>2
<1>6. TwoHandlers'
  <2>1. \A d \in Callers : Owed(d)' = Owes(d)'  BY <1>1, <1>4, TransferFacts DEF Owed, Owes, Started
  <2> QED  BY <1>3, <2>1, OwedNext
<1>7. OnceInv'
  <2>1. \A d \in Callers : Sent(d)' <= Sends(d)'
    BY <1>1, <1>4, TransferFacts DEF Sent, Sends
  <2> QED  BY <2>1 DEF OnceInv, Sent, Sends
<1>8. TimerInv' /\ IsFiniteSet(transfers')  BY <1>1, <1>4 DEF TransferInv, TimerInv
<1>9. \A d \in Callers : pc'[d] # "idle" => calls'[d] >= 1
  BY <1>4, <1>5 DEF TransferInv
<1>10. StoringInv'
  <2>1. StoringInv  BY DEF TransferInv
  <2>2. \A s, r \in storing' : s = r  BY <1>1, <2>1 DEF StoringInv
  <2>3. ASSUME NEW s \in storing'
        PROVE  /\ s.call <= calls'[s.caller]
               /\ pc'[s.caller] \in {"entered", "timing"} => s.call < calls'[s.caller]
               /\ pc'[s.caller] \in {"timing", "waiting"} /\ ~InTime(s)' => done'[s.caller] = 0
               /\ InTime(s)' => /\ s.n = moved'[s.caller]
                                /\ done'[s.caller] = 2 => error'[s.caller] # "ok"
    <3>1. s \in storing /\ s.caller \in Callers /\ s.call \in Nat  BY <1>1, <1>2
    <3>2. s.call <= calls[s.caller]  BY <2>1, <3>1 DEF StoringInv
    <3>3. CASE s.caller = c
      BY <1>1, <1>4, <1>5, <3>1, <3>2, <3>3 DEF InTime
    <3>4. CASE s.caller # c
      <4>1. pc'[s.caller] = pc[s.caller] /\ calls'[s.caller] = calls[s.caller]
        BY <1>4, <3>1, <3>4
      <4>2. InTime(s)' = InTime(s)  BY <4>1 DEF InTime
      <4> QED  BY <1>1, <2>1, <3>1, <4>1, <4>2 DEF StoringInv
    <3> QED  BY <3>3, <3>4
  <2> QED  BY <2>2, <2>3 DEF StoringInv
<1>11. SizeInv'
  <2> SUFFICES ASSUME NEW d \in Callers, pc'[d] = "waiting", done[d] >= 1, error[d] = "ok"
               PROVE  size[d] = moved[d] \/ \E r \in storing : r.caller = d /\ InTime(r)'
    BY <1>1 DEF SizeInv
  <2>1. d # c /\ pc'[d] = pc[d] /\ calls'[d] = calls[d]  BY <1>4, <1>5
  <2>2. \A r : r.caller = d => InTime(r)' = InTime(r)  BY <2>1 DEF InTime
  <2> QED  BY <2>1, <2>2 DEF TransferInv, SizeInv
<1> QED  BY <1>3, <1>6, <1>7, <1>8, <1>9, <1>10, <1>11 DEF TransferInv

\* What the steps of a call before it waits do: those of other calls are left alone,
\* a size that is yet to be stored is not of this call.
LEMMA StartInv ==
  ASSUME TransferInv, NEW c \in Callers,
         pc[c] \in {"entered", "timing"}, pc'[c] \in {"timing", "waiting"},
         UNCHANGED <<storing, calls>>,
         pc[c] = "entered" => done'[c] = 0,
         pc[c] = "timing" => done'[c] = done[c],
         \A d \in Callers : d # c => /\ pc'[d] = pc[d] /\ done'[d] = done[d]
                                     /\ error'[d] = error[d] /\ size'[d] = size[d]
                                     /\ moved'[d] = moved[d]
                                     /\ Owed(d)' = Owed(d) /\ Sent(d)' = Sent(d),
         TypeOK', IsFiniteSet(transfers'), NoneOk(queue'),
         Owed(c)' = Owes(c)', Sent(c)' <= Sends(c)',
         done'[c] >= 1 => error'[c] # "ok",
         pc'[c] = "waiting" => pc[c] = "timing"
  PROVE  TransferInv'
<1>1. TwoHandlers'
  <2>1. ASSUME NEW d \in Callers PROVE Owed(d)' = Owes(d)'
    <3>1. CASE d # c
      <4>1. Owes(d)' = Owes(d)  BY <3>1 DEF Owes, Started
      <4> QED  BY <3>1, <4>1, TransferFacts
    <3> QED  BY <3>1
  <2> QED  BY <2>1, OwedNext
<1>2. OnceInv'
  <2>1. ASSUME NEW d \in Callers PROVE Sent(d)' <= Sends(d)'
    <3>1. CASE d # c
      <4>1. Sends(d)' = Sends(d)  BY <3>1 DEF Sends
      <4> QED  BY <3>1, <4>1, TransferFacts
    <3> QED  BY <3>1
  <2> QED  BY <2>1 DEF OnceInv, Sent, Sends
<1>3. TimerInv'
  <2>1. ASSUME NEW d \in Callers, pc'[d] = "timing", done'[d] >= 1 PROVE error'[d] # "ok"
    <3>1. CASE d # c  BY <2>1, <3>1 DEF TransferInv, TimerInv
    <3> QED  BY <2>1, <3>1
  <2> QED  BY <2>1 DEF TimerInv, NoneOk
<1>4. \A d \in Callers : pc'[d] # "idle" => calls'[d] >= 1  BY DEF TransferInv
<1>5. StoringInv'
  <2>1. StoringInv  BY DEF TransferInv
  <2>2. \A s, r \in storing' : s = r  BY <2>1 DEF StoringInv
  <2>3. ASSUME NEW s \in storing'
        PROVE  /\ s.call <= calls'[s.caller]
               /\ pc'[s.caller] \in {"entered", "timing"} => s.call < calls'[s.caller]
               /\ pc'[s.caller] \in {"timing", "waiting"} /\ ~InTime(s)' => done'[s.caller] = 0
               /\ InTime(s)' => /\ s.n = moved'[s.caller]
                                /\ done'[s.caller] = 2 => error'[s.caller] # "ok"
    <3>1. /\ s \in storing /\ s.caller \in Callers /\ s.call \in Nat
          /\ calls[s.caller] \in Nat /\ calls' = calls
      BY TransferFacts DEF TypeOK
    <3>2. s.call <= calls[s.caller]  BY <2>1, <3>1 DEF StoringInv
    <3>3. CASE s.caller = c
      <4>1. s.call < calls[s.caller]  BY <2>1, <3>1, <3>3 DEF StoringInv
      <4>2. ~InTime(s)' /\ ~InTime(s)  BY <3>1, <3>3, <4>1 DEF InTime
      <4>3. pc[c] = "timing" => done[c] = 0  BY <2>1, <3>1, <3>3, <4>2 DEF StoringInv
      <4> QED  BY <3>1, <3>2, <3>3, <4>1, <4>2, <4>3
    <3>4. CASE s.caller # c
      <4>1. /\ pc'[s.caller] = pc[s.caller] /\ done'[s.caller] = done[s.caller]
            /\ error'[s.caller] = error[s.caller] /\ moved'[s.caller] = moved[s.caller]
        BY <3>1, <3>4
      <4>2. InTime(s)' = InTime(s)  BY <3>1, <4>1 DEF InTime
      <4> QED  BY <2>1, <3>1, <4>1, <4>2 DEF StoringInv
    <3> QED  BY <3>3, <3>4
  <2> QED  BY <2>2, <2>3 DEF StoringInv
<1>6. SizeInv'
  <2> SUFFICES ASSUME NEW d \in Callers, pc'[d] = "waiting", done'[d] >= 1, error'[d] = "ok"
               PROVE  size'[d] = moved'[d] \/ \E r \in storing' : r.caller = d /\ InTime(r)'
    BY DEF SizeInv
  <2>1. d # c  OBVIOUS
  <2>2. /\ pc'[d] = pc[d] /\ done'[d] = done[d] /\ error'[d] = error[d]
        /\ size'[d] = size[d] /\ moved'[d] = moved[d] /\ calls' = calls /\ storing' = storing
    BY <2>1
  <2>3. \A r : r.caller = d => InTime(r)' = InTime(r)  BY <2>2 DEF InTime
  <2> QED  BY <2>2, <2>3 DEF TransferInv, SizeInv
<1> QED  BY <1>1, <1>2, <1>3, <1>4, <1>5, <1>6 DEF TransferInv

LEMMA StartTimerInv ==
  ASSUME TransferInv, NEW c \in Callers, StartTimer(c)
  PROVE  TransferInv'
<1>1. /\ pc[c] = "entered" /\ pc' = [pc EXCEPT ![c] = "timing"]
      /\ done' = [done EXCEPT ![c] = 0] /\ error' = [error EXCEPT ![c] = "ok"]
      /\ armed' = armed \cup {c}
      /\ UNCHANGED <<size, transfers, moved, storing, queue, calls>> /\ UNCHANGED connection
  BY DEF StartTimer
<1>2. /\ TypeOK /\ pc \in [Callers -> Places] /\ done \in [Callers -> 0..2]
      /\ error \in [Callers -> Errors] /\ armed \subseteq Callers
      /\ queue \in Seq(Handlers) /\ NoneOk(queue) /\ IsFiniteSet(transfers)
  BY TransferFacts DEF TypeOK
<1>3. TypeOK'
  <2>1. /\ pc' \in [Callers -> Places] /\ done' \in [Callers -> 0..2]
        /\ error' \in [Callers -> Errors] /\ armed' \subseteq Callers
    BY <1>1, <1>2 DEF Errors, Places
  <2> QED  BY <1>1, <1>2, <2>1 DEF TypeOK, connection
<1>4. /\ pc'[c] = "timing" /\ done'[c] = 0
      /\ \A d \in Callers : d # c => /\ pc'[d] = pc[d] /\ done'[d] = done[d]
                                     /\ error'[d] = error[d]
  BY <1>1, <1>2
\* Nothing is owed before.
<1>5. /\ c \notin armed /\ c \notin transfers
      /\ Count(queue, Of(c)) = 0 /\ Count(queue, TransfersOf(c)) = 0
  <2>1. Owed(c) = 0  BY <1>1, TransferFacts DEF Owes, Started
  <2>2. Count(queue, Of(c)) \in Nat /\ Count(queue, TransfersOf(c)) \in Nat
    BY TransferFacts
  <2>3. TransfersOf(c) \subseteq Of(c)  BY DEF TransfersOf, Of
  <2>4. Count(queue, TransfersOf(c)) <= Count(queue, Of(c))  BY <1>2, <2>3, CountSubset
  <2>5. /\ One(c \in armed) \in {0, 1} /\ One(c \in transfers) \in {0, 1}
        /\ One(c \in armed) = 0 => c \notin armed
        /\ One(c \in transfers) = 0 => c \notin transfers
    BY DEF One
  <2> QED  BY <2>1, <2>2, <2>4, <2>5 DEF Owed
<1>6. Owed(c)' = Owes(c)' /\ Sent(c)' <= Sends(c)'
  <2>1. Owed(c)' = 1 /\ Sent(c)' = 0  BY <1>1, <1>5 DEF Owed, Sent, One
  <2>2. Owes(c)' = 1 /\ Sends(c)' = 0  BY <1>4 DEF Owes, Sends, Started, One
  <2> QED  BY <2>1, <2>2
<1>7. \A d \in Callers : d # c => Owed(d)' = Owed(d) /\ Sent(d)' = Sent(d)
  BY <1>1 DEF Owed, Sent, One
<1> QED  BY <1>1, <1>2, <1>3, <1>4, <1>6, <1>7, StartInv

LEMMA StartTransferInv ==
  ASSUME TransferInv, NEW c \in Callers, StartTransfer(c)
  PROVE  TransferInv'
<1> DEFINE h == Transfer(c, "failed", 0)
<1>1. /\ pc[c] = "timing" /\ pc' = [pc EXCEPT ![c] = "waiting"]
      /\ size' = [size EXCEPT ![c] = 0] /\ moved' = [moved EXCEPT ![c] = 0]
      /\ UNCHANGED <<done, error, armed, storing, calls>> /\ UNCHANGED connection
      /\ \/ transfers' = transfers \cup {c} /\ queue' = queue
         \/ queue' = Append(queue, h) /\ transfers' = transfers
  BY DEF StartTransfer
<1>2. /\ TypeOK /\ pc \in [Callers -> Places] /\ done \in [Callers -> 0..2]
      /\ size \in [Callers -> {0, 1}] /\ moved \in [Callers -> {0, 1}]
      /\ transfers \subseteq Callers
      /\ queue \in Seq(Handlers) /\ NoneOk(queue) /\ IsFiniteSet(transfers)
  BY TransferFacts DEF TypeOK
<1>3. /\ h \in Handlers /\ h.op = "Transfer"
      /\ \A d : (h \in Of(d) <=> d = c) /\ (h \in TransfersOf(d) <=> d = c)
  <2>1. "failed" \in Errors  BY DEF Errors
  <2> QED  BY <2>1, TransferOf
<1> HIDE DEF h
<1>4. /\ Append(queue, h) \in Seq(Handlers) /\ NoneOk(Append(queue, h))
      /\ \A A : Count(Append(queue, h), A) = Count(queue, A) + One(h \in A)
  BY <1>2, <1>3, PostedOne
<1>5. /\ queue' \in Seq(Handlers) /\ NoneOk(queue')
      /\ transfers' \subseteq Callers /\ IsFiniteSet(transfers')
  <2>1. IsFiniteSet(transfers \cup {c})  BY <1>2, FS_AddElement
  <2> QED  BY <1>1, <1>2, <1>4, <2>1
\* No transfer is owed before.
<1>6. /\ c \notin transfers /\ Count(queue, TransfersOf(c)) = 0
      /\ Count(queue, Of(c)) + One(c \in armed) = 1 - done[c]
  <2>1. /\ Owed(c) = 1 - done[c] /\ Sent(c) <= 0
    BY <1>1, TransferFacts DEF Owes, Started, Sends, One
  <2>2. Count(queue, Of(c)) \in Nat /\ Count(queue, TransfersOf(c)) \in Nat
    BY TransferFacts
  <2>3. /\ One(c \in armed) \in {0, 1} /\ One(c \in transfers) \in {0, 1}
        /\ One(c \in transfers) = 0 => c \notin transfers
    BY DEF One
  <2> QED  BY <2>1, <2>2, <2>3 DEF Owed, Sent
<1>7. /\ Owed(c)' = 2 - done[c] /\ Sent(c)' = 1
      /\ \A d \in Callers : d # c => Owed(d)' = Owed(d) /\ Sent(d)' = Sent(d)
  <2>1. armed' = armed /\ One(c \in armed) \in Nat /\ done[c] \in Nat
        /\ Count(queue, Of(c)) \in Nat
    BY <1>1, <1>2, TransferFacts DEF One
  <2>2. CASE transfers' = transfers \cup {c} /\ queue' = queue
    <3>1. One(c \in transfers') = 1  BY <2>2 DEF One
    <3>2. \A d \in Callers : d # c => One(d \in transfers') = One(d \in transfers)
      BY <2>2 DEF One
    <3> QED  BY <1>6, <2>1, <2>2, <3>1, <3>2 DEF Owed, Sent
  <2>3. CASE queue' = Append(queue, h) /\ transfers' = transfers
    <3>1. \A A : Count(queue', A) = Count(queue, A) + One(h \in A)  BY <1>4, <2>3
    <3>2. Count(queue', Of(c)) = Count(queue, Of(c)) + 1 /\ Count(queue', TransfersOf(c)) = 1
      BY <1>3, <1>6, <3>1 DEF One
    <3>3. One(c \in transfers') = 0  BY <1>6, <2>3 DEF One
    <3>4. ASSUME NEW d \in Callers, d # c
          PROVE  /\ Count(queue', Of(d)) = Count(queue, Of(d))
                 /\ Count(queue', TransfersOf(d)) = Count(queue, TransfersOf(d))
      <4>1. Count(queue, Of(d)) \in Nat /\ Count(queue, TransfersOf(d)) \in Nat
        BY TransferFacts
      <4>2. h \notin Of(d) /\ h \notin TransfersOf(d)  BY <1>3, <3>4
      <4> QED  BY <3>1, <4>1, <4>2 DEF One
    <3> QED  BY <1>6, <2>1, <2>3, <3>2, <3>3, <3>4 DEF Owed, Sent
  <2> QED  BY <1>1, <2>2, <2>3
<1>8. TypeOK'
  <2>1. /\ pc' \in [Callers -> Places]
        /\ size' \in [Callers -> {0, 1}] /\ moved' \in [Callers -> {0, 1}]
    BY <1>1, <1>2 DEF Places
  <2> QED  BY <1>1, <1>2, <1>5, <2>1 DEF TypeOK, connection
<1>9. /\ pc'[c] = "waiting" /\ done'[c] = done[c] /\ error'[c] = error[c]
      /\ \A d \in Callers : d # c => /\ pc'[d] = pc[d] /\ size'[d] = size[d]
                                     /\ moved'[d] = moved[d]
  BY <1>1, <1>2
\* The timer's handler, if it has run, has left an error.
<1>10. done[c] >= 1 => error[c] # "ok"  BY <1>1 DEF TransferInv, TimerInv
<1>11. Owed(c)' = Owes(c)' /\ Sent(c)' <= Sends(c)'
  <2>1. Owes(c)' = 2 - done[c]  BY <1>9 DEF Owes, Started
  <2>2. Sends(c)' = 1  BY <1>9, <1>10 DEF Sends, One
  <2> QED  BY <1>7, <2>1, <2>2
<1> QED  BY <1>1, <1>5, <1>7, <1>8, <1>9, <1>10, <1>11, StartInv

LEMMA WakeInv ==
  ASSUME TransferInv, NEW c \in Callers, Wake(c)
  PROVE  TransferInv'
<1>1. /\ pc[c] = "waiting" /\ done[c] = 2 /\ pc' = [pc EXCEPT ![c] = "idle"]
      /\ \/ UNCHANGED <<connected, reading, transfers, dropped, queue>>
         \/ /\ Disconnect(error[c])
            /\ queue' = IF connected THEN queue \o Aborted ELSE queue
      /\ UNCHANGED <<done, error, size, armed, moved, storing, connects, calls>>
  BY DEF Wake
<1>2. /\ TypeOK /\ pc \in [Callers -> Places]
      /\ error \in [Callers -> Errors] /\ calls \in [Callers -> 0..MaxCalls]
      /\ storing \subseteq [caller : Callers, call : 1..MaxCalls, n : {0, 1}]
      /\ queue \in Seq(Handlers) /\ NoneOk(queue) /\ IsFiniteSet(transfers)
      /\ transfers \subseteq Callers
      /\ connected \in BOOLEAN /\ reading \in BOOLEAN /\ dropped \subseteq Errors
  BY TransferFacts DEF TypeOK
<1>3. /\ queue' \in Seq(Handlers) /\ NoneOk(queue')
      /\ transfers' \subseteq Callers /\ IsFiniteSet(transfers')
      /\ connected' \in BOOLEAN /\ reading' \in BOOLEAN /\ dropped' \subseteq Errors
      /\ \A d : /\ Count(queue', Of(d)) + One(d \in transfers')
                      = Count(queue, Of(d)) + One(d \in transfers)
                /\ Count(queue', TransfersOf(d)) + One(d \in transfers')
                      = Count(queue, TransfersOf(d)) + One(d \in transfers)
  <2>1. CASE UNCHANGED <<connected, reading, transfers, dropped, queue>>
    BY <1>2, <2>1
  <2>2. CASE /\ Disconnect(error[c])
             /\ queue' = IF connected THEN queue \o Aborted ELSE queue
    <3>1. error[c] \in Errors  BY <1>2
    <3> QED  BY <1>2, <2>2, <3>1, Dropped
  <2> QED  BY <1>1, <2>1, <2>2
<1>4. ASSUME NEW d \in Callers PROVE Owed(d)' = Owed(d) /\ Sent(d)' = Sent(d)
  <2>1. /\ One(d \in armed) \in Nat /\ One(d \in transfers) \in Nat
        /\ One(d \in transfers') \in Nat /\ armed' = armed
    BY <1>1 DEF One
  <2>2. /\ Count(queue', Of(d)) + One(d \in transfers')
              = Count(queue, Of(d)) + One(d \in transfers)
        /\ Count(queue', TransfersOf(d)) + One(d \in transfers')
              = Count(queue, TransfersOf(d)) + One(d \in transfers)
        /\ Count(queue', Of(d)) \in Nat /\ Count(queue, Of(d)) \in Nat
    BY <1>2, <1>3, IndicesFinite
  <2>3. Owed(d)' = Owed(d)  BY <2>1, <2>2 DEF Owed
  <2>4. Sent(d)' = Sent(d)  BY <2>2 DEF Sent
  <2> QED  BY <2>3, <2>4
<1>5. /\ pc' \in [Callers -> Places] /\ pc'[c] = "idle"
      /\ \A d \in Callers : d # c => pc'[d] = pc[d]
  BY <1>1, <1>2 DEF Places
<1>6. TypeOK'  BY <1>1, <1>2, <1>3, <1>5 DEF TypeOK
<1>7. TwoHandlers'
  <2>1. ASSUME NEW d \in Callers PROVE Owed(d)' = Owes(d)'
    <3>1. CASE d = c
      <4>1. Owed(c) = 0  BY <1>1, TransferFacts DEF Owes, Started
      <4> QED  BY <1>4, <1>5, <3>1, <4>1 DEF Owes, Started
    <3>2. CASE d # c
      <4>1. Owes(d)' = Owes(d)  BY <1>1, <1>5, <3>2 DEF Owes, Started
      <4> QED  BY <1>4, <4>1, TransferFacts
    <3> QED  BY <3>1, <3>2
  <2> QED  BY <1>6, <2>1, OwedNext
<1>8. OnceInv'
  <2>1. ASSUME NEW d \in Callers PROVE Sent(d)' <= Sends(d)'
    <3>1. /\ Sent(d)' = Sent(d) /\ Sent(d) <= Sends(d)
          /\ Count(queue, TransfersOf(d)) \in Nat /\ One(d \in transfers) \in Nat
      BY <1>4, TransferFacts DEF One
    <3>2. CASE d = c
      <4>1. Owed(c) = 0  BY <1>1, TransferFacts DEF Owes, Started
      <4>2. Count(queue, TransfersOf(c)) <= Count(queue, Of(c)) /\ Count(queue, Of(c)) \in Nat
        <5>1. TransfersOf(c) \subseteq Of(c)  BY DEF TransfersOf, Of
        <5> QED  BY <1>2, <5>1, CountSubset, TransferFacts
      <4>3. One(c \in armed) \in Nat  BY DEF One
      <4>4. Count(queue, TransfersOf(c)) \in Nat /\ One(c \in transfers) \in Nat
        BY TransferFacts DEF One
      <4>5. Sent(c) = 0
        <5>1. Count(queue, Of(c)) + One(c \in armed) + One(c \in transfers) = 0
          BY <4>1 DEF Owed
        <5>2. Count(queue, Of(c)) = 0 /\ One(c \in transfers) = 0
          BY <4>2, <4>3, <4>4, <5>1
        <5>3. Count(queue, TransfersOf(c)) = 0  BY <4>2, <4>4, <5>2
        <5> QED  BY <5>2, <5>3 DEF Sent
      <4>6. Sends(c)' = 0  BY <1>5 DEF Sends, One
      <4> QED  BY <3>1, <3>2, <4>5, <4>6
    <3>3. CASE d # c
      <4>1. Sends(d)' = Sends(d)  BY <1>1, <1>5, <3>3 DEF Sends
      <4> QED  BY <3>1, <4>1
    <3> QED  BY <3>2, <3>3
  <2> QED  BY <2>1 DEF OnceInv, Sent, Sends
<1>9. TimerInv'  BY <1>1, <1>3, <1>5 DEF TransferInv, TimerInv, NoneOk
<1>10. \A d \in Callers : pc'[d] # "idle" => calls'[d] >= 1
  BY <1>1, <1>5 DEF TransferInv
<1>11. StoringInv'
  <2>1. StoringInv  BY DEF TransferInv
  <2>2. \A s, r \in storing' : s = r  BY <1>1, <2>1 DEF StoringInv
  <2>3. ASSUME NEW s \in storing'
        PROVE  /\ s.call <= calls'[s.caller]
               /\ pc'[s.caller] \in {"entered", "timing"} => s.call < calls'[s.caller]
               /\ pc'[s.caller] \in {"timing", "waiting"} /\ ~InTime(s)' => done'[s.caller] = 0
               /\ InTime(s)' => /\ s.n = moved'[s.caller]
                                /\ done'[s.caller] = 2 => error'[s.caller] # "ok"
    <3>1. s \in storing /\ s.caller \in Callers /\ calls' = calls  BY <1>1, <1>2
    <3>2. CASE s.caller = c
      BY <1>5, <2>1, <3>1, <3>2 DEF InTime, StoringInv
    <3>3. CASE s.caller # c
      <4>1. pc'[s.caller] = pc[s.caller]  BY <1>5, <3>1, <3>3
      <4>2. InTime(s)' = InTime(s)  BY <3>1, <4>1 DEF InTime
      <4> QED  BY <1>1, <2>1, <3>1, <4>1, <4>2 DEF StoringInv
    <3> QED  BY <3>2, <3>3
  <2> QED  BY <2>2, <2>3 DEF StoringInv
<1>12. SizeInv'
  <2> SUFFICES ASSUME NEW d \in Callers, pc'[d] = "waiting", done[d] >= 1, error[d] = "ok"
               PROVE  size[d] = moved[d] \/ \E r \in storing : r.caller = d /\ InTime(r)'
    BY <1>1 DEF SizeInv
  <2>1. d # c /\ pc'[d] = pc[d] /\ calls' = calls  BY <1>1, <1>5
  <2>2. \A r : r.caller = d => InTime(r)' = InTime(r)  BY <2>1 DEF InTime
  <2> QED  BY <2>1, <2>2 DEF TransferInv, SizeInv
<1> QED  BY <1>3, <1>6, <1>7, <1>8, <1>9, <1>10, <1>11, <1>12 DEF TransferInv

\* The size that is stored last is that of the call under way, if its call waits.
LEMMA StoreSizeInv ==
  ASSUME TransferInv, StoreSize
  PROVE  TransferInv'
<1>1. PICK s \in storing : \/ size' = [size EXCEPT ![s.caller] = s.n]
                           \/ ~InTime(s) /\ size' = size
  BY DEF StoreSize
<1>2. /\ storing' = {}
      /\ UNCHANGED <<pc, done, error, armed, transfers, moved, queue, calls>>
      /\ UNCHANGED connection
  BY DEF StoreSize
<1>3. /\ TypeOK /\ size \in [Callers -> {0, 1}]
      /\ s.caller \in Callers /\ s.n \in {0, 1}
  BY <1>1, TransferFacts DEF TypeOK
<1>4. size' \in [Callers -> {0, 1}]  BY <1>1, <1>3
<1>5. TypeOK'  BY <1>2, <1>3, <1>4 DEF TypeOK, connection
<1>6. TwoHandlers'
  BY <1>2 DEF TransferInv, TwoHandlers, Pending, Started
<1>7. /\ IsFiniteSet(transfers') /\ TimerInv' /\ OnceInv'
      /\ \A c \in Callers : pc'[c] # "idle" => calls'[c] >= 1
  BY <1>2 DEF TransferInv, TimerInv, OnceInv
<1>8. StoringInv'  BY <1>2 DEF StoringInv
<1>9. SizeInv'
  <2> SUFFICES ASSUME NEW d \in Callers, pc[d] = "waiting", done[d] >= 1, error[d] = "ok"
               PROVE  size'[d] = moved[d]
    BY <1>2 DEF SizeInv
  <2>1. StoringInv /\ done \in [Callers -> 0..2]  BY <1>3 DEF TransferInv, TypeOK
  <2>2. \A r \in storing : r = s  BY <1>1, <2>1 DEF StoringInv
  <2>3. size[d] = moved[d] \/ (s.caller = d /\ InTime(s))
    BY <2>2 DEF TransferInv, SizeInv
  <2>4. CASE s.caller = d
    <3>1. InTime(s)
      <4>1. done[s.caller] # 0  BY <2>1, <2>4
      <4> QED  BY <1>1, <2>1, <2>4, <4>1 DEF StoringInv
    <3>2. s.n = moved[d]  BY <1>1, <2>1, <2>4, <3>1 DEF StoringInv
    <3> QED  BY <1>1, <1>3, <2>4, <3>1, <3>2
  <2>5. CASE s.caller # d  BY <1>1, <1>3, <2>3, <2>5
  <2> QED  BY <2>4, <2>5
<1> QED  BY <1>5, <1>6, <1>7, <1>8, <1>9 DEF TransferInv

-----------------------------------------------------------------------------
(* The theorems.                                                           *)

LEMMA TransferInit ==
  ASSUME Init
  PROVE  TransferInv
<1>1. /\ queue = <<>> /\ armed = {} /\ transfers = {} /\ storing = {}
      /\ \A c \in Callers : pc[c] = "idle"
  BY DEF Init
<1>2. TypeOK
  <2>1. queue \in Seq(Handlers)  BY <1>1, EmptySeq
  <2>2. 0 \in 0..MaxCalls /\ 0 \in 0..MaxConnects /\ 0 \in 0..2 /\ "ok" \in Errors
    BY TransferBounds DEF Errors
  <2>3. /\ pc \in [Callers -> Places]
        /\ done \in [Callers -> 0..2] /\ error \in [Callers -> Errors]
        /\ size \in [Callers -> {0, 1}] /\ moved \in [Callers -> {0, 1}]
        /\ calls \in [Callers -> 0..MaxCalls] /\ connects \in 0..MaxConnects
    BY <2>2 DEF Init, Places
  <2>4. /\ connected \in BOOLEAN /\ reading \in BOOLEAN /\ dropped \subseteq Errors
        /\ storing \subseteq [caller : Callers, call : 1..MaxCalls, n : {0, 1}]
    BY DEF Init
  <2> QED  BY <1>1, <2>1, <2>3, <2>4 DEF TypeOK
<1>3. \A A : Count(queue, A) = 0  BY <1>1, CountEmpty
<1>4. TwoHandlers
  <2>1. ASSUME NEW c \in Callers
        PROVE  done[c] * One(Started(c) # 0) + Pending(c) + One(c \in armed)
                   + One(c \in transfers) = Started(c)
    <3>1. Started(c) = 0 /\ done[c] \in 0..2  BY <1>1, <1>2 DEF TypeOK, Started
    <3>2. done[c] * 0 = 0  BY <3>1
    <3> QED  BY <1>1, <1>3, <3>1, <3>2 DEF Pending, One
  <2> QED  BY <2>1 DEF TwoHandlers
<1>5. OnceInv
  BY <1>1, <1>3 DEF OnceInv, One
<1>6. IsFiniteSet(transfers)  BY <1>1, FS_EmptySet
<1>7. TimerInv  BY <1>1 DEF TimerInv
<1>8. StoringInv /\ SizeInv  BY <1>1 DEF StoringInv, SizeInv
<1> QED  BY <1>1, <1>2, <1>4, <1>5, <1>6, <1>7, <1>8 DEF TransferInv

LEMMA TransferNext ==
  ASSUME TransferInv, [Next]_vars
  PROVE  TransferInv'
<1>1. ASSUME NEW c \in Callers, Enter(c) PROVE TransferInv'  BY <1>1, EnterInv
<1>2. ASSUME NEW c \in Callers, StartTimer(c) \/ StartTransfer(c) PROVE TransferInv'
  BY <1>2, StartTimerInv, StartTransferInv
<1>3. ASSUME NEW c \in Callers, Wake(c) PROVE TransferInv'  BY <1>3, WakeInv
<1>4. ASSUME NEW c \in Callers, TimerExpires(c) PROVE TransferInv'  BY <1>4, TimerExpiresInv
<1>5. ASSUME NEW c \in Callers, NEW ec \in {"ok", "failed"}, TransferEnds(c, ec)
      PROVE  TransferInv'
  BY <1>5, TransferEndsInv
<1>6. CASE TimerHandler  BY <1>6, TimerHandlerInv
<1>7. CASE TransferHandler  BY <1>7, TransferHandlerInv
<1>8. CASE StoreSize  BY <1>8, StoreSizeInv
<1>9. CASE ReadHandler  BY <1>9, ReadHandlerInv
<1>10. CASE Connect  BY <1>10, ConnectInv
<1>11. ASSUME NEW ec \in {"ok", "failed"}, ReadEnds(ec) PROVE TransferInv'
  BY <1>11, ReadEndsInv
<1>12. CASE UNCHANGED vars
  <2>1. UNCHANGED CallVars /\ armed' = armed /\ transfers' = transfers /\ queue' = queue
        /\ UNCHANGED connection
    BY <1>12 DEF vars, call, CallVars
  <2>2. TypeOK'
    BY <2>1, TransferFacts DEF TypeOK, CallVars, connection
  <2>3. \A c \in Callers : Owed(c)' = Owed(c) /\ Sent(c)' = Sent(c)
    BY <2>1 DEF Owed, Sent
  <2> QED  BY <2>1, <2>2, <2>3, TransferFacts, OwedMoves
<1> QED
  BY <1>1, <1>2, <1>3, <1>4, <1>5, <1>6, <1>7, <1>8, <1>9, <1>10, <1>11, <1>12
  DEF Next, CallStep, IoStep

\* Whatever the order of the timer, the transfer, the read that is cancelled and the
\* disconnections, Send and Receive with a timeout keep the books of their handlers,
\* errors and sizes.
THEOREM TransferInvariant == Spec => []TransferInv
BY TransferInit, TransferNext, PTL DEF Spec

\* The variables of the timed calls of TCPClient keep their types: done never exceeds 2.
THEOREM TransferTypeCorrect == Spec => []TypeOK
<1>1. TransferInv => TypeOK  BY DEF TransferInv
<1> QED  BY <1>1, TransferInvariant, PTL

\* Each of the two handlers of a timed Send or Receive runs at most once, done counts
\* those that have, and none is queued or can still come when the call has returned,
\* whatever the order of its timer, its transfer and the cancellations of others.
THEOREM EachCallHasTwoHandlers == Spec => []TwoHandlers
<1>1. TransferInv => TwoHandlers  BY DEF TransferInv
<1> QED  BY <1>1, TransferInvariant, PTL

\* A timed Send or Receive that ends without an error returns what its transfer moved:
\* the handler of the transfer signals before it stores the size, but then it came first,
\* and the timer's handler, which the call waits for, runs behind the store.
THEOREM SuccessTellsTheSize == Spec => SuccessTellsSize
<1> DEFINE Tells == \A c \in Callers :
                       pc[c] = "waiting" /\ pc'[c] = "idle" /\ error[c] = "ok"
                           => size[c] = moved[c]
<1>1. TransferInv /\ [Next]_vars => [Tells]_vars
  <2> SUFFICES ASSUME TransferInv, Next, NEW c \in Callers,
                      pc[c] = "waiting", pc'[c] = "idle", error[c] = "ok"
               PROVE  size[c] = moved[c]
    OBVIOUS
  <2>1. pc \in [Callers -> Places] /\ StoringInv /\ SizeInv
    BY DEF TransferInv, TypeOK
  <2>2. Wake(c)
    <3>1. ASSUME NEW d \in Callers, Enter(d) PROVE FALSE  BY <2>1, <3>1 DEF Enter
    <3>2. ASSUME NEW d \in Callers, StartTimer(d) \/ StartTransfer(d) PROVE FALSE
      BY <2>1, <3>2 DEF StartTimer, StartTransfer
    <3>3. ASSUME NEW d \in Callers, Wake(d) PROVE d = c  BY <2>1, <3>3 DEF Wake
    <3>4. ASSUME \/ \E d \in Callers : \/ TimerExpires(d)
                                       \/ \E ec \in {"ok", "failed"} : TransferEnds(d, ec)
                 \/ IoStep \/ Connect
                 \/ \E ec \in {"ok", "failed"} : ReadEnds(ec)
          PROVE  FALSE
      <4>1. pc' = pc
        BY <3>4 DEF TimerExpires, TransferEnds, IoStep, TimerHandler, TransferHandler,
                    StoreSize, ReadHandler, Connect, ReadEnds, call
      <4> QED  BY <4>1
    <3> QED  BY <3>1, <3>2, <3>3, <3>4 DEF Next, CallStep
  <2>3. done[c] = 2  BY <2>2 DEF Wake
  <2>4. \A s \in storing : s.caller = c => ~InTime(s)  BY <2>1, <2>3 DEF StoringInv
  <2> QED  BY <2>1, <2>3, <2>4 DEF SizeInv
<1>2. Spec => [][Tells]_vars  BY <1>1, TransferInvariant, PTL DEF Spec
<1> QED  BY <1>2 DEF SuccessTellsSize
=============================================================================
