---------------------------- MODULE PATimerProofs ----------------------------
(***************************************************************************)
(* Proofs about PATimer: the safety of a timer that one application thread *)
(* uses, for any bound on its waits and whatever a fresh timer's state     *)
(* holds but "EXECUTE".                                                    *)
(***************************************************************************)
EXTENDS PATimer, SequenceTheorems, TLAPS

\* What a call may have to do, in full.
CallSteps ==
    {<<"Setup", "SetExecute", "ClearFlag", "WaitAsync">>,
     <<"ClearFlag", "SetPending", "Setup">>,
     <<"Cancel", "ClearFlag", "SetPending", "Setup">>,
     <<"ClearFlag", "SetPending", "Setup", "ClearFlag", "SetPending", "Setup">>,
     <<"Cancel", "ClearFlag", "SetPending", "Setup", "ClearFlag", "SetPending", "Setup">>,
     <<"AwaitCompleted", "ClearFlag", "SetPending", "Setup">>,
     <<"Setup", "SetExecute", "ClearFlag", "WaitAsync",
       "AwaitCompleted", "ClearFlag", "SetPending", "Setup">>}

-----------------------------------------------------------------------------
(* Lemmas about the steps of a call.                                       *)

LEMMA CallStepsTypes == \A s \in CallSteps : s \in Seq(Steps)
<1>1. /\ <<"Setup", "SetExecute", "ClearFlag", "WaitAsync">> \in Seq(Steps)
      /\ <<"ClearFlag", "SetPending", "Setup">> \in Seq(Steps)
      /\ <<"Cancel", "ClearFlag", "SetPending", "Setup">> \in Seq(Steps)
  BY DEF Steps
<1>2. /\ <<"ClearFlag", "SetPending", "Setup", "ClearFlag", "SetPending", "Setup">>
            \in Seq(Steps)
      /\ <<"Cancel", "ClearFlag", "SetPending", "Setup",
           "ClearFlag", "SetPending", "Setup">> \in Seq(Steps)
      /\ <<"AwaitCompleted", "ClearFlag", "SetPending", "Setup">> \in Seq(Steps)
      /\ <<"Setup", "SetExecute", "ClearFlag", "WaitAsync",
           "AwaitCompleted", "ClearFlag", "SetPending", "Setup">> \in Seq(Steps)
  BY DEF Steps
<1> QED  BY <1>1, <1>2 DEF CallSteps

LEMMA CallStepsInOrder == \A s \in CallSteps : StartsInOrder(s) /\ SetupFirst(s)
<1> SUFFICES ASSUME NEW s \in CallSteps PROVE StartsInOrder(s) /\ SetupFirst(s)
  OBVIOUS
<1>1. CASE s = <<"Setup", "SetExecute", "ClearFlag", "WaitAsync">>
  <2>1. Len(s) = 4 /\ s[1] = "Setup" /\ s[2] = "SetExecute" /\ s[3] = "ClearFlag"
        /\ s[4] = "WaitAsync"
    BY <1>1
  <2> QED  BY <2>1 DEF StartsInOrder, SetupFirst
<1>2. CASE s = <<"Setup", "SetExecute", "ClearFlag", "WaitAsync",
                 "AwaitCompleted", "ClearFlag", "SetPending", "Setup">>
  <2>1. Len(s) = 8 /\ s[1] = "Setup" /\ s[2] = "SetExecute" /\ s[3] = "ClearFlag"
        /\ s[4] = "WaitAsync" /\ s[5] = "AwaitCompleted" /\ s[6] = "ClearFlag"
        /\ s[7] = "SetPending" /\ s[8] = "Setup"
    BY <1>2
  <2> QED  BY <2>1 DEF StartsInOrder, SetupFirst
<1>3. CASE s \in CallSteps \ {<<"Setup", "SetExecute", "ClearFlag", "WaitAsync">>,
                              <<"Setup", "SetExecute", "ClearFlag", "WaitAsync",
                                "AwaitCompleted", "ClearFlag", "SetPending", "Setup">>}
  <2>1. \A i \in 1..Len(s) : s[i] \notin {"SetExecute", "WaitAsync"}
    BY <1>3 DEF CallSteps
  <2> QED  BY <2>1 DEF StartsInOrder, SetupFirst
<1> QED  BY <1>1, <1>2, <1>3 DEF CallSteps

\* What a concatenation of steps is.
LEMMA StepsAssociative ==
  ASSUME NEW a \in Seq(Steps), NEW b \in Seq(Steps), NEW c \in Seq(Steps)
  PROVE  (a \o b) \o c = a \o (b \o c)
<1> HIDE DEF Steps
<1> QED  BY ConcatAssociative

LEMMA Concatenated ==
  ASSUME NEW a \in Seq(Steps), NEW b \in Seq(Steps), NEW c \in Seq(Steps),
         Len(c) = Len(a) + Len(b),
         \A i \in 1..Len(a) : c[i] = a[i],
         \A i \in 1..Len(b) : c[Len(a) + i] = b[i]
  PROVE  a \o b = c
<1>1. /\ a \o b \in Seq(Steps) /\ Len(a \o b) = Len(a) + Len(b)
      /\ \A i \in 1..(Len(a) + Len(b)) :
            (a \o b)[i] = IF i <= Len(a) THEN a[i] ELSE b[i - Len(a)]
  BY ConcatProperties
<1>2. ASSUME NEW i \in 1..Len(c) PROVE (a \o b)[i] = c[i]
  <2>1. CASE i <= Len(a)  BY <1>1, <2>1
  <2>2. CASE i > Len(a)
    <3>1. i - Len(a) \in 1..Len(b) /\ Len(a) + (i - Len(a)) = i  BY <2>2
    <3> QED  BY <1>1, <2>2, <3>1
  <2> QED  BY <2>1, <2>2
<1> QED  BY <1>1, <1>2, SeqEqual

\* A call begins with one of these.
LEMMA CallEnters ==
  ASSUME NEW u \in Users, Call(u)
  PROVE  \E s \in CallSteps : Enter(u, s)
<1> DEFINE start == <<"Setup", "SetExecute", "ClearFlag", "WaitAsync">>
           clean == <<"ClearFlag", "SetPending", "Setup">>
           stop == <<"Cancel", "ClearFlag", "SetPending", "Setup">>
           cleanTwice == <<"ClearFlag", "SetPending", "Setup",
                           "ClearFlag", "SetPending", "Setup">>
           kill == <<"Cancel", "ClearFlag", "SetPending", "Setup",
                     "ClearFlag", "SetPending", "Setup">>
           await == <<"AwaitCompleted", "ClearFlag", "SetPending", "Setup">>
           wait == <<"Setup", "SetExecute", "ClearFlag", "WaitAsync",
                     "AwaitCompleted", "ClearFlag", "SetPending", "Setup">>
           cancel == <<"Cancel">>
           poll == <<"AwaitCompleted">>
<1>1. /\ start \in CallSteps /\ clean \in CallSteps /\ stop \in CallSteps
      /\ cleanTwice \in CallSteps /\ kill \in CallSteps /\ await \in CallSteps
      /\ wait \in CallSteps
  BY DEF CallSteps
<1>2. /\ start \in Seq(Steps) /\ clean \in Seq(Steps) /\ stop \in Seq(Steps)
      /\ cleanTwice \in Seq(Steps) /\ kill \in Seq(Steps) /\ await \in Seq(Steps)
      /\ wait \in Seq(Steps)
      /\ cancel \in Seq(Steps) /\ poll \in Seq(Steps)
  BY <1>1, CallStepsTypes DEF Steps
<1>3. /\ Len(stop) = Len(cancel) + Len(clean)
      /\ \A i \in 1..Len(cancel) : stop[i] = cancel[i]
      /\ \A i \in 1..Len(clean) : stop[Len(cancel) + i] = clean[i]
  OBVIOUS
<1>4. /\ Len(cleanTwice) = Len(clean) + Len(clean)
      /\ \A i \in 1..Len(clean) : cleanTwice[i] = clean[i]
      /\ \A i \in 1..Len(clean) : cleanTwice[Len(clean) + i] = clean[i]
  OBVIOUS
<1>5. /\ Len(kill) = Len(stop) + Len(clean)
      /\ \A i \in 1..Len(stop) : kill[i] = stop[i]
      /\ \A i \in 1..Len(clean) : kill[Len(stop) + i] = clean[i]
  OBVIOUS
<1>6. /\ Len(await) = Len(poll) + Len(clean)
      /\ \A i \in 1..Len(poll) : await[i] = poll[i]
      /\ \A i \in 1..Len(clean) : await[Len(poll) + i] = clean[i]
  OBVIOUS
<1>7. /\ Len(wait) = Len(start) + Len(await)
      /\ \A i \in 1..Len(start) : wait[i] = start[i]
      /\ \A i \in 1..Len(await) : wait[Len(start) + i] = await[i]
  OBVIOUS
<1>8. /\ StartSteps = start /\ CleanSteps = clean
      /\ cancel = <<"Cancel">> /\ poll = <<"AwaitCompleted">>
  BY DEF StartSteps, CleanSteps
<1> HIDE DEF start, clean, stop, cleanTwice, kill, await, wait, cancel, poll, CallSteps, Enter
<1>9. cancel \o clean = stop
  <2>1. cancel \in Seq(Steps) /\ clean \in Seq(Steps) /\ stop \in Seq(Steps)  BY <1>2
  <2> QED  BY ONLY <1>3, <2>1, Concatenated
<1>10. clean \o clean = cleanTwice
  <2>1. clean \in Seq(Steps) /\ cleanTwice \in Seq(Steps)  BY <1>2
  <2> QED  BY ONLY <1>4, <2>1, Concatenated
<1>11. stop \o clean = kill
  <2>1. stop \in Seq(Steps) /\ clean \in Seq(Steps) /\ kill \in Seq(Steps)  BY <1>2
  <2> QED  BY ONLY <1>5, <2>1, Concatenated
<1>12. poll \o clean = await
  <2>1. poll \in Seq(Steps) /\ clean \in Seq(Steps) /\ await \in Seq(Steps)  BY <1>2
  <2> QED  BY ONLY <1>6, <2>1, Concatenated
<1>13. start \o await = wait
  <2>1. start \in Seq(Steps) /\ await \in Seq(Steps) /\ wait \in Seq(Steps)  BY <1>2
  <2> QED  BY ONLY <1>7, <2>1, Concatenated
<1>14. StopSteps \in {stop, clean} /\ StopSteps \o CleanSteps \in {kill, cleanTwice}
  BY <1>8, <1>9, <1>10, <1>11 DEF StopSteps
<1>15. \E s \in {StartSteps, StopSteps, CleanSteps, StopSteps \o CleanSteps,
                 poll \o CleanSteps, StartSteps \o poll \o CleanSteps} : Enter(u, s)
  BY <1>8 DEF Call, Start, Stop, CreateTimer, KillAll, WaitTimeout
<1>16. StartSteps \o poll \o CleanSteps = wait
  <2>1. start \in Seq(Steps) /\ poll \in Seq(Steps) /\ clean \in Seq(Steps)  BY <1>2
  <2>2. (start \o poll) \o clean = start \o (poll \o clean)
    BY ONLY <2>1, StepsAssociative
  <2> QED  BY <1>8, <1>12, <1>13, <2>2
<1> QED  BY <1>1, <1>8, <1>12, <1>14, <1>15, <1>16

\* A thread takes its next step.
LEMMA GotoStep ==
  ASSUME TypeOK, NEW t \in Threads, NEW step, Goto(t, step)
  PROVE  /\ todo' \in [Threads -> Seq(Steps)]
         /\ \A x \in Threads \ {t} : todo'[x] = todo[x]
         /\ Len(todo[t]) \in Nat /\ Len(todo[t]) > 0 /\ todo[t][1] = step
         /\ Len(todo'[t]) = Len(todo[t]) - 1
         /\ \A i \in 1..Len(todo'[t]) :
               i + 1 \in 1..Len(todo[t]) /\ todo'[t][i] = todo[t][i + 1]
<1>1. todo \in [Threads -> Seq(Steps)]  BY DEF TypeOK
<1>2. /\ todo[t] \in Seq(Steps) /\ todo[t] # <<>> /\ Head(todo[t]) = step
      /\ todo' = [todo EXCEPT ![t] = Tail(todo[t])]
  BY <1>1 DEF Goto
<1>3. todo'[t] = Tail(todo[t]) /\ Tail(todo[t]) \in Seq(Steps)
  BY <1>1, <1>2
<1>4. /\ Len(todo[t]) \in Nat /\ Len(todo[t]) > 0 /\ todo[t][1] = step
      /\ Len(Tail(todo[t])) = Len(todo[t]) - 1
      /\ \A i \in 1..Len(Tail(todo[t])) :
            i + 1 \in 1..Len(todo[t]) /\ Tail(todo[t])[i] = todo[t][i + 1]
  BY <1>2
<1> QED  BY <1>1, <1>2, <1>3, <1>4

\* What it still has to do is as it was, and the same once more.
LEMMA Shifted ==
  ASSUME NEW s, NEW r, Len(s) \in Nat, Len(s) > 0, Len(r) = Len(s) - 1,
         \A i \in 1..Len(r) : i + 1 \in 1..Len(s) /\ r[i] = s[i + 1]
  PROVE  /\ \A i \in 1..Len(s) : i = 1 \/ (i - 1 \in 1..Len(r) /\ r[i - 1] = s[i])
         /\ StartsInOrder(s) => StartsInOrder(r)
         /\ SetupFirst(s) /\ s[1] # "Setup" => SetupFirst(r)
         /\ s[1] = "SetExecute" /\ StartsInOrder(s)
               => \E i \in 1..Len(r) : r[i] = "WaitAsync"
         /\ s[1] = "WaitAsync" /\ StartsInOrder(s)
               => \A i \in 1..Len(r) : r[i] # "WaitAsync"
<1>1. \A i \in 1..Len(s) : i = 1 \/ (i - 1 \in 1..Len(r) /\ r[i - 1] = s[i])
  <2> SUFFICES ASSUME NEW i \in 1..Len(s), i # 1
               PROVE  i - 1 \in 1..Len(r) /\ r[i - 1] = s[i]
    OBVIOUS
  <2>1. i - 1 \in 1..Len(r) /\ (i - 1) + 1 = i  OBVIOUS
  <2> QED  BY <2>1
<1>2. ASSUME StartsInOrder(s) PROVE StartsInOrder(r)
  <2>1. ASSUME NEW i \in 1..Len(r), r[i] = "SetExecute"
        PROVE  \E j \in 1..Len(r) : j > i /\ r[j] = "WaitAsync"
    <3>1. PICK j \in 1..Len(s) : j > i + 1 /\ s[j] = "WaitAsync"
      BY <1>2, <2>1 DEF StartsInOrder
    <3>2. j # 1 /\ j - 1 > i  BY <3>1
    <3> QED  BY <1>1, <3>1, <3>2
  <2>2. ASSUME NEW i \in 1..Len(r), NEW j \in 1..Len(r),
               r[i] = "WaitAsync", r[j] = "WaitAsync"
        PROVE  i = j
    <3>1. i + 1 = j + 1  BY <1>2, <2>2 DEF StartsInOrder
    <3> QED  BY <3>1
  <2> QED  BY <2>1, <2>2 DEF StartsInOrder
<1>3. ASSUME SetupFirst(s), s[1] # "Setup" PROVE SetupFirst(r)
  <2> SUFFICES ASSUME NEW i \in 1..Len(r), r[i] = "WaitAsync", waits # <<>>
               PROVE  \E j \in 1..Len(r) : j < i /\ r[j] = "Setup"
    BY DEF SetupFirst
  <2>1. PICK j \in 1..Len(s) : j < i + 1 /\ s[j] = "Setup"
    BY <1>3 DEF SetupFirst
  <2>2. j # 1 /\ j - 1 < i  BY <1>3, <2>1
  <2> QED  BY <1>1, <2>1, <2>2
<1>4. ASSUME s[1] = "SetExecute", StartsInOrder(s)
      PROVE  \E i \in 1..Len(r) : r[i] = "WaitAsync"
  <2>1. PICK j \in 1..Len(s) : j > 1 /\ s[j] = "WaitAsync"
    BY <1>4 DEF StartsInOrder
  <2> QED  BY <1>1, <2>1
<1>5. ASSUME s[1] = "WaitAsync", StartsInOrder(s), NEW i \in 1..Len(r), r[i] = "WaitAsync"
      PROVE  FALSE
  <2>1. i + 1 = 1  BY <1>5 DEF StartsInOrder
  <2> QED  BY <2>1
<1> QED  BY <1>1, <1>2, <1>3, <1>4, <1>5

-----------------------------------------------------------------------------
(* The types of the variables.                                             *)

\* The handlers of the outstanding waits.
LEMMA FinishedTypes ==
  ASSUME TypeOK, NEW c \in BOOLEAN
  PROVE  /\ Finished(c) \in Seq(Handlers)
         /\ waits # <<>> => Finished(c) # <<>>
<1>1. waits \in Seq(Nat)  BY DEF TypeOK
<1>2. \A i \in 1..Len(waits) : [canceled |-> c, wait |-> waits[i]] \in Handlers
  BY <1>1 DEF Handlers
<1>3. Finished(c) \in Seq(Handlers) /\ Len(Finished(c)) = Len(waits)
  <2>1. Len(waits) \in Nat  BY <1>1
  <2> HIDE DEF Handlers
  <2> QED  BY <1>2, <2>1 DEF Finished
<1>4. waits # <<>> => Len(waits) # 0  BY <1>1
<1> QED  BY <1>3, <1>4

\* What they do to the queue.
LEMMA FinishedQueued ==
  ASSUME TypeOK, NEW c \in BOOLEAN, queue' = queue \o Finished(c)
  PROVE  /\ queue' \in Seq(Handlers)
         /\ waits # <<>> \/ queue # <<>> => queue' # <<>>
<1>1. queue \in Seq(Handlers) /\ Finished(c) \in Seq(Handlers)
      /\ (waits # <<>> => Finished(c) # <<>>)
  BY FinishedTypes DEF TypeOK
<1> DEFINE T == Handlers
           f == Finished(c)
<1>2. queue \in Seq(T) /\ f \in Seq(T) /\ queue' = queue \o f  BY <1>1
<1> HIDE DEF T, f
<1>3. queue' \in Seq(T) /\ Len(queue') = Len(queue) + Len(f)  BY <1>2
<1>4. queue # <<>> => Len(queue) > 0  BY <1>2
<1>5. f # <<>> => Len(f) > 0  BY <1>2
<1>6. Len(queue) \in Nat /\ Len(f) \in Nat  BY <1>2
<1>7. Len(queue') > 0 => queue' # <<>>  OBVIOUS
<1> QED  BY <1>1, <1>3, <1>4, <1>5, <1>6, <1>7 DEF T, f

LEMMA NextTypes ==
  ASSUME TypeOK, Next
  PROVE  TypeOK'
<1>0. Io \in Threads /\ \A u \in Users : u \in Threads  BY DEF Threads
<1>1. ASSUME NEW u \in Users, Call(u) PROVE TypeOK'
  <2>1. PICK s \in CallSteps : Enter(u, s)  BY <1>1, CallEnters
  <2>2. s \in Seq(Steps)  BY CallStepsTypes
  <2> QED  BY <1>0, <2>1, <2>2 DEF Enter, TypeOK
<1>2. ASSUME NEW u \in Users, UserStep(u) PROVE TypeOK'
  <2>1. \E step : Goto(u, step)
    BY <1>2 DEF UserStep, CancelWaits, SetState, ClearFlag, WaitAsync, AwaitCompleted
  <2>2. todo' \in [Threads -> Seq(Steps)]  BY <1>0, <2>1, GotoStep
  <2>3. CASE CancelWaits(u)
    <3>1. queue' \in Seq(Handlers)  BY <2>3, FinishedQueued DEF CancelWaits
    <3>2. waits' \in Seq(Nat)
      <4>1. waits' = <<>>  BY <2>3 DEF CancelWaits
      <4> QED  BY <4>1
    <3> QED  BY <2>2, <2>3, <3>1, <3>2 DEF CancelWaits, TypeOK
  <2>4. CASE SetState(u)  BY <2>2, <2>4 DEF SetState, TypeOK, States
  <2>5. CASE ClearFlag(u)  BY <2>2, <2>5 DEF ClearFlag, TypeOK
  <2>6. CASE WaitAsync(u)
    <3>1. started + 1 \in Nat /\ waits \in Seq(Nat)  BY DEF TypeOK
    <3> QED  BY <2>2, <2>6, <3>1 DEF WaitAsync, TypeOK
  <2>7. CASE AwaitCompleted(u)  BY <2>2, <2>7 DEF AwaitCompleted, TypeOK
  <2> QED  BY <1>2, <2>3, <2>4, <2>5, <2>6, <2>7 DEF UserStep
<1>3. CASE OnTimer
  <2>1. <<"SetCompleted">> \in Seq(Steps)  BY DEF Steps
  <2>2. todo' \in [Threads -> Seq(Steps)]  BY <1>0, <1>3, <2>1 DEF OnTimer, TypeOK
  <2>3. queue' \in Seq(Handlers) /\ tmOutFlag' \in BOOLEAN
    <3>1. queue \in Seq(Handlers) /\ queue # <<>>  BY <1>3 DEF OnTimer, TypeOK
    <3> QED  BY <1>3, <3>1 DEF OnTimer
  <2> QED  BY <1>3, <2>2, <2>3 DEF OnTimer, TypeOK
<1>4. CASE SetCompleted
  <2>1. todo' \in [Threads -> Seq(Steps)]  BY <1>0, <1>4, GotoStep DEF SetCompleted
  <2> QED  BY <1>4, <2>1 DEF SetCompleted, TypeOK, States
<1>5. CASE Expire
  <2>1. queue' \in Seq(Handlers)  BY <1>5, FinishedQueued DEF Expire
  <2>2. waits' \in Seq(Nat) /\ expired' \in Nat
    <3>1. waits \in Seq(Nat) /\ waits # <<>>  BY <1>5 DEF Expire, TypeOK
    <3>2. Len(waits) \in 1..Len(waits)  BY <3>1
    <3> QED  BY <1>5, <3>1, <3>2 DEF Expire
  <2> QED  BY <1>5, <2>1, <2>2 DEF Expire, TypeOK
<1> QED  BY <1>1, <1>2, <1>3, <1>4, <1>5 DEF Next, IoStep

LEMMA InitTypes ==
  ASSUME Init
  PROVE  TypeOK
<1>1. state \in States  BY TimerFresh DEF Init
<1>2. waits \in Seq(Nat) /\ queue \in Seq(Handlers) /\ <<>> \in Seq(Steps)
  BY DEF Init
<1> QED  BY <1>1, <1>2 DEF Init, TypeOK

-----------------------------------------------------------------------------
(* The invariant.                                                          *)

\* A call or a step of the timer's thread.
LEMMA UserTimerInv ==
  ASSUME NEW u, Users = {u}, TimerInv, Call(u) \/ UserStep(u)
  PROVE  TimerInv'
<1>1. /\ TypeOK /\ OneWait /\ RunningIsRunning
      /\ StartsInOrder(todo[u]) /\ SetupFirst(todo[u])
  BY DEF TimerInv
<1>2. u \in Users /\ u \in Threads /\ Io \in Threads /\ u # Io
  BY TimerThreads DEF Threads
<1>3. TypeOK'  BY <1>1, <1>2, NextTypes DEF Next
<1>4. CASE Call(u)
  <2>1. PICK s \in CallSteps : Enter(u, s)  BY <1>2, <1>4, CallEnters
  <2>2. /\ todo[u] = <<>> /\ todo' = [todo EXCEPT ![u] = s]
        /\ UNCHANGED <<state, waits, queue, started>>
    BY <2>1 DEF Enter
  <2>3. todo'[u] = s /\ todo'[Io] = todo[Io]  BY <1>1, <1>2, <2>2 DEF TypeOK
  <2>4. StartsInOrder(todo[u])' /\ SetupFirst(todo[u])'
    <3>1. StartsInOrder(s) /\ SetupFirst(s)  BY CallStepsInOrder
    <3>2. StartsInOrder(todo[u])'  BY <2>3, <3>1 DEF StartsInOrder
    <3>3. SetupFirst(todo[u])'  BY <2>2, <2>3, <3>1 DEF SetupFirst
    <3> QED  BY <3>2, <3>3
  <2>5. Range(todo[u]) = {}
    <3>1. DOMAIN todo[u] = {}  BY <2>2
    <3> QED  BY <3>1 DEF Range
  <2>6. RunningIsRunning'  BY <1>1, <1>2, <2>2, <2>3, <2>5 DEF RunningIsRunning
  <2>7. OneWait'  BY <1>1, <2>2 DEF OneWait
  <2> QED  BY <1>3, <2>4, <2>6, <2>7 DEF TimerInv
<1>5. CASE UserStep(u)
  <2>1. PICK step : Goto(u, step)
    BY <1>5 DEF UserStep, CancelWaits, SetState, ClearFlag, WaitAsync, AwaitCompleted
  <2> DEFINE s == todo[u]
             r == todo'[u]
  <2>2. /\ todo'[Io] = todo[Io]
        /\ Len(s) \in Nat /\ Len(s) > 0 /\ s[1] = step
        /\ Len(r) = Len(s) - 1
        /\ \A i \in 1..Len(r) : i + 1 \in 1..Len(s) /\ r[i] = s[i + 1]
    BY <1>1, <1>2, <2>1, GotoStep
  <2>3. /\ \A i \in 1..Len(s) : i = 1 \/ (i - 1 \in 1..Len(r) /\ r[i - 1] = s[i])
        /\ StartsInOrder(r)
        /\ step # "Setup" => SetupFirst(r)
        /\ step = "SetExecute" => \E i \in 1..Len(r) : r[i] = "WaitAsync"
        /\ step = "WaitAsync" => \A i \in 1..Len(r) : r[i] # "WaitAsync"
    <3>1. StartsInOrder(s) /\ SetupFirst(s)  BY <1>1
    <3> HIDE DEF s, r
    <3>2. /\ \A i \in 1..Len(s) : i = 1 \/ (i - 1 \in 1..Len(r) /\ r[i - 1] = s[i])
          /\ StartsInOrder(r)
          /\ s[1] # "Setup" => SetupFirst(r)
          /\ s[1] = "SetExecute" => \E i \in 1..Len(r) : r[i] = "WaitAsync"
          /\ s[1] = "WaitAsync" => \A i \in 1..Len(r) : r[i] # "WaitAsync"
      <4>1. /\ Len(s) \in Nat /\ Len(s) > 0 /\ Len(r) = Len(s) - 1
            /\ \A i \in 1..Len(r) : i + 1 \in 1..Len(s) /\ r[i] = s[i + 1]
        BY <2>2
      <4> QED  BY ONLY <3>1, <4>1, Shifted
    <3> QED  BY <2>2, <3>2
  <2>4. s \in Seq(Steps) /\ r \in Seq(Steps)  BY <1>1, <1>2, <1>3 DEF TypeOK
  <2>5. Range(s) = {s[i] : i \in 1..Len(s)} /\ Range(r) = {r[i] : i \in 1..Len(r)}
    <3> HIDE DEF s, r
    <3> QED  BY <2>4 DEF Range
  <2>6. /\ step # "SetExecute" => ("SetExecute" \in Range(s) <=> "SetExecute" \in Range(r))
        /\ step # "WaitAsync" => ("WaitAsync" \in Range(s) <=> "WaitAsync" \in Range(r))
        /\ step = "SetExecute" => "WaitAsync" \in Range(r)
    <3> HIDE DEF s, r
    <3>1. ASSUME NEW x, x # step PROVE x \in Range(s) <=> x \in Range(r)
      <4>1. ASSUME x \in Range(s) PROVE x \in Range(r)
        <5>1. PICK i \in 1..Len(s) : s[i] = x  BY <2>5, <4>1
        <5>2. i # 1  BY <2>2, <3>1, <5>1
        <5> QED  BY <2>3, <2>5, <5>1, <5>2
      <4>2. ASSUME x \in Range(r) PROVE x \in Range(s)
        <5>1. PICK i \in 1..Len(r) : r[i] = x  BY <2>5, <4>2
        <5> QED  BY <2>2, <2>5, <5>1
      <4> QED  BY <4>1, <4>2
    <3>2. step = "SetExecute" => "WaitAsync" \in Range(r)  BY <2>3, <2>5
    <3> QED  BY <3>1, <3>2
  <2>7. StartsInOrder(todo[u])'  BY <2>3 DEF StartsInOrder
  <2>8. CASE CancelWaits(u)
    <3>1. /\ step \in {"Cancel", "Setup"} /\ waits' = <<>>
          /\ UNCHANGED <<state, started>> /\ queue' = queue \o Finished(TRUE)
      BY <2>1, <2>8 DEF CancelWaits, Goto
    <3>2. waits # <<>> \/ queue # <<>> => queue' # <<>>
      BY <1>1, <3>1, FinishedQueued
    <3>3. SetupFirst(todo[u])'  BY <3>1 DEF SetupFirst
    <3>4. OneWait'  BY <3>1 DEF OneWait
    <3>5. RunningIsRunning'
      BY <1>1, <1>2, <2>2, <2>6, <3>1, <3>2 DEF RunningIsRunning
    <3> QED  BY <1>3, <2>7, <3>3, <3>4, <3>5 DEF TimerInv
  <2>9. CASE WaitAsync(u)
    <3>1. /\ step = "WaitAsync" /\ waits' = Append(waits, started + 1)
          /\ started' = started + 1
      BY <2>1, <2>9 DEF WaitAsync, Goto
    <3>2. waits = <<>>
      <4>1. 1 \in 1..Len(s)  BY <2>2
      <4> QED  BY <1>1, <2>2, <3>1, <4>1 DEF SetupFirst
    <3>3. waits' = <<started + 1>>
      <4>1. Append(<<>>, started + 1) = <<started + 1>>  OBVIOUS
      <4> QED  BY <3>1, <3>2, <4>1
    <3>4. SetupFirst(todo[u])'  BY <2>3, <3>1 DEF SetupFirst
    <3>5. OneWait'
      <4>1. \A x : Len(<<x>>) = 1 /\ <<x>>[1] = x  OBVIOUS
      <4>2. Len(waits') = 1 /\ waits'[1] = started'  BY <3>1, <3>3, <4>1
      <4> QED  BY <4>2 DEF OneWait
    <3>6. RunningIsRunning'  BY <3>3 DEF RunningIsRunning
    <3> QED  BY <1>3, <2>7, <3>4, <3>5, <3>6 DEF TimerInv
  <2>10. CASE SetState(u) \/ ClearFlag(u) \/ AwaitCompleted(u)
    <3>1. /\ step \notin {"Setup", "WaitAsync"} /\ UNCHANGED <<waits, queue, started>>
          /\ \/ step = "SetExecute" /\ state' = "EXECUTE"
             \/ step # "SetExecute" /\ state' = "PENDING"
             \/ step # "SetExecute" /\ state' = state
      BY <2>1, <2>10 DEF SetState, ClearFlag, AwaitCompleted, Goto
    <3>2. SetupFirst(todo[u])'  BY <2>3, <3>1 DEF SetupFirst
    <3>3. OneWait'  BY <1>1, <3>1 DEF OneWait
    <3>4. RunningIsRunning'
      BY <1>1, <1>2, <2>2, <2>6, <3>1 DEF RunningIsRunning
    <3> QED  BY <1>3, <2>7, <3>2, <3>3, <3>4 DEF TimerInv
  <2> QED  BY <1>5, <2>8, <2>9, <2>10 DEF UserStep
<1> QED  BY <1>4, <1>5

\* A step of the io thread, or the end of the time.
LEMMA IoTimerInv ==
  ASSUME NEW u, Users = {u}, TimerInv, IoStep \/ Expire
  PROVE  TimerInv'
<1>1. /\ TypeOK /\ OneWait /\ RunningIsRunning
      /\ StartsInOrder(todo[u]) /\ SetupFirst(todo[u])
  BY DEF TimerInv
<1>2. u \in Users /\ u \in Threads /\ Io \in Threads /\ u # Io
  BY TimerThreads DEF Threads
<1>3. TypeOK'  BY <1>1, NextTypes DEF Next
<1>4. todo'[u] = todo[u] /\ started' = started
  BY <1>1, <1>2 DEF IoStep, OnTimer, SetCompleted, Expire, Goto, TypeOK
<1>5. waits' = waits \/ waits' = <<>>
  BY DEF IoStep, OnTimer, SetCompleted, Expire
<1>6. StartsInOrder(todo[u])' /\ SetupFirst(todo[u])'
  BY <1>1, <1>4, <1>5 DEF StartsInOrder, SetupFirst
<1>7. OneWait'  BY <1>1, <1>4, <1>5 DEF OneWait
<1>8. RunningIsRunning'
  <2>1. CASE OnTimer
    <3>1. todo'[Io] # <<>>  BY <1>1, <1>2, <2>1 DEF OnTimer, TypeOK
    <3> QED  BY <3>1 DEF RunningIsRunning
  <2>2. CASE SetCompleted  BY <2>2 DEF SetCompleted, RunningIsRunning
  <2>3. CASE Expire
    <3>1. queue' # <<>>  BY <1>1, <2>3, FinishedQueued DEF Expire
    <3> QED  BY <3>1 DEF RunningIsRunning
  <2> QED  BY <2>1, <2>2, <2>3 DEF IoStep
<1> QED  BY <1>3, <1>6, <1>7, <1>8 DEF TimerInv

LEMMA InitTimerInv ==
  ASSUME "EXECUTE" \notin FreshStates, Init
  PROVE  TimerInv
<1>1. TypeOK  BY InitTypes
<1>2. waits = <<>> /\ state # "EXECUTE" /\ \A u \in Users : todo[u] = <<>>
  BY DEF Init, Threads
<1>3. OneWait /\ RunningIsRunning  BY <1>2 DEF OneWait, RunningIsRunning
<1>4. \A u \in Users : StartsInOrder(todo[u]) /\ SetupFirst(todo[u])
  BY <1>2 DEF StartsInOrder, SetupFirst
<1> QED  BY <1>1, <1>3, <1>4 DEF TimerInv

-----------------------------------------------------------------------------
(* The theorems.                                                           *)

\* The types are right, whatever uses the timer.
THEOREM TimerTypeCorrect == Spec => []TypeOK
<1>1. Init => TypeOK  BY InitTypes
<1>2. TypeOK /\ [Next]_vars => TypeOK'
  <2>1. TypeOK /\ UNCHANGED vars => TypeOK'  BY DEF TypeOK, vars
  <2> QED  BY <2>1, NextTypes
<1> QED  BY <1>1, <1>2, PTL DEF Spec

\* The invariant of a timer that one thread uses and that was not constructed in
\* memory that holds the value of EXECUTE.
THEOREM TimerInvariant ==
  ASSUME NEW u, Users = {u}, "EXECUTE" \notin FreshStates
  PROVE  Spec => []TimerInv
<1>1. Init => TimerInv  BY InitTimerInv
<1>2. TimerInv /\ [Next]_vars => TimerInv'
  <2> SUFFICES ASSUME TimerInv, [Next]_vars PROVE TimerInv'  OBVIOUS
  <2>1. CASE UNCHANGED vars
    BY <2>1 DEF TimerInv, TypeOK, OneWait, RunningIsRunning, StartsInOrder, SetupFirst, vars
  <2>2. CASE Next  BY <2>2, UserTimerInv, IoTimerInv DEF Next
  <2> QED  BY <2>1, <2>2
<1> QED  BY <1>1, <1>2, PTL DEF Spec

\* However often the timer is started, stopped and re-created, at most one wait is
\* outstanding, the one started last.
THEOREM OneWaitAtATime ==
  ASSUME NEW u, Users = {u}, "EXECUTE" \notin FreshStates
  PROVE  Spec => []OneWait
<1>1. TimerInv => OneWait  BY DEF TimerInv
<1> QED  BY <1>1, TimerInvariant, PTL

\* A timer that says it runs has a wait outstanding or a handler that will complete
\* it on its way.
THEOREM RunningTimerRuns ==
  ASSUME NEW u, Users = {u}, "EXECUTE" \notin FreshStates
  PROVE  Spec => []RunningIsRunning
<1>1. TimerInv => RunningIsRunning  BY DEF TimerInv
<1> QED  BY <1>1, TimerInvariant, PTL
=============================================================================
