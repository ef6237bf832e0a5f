------------------------------- MODULE PATimer -------------------------------
(***************************************************************************)
(* A timer of the platform interface: class PATimer over the asynchronous  *)
(* Timer, as PATimerManager hands it out.                                  *)
(*                                                                         *)
(* Application threads (Users) start, stop, re-create and wait for the     *)
(* timer; the io_service's thread (Io) runs the handlers of its waits.     *)
(* The members state and tmOutFlag are atomics that both write without a   *)
(* lock, so every access is a step of its own: todo[t] holds the steps     *)
(* thread t still has to take.  A wait may end at any time after it was    *)
(* started; the waits are numbered in the order they are started.          *)
(***************************************************************************)
EXTENDS Integers, Sequences, Functions

CONSTANTS Users,        \* threads that use the timer
          Io,           \* the thread that runs the timer's io_service
          FreshStates,  \* what the constructor leaves in state, which it
                        \* does not initialise
          MaxWaits      \* bound: waits that are started

States == {"PENDING", "EXECUTE", "COMPLETED"}

ASSUME TimerThreads == Io \notin Users
ASSUME TimerFresh == FreshStates \subseteq States
ASSUME TimerBound == MaxWaits \in Nat

VARIABLES state,       \* state
          tmOutFlag,   \* tmOutFlag
          waits,       \* outstanding async_wait operations, their numbers
          queue,       \* their handlers the io_service has not run yet
          todo,        \* steps each thread still has to take
          started,     \* waits started so far
          current,     \* the wait the application waits for, 0 if none
          expired      \* the last wait that expired, 0 if none

vars == <<state, tmOutFlag, waits, queue, todo, started, current, expired>>

Threads == Users \cup {Io}
Steps == {"Setup", "Cancel", "SetExecute", "SetPending", "ClearFlag",
          "WaitAsync", "AwaitCompleted", "SetCompleted"}
Handlers == [canceled : BOOLEAN, wait : Nat]

-----------------------------------------------------------------------------
(* The calls of the application threads.                                   *)

\* Mutants: start does not set the timer up again; the wait is started before
\* the state is updated.
StartStepsNoSetup == <<"SetExecute", "ClearFlag", "WaitAsync">>
StartStepsLate == <<"Setup", "WaitAsync", "SetExecute", "ClearFlag">>

\* What start does unless the timer is running.
StartSteps == <<"Setup", "SetExecute", "ClearFlag", "WaitAsync">>

CleanSteps == <<"ClearFlag", "SetPending", "Setup">>

StopSteps == IF state = "EXECUTE" THEN <<"Cancel">> \o CleanSteps ELSE CleanSteps

Enter(u, s) ==
    /\ todo[u] = <<>>
    /\ todo' = [todo EXCEPT ![u] = s]
    /\ UNCHANGED <<state, tmOutFlag, waits, queue, started, current, expired>>

Start(u) ==
    /\ state # "EXECUTE"
    /\ started < MaxWaits
    /\ Enter(u, StartSteps)

\* Also what popTimer does to a running timer before it forgets it.
Stop(u) == Enter(u, StopSteps)

\* createTimer with the name of a timer that exists.
CreateTimer(u) == Enter(u, CleanSteps)

KillAll(u) == Enter(u, StopSteps \o CleanSteps)

WaitTimeout(u) ==
    \/ /\ state = "EXECUTE"
       /\ Enter(u, <<"AwaitCompleted">> \o CleanSteps)
    \/ /\ state # "EXECUTE"
       /\ started < MaxWaits
       /\ Enter(u, StartSteps \o <<"AwaitCompleted">> \o CleanSteps)

Call(u) == Start(u) \/ Stop(u) \/ CreateTimer(u) \/ KillAll(u) \/ WaitTimeout(u)

-----------------------------------------------------------------------------
(* Their steps.                                                            *)

Goto(t, step) ==
    /\ todo[t] # <<>>
    /\ Head(todo[t]) = step
    /\ todo' = [todo EXCEPT ![t] = Tail(@)]

\* Every outstanding wait ends: its handler is queued.
Finished(c) == [i \in 1..Len(waits) |-> [canceled |-> c, wait |-> waits[i]]]

\* Cancel; setting a new expiry time cancels as well.
CancelWaits(u) ==
    /\ Goto(u, "Cancel") \/ Goto(u, "Setup")
    /\ queue' = queue \o Finished(TRUE)
    /\ waits' = <<>>
    /\ current' = 0
    /\ UNCHANGED <<state, tmOutFlag, started, expired>>

SetState(u) ==
    /\ \/ Goto(u, "SetExecute") /\ state' = "EXECUTE"
       \/ Goto(u, "SetPending") /\ state' = "PENDING"
    /\ UNCHANGED <<tmOutFlag, waits, queue, started, current, expired>>

ClearFlag(u) ==
    /\ Goto(u, "ClearFlag")
    /\ tmOutFlag' = FALSE
    /\ UNCHANGED <<state, waits, queue, started, current, expired>>

WaitAsync(u) ==
    /\ Goto(u, "WaitAsync")
    /\ waits' = Append(waits, started + 1)
    /\ started' = started + 1
    /\ current' = started + 1
    /\ UNCHANGED <<state, tmOutFlag, queue, expired>>

\* while (this->state != COMPLETED) sleep
AwaitCompleted(u) ==
    /\ state = "COMPLETED"
    /\ Goto(u, "AwaitCompleted")
    /\ UNCHANGED <<state, tmOutFlag, waits, queue, started, current, expired>>

UserStep(u) == CancelWaits(u) \/ SetState(u) \/ ClearFlag(u) \/ WaitAsync(u)
               \/ AwaitCompleted(u)

-----------------------------------------------------------------------------
(* The io thread and the clock.                                            *)

\* async_wait_handler: onTimer's assignment to the flag ...
OnTimer ==
    /\ todo[Io] = <<>>
    /\ queue # <<>>
    /\ tmOutFlag' = ~Head(queue).canceled
    /\ queue' = Tail(queue)
    /\ todo' = [todo EXCEPT ![Io] = <<"SetCompleted">>]
    /\ UNCHANGED <<state, waits, started, current, expired>>

\* ... and to the state.
SetCompleted ==
    /\ Goto(Io, "SetCompleted")
    /\ state' = "COMPLETED"
    /\ UNCHANGED <<tmOutFlag, waits, queue, started, current, expired>>

IoStep == OnTimer \/ SetCompleted

\* The time is up.
Expire ==
    /\ waits # <<>>
    /\ queue' = queue \o Finished(FALSE)
    /\ waits' = <<>>
    /\ expired' = waits[Len(waits)]
    /\ UNCHANGED <<state, tmOutFlag, todo, started, current>>

Init ==
    /\ state \in FreshStates
    /\ tmOutFlag = FALSE
    /\ waits = <<>> /\ queue = <<>>
    /\ todo = [t \in Threads |-> <<>>]
    /\ started = 0 /\ current = 0 /\ expired = 0

Next == (\E u \in Users : Call(u) \/ UserStep(u)) \/ IoStep \/ Expire

Spec == Init /\ [][Next]_vars

\* Threads inside a call and the io thread run, and time passes.
FairSpec == /\ Spec
            /\ \A u \in Users : WF_vars(UserStep(u))
            /\ WF_vars(IoStep)
            /\ WF_vars(Expire)

-----------------------------------------------------------------------------
(* Properties.                                                             *)

TypeOK ==
    /\ state \in States
    /\ tmOutFlag \in BOOLEAN
    /\ waits \in Seq(Nat)
    /\ queue \in Seq(Handlers)
    /\ todo \in [Threads -> Seq(Steps)]
    /\ started \in Nat /\ current \in Nat /\ expired \in Nat

\* However often a timer is started, stopped and re-created, and whatever the
\* handlers of earlier waits made of its state: at most one wait is
\* outstanding, and it is the one that was started last.
OneWait == Len(waits) <= 1 /\ \A i \in 1..Len(waits) : waits[i] = started

\* A timer that says it runs does run: once start is done its wait is
\* outstanding, or the handler that will complete the timer is on its way.
RunningIsRunning ==
    (/\ state = "EXECUTE"
     /\ \A u \in Users : "SetExecute" \notin Range(todo[u])
                         /\ "WaitAsync" \notin Range(todo[u]))
        => waits # <<>> \/ queue # <<>> \/ todo[Io] # <<>>

\* wait_timeout, and every other call, returns.
CallsReturn == \A u \in Users : (todo[u] # <<>>) ~> (todo[u] = <<>>)

\* "Only timeouts can be exactly measured": between calls a timer reports a
\* timeout only if the wait that was started last has expired and was not
\* stopped since.  This does not hold: the handler of a wait that has expired may
\* be queued, or run between the assignments of stop.
TimeoutIsReal ==
    (tmOutFlag /\ \A u \in Users : todo[u] = <<>>)
        => current # 0 /\ expired = current

-----------------------------------------------------------------------------
(* The inductive invariant, for a timer that one thread uses.              *)

\* A thread that says the timer runs will start its wait, and starts one only.
StartsInOrder(s) ==
    /\ \A i \in 1..Len(s) :
          s[i] = "SetExecute" => \E j \in 1..Len(s) : j > i /\ s[j] = "WaitAsync"
    /\ \A i, j \in 1..Len(s) : s[i] = "WaitAsync" /\ s[j] = "WaitAsync" => i = j

\* No wait is outstanding when it does, for the timer is set up before.
SetupFirst(s) ==
    \A i \in 1..Len(s) :
        s[i] = "WaitAsync" => waits = <<>> \/ \E j \in 1..Len(s) : j < i /\ s[j] = "Setup"

\* Inductive if Users has one element.
TimerInv ==
    /\ TypeOK /\ OneWait /\ RunningIsRunning
    /\ \A u \in Users : StartsInOrder(todo[u]) /\ SetupFirst(todo[u])
=============================================================================
