------------------------------- MODULE Service -------------------------------
(***************************************************************************)
(* Class Service in its io-service-per-thread design, and IfRuntime, which *)
(* owns one: starting, stopping and restarting it, and the loop of its     *)
(* working threads.                                                        *)
(*                                                                         *)
(* Thread k serves io_service k.  The flag IsStarted is set and cleared by *)
(* handlers posted to io_service 0.  A polling thread polls its io_service *)
(* as long as the flag is set; otherwise a thread runs it until it is      *)
(* stopped.  What a handler does for the application is left out: it       *)
(* returns, throws not_connected or throws another system error.           *)
(***************************************************************************)
EXTENDS Integers, SequencesExt

CONSTANTS N,            \* number of io_services and threads
          Hasty,        \* the owner calls without waiting for IsStarted
          ErrorsThrown, \* handlers may throw errors other than not_connected
          MaxCalls,     \* bound: calls of the owner
          MaxPosts      \* bound: handlers posted by the application

ASSUME ServiceSize == N \in Nat \ {0}
ASSUME ServiceBounds == /\ Hasty \in BOOLEAN /\ ErrorsThrown \in BOOLEAN
                        /\ MaxCalls \in Nat /\ MaxPosts \in Nat

VARIABLES started,   \* _started
          polling,   \* _polling
          halted,    \* io_services that were stopped
          queue,     \* handlers of each io_service
          thread,    \* where each working thread is; "none": none to join
          todo,      \* steps of the owner's call
          up,        \* the owner started the service and has not stopped it
          crashed,   \* a thread that runs was overwritten: std::terminate
          calls,     \* calls of the owner so far
          posts      \* handlers the application posted so far

loop == <<halted, queue, thread>>
owner == <<todo, up, crashed, calls>>
vars == <<started, polling, loop, owner, posts>>

Services == 0..(N - 1)
Handlers == {"Start", "Stop", "Work"}
Steps == [op : {"PostStop", "Join", "Renew", "AwaitStopped"}]
         \cup [op : {"Start"}, polling : BOOLEAN]
Step(op) == [op |-> op]

Put(k, h) == queue' = [queue EXCEPT ![k] = Append(@, h)]

-----------------------------------------------------------------------------
(* The owner.                                                              *)

\* Start, in the state the io_services are in.
StartWith(p, q) ==
    /\ polling' = p
    /\ queue' = [q EXCEPT ![0] = Append(@, "Start")]
    /\ thread' = [k \in Services |-> "begun"]
    /\ crashed' = (\E k \in Services : thread[k] # "none")
    /\ up' = TRUE

Start ==
    /\ todo = <<>> /\ ~started
    /\ Hasty \/ ~up
    /\ calls < MaxCalls
    /\ \E p \in BOOLEAN : StartWith(p, queue)
    /\ calls' = calls + 1
    /\ UNCHANGED <<started, halted, todo, posts>>

\* The steps of Stop, of Restart and of the destructor of IfRuntime.  Stop refuses
\* unless IsStarted, and Restart with it.
StopSteps == IF started THEN <<Step("PostStop"), Step("Join")>> ELSE <<>>
RestartSteps ==
    IF started THEN <<Step("PostStop"), Step("Join"), Step("Renew"),
                      [op |-> "Start", polling |-> polling]>>
               ELSE <<>>
DestroySteps ==
    IF started THEN <<Step("PostStop"), Step("Join"), Step("AwaitStopped")>>
               ELSE <<Step("AwaitStopped")>>

\* Nothing is called after the destructor.
Call ==
    /\ todo = <<>> /\ up
    /\ Hasty \/ started
    /\ calls < MaxCalls
    /\ \/ todo' \in {StopSteps, RestartSteps} /\ calls' = calls + 1
       \/ todo' = DestroySteps /\ calls' = MaxCalls
    /\ UNCHANGED <<started, polling, loop, up, crashed, posts>>

At(op) == todo # <<>> /\ Head(todo).op = op /\ todo' = Tail(todo)

PostStop ==
    /\ At("PostStop")
    /\ Put(0, "Stop")
    /\ UNCHANGED <<started, polling, halted, thread, up, crashed, calls, posts>>

\* Mutant: the threads are not joined.
Detach ==
    /\ At("Join")
    /\ up' = FALSE
    /\ polling' = FALSE
    /\ UNCHANGED <<started, loop, crashed, calls, posts>>

Join ==
    /\ At("Join")
    /\ \A k \in Services : thread[k] = "exited"
    /\ thread' = [k \in Services |-> "none"]
    /\ up' = FALSE
    /\ polling' = FALSE
    /\ UNCHANGED <<started, halted, queue, crashed, calls, posts>>

\* Restart makes new io_services; Start alone takes the stopped ones.
Renew ==
    /\ At("Renew")
    /\ halted' = {}
    /\ queue' = [k \in Services |-> <<>>]
    /\ UNCHANGED <<started, polling, thread, up, crashed, calls, posts>>

StartAgain ==
    /\ At("Start")
    /\ StartWith(Head(todo).polling, queue)
    /\ UNCHANGED <<started, halted, calls, posts>>

AwaitStopped ==
    /\ At("AwaitStopped")
    /\ ~started
    /\ UNCHANGED <<started, polling, loop, up, crashed, calls, posts>>

OwnerStep == PostStop \/ Join \/ Renew \/ StartAgain \/ AwaitStopped

-----------------------------------------------------------------------------
(* ServiceThread of thread k.                                              *)

Goto(k, place) == thread' = [thread EXCEPT ![k] = place]

BeginLoop(k) ==
    /\ thread[k] = "begun"
    /\ Goto(k, "serving")
    /\ UNCHANGED <<started, polling, halted, queue, owner, posts>>

\* poll or run take a handler.
Take(k, h) ==
    /\ thread[k] = "serving"
    /\ k \notin halted
    /\ queue[k] # <<>>
    /\ Head(queue[k]) = h
    /\ queue' = [queue EXCEPT ![k] = Tail(@)]

StartHandler(k) ==
    /\ Take(k, "Start")
    /\ started' = TRUE
    /\ UNCHANGED <<polling, halted, thread, owner, posts>>

\* Mutant: only the io_service of the handler.
StopHandlerOfOne(k) ==
    /\ Take(k, "Stop")
    /\ IF started
         THEN halted' = {k} /\ Goto(k, "stopping")
         ELSE UNCHANGED <<halted, thread>>
    /\ UNCHANGED <<started, polling, owner, posts>>

\* The flag is cleared after the io_services have been stopped.
StopHandler(k) ==
    /\ Take(k, "Stop")
    /\ IF started
         THEN halted' = Services /\ Goto(k, "stopping")
         ELSE UNCHANGED <<halted, thread>>
    /\ UNCHANGED <<started, polling, owner, posts>>

ClearStarted(k) ==
    /\ thread[k] = "stopping"
    /\ started' = FALSE
    /\ Goto(k, "serving")
    /\ UNCHANGED <<polling, halted, queue, owner, posts>>

\* Mutant: any error ends the thread.
WorkAlwaysEnds(k) ==
    /\ Take(k, "Work")
    /\ \E place \in {"serving", "exited"} : Goto(k, place)
    /\ UNCHANGED <<started, polling, halted, owner, posts>>

\* A handler of the application: not_connected leaves poll or run and goes to
\* the test of the loop; another error ends the thread.
Work(k) ==
    /\ Take(k, "Work")
    /\ \E place \in {"serving", "testing"} \cup (IF ErrorsThrown THEN {"exited"} ELSE {}) :
          Goto(k, place)
    /\ UNCHANGED <<started, polling, halted, owner, posts>>

\* poll returns when there is no handler, both when the io_service was stopped.
Leave(k) ==
    /\ thread[k] = "serving"
    /\ k \in halted \/ (polling /\ queue[k] = <<>>)
    /\ Goto(k, IF polling THEN "testing" ELSE "exited")
    /\ UNCHANGED <<started, polling, halted, queue, owner, posts>>

\* while (IsStarted())
Test(k) ==
    /\ thread[k] = "testing"
    /\ Goto(k, IF started THEN "serving" ELSE "exited")
    /\ UNCHANGED <<started, polling, halted, queue, owner, posts>>

ThreadStep(k) == \/ BeginLoop(k) \/ StartHandler(k) \/ StopHandler(k) \/ ClearStarted(k)
                 \/ Work(k) \/ Leave(k) \/ Test(k)

\* The application posts a handler, from whatever thread.
Post(k) ==
    /\ posts < MaxPosts
    /\ posts' = posts + 1
    /\ Put(k, "Work")
    /\ UNCHANGED <<started, polling, halted, thread, owner>>

Init ==
    /\ started = FALSE /\ polling = FALSE /\ halted = {}
    /\ queue = [k \in Services |-> <<>>]
    /\ thread = [k \in Services |-> "none"]
    /\ todo = <<>> /\ up = FALSE /\ crashed = FALSE
    /\ calls = 0 /\ posts = 0

Next ==
    /\ ~crashed
    /\ \/ Start \/ Call \/ OwnerStep
       \/ \E k \in Services : ThreadStep(k) \/ Post(k)

Spec == Init /\ [][Next]_vars

\* Threads run.  The owner calls when it likes.
FairSpec == /\ Spec
            /\ WF_vars(~crashed /\ OwnerStep)
            /\ \A k \in Services : WF_vars(~crashed /\ ThreadStep(k))

-----------------------------------------------------------------------------
(* Properties.                                                             *)

TypeOK ==
    /\ started \in BOOLEAN /\ polling \in BOOLEAN
    /\ halted \in {{}, Services}
    /\ queue \in [Services -> Seq(Handlers)]
    /\ thread \in [Services -> {"none", "begun", "serving", "testing", "stopping", "exited"}]
    /\ todo \in Seq(Steps) /\ up \in BOOLEAN /\ crashed \in BOOLEAN
    /\ calls \in 0..MaxCalls /\ posts \in 0..MaxPosts

\* Between a Stop and the next Start nothing runs that a handler of the old life
\* could still surprise: no thread is left and the service is not started.
StoppedIsQuiet == ~up => ~started /\ \A k \in Services : thread[k] = "none"

\* No thread that still runs is overwritten, however the service is stopped and
\* restarted.
NeverTerminates == ~crashed

\* Once the service is started a thread that serves its io_service goes on to
\* serve it, in either mode and whatever the handlers throw at the loop: what is
\* posted is run, unless the service is stopped first.
Served ==
    \A k \in Services :
        (started /\ thread[k] # "exited" /\ Contains(queue[k], "Work"))
            ~> (~Contains(queue[k], "Work") \/ k \in halted)

\* Stop, Restart and the destructor of IfRuntime return.
CallsReturn == (todo # <<>>) ~> (todo = <<>>)

\* A service that was started serves every io_service until it is stopped.
StartServes ==
    up ~> (~up \/ todo # <<>> \/ (started /\ \A k \in Services : thread[k] # "exited"))
=============================================================================
