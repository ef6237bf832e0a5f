---------------------------- MODULE ServiceProofs ----------------------------
(***************************************************************************)
(* Theorems about Service, for every number of io_services, of calls and   *)
(* of posted handlers: an owner that waits for IsStarted before it calls,  *)
(* and handlers that throw nothing but not_connected, never find a thread  *)
(* of an earlier life.                                                     *)
(*                                                                         *)
(* Stop joins every thread, the first one included.  The first thread is   *)
(* the only one that runs the handlers of Start and Stop, and it leaves    *)
(* its loop only when the flag is clear: this is what ServiceInv says.     *)
(***************************************************************************)
EXTENDS Service, TLAPS

Again(p) == [op |-> "Start", polling |-> p]

\* What the owner has left to do before the threads have been joined, and after.
Joining == {<<Step("PostStop"), Step("Join")>>, <<Step("Join")>>,
            <<Step("PostStop"), Step("Join"), Step("AwaitStopped")>>,
            <<Step("Join"), Step("AwaitStopped")>>}
           \cup {<<Step("PostStop"), Step("Join"), Step("Renew"), Again(p)>> : p \in BOOLEAN}
           \cup {<<Step("Join"), Step("Renew"), Again(p)>> : p \in BOOLEAN}
Joined == {<<>>, <<Step("AwaitStopped")>>}
          \cup {<<Step("Renew"), Again(p)>> : p \in BOOLEAN}
          \cup {<<Again(p)>> : p \in BOOLEAN}

OwnerInv == IF up THEN todo \in Joining \cup {<<>>} ELSE todo \in Joined

\* Only io_service 0 runs the handlers of Start and Stop, and its thread leaves
\* the loop, and finds its io_service stopped, when the flag is clear.
FlagInv == /\ \A k \in Services \ {0} : queue[k] \in Seq({"Work"})
           /\ thread[0] = "exited" => ~started
           /\ 0 \in halted => ~started \/ thread[0] = "stopping"

ServiceInv == TypeOK /\ OwnerInv /\ FlagInv /\ StoppedIsQuiet /\ NeverTerminates

-----------------------------------------------------------------------------
\* The first io_service exists.
LEMMA ZeroIsService == 0 \in Services
BY ServiceSize DEF Services

\* A plan of the owner that has not come to Join yet ...
LEMMA JoiningHead ==
    ASSUME todo \in Joining
    PROVE  /\ todo # <<>>
           /\ Head(todo).op \in {"PostStop", "Join"}
           /\ Head(todo).op = "PostStop" => Tail(todo) \in Joining
           /\ Head(todo).op = "Join" => Tail(todo) \in Joined
<1>1. CASE todo = <<Step("PostStop"), Step("Join")>>
  <2>1. Head(todo).op = "PostStop" /\ todo # <<>> /\ Tail(todo) = <<Step("Join")>>
    BY <1>1 DEF Step
  <2> QED
    BY <2>1 DEF Joining
<1>4. CASE todo = <<Step("PostStop"), Step("Join"), Step("AwaitStopped")>>
  <2>1. /\ Head(todo).op = "PostStop" /\ todo # <<>>
        /\ Tail(todo) = <<Step("Join"), Step("AwaitStopped")>>
    BY <1>4 DEF Step
  <2> QED
    BY <2>1 DEF Joining
<1>5. CASE todo = <<Step("Join")>>
  <2>1. Head(todo).op = "Join" /\ todo # <<>> /\ Tail(todo) = <<>>
    BY <1>5 DEF Step
  <2> QED
    BY <2>1 DEF Joined
<1>6. CASE todo = <<Step("Join"), Step("AwaitStopped")>>
  <2>1. Head(todo).op = "Join" /\ todo # <<>> /\ Tail(todo) = <<Step("AwaitStopped")>>
    BY <1>6 DEF Step
  <2> QED
    BY <2>1 DEF Joined
<1>2. ASSUME NEW p \in BOOLEAN,
             todo = <<Step("PostStop"), Step("Join"), Step("Renew"), Again(p)>>
      PROVE  /\ todo # <<>> /\ Head(todo).op = "PostStop"
             /\ Tail(todo) \in Joining
  BY <1>2 DEF Joining, Step
<1>3. ASSUME NEW p \in BOOLEAN, todo = <<Step("Join"), Step("Renew"), Again(p)>>
      PROVE  /\ todo # <<>> /\ Head(todo).op = "Join"
             /\ Tail(todo) \in Joined
  BY <1>3 DEF Joined, Step
<1> QED
  BY <1>1, <1>2, <1>3, <1>4, <1>5, <1>6 DEF Joining

\* ... and one that has.
LEMMA JoinedHead ==
    ASSUME todo \in Joined, todo # <<>>
    PROVE  /\ Head(todo).op \in {"Renew", "Start", "AwaitStopped"}
           /\ Head(todo).op = "Start" => Head(todo).polling \in BOOLEAN
           /\ Head(todo).op = "Start" => Tail(todo) = <<>>
           /\ Tail(todo) \in Joined
<1>1. CASE todo = <<Step("AwaitStopped")>>
  BY <1>1 DEF Joined, Step
<1>2. ASSUME NEW p \in BOOLEAN, todo = <<Step("Renew"), Again(p)>>
      PROVE  /\ Head(todo).op = "Renew" /\ Tail(todo) \in Joined
  BY <1>2 DEF Joined, Step
<1>3. ASSUME NEW p \in BOOLEAN, todo = <<Again(p)>>
      PROVE  /\ Head(todo).op = "Start" /\ Head(todo).polling \in BOOLEAN
             /\ Tail(todo) = <<>> /\ Tail(todo) \in Joined
  BY <1>3 DEF Joined, Again
<1> QED
  BY <1>1, <1>2, <1>3 DEF Joined

\* Every plan is a sequence of steps.
LEMMA PlansAreSteps == Joining \cup Joined \subseteq Seq(Steps)
<1>1. /\ Step("PostStop") \in Steps /\ Step("Join") \in Steps
      /\ Step("Renew") \in Steps /\ Step("AwaitStopped") \in Steps
  BY DEF Steps, Step
<1>2. \A p \in BOOLEAN : Again(p) \in Steps
  BY DEF Steps, Again
<1>3. \A p \in BOOLEAN :
         /\ <<Step("PostStop"), Step("Join"), Step("Renew"), Again(p)>> \in Seq(Steps)
         /\ <<Step("Join"), Step("Renew"), Again(p)>> \in Seq(Steps)
         /\ <<Step("Renew"), Again(p)>> \in Seq(Steps)
         /\ <<Again(p)>> \in Seq(Steps)
  BY <1>1, <1>2
<1>4. {<<Step("PostStop"), Step("Join")>>, <<Step("Join")>>,
       <<Step("PostStop"), Step("Join"), Step("AwaitStopped")>>,
       <<Step("Join"), Step("AwaitStopped")>>, <<>>, <<Step("AwaitStopped")>>}
        \subseteq Seq(Steps)
  BY <1>1
<1> QED
  BY <1>3, <1>4 DEF Joining, Joined

-----------------------------------------------------------------------------
\* The service starts as nothing.
LEMMA InitInv == Init => ServiceInv
<1> SUFFICES ASSUME Init PROVE ServiceInv
  OBVIOUS
<1>1. TypeOK
  <2>1. calls \in 0..MaxCalls /\ posts \in 0..MaxPosts
    BY ServiceBounds DEF Init
  <2>2. queue \in [Services -> Seq(Handlers)] /\ todo \in Seq(Steps)
    BY DEF Init
  <2> QED
    BY <2>1, <2>2 DEF Init, TypeOK
<1>2. OwnerInv
  BY DEF Init, OwnerInv, Joined
<1>3. FlagInv
  BY ZeroIsService DEF Init, FlagInv
<1> QED
  BY <1>1, <1>2, <1>3 DEF Init, ServiceInv, StoppedIsQuiet, NeverTerminates

\* What Start does, in whatever way it was called, when the threads have been
\* joined and the flag is clear.
LEMMA StartWithInv ==
    ASSUME ServiceInv, ~up, ~started, NEW p \in BOOLEAN,
           StartWith(p, queue), todo' = <<>>, calls' \in 0..MaxCalls,
           UNCHANGED <<started, halted, posts>>
    PROVE  ServiceInv'
<1>1. thread' = [k \in Services |-> "begun"] /\ up' = TRUE /\ crashed' = FALSE
  BY DEF StartWith, ServiceInv, StoppedIsQuiet
<1>2. queue' = [queue EXCEPT ![0] = Append(@, "Start")]
  BY DEF StartWith
<1>3. queue' \in [Services -> Seq(Handlers)]
  BY <1>2, ZeroIsService DEF ServiceInv, TypeOK, Handlers
<1>4. TypeOK'
  BY <1>1, <1>3 DEF StartWith, ServiceInv, TypeOK
<1>5. FlagInv'
  BY <1>1, <1>2, ZeroIsService DEF ServiceInv, FlagInv, TypeOK
<1> QED
  BY <1>1, <1>4, <1>5 DEF ServiceInv, OwnerInv, StoppedIsQuiet, NeverTerminates

\* Calls of the owner.
LEMMA OwnerCallsInv ==
    ASSUME ServiceInv, ~Hasty, Start \/ Call
    PROVE  ServiceInv'
<1>1. CASE Start
  <2>1. /\ ~up /\ ~started /\ todo = <<>> /\ calls' \in 0..MaxCalls
        /\ \E p \in BOOLEAN : StartWith(p, queue)
    BY <1>1, ServiceBounds DEF Start, ServiceInv, TypeOK
  <2> QED
    BY <1>1, <2>1, StartWithInv DEF Start
<1>2. CASE Call
  <2>1. todo' \in Joining
    BY <1>2 DEF Call, StopSteps, RestartSteps, DestroySteps, Joining, Again, ServiceInv, TypeOK
  <2>2. TypeOK'
    BY <1>2, <2>1, PlansAreSteps, ServiceBounds DEF Call, ServiceInv, TypeOK, loop
  <2> QED
    BY <1>2, <2>1, <2>2
    DEF Call, ServiceInv, OwnerInv, FlagInv, StoppedIsQuiet, NeverTerminates, loop
<1> QED
  BY <1>1, <1>2

\* A step of the call under way.
LEMMA OwnerStepsInv ==
    ASSUME ServiceInv, OwnerStep
    PROVE  ServiceInv'
<1>1. CASE PostStop
  <2>1. up /\ todo \in Joining /\ todo' \in Joining
    BY <1>1, JoiningHead, JoinedHead DEF PostStop, At, ServiceInv, OwnerInv
  <2>2. /\ queue' = [queue EXCEPT ![0] = Append(@, "Stop")]
        /\ queue' \in [Services -> Seq(Handlers)]
    BY <1>1, ZeroIsService DEF PostStop, Put, ServiceInv, TypeOK, Handlers
  <2>3. TypeOK' /\ OwnerInv'
    BY <1>1, <2>1, <2>2, PlansAreSteps DEF PostStop, ServiceInv, TypeOK, OwnerInv
  <2>4. FlagInv'
    BY <1>1, <2>2, ZeroIsService DEF PostStop, ServiceInv, FlagInv, TypeOK
  <2> QED
    BY <1>1, <2>1, <2>3, <2>4 DEF PostStop, ServiceInv, StoppedIsQuiet, NeverTerminates
<1>2. CASE Join
  <2>1. todo \in Joining /\ todo' \in Joined
    BY <1>2, JoiningHead, JoinedHead DEF Join, At, ServiceInv, OwnerInv
  \* The first thread has left its loop, so the flag is clear.
  <2>2. ~started
    BY <1>2, ZeroIsService DEF Join, ServiceInv, FlagInv
  <2>3. TypeOK' /\ OwnerInv'
    BY <1>2, <2>1, PlansAreSteps DEF Join, ServiceInv, TypeOK, OwnerInv
  <2>4. FlagInv' /\ StoppedIsQuiet'
    BY <1>2, <2>2, ZeroIsService DEF Join, ServiceInv, FlagInv, StoppedIsQuiet
  <2> QED
    BY <1>2, <2>3, <2>4 DEF Join, ServiceInv, NeverTerminates
<1>3. CASE Renew
  <2>1. ~up /\ todo' \in Joined
    BY <1>3, JoiningHead, JoinedHead DEF Renew, At, ServiceInv, OwnerInv
  <2>2. TypeOK' /\ OwnerInv'
    BY <1>3, <2>1, PlansAreSteps DEF Renew, ServiceInv, TypeOK, OwnerInv
  <2> QED
    BY <1>3, <2>2 DEF Renew, ServiceInv, FlagInv, StoppedIsQuiet, NeverTerminates
<1>4. CASE StartAgain
  <2>1. ~up /\ todo' = <<>> /\ Head(todo).polling \in BOOLEAN
    BY <1>4, JoiningHead, JoinedHead DEF StartAgain, At, ServiceInv, OwnerInv
  <2>2. ~started /\ calls' \in 0..MaxCalls
    BY <1>4, <2>1 DEF StartAgain, ServiceInv, StoppedIsQuiet, TypeOK
  <2> QED
    BY <1>4, <2>1, <2>2, StartWithInv DEF StartAgain
<1>5. CASE AwaitStopped
  <2>1. ~up /\ todo' \in Joined
    BY <1>5, JoiningHead, JoinedHead DEF AwaitStopped, At, ServiceInv, OwnerInv
  <2>2. TypeOK' /\ OwnerInv'
    BY <1>5, <2>1, PlansAreSteps DEF AwaitStopped, loop, ServiceInv, TypeOK, OwnerInv
  <2> QED
    BY <1>5, <2>2 DEF AwaitStopped, loop, ServiceInv, FlagInv, StoppedIsQuiet, NeverTerminates
<1> QED
  BY <1>1, <1>2, <1>3, <1>4, <1>5 DEF OwnerStep

\* A step of a working thread: it is only taken between a Start and the Join that
\* follows, and only the first thread touches the flag.
LEMMA ThreadStepsInv ==
    ASSUME ServiceInv, ~ErrorsThrown, NEW k \in Services, ThreadStep(k)
    PROVE  ServiceInv'
<1>1. /\ thread[k] # "none" /\ UNCHANGED <<todo, up, crashed, calls, posts, polling>>
      /\ thread' \in [Services ->
                        {"none", "begun", "serving", "testing", "stopping", "exited"}]
  BY DEF ThreadStep, BeginLoop, StartHandler, StopHandler, ClearStarted, Work, Leave, Test,
         Take, Goto, owner, ServiceInv, TypeOK
<1>2. up /\ OwnerInv' /\ StoppedIsQuiet' /\ NeverTerminates'
  BY <1>1 DEF ServiceInv, OwnerInv, StoppedIsQuiet, NeverTerminates
<1>3. \A h : Take(k, h) => /\ queue' \in [Services -> Seq(Handlers)]
                           /\ \A i \in Services \ {0} : queue'[i] \in Seq({"Work"})
                           /\ h # "Work" => k = 0
                           /\ thread[k] = "serving" /\ k \notin halted
  BY ZeroIsService DEF Take, ServiceInv, TypeOK, FlagInv, Handlers
<1>4. TypeOK' /\ FlagInv'
  <2>1. CASE BeginLoop(k)
    BY <1>1, <2>1 DEF BeginLoop, Goto, owner, ServiceInv, TypeOK, FlagInv
  <2>7. CASE ClearStarted(k)
    BY <1>1, <2>7 DEF ClearStarted, Goto, owner, ServiceInv, TypeOK, FlagInv
  <2>2. CASE StartHandler(k)
    <3>1. /\ k = 0 /\ thread[0] = "serving" /\ 0 \notin halted /\ started' = TRUE
          /\ UNCHANGED <<polling, halted, thread, owner, posts>>
      BY <1>3, <2>2 DEF StartHandler
    <3> QED
      BY <1>1, <1>3, <2>2, <3>1 DEF StartHandler, owner, ServiceInv, TypeOK, FlagInv
  <2>3. CASE StopHandler(k)
    <3>1. /\ k = 0 /\ UNCHANGED <<started, polling, owner, posts>>
          /\ \/ halted' = Services /\ thread' = [thread EXCEPT ![0] = "stopping"]
             \/ UNCHANGED <<halted, thread>>
      BY <1>3, <2>3 DEF StopHandler, Goto
    <3> QED
      BY <1>1, <1>3, <2>3, <3>1, ZeroIsService
      DEF StopHandler, owner, ServiceInv, TypeOK, FlagInv
  <2>4. CASE Work(k)
    <3>1. /\ UNCHANGED <<started, polling, halted, owner, posts>>
          /\ \/ thread' = [thread EXCEPT ![k] = "serving"]
             \/ thread' = [thread EXCEPT ![k] = "testing"]
          /\ thread[k] = "serving" /\ k \notin halted
          /\ queue' \in [Services -> Seq(Handlers)]
          /\ \A i \in Services \ {0} : queue'[i] \in Seq({"Work"})
      BY <1>3, <2>4 DEF Work, Goto
    <3>2. FlagInv'
      BY <3>1, ZeroIsService DEF owner, ServiceInv, TypeOK, FlagInv
    <3> QED
      BY <1>1, <3>1, <3>2 DEF owner, ServiceInv, TypeOK
  <2>5. CASE Leave(k)
    BY <1>1, <2>5 DEF Leave, Goto, owner, ServiceInv, TypeOK, FlagInv
  <2>6. CASE Test(k)
    BY <1>1, <2>6 DEF Test, Goto, owner, ServiceInv, TypeOK, FlagInv
  <2> QED
    BY <2>1, <2>2, <2>3, <2>4, <2>5, <2>6, <2>7 DEF ThreadStep
<1> QED
  BY <1>2, <1>4 DEF ServiceInv

\* The application posts a handler.
LEMMA PostInv ==
    ASSUME ServiceInv, NEW k \in Services, Post(k)
    PROVE  ServiceInv'
<1>1. /\ queue' = [queue EXCEPT ![k] = Append(@, "Work")]
      /\ queue' \in [Services -> Seq(Handlers)]
      /\ \A i \in Services \ {0} : queue'[i] \in Seq({"Work"})
  BY DEF Post, Put, ServiceInv, TypeOK, FlagInv, Handlers
<1>2. posts' \in 0..MaxPosts
  BY ServiceBounds DEF Post, ServiceInv, TypeOK
<1> QED
  BY <1>1, <1>2
  DEF Post, owner, ServiceInv, TypeOK, OwnerInv, FlagInv, StoppedIsQuiet, NeverTerminates

-----------------------------------------------------------------------------
\* The inductive invariant of the service: the threads are joined exactly when the
\* owner's call has got that far, and the flag outlives no first thread.
THEOREM ServiceInvariant ==
    ASSUME ~Hasty, ~ErrorsThrown
    PROVE  Spec => []ServiceInv
<1>1. ServiceInv /\ [Next]_vars => ServiceInv'
  <2> SUFFICES ASSUME ServiceInv, [Next]_vars PROVE ServiceInv'
    OBVIOUS
  <2>1. CASE Start \/ Call
    BY <2>1, OwnerCallsInv
  <2>2. CASE OwnerStep
    BY <2>2, OwnerStepsInv
  <2>3. CASE \E k \in Services : ThreadStep(k) \/ Post(k)
    BY <2>3, ThreadStepsInv, PostInv
  <2>4. CASE UNCHANGED vars
    BY <2>4
    DEF vars, loop, owner, ServiceInv, TypeOK, OwnerInv, FlagInv, StoppedIsQuiet, NeverTerminates
  <2> QED
    BY <2>1, <2>2, <2>3, <2>4 DEF Next
<1> QED
  BY InitInv, <1>1, PTL DEF Spec

\* The variables of the service keep their types.
THEOREM ServiceTypeCorrect ==
    ASSUME ~Hasty, ~ErrorsThrown
    PROVE  Spec => []TypeOK
<1>1. ServiceInv => TypeOK
  BY DEF ServiceInv
<1> QED
  BY ServiceInvariant, <1>1, PTL

\* Stop leaves no thread behind and no flag set, for any number of io_services:
\* the handlers of Start and Stop run on the first one, whose thread is joined too.
THEOREM StoppedServiceIsQuiet ==
    ASSUME ~Hasty, ~ErrorsThrown
    PROVE  Spec => []StoppedIsQuiet
<1>1. ServiceInv => StoppedIsQuiet
  BY DEF ServiceInv
<1> QED
  BY ServiceInvariant, <1>1, PTL

\* No std::thread that still runs is assigned to, however often the service is
\* stopped and restarted.
THEOREM ServiceNeverTerminates ==
    ASSUME ~Hasty, ~ErrorsThrown
    PROVE  Spec => []NeverTerminates
<1>1. ServiceInv => NeverTerminates
  BY DEF ServiceInv
<1> QED
  BY ServiceInvariant, <1>1, PTL

=============================================================================
