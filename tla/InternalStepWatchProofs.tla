---------------------- MODULE InternalStepWatchProofs ----------------------
(***************************************************************************)
(* What the internal steps of InternalStep are for: no breakpoint and no   *)
(* step of the user's is lost to them, with any number of threads, queued  *)
(* events and breakpoints; and, when the engine has at most one event at a *)
(* time, a thread is alone while it runs its hidden instruction.           *)
(***************************************************************************)
EXTENDS InternalStepProofs

HitInPort(l) == \E i \in 1..Len(port) : port[i].kind = "hit" /\ port[i].loc = l
\* The handler of a hit on l has yet to decide how to re-arm it.
HitHandled(l) == /\ pc \in {"callback", "rearm"} /\ "rearm" \in {pc, after}
                 /\ event.loc = l
InRearm(l) == \E t \in Thread : l \in rearm[t]

\* What is recorded and not armed is somebody's to arm again, in every phase.
WatchKept == \A l \in Loc : present[l] /\ ~armed[l] =>
               InRearm(l) \/ HitInPort(l) \/ HitHandled(l)

LEMMA HitRaised ==
  ASSUME PortDomain, NEW t \in Thread, NEW kind, NEW l, Raise(t, kind, l)
  PROVE  /\ kind = "hit" => HitInPort(l)'
         /\ \A k \in Loc : HitInPort(k) => HitInPort(k)'
<1>1. /\ Len(port') = Len(port) + 1 /\ Len(port) \in Nat
      /\ port'[Len(port')] = Event(t, kind, l)
      /\ \A i \in 1..Len(port) : port'[i] = port[i]
  BY RaisedEvents
<1>2. Event(t, kind, l).loc = l /\ Event(t, kind, l).kind = kind
  BY DEF Event
<1>3. Len(port') \in 1..Len(port') /\ \A i \in 1..Len(port) : i \in 1..Len(port')
  BY <1>1
<1>4. QED
  BY <1>1, <1>2, <1>3 DEF HitInPort

LEMMA HitDelivered ==
  ASSUME PortDomain, port # <<>>, port' = Tail(port), NEW k, HitInPort(k),
         Head(port).kind = "hit" => Head(port).loc # k
  PROVE  HitInPort(k)'
<1>1. PICK i \in 1..Len(port) : port[i].kind = "hit" /\ port[i].loc = k
  BY DEF HitInPort
<1>2. i # 1 /\ Len(port) \in Nat
  BY <1>1, TailEvents DEF PortDomain
<1>3. i \in 2..Len(port)
  BY <1>2
<1>4. i - 1 \in 1..Len(port') /\ port'[i - 1] = port[i]
  BY <1>3, TailEvents
<1>5. QED
  BY <1>1, <1>4 DEF HitInPort

LEMMA KeptTarget ==
  ASSUME Domains, WatchKept, NEW t \in Thread, Target(t)
  PROVE  WatchKept'
<1> USE DEF Domains
<1>1. pc = "wait" /\ UNCHANGED <<present, steps, loop>>
  BY DEF Target, Fault, Retire, Exit, Throw, Create, Runnable, breakpoints
<1>2. UNCHANGED rearm /\ \A l \in Loc : InRearm(l)' <=> InRearm(l)
  BY <1>1 DEF steps, internal, InRearm
<1>3. \A l \in Loc : present[l] /\ ~armed[l] => InRearm(l) \/ HitInPort(l)
  BY <1>1 DEF WatchKept, HitHandled
<1>4. ASSUME NEW l \in Loc, Fault(t, l) PROVE WatchKept'
  <2>1. Raise(t, "hit", l) /\ \A k \in Loc : armed'[k] = armed[k] \/ k = l
    BY <1>4 DEF Fault, BreakpointDomains
  <2>2. HitInPort(l)' /\ \A k \in Loc : HitInPort(k) => HitInPort(k)'
    BY <2>1, HitRaised
  <2>3. QED
    BY <1>1, <1>2, <1>3, <2>1, <2>2 DEF WatchKept
<1>5. CASE UNCHANGED armed
  <2>1. \A k \in Loc : HitInPort(k) => HitInPort(k)'
    <3>1. CASE UNCHANGED port
      BY <3>1 DEF HitInPort
    <3>2. ASSUME NEW u \in Thread, NEW kind, NEW l, Raise(u, kind, l)
          PROVE  \A k \in Loc : HitInPort(k) => HitInPort(k)'
      BY <3>2, HitRaised
    <3>3. CASE \E l \in Loc : Fault(t, l)
      BY <3>2, <3>3 DEF Fault
    <3>4. CASE Retire(t)
      BY <3>1, <3>2, <3>4 DEF Retire
    <3>5. CASE Exit(t)
      BY <3>2, <3>5 DEF Exit
    <3>6. CASE Throw(t)
      BY <3>2, <3>6 DEF Throw
    <3>7. CASE \E u \in Thread : Create(t, u)
      BY <3>2, <3>7 DEF Create
    <3>8. QED
      BY <3>3, <3>4, <3>5, <3>6, <3>7 DEF Target
  <2>2. QED
    BY <1>1, <1>2, <1>3, <1>5, <2>1 DEF WatchKept
<1>6. QED
  BY <1>4, <1>5 DEF Target, Retire, Exit, Throw, Create, breakpoints

LEMMA KeptDeliver ==
  ASSUME ~Faulty, Domains, StepRecordsAgree, WatchKept,
         \/ DeliverHit \/ DeliverHitFails \/ DeliverStaleHit
         \/ CompleteInternalStep \/ CompleteUserStep
         \/ DeliverException \/ DeliverStrayStop
         \/ DeliverCreateThread \/ DeliverExit
  PROVE  WatchKept'
<1> USE DEF Domains
<1> DEFINE e == Head(port)
<1>1. pc = "wait" /\ port # <<>> /\ port' = Tail(port)
  BY DEF DeliverHit, DeliverHitFails, DeliverStaleHit, CompleteInternalStep, CompleteUserStep,
         DeliverException, DeliverStrayStop, DeliverCreateThread, DeliverExit, Deliver
<1>2. \A l \in Loc : present[l] /\ ~armed[l] => InRearm(l) \/ HitInPort(l)
  BY <1>1 DEF WatchKept, HitHandled
<1>3. \A l \in Loc : (e.kind = "hit" => e.loc # l) /\ HitInPort(l) => HitInPort(l)'
  BY <1>1, HitDelivered
<1> HIDE DEF e
<1>4. CASE DeliverHit
  <2>1. /\ pc' = "callback" /\ after' = "rearm" /\ event' = e /\ UNCHANGED rearm
        /\ \A l \in Loc : l # e.loc => armed'[l] = armed[l] /\ present'[l] = present[l]
    BY <1>4 DEF DeliverHit, Deliver, BreakpointDomains, steps, internal, e
  <2>2. ASSUME NEW l \in Loc, present'[l], ~armed'[l]
        PROVE  InRearm(l)' \/ HitInPort(l)' \/ HitHandled(l)'
    <3>1. CASE l = e.loc
      BY <2>1, <3>1 DEF HitHandled
    <3>2. CASE l # e.loc
      <4>1. InRearm(l) => InRearm(l)'
        BY <2>1 DEF InRearm
      <4>2. QED
        BY <1>2, <1>3, <2>1, <2>2, <3>2, <4>1
    <3>3. QED
      BY <3>1, <3>2
  <2>3. QED
    BY <2>2 DEF WatchKept
<1>5. CASE DeliverStaleHit
  <2>1. ~present[e.loc] /\ UNCHANGED <<present, armed, rearm>>
    BY <1>5 DEF DeliverStaleHit, breakpoints, steps, internal, e
  <2>2. QED
    BY <1>2, <1>3, <2>1 DEF WatchKept, InRearm
<1>6. CASE CompleteInternalStep
  <2> DEFINE t == e.thread
  <2>1. /\ t \in Thread /\ e.kind # "hit" /\ UNCHANGED present
        /\ armed' = Rearmed(t) /\ rearm' = [rearm EXCEPT ![t] = {}]
    BY <1>6, DeliverDomain DEF CompleteInternalStep, SingleStep, Deliver, EventDomain, e
  <2> HIDE DEF t
  <2>2. ASSUME NEW l \in Loc, present'[l], ~armed'[l]
        PROVE  InRearm(l)' \/ HitInPort(l)' \/ HitHandled(l)'
    <3>1. present[l] /\ ~armed[l] /\ l \notin rearm[t]
      BY <2>1, <2>2 DEF Rearmed
    <3>2. InRearm(l) => InRearm(l)'
      <4>1. ASSUME NEW u \in Thread, l \in rearm[u] PROVE l \in rearm'[u]
        BY <2>1, <3>1, <4>1 DEF StepDomains
      <4>2. QED
        BY <4>1 DEF InRearm
    <3>3. QED
      BY <1>2, <1>3, <2>1, <3>1, <3>2
  <2>3. QED
    BY <2>2 DEF WatchKept
<1>7. CASE CompleteUserStep \/ DeliverException \/ DeliverStrayStop
           \/ DeliverCreateThread \/ DeliverExit
  <2>1. e.kind # "hit" /\ UNCHANGED <<present, armed, rearm>>
    BY <1>7 DEF CompleteUserStep, DeliverException, DeliverStrayStop, DeliverCreateThread,
                DeliverExit, Deliver, SingleStep, breakpoints, steps, internal, e
  <2>2. QED
    BY <1>2, <1>3, <2>1 DEF WatchKept, InRearm
<1>8. QED
  BY <1>4, <1>5, <1>6, <1>7 DEF DeliverHitFails

LEMMA KeptUser ==
  ASSUME Domains, WatchKept, User
  PROVE  WatchKept'
<1> USE DEF Domains
<1>1. UNCHANGED <<port, pc, after, event>>
  BY DEF User, DebugStep, SetBreakpoint, DeleteBreakpoint, ReadMemory, loop
<1>2. ASSUME NEW l \in Loc, present'[l], ~armed'[l]
      PROVE  present[l] /\ ~armed[l] /\ \A t \in Thread : l \in rearm[t] => l \in rearm'[t]
  BY <1>2 DEF User, DebugStep, SetBreakpoint, DeleteBreakpoint, ReadMemory, BreakpointDomains,
         StepDomains, breakpoints, internal, steps
<1>3. QED
  BY <1>1, <1>2 DEF WatchKept, HitInPort, HitHandled, InRearm

LEMMA KeptHandler ==
  ASSUME ~Faulty, Domains, ThreadsKnown, StepRecordsAgree, LivingSteps, WatchKept,
         \/ CallbackReturns \/ SkipRearm \/ ChainInternalStep \/ ScheduleInternalStep
         \/ ScheduleInternalStepFails \/ Finish \/ ReapThread \/ ReleasePeers
         \/ Resume \/ EndSession
  PROVE  WatchKept'
<1> USE DEF Domains
<1> DEFINE t == event.thread
<1>1. UNCHANGED port /\ \A l \in Loc : HitInPort(l) => HitInPort(l)'
  BY DEF CallbackReturns, SkipRearm, ChainInternalStep, ScheduleInternalStep,
         ScheduleInternalStepFails, Finish, ReapThread, FinishDebugEvent, ReleasePeers,
         Resume, EndSession, HitInPort
<1>2. CASE CallbackReturns
  BY <1>1, <1>2 DEF CallbackReturns, WatchKept, HitHandled, InRearm, breakpoints, steps, internal
<1>3. CASE SkipRearm
  <2>1. /\ ~(present[event.loc] /\ ~armed[event.loc])
        /\ UNCHANGED <<present, armed, rearm>>
    BY <1>3 DEF SkipRearm, MustRearm, breakpoints, steps, internal
  <2>2. QED
    BY <1>1, <2>1 DEF WatchKept, HitHandled, InRearm
<1>4. CASE ChainInternalStep \/ ScheduleInternalStep
  <2>1. /\ t \in Thread /\ UNCHANGED present /\ armed' = Exposed(event.loc)
        /\ \/ rearm' = [rearm EXCEPT ![t] = @ \cup {event.loc}]
           \/ rearm' = [rearm EXCEPT ![t] = {event.loc}] /\ rearm[t] = {}
    BY <1>4, HandledEvent DEF ChainInternalStep, ScheduleInternalStep, Handling,
       StepRecordsAgree, breakpoints
  <2>2. /\ event.loc \in rearm'[t]
        /\ \A u \in Thread : rearm[u] \subseteq rearm'[u]
    BY <2>1 DEF StepDomains
  <2>3. \A l \in Loc : l # event.loc => armed'[l] = armed[l]
    BY <2>1 DEF Exposed, BreakpointDomains
  <2>4. QED
    BY <1>1, <2>1, <2>2, <2>3 DEF WatchKept, HitHandled, InRearm
<1>5. CASE Finish \/ ReleasePeers \/ Resume
  <2>1. UNCHANGED <<present, armed, rearm>> /\ pc \in {"finish", "release", "resume"}
    BY <1>5 DEF Finish, FinishDebugEvent, ReleasePeers, Resume, breakpoints, steps, internal
  <2>2. QED
    BY <1>1, <2>1 DEF WatchKept, HitHandled, InRearm
<1>6. CASE ReapThread
  <2>1. /\ pc = "reap" /\ UNCHANGED <<present, armed>>
        /\ rearm' = [rearm EXCEPT ![t] = {}]
    BY <1>6 DEF ReapThread, FinishDebugEvent, breakpoints
  <2>2. t \in Thread /\ state[t] = "dead"
    BY <2>1, HandledEvent DEF ThreadsKnown, EventKnown, Handling
  <2>3. rearm[t] = {}
    BY <2>2 DEF LivingSteps, StepRecordsAgree
  <2>4. \A u \in Thread : rearm'[u] = rearm[u]
    BY <2>1, <2>2, <2>3 DEF StepDomains
  <2>5. QED
    BY <1>1, <2>1, <2>4 DEF WatchKept, HitHandled, InRearm
<1>7. CASE EndSession
  BY <1>7 DEF EndSession, WatchKept
<1>8. QED
  BY <1>2, <1>3, <1>4, <1>5, <1>6, <1>7 DEF ScheduleInternalStepFails

LEMMA WatchKeptInvariant ==
  ASSUME ~SteppedSyscall, ~Faulty
  PROVE  Spec => []WatchKept
<1>1. Init => WatchKept
  BY DEF Init, WatchKept
<1>2. Domains /\ ThreadsKnown /\ StepRecordsAgree /\ LivingSteps /\ WatchKept /\ [Next]_vars
      => WatchKept'
  <2> SUFFICES ASSUME Domains, ThreadsKnown, StepRecordsAgree, LivingSteps, WatchKept,
                      [Next]_vars
               PROVE  WatchKept'
    OBVIOUS
  <2>1. CASE UNCHANGED vars
    BY <2>1 DEF vars, loop, breakpoints, steps, internal, WatchKept, InRearm, HitInPort,
                HitHandled
  <2>2. QED
    BY <2>1, KeptTarget, KeptDeliver, KeptUser, KeptHandler DEF Next, DebugLoop, Ended
<1>3. QED
  BY <1>1, <1>2, CountsInvariant, DomainsInvariant, KnownInvariant, StepRecordsAgreeInvariant,
     PTL DEF Spec

\* A breakpoint is never lost between its hit and its re-arming: while the target
\* runs it is armed, or some internal step re-arms it, or its hit is yet to be
\* delivered, however the hits of many threads, chained steps, breakpoints edited
\* meanwhile and one-shots are interleaved.
THEOREM NoLostWatchInvariant ==
  ASSUME ~SteppedSyscall, ~Faulty
  PROVE  Spec => []NoLostWatch
<1>1. WatchKept => NoLostWatch
  BY DEF WatchKept, HitHandled, InRearm, HitInPort, NoLostWatch
<1>2. QED
  BY <1>1, WatchKeptInvariant, PTL
-----------------------------------------------------------------------------
(* The user's steps.                                                       *)

UserStepStep == \A t \in Thread : HasUserStep(t) /\ ~HasUserStep(t)' =>
  \/ pc' = "callback" /\ event'.thread = t
  \/ state[t] = "dead" \/ pc' = "ended"

LEMMA UserStepNext ==
  ASSUME ~Faulty, Domains, ThreadsKnown, [Next]_vars
  PROVE  UserStepStep
<1> SUFFICES ASSUME NEW t \in Thread, HasUserStep(t), ~HasUserStep(t)'
             PROVE  \/ pc' = "callback" /\ event'.thread = t
                    \/ state[t] = "dead" \/ pc' = "ended"
  BY DEF UserStepStep
<1>1. CASE UNCHANGED <<gStepCallbacks, absorbed>>
  BY <1>1 DEF HasUserStep
<1>2. CASE CompleteInternalStep
  BY <1>2 DEF CompleteInternalStep, Deliver, HasUserStep
<1>3. CASE CompleteUserStep
  BY <1>3 DEF CompleteUserStep, Deliver, HasUserStep, internal
<1>4. CASE DebugStep
  BY <1>4 DEF DebugStep, HasUserStep, internal
<1>5. CASE ScheduleInternalStep
  BY <1>5 DEF ScheduleInternalStep, AbsorbUserStep, HasUserStep
<1>6. CASE ReapThread
  <2>1. t = event.thread /\ pc = "reap"
    BY <1>6 DEF ReapThread, HasUserStep
  <2>2. QED
    BY <2>1 DEF ThreadsKnown, EventKnown, Handling
<1>7. CASE EndSession
  BY <1>7 DEF EndSession
<1>8. ASSUME NEW u \in Thread, Target(u) PROVE UNCHANGED <<gStepCallbacks, absorbed>>
  BY <1>8 DEF Target, Fault, Retire, Exit, Throw, Create, steps, internal
<1>9. ASSUME User PROVE DebugStep \/ UNCHANGED <<gStepCallbacks, absorbed>>
  BY <1>9 DEF User, SetBreakpoint, DeleteBreakpoint, ReadMemory, steps, internal
<1>10. ASSUME DebugLoop
       PROVE  \/ CompleteInternalStep \/ CompleteUserStep \/ ScheduleInternalStep
              \/ ReapThread \/ EndSession \/ UNCHANGED <<gStepCallbacks, absorbed>>
  BY <1>10 DEF DebugLoop, DeliverHit, DeliverHitFails, DeliverStaleHit,
     DeliverException, DeliverStrayStop, DeliverCreateThread, DeliverExit, CallbackReturns,
     SkipRearm, ChainInternalStep, ScheduleInternalStepFails, Finish, FinishDebugEvent,
     ReleasePeers, Resume, steps, internal
<1>11. QED
  BY <1>1, <1>2, <1>3, <1>4, <1>5, <1>6, <1>7, <1>8, <1>9, <1>10
  DEF Next, Ended, vars, steps, internal

\* A step the user asked for is never dropped: it ends in its callback, with its
\* thread or with the session, also when an internal step takes it over, chains
\* another or is overtaken by the events of other threads.
THEOREM UserStepKeptTheorem ==
  ASSUME ~Faulty
  PROVE  Spec => UserStepKept
<1>1. Domains /\ ThreadsKnown /\ [Next]_vars => [UserStepStep]_vars
  BY UserStepNext
<1>2. UserStepKept <=> [][UserStepStep]_vars
  BY DEF UserStepKept, UserStepStep
<1>3. QED
  BY <1>1, <1>2, DomainsInvariant, KnownInvariant, PTL DEF Spec
-----------------------------------------------------------------------------
(* One event at a time.  While the engine never has a second event waiting, *)
(* a thread with a pending internal step has all the others suspended.      *)

\* A handler works with nothing else waiting, for the stepping thread if any.
OneEvent == Len(port) <= 1 /\ (Handling => port = <<>>)
OneStep == \A t, u \in gInternalStepCallbacks : t = u
OwnEvents == \A t \in gInternalStepCallbacks :
  /\ Handling => event.thread = t
  /\ \A i \in 1..Len(port) : port[i].thread = t
\* A living thread is registered, or its creation is the event that waits.
AliveListed == pc # "ended" => \A u \in Alive :
  u \in gIdMap \/ \E i \in 1..Len(port) : port[i].kind = "create" /\ port[i].thread = u
PeersHeld == \A t \in gInternalStepCallbacks : Alive \ {t} \subseteq gInternalStepSuspendedThreads[t]
\* A step whose peers are about to be released is over.
StepOver == pc = "release" \/ (pc = "callback" /\ after = "release")
              => event.thread \notin gInternalStepCallbacks
Orderly == OneEvent /\ OneStep /\ OwnEvents /\ AliveListed /\ PeersHeld /\ StepOver

\* Whoever is held is suspended.
LEMMA AloneByHolding ==
  ASSUME Domains, HoldersExact, PeersHeld, NEW t \in gInternalStepCallbacks,
         NEW u \in Thread \ {t}
  PROVE  ~Runnable(u)
<1> SUFFICES ASSUME Runnable(u) PROVE FALSE
  OBVIOUS
<1>1. u \in Alive /\ pc # "ended" /\ susp[u] = 0 /\ t \in Thread
  BY DEF Runnable, Alive, Domains, StepDomains
<1>2. t \in Holders(u)
  BY <1>1 DEF PeersHeld, Holders
<1>3. susp[u] = Cardinality(Holders(u))
  BY <1>1, ExactAccounts DEF SuspensionAccounted
<1>4. Holders(u) = {}
  BY <1>1, <1>3, HoldersFinite, FS_EmptySet
<1>5. QED
  BY <1>2, <1>4

\* An event raised into the empty port is the only one there.
LEMMA OnlyEvent ==
  ASSUME PortDomain, port = <<>>, NEW t \in Thread, NEW kind, NEW l, Raise(t, kind, l)
  PROVE  /\ Len(port') = 1 /\ port'[1].thread = t /\ port'[1].kind = kind
         /\ \A i \in 1..Len(port') : port'[i].thread = t
<1>1. /\ Len(port') = Len(port) + 1 /\ Len(port) = 0
      /\ port'[Len(port')] = Event(t, kind, l)
  BY RaisedEvents
<1>2. Event(t, kind, l).thread = t /\ Event(t, kind, l).kind = kind
  BY DEF Event
<1>3. QED
  BY <1>1, <1>2

LEMMA OrderlyTarget ==
  ASSUME MaxPort = 1, Domains, TrapFlagOwned, HoldersExact, Orderly,
         NEW t \in Thread, Target(t)
  PROVE  Orderly'
<1> USE DEF Orderly, Domains
<1>1. /\ Runnable(t) /\ pc = "wait" /\ t \in Alive /\ ~InPort(t) /\ port = <<>>
      /\ UNCHANGED <<steps, loop>>
  <2>1. Runnable(t) /\ UNCHANGED <<steps, loop>>
    BY DEF Target, Fault, Retire, Exit, Throw, Create
  <2>2. Len(port) < 1 /\ port \in Seq(EventDomain)
    BY <2>1 DEF Runnable, PortDomain
  <2>3. port = <<>>
    BY <2>2
  <2>4. QED
    BY <2>1, <2>3 DEF Runnable, Alive
<1>2. \A p \in gInternalStepCallbacks : p = t
  BY <1>1, AloneByHolding DEF StepDomains
<1>3. ASSUME NEW u \in Thread, Create(t, u) PROVE gInternalStepCallbacks = {}
  <2>1. ~trap[t] /\ pc # "ended"
    BY <1>1, <1>3 DEF Create
  <2>2. t \notin gInternalStepCallbacks
    BY <1>1, <2>1 DEF TrapFlagOwned, SingleStepInPort, InPort
  <2>3. QED
    BY <1>2, <2>2
<1>4. \/ UNCHANGED port /\ Alive' \subseteq Alive
      \/ \E kind \in Kinds, l \in Loc \cup {NoLoc} : Raise(t, kind, l) /\ Alive' \subseteq Alive
      \/ \E u \in Thread : /\ Raise(u, "create", NoLoc) /\ gInternalStepCallbacks = {}
                           /\ Alive' = Alive \cup {u}
  <2>1. ASSUME NEW l \in Loc, Fault(t, l) PROVE Raise(t, "hit", l) /\ Alive' = Alive
    BY <2>1 DEF Fault, target, Alive
  <2>2. ASSUME Retire(t)
        PROVE  /\ UNCHANGED port \/ Raise(t, "trap", NoLoc) \/ Raise(t, "stepped", NoLoc)
               /\ Alive' = Alive
    BY <2>2 DEF Retire, Alive
  <2>3. ASSUME Exit(t)
        PROVE  /\ Raise(t, "exit", NoLoc) \/ Raise(t, "exitprocess", NoLoc)
               /\ Alive' \subseteq Alive
    BY <2>3 DEF Exit, Alive, TargetDomains
  <2>4. ASSUME Throw(t) PROVE Raise(t, "unhandled", NoLoc) /\ Alive' = Alive
    BY <2>4 DEF Throw, target, Alive
  <2>5. ASSUME NEW u \in Thread, Create(t, u)
        PROVE  Raise(u, "create", NoLoc) /\ Alive' = Alive \cup {u}
    BY <2>5 DEF Create, Alive, TargetDomains
  <2>6. QED
    BY <1>3, <2>1, <2>2, <2>3, <2>4, <2>5, KindsIn DEF Target
<1>5. OneStep' /\ StepOver' /\ ~Handling' /\ UNCHANGED <<gIdMap, gInternalStepCallbacks>>
  BY <1>1 DEF OneStep, StepOver, Handling, steps, internal, loop
<1>6. \A u \in Alive : u \in gIdMap
  BY <1>1 DEF AliveListed
<1>7. CASE UNCHANGED port /\ Alive' \subseteq Alive
  BY <1>1, <1>5, <1>6, <1>7 DEF OneEvent, OwnEvents, AliveListed, PeersHeld, steps, internal
<1>8. ASSUME NEW kind \in Kinds, NEW l \in Loc \cup {NoLoc}, Raise(t, kind, l),
             Alive' \subseteq Alive
      PROVE  Orderly'
  <2>1. Len(port') = 1 /\ \A i \in 1..Len(port') : port'[i].thread = t
    BY <1>1, <1>8, OnlyEvent
  <2>2. OneEvent' /\ OwnEvents'
    BY <1>2, <1>5, <2>1 DEF OneEvent, OwnEvents
  <2>3. AliveListed' /\ PeersHeld'
    BY <1>1, <1>5, <1>6, <1>8 DEF AliveListed, PeersHeld, steps, internal
  <2>4. QED
    BY <1>5, <2>2, <2>3
<1>9. ASSUME NEW u \in Thread, Raise(u, "create", NoLoc), gInternalStepCallbacks = {},
             Alive' = Alive \cup {u}
      PROVE  Orderly'
  <2>1. Len(port') = 1 /\ port'[1].thread = u /\ port'[1].kind = "create"
    BY <1>1, <1>9, OnlyEvent
  <2>2. AliveListed'
    BY <1>5, <1>6, <1>9, <2>1 DEF AliveListed
  <2>3. QED
    BY <1>5, <1>9, <2>1, <2>2 DEF OneEvent, OwnEvents, PeersHeld
<1>10. QED
  BY <1>4, <1>7, <1>8, <1>9

\* A creation that is delivered registers the thread; only the end of an internal
\* step is followed by a release.
LEMMA DeliverOrders ==
  ASSUME Domains,
         \/ DeliverHit \/ DeliverHitFails \/ DeliverStaleHit
         \/ CompleteInternalStep \/ CompleteUserStep
         \/ DeliverException \/ DeliverStrayStop
         \/ DeliverCreateThread \/ DeliverExit
  PROVE  /\ gIdMap \subseteq gIdMap'
         /\ Head(port).kind = "create" => Head(port).thread \in gIdMap'
         /\ StepOver' /\ UNCHANGED <<state, gInternalStepSuspendedThreads>>
<1>1. CASE DeliverHit \/ DeliverHitFails \/ DeliverStaleHit
  BY <1>1 DEF DeliverHit, DeliverHitFails, DeliverStaleHit, Deliver, StepOver, target, steps,
     internal
<1>2. CASE CompleteInternalStep
  BY <1>2 DEF CompleteInternalStep, Deliver, SingleStep, StepOver
<1>3. CASE CompleteUserStep
  BY <1>3 DEF CompleteUserStep, Deliver, SingleStep, StepOver, target, internal
<1>4. CASE DeliverException \/ DeliverStrayStop
  BY <1>4 DEF DeliverException, DeliverStrayStop, Deliver, StepOver, target, steps, internal
<1>5. CASE DeliverCreateThread \/ DeliverExit
  BY <1>5 DEF DeliverCreateThread, DeliverExit, Deliver, StepOver, target, steps, internal
<1>6. QED
  BY <1>1, <1>2, <1>3, <1>4, <1>5

LEMMA OrderlyDeliver ==
  ASSUME Domains, Orderly,
         \/ DeliverHit \/ DeliverHitFails \/ DeliverStaleHit
         \/ CompleteInternalStep \/ CompleteUserStep
         \/ DeliverException \/ DeliverStrayStop
         \/ DeliverCreateThread \/ DeliverExit
  PROVE  Orderly'
<1> USE DEF Orderly
<1>1. Delivered
  BY DeliverCommon
<1>2. /\ gIdMap \subseteq gIdMap' /\ StepOver' /\ UNCHANGED <<state, gInternalStepSuspendedThreads>>
      /\ Head(port).kind = "create" => Head(port).thread \in gIdMap'
  BY DeliverOrders
<1>3. Len(port) = 1 /\ Head(port) = port[1] /\ port' = <<>>
  <2>1. port \in Seq(EventDomain) /\ port # <<>> /\ Len(port) <= 1 /\ port' = Tail(port)
    BY <1>1 DEF Delivered, Domains, PortDomain, OneEvent
  <2> DEFINE n == Len(port)
  <2>2. n \in Nat /\ n <= 1 /\ n # 0
    BY <2>1
  <2>3. n = 1
    <3> HIDE DEF n
    <3>1. QED
      BY <2>2
  <2>4. Head(port) = port[1] /\ Tail(port) \in Seq(EventDomain) /\ Len(Tail(port)) = 0
    BY <2>1, <2>3
  <2>5. QED
    BY <2>1, <2>3, <2>4
<1>4. event'.thread = port[1].thread
  BY <1>1, <1>3 DEF Delivered
<1>5. OneEvent'
  BY <1>3 DEF OneEvent
<1>6. gInternalStepCallbacks' \subseteq gInternalStepCallbacks /\ Alive' = Alive /\ pc # "ended"
  BY <1>1, <1>2 DEF Delivered, Alive
<1>7. OneStep' /\ OwnEvents' /\ PeersHeld'
  BY <1>2, <1>3, <1>4, <1>6 DEF OneStep, OwnEvents, PeersHeld
<1>8. AliveListed'
  <2>1. ASSUME NEW u \in Alive PROVE u \in gIdMap'
    <3>1. CASE u \in gIdMap
      BY <1>2, <3>1
    <3>2. CASE u \notin gIdMap
      <4>1. port[1].kind = "create" /\ port[1].thread = u
        BY <1>3, <1>6, <3>2 DEF AliveListed
      <4>2. QED
        BY <1>2, <1>3, <4>1
    <3>3. QED
      BY <3>1, <3>2
  <2>2. QED
    BY <1>6, <2>1 DEF AliveListed
<1>9. QED
  BY <1>2, <1>5, <1>7, <1>8

LEMMA OrderlyUserHandler ==
  ASSUME Domains, ThreadsKnown, Orderly,
         \/ User
         \/ CallbackReturns \/ SkipRearm \/ ChainInternalStep \/ ScheduleInternalStep
         \/ ScheduleInternalStepFails \/ Finish \/ ReapThread \/ ReleasePeers
         \/ Resume \/ EndSession
  PROVE  Orderly'
<1> USE DEF Orderly
<1> DEFINE t == event.thread
           held == gInternalStepSuspendedThreads
<1>1. UNCHANGED <<state, port>> /\ Alive' = Alive
  BY DEF Alive, target, User, DebugStep, SetBreakpoint, DeleteBreakpoint, ReadMemory,
         CallbackReturns, SkipRearm, ChainInternalStep, ScheduleInternalStep,
         ScheduleInternalStepFails, Finish, ReapThread, FinishDebugEvent, ReleasePeers,
         Resume, EndSession
<1>2. /\ Handling' => Handling /\ UNCHANGED event
      /\ pc' # "ended" => pc # "ended"
      /\ OneEvent'
  <2>1. Handling' => Handling /\ UNCHANGED event
    BY DEF Domains, LoopDomains, target, loop, User, DebugStep, SetBreakpoint,
       DeleteBreakpoint, ReadMemory, Handling, CallbackReturns, SkipRearm, ChainInternalStep,
       ScheduleInternalStep, ScheduleInternalStepFails, Finish,
       ReapThread, FinishDebugEvent, ReleasePeers, Resume, EndSession
  <2>2. pc' # "ended" => pc # "ended"
    BY DEF loop, User, DebugStep, SetBreakpoint, DeleteBreakpoint, MayEdit, ReadMemory, Handling,
       CallbackReturns, SkipRearm, ChainInternalStep, ScheduleInternalStep,
       ScheduleInternalStepFails, Finish, ReapThread, FinishDebugEvent, ReleasePeers, Resume,
       EndSession
  <2>3. QED
    BY <1>1, <2>1, <2>2 DEF OneEvent
<1>3. CASE ScheduleInternalStep
  <2>1. /\ pc = "rearm" /\ Handling /\ t \in Thread /\ t \notin gInternalStepCallbacks /\ pc' = "finish"
        /\ gInternalStepCallbacks' = gInternalStepCallbacks \cup {t} /\ UNCHANGED <<event, gIdMap>>
        /\ held' = [held EXCEPT ![t] = Peers(t)]
    BY <1>3, HandledEvent DEF ScheduleInternalStep, Handling, Domains
  <2>2. gInternalStepCallbacks = {} /\ port = <<>>
    BY <2>1 DEF OwnEvents, OneEvent
  <2>3. held'[t] = Peers(t) /\ \A u \in Alive : u \in gIdMap
    BY <2>1, <2>2 DEF Domains, StepDomains, AliveListed
  <2>4. Alive \ {t} \subseteq held'[t]
    BY <2>3 DEF Peers, Alive
  <2>5. QED
    BY <1>1, <1>2, <2>1, <2>2, <2>3, <2>4 DEF OneStep, OwnEvents, PeersHeld, AliveListed, StepOver
<1>4. CASE ReleasePeers
  <2>1. /\ t \notin gInternalStepCallbacks /\ UNCHANGED <<gIdMap, gInternalStepCallbacks>>
        /\ held' = [held EXCEPT ![t] = {}] /\ pc' = "resume"
    BY <1>4 DEF ReleasePeers, StepOver
  <2>2. \A u \in gInternalStepCallbacks : held'[u] = held[u]
    BY <2>1 DEF Domains, StepDomains
  <2>3. QED
    BY <1>1, <1>2, <2>1, <2>2 DEF OneStep, OwnEvents, PeersHeld, AliveListed, StepOver
<1>5. CASE ReapThread
  <2>1. /\ gIdMap' = gIdMap \ {t} /\ gInternalStepCallbacks' = gInternalStepCallbacks \ {t}
        /\ held' = [held EXCEPT ![t] = {}] /\ pc' = "resume" /\ pc = "reap"
    BY <1>5 DEF ReapThread, FinishDebugEvent
  <2>2. t \notin Alive
    BY <2>1 DEF ThreadsKnown, EventKnown, Handling, Alive
  <2>3. \A u \in gInternalStepCallbacks' : held'[u] = held[u]
    BY <2>1 DEF Domains, StepDomains
  <2>4. QED
    BY <1>1, <1>2, <2>1, <2>2, <2>3 DEF OneStep, OwnEvents, PeersHeld, AliveListed, StepOver
<1>6. CASE EndSession
  <2>1. gInternalStepCallbacks' = {} /\ pc' = "ended"
    BY <1>6 DEF EndSession
  <2>2. QED
    BY <1>2, <2>1 DEF OneStep, OwnEvents, PeersHeld, AliveListed, StepOver
<1>7. ASSUME UNCHANGED <<gIdMap, gInternalStepCallbacks, gInternalStepSuspendedThreads>>,
             StepOver'
      PROVE  Orderly'
  BY <1>1, <1>2, <1>7 DEF OneStep, OwnEvents, PeersHeld, AliveListed
<1>8. ASSUME User PROVE Orderly'
  BY <1>7, <1>8 DEF StepOver, User, DebugStep, SetBreakpoint, DeleteBreakpoint, ReadMemory,
     steps, internal, loop
<1>9. ASSUME \/ CallbackReturns \/ SkipRearm \/ ChainInternalStep
             \/ ScheduleInternalStepFails \/ Finish \/ Resume
      PROVE  Orderly'
  BY <1>7, <1>9 DEF StepOver, CallbackReturns, SkipRearm, ChainInternalStep,
     ScheduleInternalStepFails, Finish, FinishDebugEvent, Resume, steps, internal
<1>10. QED
  BY <1>3, <1>4, <1>5, <1>6, <1>8, <1>9

LEMMA OrderlyInvariant ==
  ASSUME MaxPort = 1, ~SteppedSyscall
  PROVE  Spec => []Orderly
<1>1. Init => Orderly
  BY DEF Init, Orderly, OneEvent, OneStep, OwnEvents, AliveListed, PeersHeld, StepOver, Alive
<1>2. Domains /\ ThreadsKnown /\ TrapFlagOwned /\ HoldersExact /\ Orderly /\ [Next]_vars
      => Orderly'
  <2> SUFFICES ASSUME Domains, ThreadsKnown, TrapFlagOwned, HoldersExact, Orderly, [Next]_vars
               PROVE  Orderly'
    OBVIOUS
  <2>1. CASE UNCHANGED vars
    BY <2>1 DEF vars, loop, target, steps, internal, Orderly, OneEvent, OneStep, OwnEvents,
                AliveListed, PeersHeld, StepOver, Alive, Handling
  <2>2. QED
    BY <2>1, OrderlyTarget, OrderlyDeliver, OrderlyUserHandler DEF Next, DebugLoop, Ended
<1>3. QED
  BY <1>1, <1>2, CountsInvariant, DomainsInvariant, KnownInvariant, TrapFlagOwnedInvariant,
     PTL DEF Spec

\* A thread is alone while it runs its hidden instruction: no other thread can
\* run, and none can be created, as long as the engine raises no event while
\* another one waits and stepped instructions return.
THEOREM HiddenStepAloneInvariant ==
  ASSUME MaxPort = 1, ~SteppedSyscall
  PROVE  Spec => []HiddenStepAlone
<1>1. Domains /\ HoldersExact /\ Orderly => HiddenStepAlone
  BY AloneByHolding DEF Orderly, HiddenStepAlone
<1>2. QED
  BY <1>1, OrderlyInvariant, CountsInvariant, DomainsInvariant, PTL

\* No access escapes then: what a thread about to run may touch without a hit is
\* what its own internal step is stepping over.
THEOREM NoEscapeInvariant ==
  ASSUME MaxPort = 1, ~SteppedSyscall, ~Faulty
  PROVE  Spec => []NoEscape
<1>1. Domains /\ StepRecordsAgree /\ HoldersExact /\ WatchKept /\ Orderly => NoEscape
  <2> SUFFICES ASSUME Domains, StepRecordsAgree, HoldersExact, WatchKept, Orderly,
                      NEW t \in Thread, Runnable(t), NEW l \in touch[t], present[l], ~armed[l]
               PROVE  l \in rearm[t]
    BY DEF NoEscape
  <2>1. l \in Loc /\ pc = "wait" /\ Len(port) < 1 /\ Len(port) \in Nat
    BY DEF Runnable, Domains, TargetDomains, PortDomain
  <2>2. PICK u \in Thread : l \in rearm[u]
    BY <2>1 DEF WatchKept, HitInPort, HitHandled, InRearm
  <2>3. u \in gInternalStepCallbacks
    BY <2>2 DEF StepRecordsAgree
  <2>4. QED
    BY <2>2, <2>3, AloneByHolding DEF Orderly
<1>2. QED
  BY <1>1, OrderlyInvariant, WatchKeptInvariant, CountsInvariant, DomainsInvariant,
     StepRecordsAgreeInvariant, PTL

\* What a pending internal step re-arms is exposed, in every phase.
StepExposed == \A t \in gInternalStepCallbacks : \A l \in rearm[t] : present[l] => ~armed[l]

LEMMA ExposedNext ==
  ASSUME ~UserEdits, ~UserReads, Domains, StepRecordsAgree, OneStep, StepExposed, [Next]_vars
  PROVE  StepExposed'
<1> USE DEF Domains
<1>0. ASSUME \A l \in Loc : armed'[l] => armed[l], \A l \in Loc : present'[l] => present[l],
             \A t \in gInternalStepCallbacks' : t \in gInternalStepCallbacks /\ rearm'[t] \subseteq rearm[t]
      PROVE  StepExposed'
  BY <1>0 DEF StepExposed, StepDomains
<1>1. CASE CompleteInternalStep
  <2>1. gInternalStepCallbacks' = {}
    BY <1>1 DEF CompleteInternalStep, OneStep
  <2>2. QED
    BY <2>1 DEF StepExposed
<1>2. CASE ChainInternalStep \/ ScheduleInternalStep
  <2> DEFINE t == event.thread
  <2>1. /\ t \in Thread /\ UNCHANGED present /\ armed' = Exposed(event.loc)
        /\ \/ rearm' = [rearm EXCEPT ![t] = @ \cup {event.loc}] /\ UNCHANGED gInternalStepCallbacks
           \/ /\ rearm' = [rearm EXCEPT ![t] = {event.loc}]
              /\ gInternalStepCallbacks' = gInternalStepCallbacks \cup {t}
              /\ t \notin gInternalStepCallbacks
    BY <1>2, HandledEvent DEF ChainInternalStep, ScheduleInternalStep, Handling
  <2>2. event.loc \in Loc
    BY <1>2, HandledEvent DEF ChainInternalStep, ScheduleInternalStep, Handling
  <2>3. ~armed'[event.loc] /\ \A l \in Loc : armed'[l] => armed[l]
    BY <2>1, <2>2 DEF Exposed, BreakpointDomains
  <2>4. ASSUME NEW u \in gInternalStepCallbacks', NEW l \in rearm'[u], present'[l]
        PROVE  ~armed'[l]
    <3>1. CASE l = event.loc
      BY <2>3, <3>1
    <3>2. CASE l # event.loc
      <4>1. u \in gInternalStepCallbacks /\ l \in rearm[u] /\ u \in Thread
        BY <2>1, <2>4, <3>2 DEF StepDomains
      <4>2. ~armed[l] /\ l \in Loc
        BY <2>1, <2>4, <4>1 DEF StepExposed, StepDomains
      <4>3. QED
        BY <2>3, <4>2
    <3>3. QED
      BY <3>1, <3>2
  <2>5. QED
    BY <2>4 DEF StepExposed
<1>3. CASE DeliverHit
  BY <1>0, <1>3 DEF DeliverHit, Deliver, BreakpointDomains, steps, internal
<1>4. CASE ReapThread
  BY <1>0, <1>4 DEF ReapThread, FinishDebugEvent, breakpoints, StepDomains
<1>5. CASE EndSession
  BY <1>0, <1>5 DEF EndSession
<1>6. ASSUME UNCHANGED <<present, armed, gInternalStepCallbacks, rearm>> PROVE StepExposed'
  BY <1>6 DEF StepExposed
<1>7. ASSUME NEW t \in Thread, Target(t) PROVE StepExposed'
  <2>1. UNCHANGED <<present, gInternalStepCallbacks, rearm>>
    BY <1>7 DEF Target, Fault, Retire, Exit, Throw, Create, breakpoints, steps, internal
  <2>2. \A l \in Loc : armed'[l] => armed[l]
    BY <1>7 DEF Target, Fault, Retire, Exit, Throw, Create, breakpoints, BreakpointDomains
  <2>3. QED
    BY <1>0, <2>1, <2>2
<1>8. ASSUME User PROVE StepExposed'
  BY <1>6, <1>8 DEF User, DebugStep, SetBreakpoint, DeleteBreakpoint, MayEdit, ReadMemory,
     breakpoints, internal
<1>9. ASSUME DebugLoop
      PROVE  \/ CompleteInternalStep \/ ChainInternalStep \/ ScheduleInternalStep
             \/ DeliverHit \/ ReapThread \/ EndSession \/ ScheduleInternalStepFails
             \/ UNCHANGED <<present, armed, gInternalStepCallbacks, rearm>>
  BY <1>9 DEF DebugLoop, DeliverHitFails, DeliverStaleHit, CompleteUserStep,
     DeliverException, DeliverStrayStop, DeliverCreateThread, DeliverExit, CallbackReturns,
     SkipRearm, Finish, FinishDebugEvent, ReleasePeers, Resume, breakpoints, steps, internal
<1>10. CASE ScheduleInternalStepFails
  BY <1>0, <1>10 DEF ScheduleInternalStepFails, Exposed, BreakpointDomains, internal
<1>11. QED
  BY <1>1, <1>2, <1>3, <1>4, <1>5, <1>6, <1>7, <1>8, <1>9, <1>10
  DEF Next, Ended, vars, breakpoints, steps, internal

\* Nor is an instruction reported twice: nothing arms what a pending step has
\* exposed, unless the user does or the GUI reads it.
THEOREM ExposedForStepInvariant ==
  ASSUME MaxPort = 1, ~SteppedSyscall, ~UserEdits, ~UserReads
  PROVE  Spec => []ExposedForStep
<1>1. Init => StepExposed
  BY DEF Init, StepExposed
<1>2. Domains /\ StepRecordsAgree /\ Orderly /\ StepExposed /\ [Next]_vars => StepExposed'
  BY ExposedNext DEF Orderly
<1>3. StepExposed => ExposedForStep
  BY DEF StepExposed, ExposedForStep
<1>4. QED
  BY <1>1, <1>2, <1>3, OrderlyInvariant, DomainsInvariant, StepRecordsAgreeInvariant, PTL
  DEF Spec
=============================================================================
