------------------------- MODULE InternalStepProofs -------------------------
(***************************************************************************)
(* Theorems about InternalStep, for any set of threads and locations and   *)
(* any bound on the debug port.                                            *)
(***************************************************************************)
EXTENDS InternalStep, FiniteSetTheorems, TLAPS

LEMMA EventIn ==
  ASSUME NEW t \in Thread, NEW kind \in Kinds, NEW l \in Loc \cup {NoLoc},
         kind = "hit" => l \in Loc
  PROVE  Event(t, kind, l) \in EventDomain
  BY DEF Event, EventDomain

LEMMA KindsIn == {"none", "stop", "hit", "trap", "stepped", "create", "exit", "exitprocess",
          "unhandled"} = Kinds
  BY DEF Kinds, SingleStep

LEMMA DomainsInit == Init => Domains
<1> SUFFICES ASSUME Init PROVE Domains
  OBVIOUS
<1>1. TargetDomains
  BY ThreadAssumption, LocAssumption DEF Init, TargetDomains
<1>2. PortDomain
  BY DEF Init, PortDomain
<1>3. BreakpointDomains
  BY DEF Init, BreakpointDomains
<1>4. StepDomains
  BY DEF Init, StepDomains
<1>5. LoopDomains
  <2>1. event \in EventDomain
    <3>1. PICK t \in InitThreads : event = Event(t, "stop", NoLoc)
      BY DEF Init
    <3>2. QED
      BY <3>1, ThreadAssumption, KindsIn, EventIn
  <2>2. pc = "callback" /\ after = "finish" /\ gIdMap = InitThreads
        /\ gNextExecutionStatus = "NO_CHANGE"
    BY DEF Init
  <2>3. QED
    BY <2>1, <2>2, ThreadAssumption DEF LoopDomains, Phases, Statuses
<1>6. QED
  BY <1>1, <1>2, <1>3, <1>4, <1>5 DEF Domains

LEMMA RaiseDomain ==
  ASSUME PortDomain, NEW e \in EventDomain, port' = Append(port, e)
  PROVE  PortDomain'
  BY DEF PortDomain

\* What the target does keeps the variables in their domains.
LEMMA DomainsTarget ==
  ASSUME Domains, NEW t \in Thread, Target(t)
  PROVE  Domains'
<1> USE DEF Domains, target, breakpoints, internal, steps, loop
<1>0. ASSUME UNCHANGED loop PROVE LoopDomains'
  BY <1>0 DEF LoopDomains, Handling
<1>a. ASSUME UNCHANGED steps PROVE StepDomains'
  BY <1>a DEF StepDomains
<1>1. ASSUME NEW l \in Loc, Fault(t, l) PROVE Domains'
  <2>1. TargetDomains'
    BY <1>1 DEF Fault, TargetDomains
  <2>2. PortDomain'
    BY <1>1, RaiseDomain, EventIn, KindsIn DEF Fault, Raise
  <2>3. BreakpointDomains'
    BY <1>1 DEF Fault, BreakpointDomains
  <2>4. QED
    BY <1>1, <2>1, <2>2, <2>3, <1>0, <1>a DEF Fault
<1>2. CASE Retire(t)
  <2>1. TargetDomains'
    BY <1>2, LocAssumption DEF Retire, TargetDomains
  <2>2. PortDomain'
    BY <1>2, RaiseDomain, EventIn, KindsIn DEF Retire, Raise, PortDomain
  <2>3. BreakpointDomains'
    BY <1>2 DEF Retire, BreakpointDomains
  <2>4. QED
    BY <1>2, <2>1, <2>2, <2>3, <1>0, <1>a DEF Retire
<1>3. CASE Exit(t)
  <2>1. TargetDomains'
    BY <1>3 DEF Exit, TargetDomains
  <2>2. PortDomain'
    BY <1>3, RaiseDomain, EventIn, KindsIn DEF Exit, Raise
  <2>3. BreakpointDomains'
    BY <1>3 DEF Exit, BreakpointDomains
  <2>4. QED
    BY <1>3, <2>1, <2>2, <2>3, <1>0, <1>a DEF Exit
<1>4. ASSUME NEW u \in Thread, Create(t, u) PROVE Domains'
  <2>1. TargetDomains'
    BY <1>4, LocAssumption DEF Create, TargetDomains
  <2>2. PortDomain'
    BY <1>4, RaiseDomain, EventIn, KindsIn DEF Create, Raise
  <2>3. BreakpointDomains'
    BY <1>4 DEF Create, BreakpointDomains
  <2>4. QED
    BY <1>4, <2>1, <2>2, <2>3, <1>0, <1>a DEF Create
<1>5. CASE Throw(t)
  <2>1. PortDomain'
    BY <1>5, RaiseDomain, EventIn, KindsIn DEF Throw, Raise
  <2>2. TargetDomains' /\ BreakpointDomains'
    BY <1>5 DEF Throw, TargetDomains, BreakpointDomains
  <2>3. QED
    BY <1>5, <2>1, <2>2, <1>0, <1>a DEF Throw
<1>6. QED
  BY <1>1, <1>2, <1>3, <1>4, <1>5 DEF Target

-----------------------------------------------------------------------------
\* What a delivery takes from the port is an event.
LEMMA DeliverDomain ==
  ASSUME PortDomain, NEW kinds, NEW phase, NEW next, Deliver(kinds, phase, next)
  PROVE  /\ Head(port) \in EventDomain /\ Head(port).kind \in kinds
         /\ PortDomain' /\ pc' = phase /\ after' = next /\ engineStep' = NoThread
  BY DEF Deliver, PortDomain

\* The handlers' work on a new event, up to the user's callback.
LEMMA DomainsDeliver ==
  ASSUME Domains,
         \/ DeliverHit \/ DeliverHitFails \/ DeliverStaleHit
         \/ CompleteInternalStep \/ CompleteUserStep
         \/ DeliverException \/ DeliverStrayStop
         \/ DeliverCreateThread \/ DeliverExit
  PROVE  Domains'
<1> USE DEF Domains, target, breakpoints, internal, steps
<1> DEFINE e == Head(port)
<1>0. ASSUME UNCHANGED target, engineStep' = NoThread PROVE TargetDomains'
  BY <1>0 DEF TargetDomains
<1>a. ASSUME UNCHANGED breakpoints PROVE BreakpointDomains'
  BY <1>a DEF BreakpointDomains
<1>b. ASSUME UNCHANGED steps PROVE StepDomains'
  BY <1>b DEF StepDomains
<1>c. ASSUME gIdMap' \subseteq Thread, gNextExecutionStatus' \in Statuses,
             pc' \in Phases, after' \in Phases, event' \in EventDomain,
             pc' # "rearm", after' # "rearm"
      PROVE  LoopDomains'
  BY <1>c DEF LoopDomains
<1>d. LoopDomains => gIdMap \subseteq Thread /\ gNextExecutionStatus \in Statuses
  BY DEF LoopDomains
<1>e. {"callback", "rearm", "finish", "reap", "release", "resume"} \subseteq Phases
  BY DEF Phases
<1>f. {"GO", "GO_HANDLED"} \subseteq Statuses
  BY DEF Statuses
<1>1. CASE DeliverHit
  <2>1. e \in EventDomain /\ e.kind = "hit" /\ PortDomain' /\ pc' = "callback"
        /\ after' = "rearm" /\ engineStep' = NoThread
    BY <1>1, DeliverDomain DEF DeliverHit
  <2>2. BreakpointDomains'
    BY <1>1 DEF DeliverHit, BreakpointDomains
  <2>3. LoopDomains'
    BY <1>1, <1>d, <1>e, <2>1 DEF DeliverHit, LoopDomains
  <2>4. QED
    BY <1>1, <2>1, <2>2, <2>3, <1>0, <1>b DEF DeliverHit
<1>2. CASE DeliverHitFails
  <2>1. e \in EventDomain /\ PortDomain' /\ pc' = "resume"
        /\ after' = "resume" /\ engineStep' = NoThread
    BY <1>2, DeliverDomain DEF DeliverHitFails
  <2>2. QED
    BY <1>2, <2>1, <1>0, <1>a, <1>b, <1>c, <1>d, <1>e DEF DeliverHitFails
<1>3. CASE DeliverStaleHit
  <2>1. e \in EventDomain /\ PortDomain' /\ pc' = "callback"
        /\ after' = "finish" /\ engineStep' = NoThread
    BY <1>3, DeliverDomain DEF DeliverStaleHit
  <2>2. event' \in EventDomain
    BY <1>3, <2>1, KindsIn DEF DeliverStaleHit, EventDomain
  <2>3. QED
    BY <1>3, <2>1, <2>2, <1>0, <1>a, <1>b, <1>c, <1>d, <1>e DEF DeliverStaleHit
<1>4. CASE CompleteInternalStep
  <2>1. e \in EventDomain /\ PortDomain' /\ pc' \in {"callback", "release"}
        /\ after' = "release" /\ engineStep' = NoThread
    BY <1>4, DeliverDomain DEF CompleteInternalStep
  <2>2. TargetDomains'
    BY <1>4, <2>1 DEF CompleteInternalStep, TargetDomains
  <2>3. BreakpointDomains'
    BY <1>4 DEF CompleteInternalStep, BreakpointDomains, Rearmed
  <2>4. StepDomains'
    BY <1>4 DEF CompleteInternalStep, StepDomains
  <2>5. LoopDomains'
    BY <1>4, <2>1, <1>c, <1>d, <1>e, <1>f DEF CompleteInternalStep
  <2>6. QED
    BY <2>1, <2>2, <2>3, <2>4, <2>5
<1>5. CASE CompleteUserStep
  <2>1. e \in EventDomain /\ PortDomain' /\ pc' = "callback"
        /\ after' = "resume" /\ engineStep' = NoThread
    BY <1>5, DeliverDomain DEF CompleteUserStep
  <2>2. StepDomains'
    BY <1>5 DEF CompleteUserStep, StepDomains
  <2>3. QED
    BY <1>5, <2>1, <2>2, <1>0, <1>a, <1>c, <1>d, <1>e, <1>f DEF CompleteUserStep
<1>6. CASE DeliverException
  <2>1. e \in EventDomain /\ PortDomain' /\ pc' = "callback"
        /\ after' = "finish" /\ engineStep' = NoThread
    BY <1>6, DeliverDomain DEF DeliverException
  <2>2. event' \in EventDomain
    BY <1>6, <2>1, KindsIn DEF DeliverException, EventDomain
  <2>3. QED
    BY <1>6, <2>1, <2>2, <1>0, <1>a, <1>b, <1>c, <1>d, <1>e DEF DeliverException
<1>7. CASE DeliverStrayStop
  <2>1. e \in EventDomain /\ PortDomain' /\ pc' = "resume"
        /\ after' = "resume" /\ engineStep' = NoThread
    BY <1>7, DeliverDomain DEF DeliverStrayStop
  <2>2. QED
    BY <1>7, <2>1, <1>0, <1>a, <1>b, <1>c, <1>d, <1>e DEF DeliverStrayStop
<1>8. CASE DeliverCreateThread
  <2>1. e \in EventDomain /\ PortDomain' /\ pc' = "callback"
        /\ after' = "finish" /\ engineStep' = NoThread
    BY <1>8, DeliverDomain DEF DeliverCreateThread
  <2>2. e.thread \in Thread
    BY <2>1 DEF EventDomain
  <2>3. QED
    BY <1>8, <2>1, <2>2, <1>0, <1>a, <1>b, <1>c, <1>d, <1>e DEF DeliverCreateThread
<1>9. CASE DeliverExit
  <2>1. e \in EventDomain /\ PortDomain' /\ pc' = "callback"
        /\ after' \in {"reap", "finish"} /\ engineStep' = NoThread
    BY <1>9, DeliverDomain DEF DeliverExit
  <2>2. QED
    BY <1>9, <2>1, <1>0, <1>a, <1>b, <1>c, <1>d, <1>e DEF DeliverExit
<1>10. QED
  BY <1>1, <1>2, <1>3, <1>4, <1>5, <1>6, <1>7, <1>8, <1>9

-----------------------------------------------------------------------------
\* The event a running handler works on.
LEMMA HandledEvent ==
  ASSUME LoopDomains, Handling
  PROVE  /\ event.thread \in Thread /\ event \in EventDomain
         /\ "rearm" \in {pc, after} => event.loc \in Loc
  BY DEF LoopDomains, EventDomain

\* A handler that only moves on keeps the loop's variables in their domains.
LEMMA LoopMoves ==
  ASSUME LoopDomains, Handling, pc' \in {after, "finish", "resume"},
         gIdMap' \subseteq Thread, gNextExecutionStatus' \in Statuses,
         UNCHANGED <<after, event>>
  PROVE  LoopDomains'
  BY DEF LoopDomains, Handling, Phases

LEMMA DomainsUser ==
  ASSUME Domains, User
  PROVE  Domains'
<1> USE DEF Domains, target, internal, steps
<1>a. ASSUME UNCHANGED loop PROVE LoopDomains'
  BY <1>a DEF LoopDomains, Handling, loop
<1>b. ASSUME UNCHANGED <<target, engineStep>> PROVE TargetDomains'
  BY <1>b DEF TargetDomains
<1>c. ASSUME UNCHANGED port PROVE PortDomain'
  BY <1>c DEF PortDomain
<1>1. CASE DebugStep
  <2>1. event.thread \in Thread
    BY <1>1, HandledEvent DEF DebugStep, Handling
  <2>2. StepDomains'
    BY <1>1, <2>1 DEF DebugStep, StepDomains, StatusAfterStep
  <2>3. BreakpointDomains'
    BY <1>1 DEF DebugStep, BreakpointDomains, breakpoints
  <2>4. LoopDomains'
    BY <1>1 DEF DebugStep, LoopDomains, Handling, Statuses
  <2>5. QED
    BY <1>1, <2>2, <2>3, <2>4, <1>b, <1>c DEF DebugStep
<1>2. ASSUME NEW l \in Loc, SetBreakpoint(l) PROVE Domains'
  <2>1. BreakpointDomains' /\ StepDomains'
    BY <1>2 DEF SetBreakpoint, BreakpointDomains, StepDomains
  <2>2. QED
    BY <1>2, <2>1, <1>a, <1>b, <1>c DEF SetBreakpoint
<1>3. ASSUME NEW l \in Loc, DeleteBreakpoint(l) PROVE Domains'
  <2>1. BreakpointDomains' /\ StepDomains'
    BY <1>3 DEF DeleteBreakpoint, BreakpointDomains, StepDomains
  <2>2. QED
    BY <1>3, <2>1, <1>a, <1>b, <1>c DEF DeleteBreakpoint
<1>4. ASSUME NEW l \in Loc, ReadMemory(l) PROVE Domains'
  <2>1. BreakpointDomains' /\ StepDomains'
    BY <1>4 DEF ReadMemory, BreakpointDomains, StepDomains
  <2>2. QED
    BY <1>4, <2>1, <1>a, <1>b, <1>c DEF ReadMemory
<1>5. QED
  BY <1>1, <1>2, <1>3, <1>4 DEF User

\* The rest of the handlers, after the user's callback.
LEMMA DomainsHandler ==
  ASSUME Domains,
         \/ CallbackReturns \/ SkipRearm \/ ChainInternalStep \/ ScheduleInternalStep
         \/ ScheduleInternalStepFails \/ Finish \/ ReapThread \/ ReleasePeers
         \/ Resume \/ EndSession
  PROVE  Domains'
<1> USE DEF Domains, target, breakpoints, internal, steps
<1> DEFINE t == event.thread
<1>a. ASSUME UNCHANGED steps PROVE StepDomains'
  BY <1>a DEF StepDomains
<1>b. ASSUME UNCHANGED <<target, engineStep>> PROVE TargetDomains'
  BY <1>b DEF TargetDomains
<1>c. ASSUME UNCHANGED port PROVE PortDomain'
  BY <1>c DEF PortDomain
<1>d. ASSUME UNCHANGED breakpoints PROVE BreakpointDomains'
  BY <1>d DEF BreakpointDomains
<1>e. gIdMap \subseteq Thread /\ gNextExecutionStatus \in Statuses
  BY DEF LoopDomains
<1>f. ASSUME Handling PROVE t \in Thread
  BY <1>f, HandledEvent
<1>g. ASSUME UNCHANGED present, armed' = Exposed(event.loc) PROVE BreakpointDomains'
  BY <1>g DEF BreakpointDomains, Exposed
<1>1. CASE CallbackReturns
  <2>1. LoopDomains'
    BY <1>1, <1>e, LoopMoves DEF CallbackReturns, Handling
  <2>2. QED
    BY <1>1, <2>1, <1>a, <1>b, <1>c, <1>d DEF CallbackReturns
<1>2. CASE SkipRearm
  <2>1. LoopDomains'
    BY <1>2, <1>e, LoopMoves DEF SkipRearm, Handling
  <2>2. QED
    BY <1>2, <2>1, <1>a, <1>b, <1>c, <1>d DEF SkipRearm
<1>3. CASE ChainInternalStep
  <2>1. LoopDomains'
    BY <1>3, <1>e, LoopMoves DEF ChainInternalStep, Handling
  <2>2. event.loc \in Loc
    BY <1>3, HandledEvent DEF ChainInternalStep, Handling
  <2>3. StepDomains'
    BY <1>3, <2>2 DEF ChainInternalStep, StepDomains
  <2>4. QED
    BY <1>3, <2>1, <2>3, <1>b, <1>c, <1>g DEF ChainInternalStep
<1>4. CASE ScheduleInternalStep
  <2>1. LoopDomains'
    BY <1>4, <1>e, LoopMoves DEF ScheduleInternalStep, Handling
  <2>2. event.loc \in Loc /\ t \in Thread /\ Peers(t) \subseteq Thread
    BY <1>4, <1>e, HandledEvent DEF ScheduleInternalStep, Handling, Peers
  <2>3. StepDomains'
    BY <1>4, <2>2 DEF ScheduleInternalStep, StepDomains, AbsorbUserStep
  <2>4. TargetDomains'
    <3>1. SuspendPeers(t) \in [Thread -> Int]
      <4> DEFINE P == Peers(t)
      <4> HIDE DEF P
      <4>1. [u \in Thread |-> IF u \in P THEN susp[u] + 1 ELSE susp[u]] \in [Thread -> Int]
        BY DEF TargetDomains
      <4>2. QED
        BY <4>1 DEF SuspendPeers, P
    <3>2. SetTrap(t) \in [Thread -> BOOLEAN]
      BY DEF TargetDomains, SetTrap
    <3>3. QED
      BY <1>4, <3>1, <3>2 DEF ScheduleInternalStep, TargetDomains
  <2>5. QED
    BY <1>4, <2>1, <2>3, <2>4, <1>c, <1>g DEF ScheduleInternalStep
<1>5. CASE ScheduleInternalStepFails
  <2>1. LoopDomains'
    BY <1>5, <1>e, LoopMoves DEF ScheduleInternalStepFails, Handling
  <2>2. StepDomains'
    BY <1>5 DEF ScheduleInternalStepFails, StepDomains
  <2>3. QED
    BY <1>5, <2>1, <2>2, <1>b, <1>c, <1>g DEF ScheduleInternalStepFails
<1>6. ASSUME FinishDebugEvent PROVE gNextExecutionStatus' \in Statuses
  BY <1>6, <1>e DEF FinishDebugEvent, WithStatus, StepDomains, Statuses
<1>7. CASE Finish
  <2>1. LoopDomains'
    BY <1>7, <1>6, <1>e, LoopMoves DEF Finish, FinishDebugEvent, Handling
  <2>2. QED
    BY <1>7, <2>1, <1>a, <1>b, <1>c, <1>d DEF Finish, FinishDebugEvent
<1>8. CASE ReapThread
  <2>1. LoopDomains'
    BY <1>8, <1>6, <1>e, LoopMoves DEF ReapThread, FinishDebugEvent, Handling
  <2>2. StepDomains'
    BY <1>8 DEF ReapThread, StepDomains
  <2>3. QED
    BY <1>8, <2>1, <2>2, <1>b, <1>c, <1>d DEF ReapThread, FinishDebugEvent
<1>9. CASE ReleasePeers
  <2>1. LoopDomains'
    BY <1>9, <1>e, LoopMoves DEF ReleasePeers, Handling
  <2>2. StepDomains' /\ TargetDomains'
    <3>1. ResumePeers(t) \in [Thread -> Int]
      BY DEF TargetDomains, ResumePeers
    <3>2. QED
      BY <1>9, <3>1 DEF ReleasePeers, StepDomains, TargetDomains
  <2>3. QED
    BY <1>9, <2>1, <2>2, <1>c, <1>d DEF ReleasePeers
<1>10. CASE Resume
  <2>1. TargetDomains'
    <3>1. touch' \in [Thread -> SUBSET Loc]
      BY <1>10, LocAssumption DEF Resume, TargetDomains
    <3>2. engineStep' \in Thread \cup {NoThread}
      BY <1>10, <1>f DEF Resume, Handling
    <3>3. QED
      BY <1>10, <3>1, <3>2 DEF Resume, TargetDomains
  <2>2. LoopDomains'
    BY <1>10, <1>e DEF Resume, LoopDomains, Handling, Phases, Statuses
  <2>3. QED
    BY <1>10, <2>1, <2>2, <1>a, <1>c, <1>d DEF Resume
<1>11. CASE EndSession
  <2>1. LoopDomains'
    BY <1>11 DEF EndSession, LoopDomains, Handling, Phases, Statuses
  <2>2. StepDomains' /\ TargetDomains' /\ BreakpointDomains'
    BY <1>11 DEF EndSession, StepDomains, TargetDomains, BreakpointDomains
  <2>3. QED
    BY <1>11, <2>1, <2>2, <1>c DEF EndSession
<1>12. QED
  BY <1>1, <1>2, <1>3, <1>4, <1>5, <1>7, <1>8, <1>9, <1>10, <1>11

\* Nothing changes: no variable leaves its domain.
LEMMA DomainsStutter == Domains /\ UNCHANGED vars => Domains'
  BY DEF vars, target, breakpoints, internal, steps, loop, Domains, TargetDomains,
         PortDomain, BreakpointDomains, StepDomains, LoopDomains, Handling

LEMMA DomainsNext == Domains /\ [Next]_vars => Domains'
  BY DomainsTarget, DomainsDeliver, DomainsHandler, DomainsUser, DomainsStutter
  DEF Next, DebugLoop, Ended

\* The domains of the variables hold throughout a session.
THEOREM DomainsInvariant == Spec => []Domains
  BY DomainsInit, DomainsNext, PTL DEF Spec

-----------------------------------------------------------------------------
\* StepRecordsAgree is inductive once the domains are known.

\* It does not depend on anything but the step maps and the handler's phase.
LEMMA RecordsFrame ==
  ASSUME StepRecordsAgree, UNCHANGED steps,
         \A t \in Thread : Releasing(t) => Releasing(t)'
  PROVE  StepRecordsAgree'
  BY DEF StepRecordsAgree, steps, internal

LEMMA RecordsTarget ==
  ASSUME StepRecordsAgree, NEW t \in Thread, Target(t)
  PROVE  StepRecordsAgree'
<1>1. UNCHANGED <<steps, loop>>
  BY DEF Target, Fault, Retire, Exit, Throw, Create
<1>2. QED
  BY <1>1, RecordsFrame DEF loop, Releasing

LEMMA RecordsDeliver ==
  ASSUME Domains, StepRecordsAgree,
         \/ DeliverHit \/ DeliverHitFails \/ DeliverStaleHit
         \/ CompleteInternalStep \/ CompleteUserStep
         \/ DeliverException \/ DeliverStrayStop
         \/ DeliverCreateThread \/ DeliverExit
  PROVE  StepRecordsAgree'
<1>1. pc = "wait" /\ \A t \in Thread : ~Releasing(t)
  BY DEF Deliver, Releasing, DeliverHit, DeliverHitFails, DeliverStaleHit,
         CompleteInternalStep, CompleteUserStep, DeliverException, DeliverStrayStop,
         DeliverCreateThread, DeliverExit
<1>2. CASE CompleteInternalStep
  <2> DEFINE e == Head(port)
  <2>1. /\ pc' \in {"callback", "release"} /\ after' = "release" /\ event' = e
        /\ gStepStatuses' = [gStepStatuses EXCEPT ![e.thread] = "none"]
        /\ gInternalStepCallbacks' = gInternalStepCallbacks \ {e.thread}
        /\ rearm' = [rearm EXCEPT ![e.thread] = {}] /\ absorbed' = absorbed \ {e.thread}
        /\ UNCHANGED gInternalStepSuspendedThreads
    BY <1>2 DEF CompleteInternalStep, Deliver
  <2> HIDE DEF e
  <2>2. ASSUME NEW t \in Thread, t = e.thread
        PROVE  gStepStatuses'[t] = "none" /\ rearm'[t] = {} /\ Releasing(t)'
    BY <2>1, <2>2 DEF Domains, StepDomains, Releasing
  <2>3. ASSUME NEW t \in Thread, t # e.thread
        PROVE  gStepStatuses'[t] = gStepStatuses[t] /\ rearm'[t] = rearm[t]
    BY <2>1, <2>3 DEF Domains, StepDomains
  <2>4. QED
    BY <2>1, <2>2, <2>3, <1>1 DEF StepRecordsAgree
<1>3. CASE CompleteUserStep
  <2> DEFINE e == Head(port)
  <2>1. /\ e.thread \notin gInternalStepCallbacks
        /\ gStepStatuses' = [gStepStatuses EXCEPT ![e.thread] = "none"]
        /\ UNCHANGED internal
    BY <1>3 DEF CompleteUserStep
  <2>2. QED
    BY <2>1, <1>1 DEF StepRecordsAgree, internal, Domains, StepDomains
<1>4. ASSUME UNCHANGED steps PROVE StepRecordsAgree'
  BY <1>1, <1>4, RecordsFrame
<1>5. QED
  BY <1>2, <1>3, <1>4 DEF DeliverHit, DeliverHitFails, DeliverStaleHit,
     DeliverException, DeliverStrayStop, DeliverCreateThread, DeliverExit

LEMMA RecordsUser ==
  ASSUME Domains, StepRecordsAgree, User
  PROVE  StepRecordsAgree'
<1>1. CASE DebugStep
  <2>1. UNCHANGED internal /\ \A t \in Thread : Releasing(t) => Releasing(t)'
    BY <1>1 DEF DebugStep, Releasing
  <2>2. \A t \in Thread : gStepStatuses'[t] = "GO_HANDLED" <=> gStepStatuses[t] = "GO_HANDLED"
    BY <1>1 DEF DebugStep, StatusAfterStep, Domains, StepDomains
  <2>3. QED
    BY <2>1, <2>2 DEF StepRecordsAgree, internal
<1>2. ASSUME NEW l \in Loc, SetBreakpoint(l) \/ ReadMemory(l) PROVE StepRecordsAgree'
  BY <1>2, RecordsFrame DEF SetBreakpoint, ReadMemory, loop, Releasing
<1>3. ASSUME NEW l \in Loc, DeleteBreakpoint(l) PROVE StepRecordsAgree'
  <2>1. /\ UNCHANGED <<gStepStatuses, gInternalStepCallbacks, absorbed,
                       gInternalStepSuspendedThreads, loop>>
        /\ rearm' = [t \in Thread |-> rearm[t] \ ({l} \cap Native)]
    BY <1>3 DEF DeleteBreakpoint
  <2>2. QED
    BY <2>1 DEF StepRecordsAgree, Releasing, loop
<1>4. QED
  BY <1>1, <1>2, <1>3 DEF User

LEMMA RecordsHandler ==
  ASSUME Domains, StepRecordsAgree,
         \/ CallbackReturns \/ SkipRearm \/ ChainInternalStep \/ ScheduleInternalStep
         \/ ScheduleInternalStepFails \/ Finish \/ ReapThread \/ ReleasePeers
         \/ Resume \/ EndSession
  PROVE  StepRecordsAgree'
<1> DEFINE t == event.thread
<1>1. CASE CallbackReturns
  BY <1>1, RecordsFrame DEF CallbackReturns, Releasing
<1>2. CASE SkipRearm
  BY <1>2, RecordsFrame DEF SkipRearm, Releasing
<1>3. CASE ChainInternalStep
  BY <1>3 DEF ChainInternalStep, StepRecordsAgree, Releasing, Domains, StepDomains
<1>4. CASE ScheduleInternalStep
  <2>1. /\ gStepStatuses' = [gStepStatuses EXCEPT ![t] = "GO_HANDLED"]
        /\ gInternalStepCallbacks' = gInternalStepCallbacks \cup {t}
        /\ absorbed' \in {absorbed, absorbed \cup {t}}
        /\ rearm' = [rearm EXCEPT ![t] = {event.loc}]
        /\ gInternalStepSuspendedThreads' =
             [gInternalStepSuspendedThreads EXCEPT ![t] = Peers(t)]
        /\ pc = "rearm"
    BY <1>4 DEF ScheduleInternalStep, AbsorbUserStep
  <2>2. \A u \in Thread : ~Releasing(u)
    BY <2>1 DEF Releasing
  <2>3. QED
    BY <2>1, <2>2 DEF StepRecordsAgree, Domains, StepDomains
<1>5. CASE ScheduleInternalStepFails
  BY <1>5 DEF ScheduleInternalStepFails, StepRecordsAgree, internal, Releasing
<1>6. CASE Finish
  BY <1>6, RecordsFrame DEF Finish, FinishDebugEvent, Releasing
<1>7. CASE ReapThread
  BY <1>7 DEF ReapThread, FinishDebugEvent, StepRecordsAgree, Releasing, Domains, StepDomains
<1>8. CASE ReleasePeers
  BY <1>8 DEF ReleasePeers, StepRecordsAgree, Releasing, Domains, StepDomains
<1>9. CASE Resume
  BY <1>9, RecordsFrame DEF Resume, Releasing
<1>10. CASE EndSession
  BY <1>10 DEF EndSession, StepRecordsAgree
<1>11. QED
  BY <1>1, <1>2, <1>3, <1>4, <1>5, <1>6, <1>7, <1>8, <1>9, <1>10

LEMMA RecordsNext == Domains /\ StepRecordsAgree /\ [Next]_vars => StepRecordsAgree'
<1>1. ASSUME StepRecordsAgree, UNCHANGED vars PROVE StepRecordsAgree'
  BY <1>1, RecordsFrame DEF vars, loop, Releasing
<1>2. QED
  BY <1>1, RecordsTarget, RecordsDeliver, RecordsUser, RecordsHandler
  DEF Next, DebugLoop, Ended

\* The step maps never disagree, whatever the order of events, user calls and
\* failures: a resume status, a re-arm callback or held peers are never left
\* behind by an internal step.
THEOREM StepRecordsAgreeInvariant == Spec => []StepRecordsAgree
<1>1. Init => StepRecordsAgree
  BY DEF Init, StepRecordsAgree
<1>2. QED
  BY <1>1, RecordsNext, DomainsInvariant, PTL DEF Spec

-----------------------------------------------------------------------------
(* The trap flag: what the port, the ids and the handlers know of threads. *)

UnbornKnown == \A t \in Thread : state[t] = "unborn" =>
  ~trap[t] /\ t \notin gIdMap /\ t \notin gInternalStepCallbacks
PortKnown == \A i \in 1..Len(port) :
  /\ state[port[i].thread] # "unborn"
  /\ port[i].kind = "exit" => state[port[i].thread] = "dead"
EventKnown == Handling =>
  /\ state[event.thread] # "unborn"
  /\ event.kind = "exit" \/ "reap" \in {pc, after} => state[event.thread] = "dead"
ThreadsKnown == UnbornKnown /\ PortKnown /\ EventKnown

\* The events after a delivery are those that were behind the head.
LEMMA TailEvents ==
  ASSUME PortDomain, port # <<>>, port' = Tail(port)
  PROVE  /\ Len(port) >= 1 /\ Head(port) = port[1]
         /\ \A i \in 1..Len(port') : i + 1 \in 1..Len(port) /\ port'[i] = port[i + 1]
         /\ \A i \in 2..Len(port) : i - 1 \in 1..Len(port') /\ port'[i - 1] = port[i]
  BY DEF PortDomain

\* The events after one is raised.
LEMMA RaisedEvents ==
  ASSUME PortDomain, NEW t \in Thread, NEW kind, NEW l, Raise(t, kind, l)
  PROVE  /\ Len(port') = Len(port) + 1 /\ Len(port) \in Nat
         /\ port'[Len(port')] = Event(t, kind, l)
         /\ \A i \in 1..Len(port) : port'[i] = port[i]
  BY DEF PortDomain, Raise

\* Every event is of a thread.
LEMMA EventThreads ==
  ASSUME PortDomain
  PROVE  \A i \in 1..Len(port) : port[i] \in EventDomain /\ port[i].thread \in Thread
  BY DEF PortDomain, EventDomain

\* Threads only grow older.
Older == \A t \in Thread :
  /\ state[t] # "unborn" => state'[t] # "unborn"
  /\ state[t] = "dead" => state'[t] = "dead"

LEMMA PortKnownRaise ==
  ASSUME PortDomain, PortKnown, Older, NEW t \in Thread, NEW kind, NEW l,
         Raise(t, kind, l), state'[t] # "unborn", kind = "exit" => state'[t] = "dead"
  PROVE  PortKnown'
<1>1. ASSUME NEW i \in 1..Len(port')
      PROVE  /\ state'[port'[i].thread] # "unborn"
             /\ port'[i].kind = "exit" => state'[port'[i].thread] = "dead"
  <2>1. CASE i = Len(port')
    <3>1. port'[i] = Event(t, kind, l)
      BY <2>1, RaisedEvents
    <3>2. port'[i].thread = t /\ port'[i].kind = kind
      BY <3>1 DEF Event
    <3>3. QED
      BY <3>2
  <2>2. CASE i # Len(port')
    <3>0. /\ Len(port') = Len(port) + 1 /\ Len(port) \in Nat
          /\ \A j \in 1..Len(port) : port'[j] = port[j]
      BY RaisedEvents
    <3>1. i \in 1..Len(port) /\ port'[i] = port[i]
      BY <2>2, <3>0
    <3>2. port[i].thread \in Thread
      BY <3>1, EventThreads
    <3>3. /\ state[port[i].thread] # "unborn"
          /\ port[i].kind = "exit" => state[port[i].thread] = "dead"
      BY <3>1 DEF PortKnown
    <3>4. /\ state'[port[i].thread] # "unborn"
          /\ state[port[i].thread] = "dead" => state'[port[i].thread] = "dead"
      BY <3>2, <3>3 DEF Older
    <3>5. QED
      BY <3>1, <3>3, <3>4
  <2>3. QED
    BY <2>1, <2>2
<1>2. QED
  BY <1>1 DEF PortKnown

LEMMA KnownTarget ==
  ASSUME Domains, ThreadsKnown, NEW t \in Thread, Target(t)
  PROVE  ThreadsKnown'
<1> USE DEF Domains, ThreadsKnown
<1>0. pc = "wait" /\ state[t] = "alive" /\ ~InPort(t) /\ UNCHANGED <<steps, loop>>
  BY DEF Target, Fault, Retire, Exit, Throw, Create, Runnable
<1>1. EventKnown'
  BY <1>0 DEF Handling, loop, EventKnown
<1>2. ASSUME Older, \A u \in Thread : trap'[u] => trap[u],
             \A u \in Thread : state'[u] = "unborn" => state[u] = "unborn"
      PROVE UnbornKnown'
  BY <1>0, <1>2 DEF UnbornKnown, loop, steps, internal
<1>3. ASSUME NEW l \in Loc, Fault(t, l) PROVE ThreadsKnown'
  <2>1. Raise(t, "hit", l) /\ UNCHANGED target
    BY <1>3 DEF Fault
  <2>2. QED
    BY <1>0, <1>1, <1>2, <2>1, PortKnownRaise DEF target, Older
<1>4. CASE Retire(t)
  <2>1. UNCHANGED state /\ trap' = [trap EXCEPT ![t] = FALSE]
    BY <1>4 DEF Retire
  <2>2. UNCHANGED port \/ Raise(t, "trap", NoLoc) \/ Raise(t, "stepped", NoLoc)
    BY <1>4 DEF Retire
  <2>3. UnbornKnown' /\ Older
    BY <1>2, <2>1 DEF TargetDomains, Older
  <2>4. PortKnown'
    BY <1>0, <2>1, <2>2, <2>3, PortKnownRaise DEF PortKnown
  <2>5. QED
    BY <1>1, <2>3, <2>4
<1>5. CASE Exit(t)
  <2>1. state' = [state EXCEPT ![t] = "dead"] /\ trap' = [trap EXCEPT ![t] = FALSE]
    BY <1>5 DEF Exit
  <2>2. Raise(t, "exit", NoLoc) \/ Raise(t, "exitprocess", NoLoc)
    BY <1>5 DEF Exit
  <2>3. UnbornKnown' /\ Older /\ state'[t] = "dead"
    BY <1>2, <2>1 DEF TargetDomains, Older
  <2>4. PortKnown'
    BY <2>2, <2>3, PortKnownRaise
  <2>5. QED
    BY <1>1, <2>3, <2>4
<1>6. ASSUME NEW u \in Thread, Create(t, u) PROVE ThreadsKnown'
  <2>1. /\ state' = [state EXCEPT ![u] = "alive"] /\ UNCHANGED trap
        /\ Raise(u, "create", NoLoc) /\ state[u] = "unborn"
    BY <1>6 DEF Create
  <2>2. UnbornKnown' /\ Older /\ state'[u] = "alive"
    BY <1>2, <2>1 DEF TargetDomains, Older
  <2>3. PortKnown'
    BY <2>1, <2>2, PortKnownRaise
  <2>4. QED
    BY <1>1, <2>2, <2>3
<1>7. CASE Throw(t)
  <2>1. Raise(t, "unhandled", NoLoc) /\ UNCHANGED target
    BY <1>7 DEF Throw
  <2>2. QED
    BY <1>0, <1>1, <1>2, <2>1, PortKnownRaise DEF target, Older
<1>8. QED
  BY <1>3, <1>4, <1>5, <1>6, <1>7 DEF Target

\* What all deliveries have in common.
Delivered ==
  /\ pc = "wait" /\ port # <<>> /\ port' = Tail(port) /\ UNCHANGED state
  /\ \A u \in Thread : trap'[u] => trap[u]
  /\ event'.thread = Head(port).thread
  /\ event'.kind \in {Head(port).kind, "unhandled"}
  /\ pc' # "reap" /\ (after' = "reap" => Head(port).kind = "exit")
  /\ gIdMap' \subseteq gIdMap \cup {Head(port).thread}
  /\ gInternalStepCallbacks' \subseteq gInternalStepCallbacks

LEMMA DeliverCommon ==
  ASSUME Domains,
         \/ DeliverHit \/ DeliverHitFails \/ DeliverStaleHit
         \/ CompleteInternalStep \/ CompleteUserStep
         \/ DeliverException \/ DeliverStrayStop
         \/ DeliverCreateThread \/ DeliverExit
  PROVE  Delivered
<1> DEFINE e == Head(port)
<1> USE DEF Domains, Delivered, Deliver, target, internal, steps
<1>0. PortDomain /\ port # <<>> => e \in EventDomain
  BY DEF PortDomain
<1>1. CASE DeliverHit \/ DeliverHitFails \/ DeliverCreateThread
  BY <1>1 DEF DeliverHit, DeliverHitFails, DeliverCreateThread
<1>2. CASE DeliverStaleHit \/ DeliverException
  <2>1. e.thread = [e EXCEPT !.kind = "unhandled"].thread
        /\ [e EXCEPT !.kind = "unhandled"].kind = "unhandled"
    BY <1>0, <1>2 DEF DeliverStaleHit, DeliverException, EventDomain
  <2>2. QED
    BY <1>2, <2>1 DEF DeliverStaleHit, DeliverException
<1>3. CASE CompleteInternalStep
  <2>1. trap' = [trap EXCEPT ![e.thread] = FALSE]
    BY <1>3 DEF CompleteInternalStep
  <2>2. \A u \in Thread : trap'[u] => trap[u]
    BY <2>1 DEF TargetDomains
  <2>3. QED
    BY <1>3, <2>2 DEF CompleteInternalStep
<1>4. CASE CompleteUserStep \/ DeliverStrayStop
  BY <1>4 DEF CompleteUserStep, DeliverStrayStop
<1>5. CASE DeliverExit
  BY <1>5 DEF DeliverExit
<1>6. QED
  BY <1>1, <1>2, <1>3, <1>4, <1>5

LEMMA KnownDeliver ==
  ASSUME Domains, ThreadsKnown, Delivered
  PROVE  ThreadsKnown'
<1> USE DEF Domains, ThreadsKnown
<1>1. /\ Head(port).thread \in Thread /\ state[Head(port).thread] # "unborn"
      /\ Head(port).kind = "exit" => state[Head(port).thread] = "dead"
  <2>1. 1 \in 1..Len(port) /\ Head(port) = port[1]
    BY TailEvents DEF Delivered
  <2>2. QED
    BY <2>1, EventThreads DEF PortKnown
<1>2. UnbornKnown'
  BY <1>1 DEF Delivered, UnbornKnown
<1>3. PortKnown'
  <2>1. \A i \in 1..Len(port') : i + 1 \in 1..Len(port) /\ port'[i] = port[i + 1]
    BY TailEvents DEF Delivered
  <2>2. UNCHANGED state
    BY DEF Delivered
  <2>3. QED
    BY <2>1, <2>2 DEF PortKnown
<1>4. EventKnown'
  BY <1>1 DEF Delivered, EventKnown
<1>5. QED
  BY <1>2, <1>3, <1>4

LEMMA KnownUserHandler ==
  ASSUME Domains, ThreadsKnown,
         \/ User
         \/ CallbackReturns \/ SkipRearm \/ ChainInternalStep \/ ScheduleInternalStep
         \/ ScheduleInternalStepFails \/ Finish \/ ReapThread \/ ReleasePeers
         \/ Resume \/ EndSession
  PROVE  ThreadsKnown'
<1> USE DEF Domains, ThreadsKnown
<1>1. UNCHANGED <<state, port>>
  BY DEF target, User, DebugStep, SetBreakpoint, DeleteBreakpoint, ReadMemory,
         CallbackReturns, SkipRearm, ChainInternalStep, ScheduleInternalStep,
         ScheduleInternalStepFails, Finish, ReapThread, FinishDebugEvent, ReleasePeers,
         Resume, EndSession
<1>2. PortKnown'
  BY <1>1 DEF PortKnown
<1>3. EventKnown'
  <2>1. \/ UNCHANGED <<pc, after, event>>
        \/ UNCHANGED <<after, event>> /\ Handling /\ pc' \in {after, "finish", "resume"}
        \/ pc' \in {"wait", "ended"}
    BY DEF loop, User, DebugStep, SetBreakpoint, DeleteBreakpoint, ReadMemory, Handling,
           CallbackReturns, SkipRearm, ChainInternalStep, ScheduleInternalStep,
           ScheduleInternalStepFails, Finish, ReapThread, FinishDebugEvent, ReleasePeers,
           Resume, EndSession
  <2>2. QED
    BY <1>1, <2>1 DEF EventKnown, Handling
<1>4. UnbornKnown'
  <2>1. CASE ScheduleInternalStep
    <3>1. /\ event.thread \in gIdMap /\ UNCHANGED gIdMap
          /\ gInternalStepCallbacks' = gInternalStepCallbacks \cup {event.thread}
          /\ trap' = [trap EXCEPT ![event.thread] = TRUE]
      BY <2>1 DEF ScheduleInternalStep, SetTrap
    <3>2. QED
      BY <1>1, <3>1 DEF UnbornKnown, TargetDomains
  <2>2. ASSUME UNCHANGED trap, gIdMap' \subseteq gIdMap,
               gInternalStepCallbacks' \subseteq gInternalStepCallbacks
        PROVE  UnbornKnown'
    BY <1>1, <2>2 DEF UnbornKnown
  <2>3. QED
    BY <2>1, <2>2 DEF loop, target, internal, steps, User, DebugStep, SetBreakpoint,
       DeleteBreakpoint, ReadMemory, CallbackReturns, SkipRearm, ChainInternalStep,
       ScheduleInternalStepFails, Finish, ReapThread, FinishDebugEvent, ReleasePeers,
       Resume, EndSession
<1>5. QED
  BY <1>2, <1>3, <1>4

LEMMA KnownNext == Domains /\ ThreadsKnown /\ [Next]_vars => ThreadsKnown'
<1>1. ASSUME ThreadsKnown, UNCHANGED vars PROVE ThreadsKnown'
  BY <1>1 DEF vars, loop, target, steps, internal, ThreadsKnown, UnbornKnown, PortKnown,
              EventKnown, Handling
<1>2. QED
  BY <1>1, KnownTarget, DeliverCommon, KnownDeliver, KnownUserHandler
  DEF Next, DebugLoop, Ended

LEMMA KnownInvariant == Spec => []ThreadsKnown
<1>1. Init => ThreadsKnown
  <2>1. ASSUME Init PROVE UnbornKnown /\ PortKnown
    BY <2>1 DEF Init, UnbornKnown, PortKnown
  <2>2. ASSUME Init PROVE EventKnown
    <3>1. PICK t \in InitThreads : event = Event(t, "stop", NoLoc)
      BY <2>2 DEF Init
    <3>2. event.thread = t /\ event.kind = "stop"
      BY <3>1 DEF Event
    <3>3. state[t] = "alive" /\ pc = "callback" /\ after = "finish"
      BY <2>2, ThreadAssumption DEF Init
    <3>4. QED
      BY <3>2, <3>3 DEF EventKnown
  <2>3. QED
    BY <2>1, <2>2 DEF ThreadsKnown
<1>2. QED
  BY <1>1, KnownNext, DomainsInvariant, PTL DEF Spec

-----------------------------------------------------------------------------
\* TrapFlagOwned is inductive once the threads are known.

\* A raised single step is in the port, and so is what was there before.
LEMMA SingleStepRaised ==
  ASSUME PortDomain, NEW t \in Thread, NEW kind, NEW l, Raise(t, kind, l)
  PROVE  /\ kind \in SingleStep => SingleStepInPort(t)'
         /\ \A u \in Thread : SingleStepInPort(u) => SingleStepInPort(u)'
<1>1. /\ Len(port') = Len(port) + 1 /\ Len(port) \in Nat
      /\ port'[Len(port')] = Event(t, kind, l)
      /\ \A i \in 1..Len(port) : port'[i] = port[i]
  BY RaisedEvents
<1>2. Event(t, kind, l).thread = t /\ Event(t, kind, l).kind = kind
  BY DEF Event
<1>3. Len(port') \in 1..Len(port') /\ \A i \in 1..Len(port) : i \in 1..Len(port')
  BY <1>1
<1>4. ASSUME kind \in SingleStep PROVE SingleStepInPort(t)'
  BY <1>1, <1>2, <1>3, <1>4 DEF SingleStepInPort
<1>5. ASSUME NEW u \in Thread, SingleStepInPort(u) PROVE SingleStepInPort(u)'
  <2>1. PICK i \in 1..Len(port) : port[i].thread = u /\ port[i].kind \in SingleStep
    BY <1>5 DEF SingleStepInPort
  <2>2. i \in 1..Len(port') /\ port'[i] = port[i]
    BY <1>1, <1>3
  <2>3. QED
    BY <2>1, <2>2 DEF SingleStepInPort
<1>6. QED
  BY <1>4, <1>5

\* A delivery takes a single step from the port only if it is the head.
LEMMA SingleStepDelivered ==
  ASSUME PortDomain, port # <<>>, port' = Tail(port), NEW u \in Thread,
         SingleStepInPort(u), Head(port).thread # u \/ Head(port).kind \notin SingleStep
  PROVE  SingleStepInPort(u)'
<1>1. PICK i \in 1..Len(port) : port[i].thread = u /\ port[i].kind \in SingleStep
  BY DEF SingleStepInPort
<1>2. i \in 2..Len(port)
  BY <1>1, TailEvents
<1>3. i - 1 \in 1..Len(port') /\ port'[i - 1] = port[i]
  BY <1>2, TailEvents
<1>4. QED
  BY <1>1, <1>3 DEF SingleStepInPort

LEMMA TrapTarget ==
  ASSUME Domains, ThreadsKnown, pc # "ended", TrapFlagOwned, NEW t \in Thread, Target(t)
  PROVE  TrapFlagOwned'
<1> USE DEF Domains
<1>0. /\ state[t] = "alive" /\ t \in Alive /\ ~InPort(t)
      /\ UNCHANGED gInternalStepCallbacks
  BY DEF Target, Fault, Retire, Exit, Throw, Create, Runnable, Alive, steps, internal
<1>1. ~SingleStepInPort(t)
  BY <1>0 DEF InPort, SingleStepInPort
<1>2. ASSUME NEW l \in Loc, Fault(t, l) PROVE TrapFlagOwned'
  <2>1. UNCHANGED target /\ Raise(t, "hit", l)
    BY <1>2 DEF Fault
  <2>2. \A u \in Thread : SingleStepInPort(u) => SingleStepInPort(u)'
    BY <2>1, SingleStepRaised
  <2>3. QED
    BY <2>1, <2>2, <1>0 DEF target, TrapFlagOwned, Alive
<1>3. CASE Retire(t)
  <2>1. UNCHANGED state /\ trap' = [trap EXCEPT ![t] = FALSE]
    BY <1>3 DEF Retire
  <2>2. \A u \in Thread : trap'[u] <=> trap[u] /\ u # t
    BY <2>1 DEF TargetDomains
  <2>3. \A u \in Thread : SingleStepInPort(u) => SingleStepInPort(u)'
    <3>1. CASE UNCHANGED port
      BY <3>1 DEF SingleStepInPort
    <3>2. CASE Raise(t, "trap", NoLoc) \/ Raise(t, "stepped", NoLoc)
      BY <3>2, SingleStepRaised
    <3>3. QED
      BY <1>3, <3>1, <3>2 DEF Retire
  <2>4. trap[t] => SingleStepInPort(t)'
    BY <1>3, SingleStepRaised DEF Retire, SingleStep
  <2>5. QED
    BY <1>0, <1>1, <2>1, <2>2, <2>3, <2>4 DEF TrapFlagOwned, Alive
<1>4. CASE Exit(t)
  <2>1. /\ state' = [state EXCEPT ![t] = "dead"] /\ trap' = [trap EXCEPT ![t] = FALSE]
        /\ Raise(t, "exit", NoLoc) \/ Raise(t, "exitprocess", NoLoc)
    BY <1>4 DEF Exit
  <2>2. \A u \in Thread : trap'[u] <=> trap[u] /\ u # t
    BY <2>1 DEF TargetDomains
  <2>3. \A u \in Thread : SingleStepInPort(u) => SingleStepInPort(u)'
    BY <2>1, SingleStepRaised
  <2>4. \A u \in Thread : state'[u] = "alive" => state[u] = "alive" /\ u # t
    BY <2>1 DEF TargetDomains
  <2>5. QED
    BY <1>0, <2>2, <2>3, <2>4 DEF TrapFlagOwned, Alive
<1>5. ASSUME NEW u \in Thread, Create(t, u) PROVE TrapFlagOwned'
  <2>1. /\ state' = [state EXCEPT ![u] = "alive"] /\ UNCHANGED trap
        /\ Raise(u, "create", NoLoc) /\ state[u] = "unborn"
    BY <1>5 DEF Create
  <2>2. \A v \in Thread : SingleStepInPort(v) => SingleStepInPort(v)'
    BY <2>1, SingleStepRaised
  <2>3. ~trap[u] /\ u \notin gInternalStepCallbacks
    BY <2>1 DEF ThreadsKnown, UnbornKnown
  <2>4. \A v \in Thread : state'[v] = "alive" => state[v] = "alive" \/ v = u
    BY <2>1 DEF TargetDomains
  <2>5. QED
    BY <1>0, <2>1, <2>2, <2>3, <2>4 DEF TrapFlagOwned, Alive
<1>6. CASE Throw(t)
  <2>1. UNCHANGED target /\ Raise(t, "unhandled", NoLoc)
    BY <1>6 DEF Throw
  <2>2. \A u \in Thread : SingleStepInPort(u) => SingleStepInPort(u)'
    BY <2>1, SingleStepRaised
  <2>3. QED
    BY <2>1, <2>2, <1>0 DEF target, TrapFlagOwned, Alive
<1>7. QED
  BY <1>2, <1>3, <1>4, <1>5, <1>6 DEF Target

LEMMA TrapDeliver ==
  ASSUME Domains, TrapFlagOwned, Delivered,
         \/ DeliverHit \/ DeliverHitFails \/ DeliverStaleHit
         \/ CompleteInternalStep \/ CompleteUserStep
         \/ DeliverException \/ DeliverStrayStop
         \/ DeliverCreateThread \/ DeliverExit
  PROVE  TrapFlagOwned'
<1> USE DEF Domains
<1> DEFINE e == Head(port)
<1>0. pc = "wait" /\ port # <<>> /\ port' = Tail(port) /\ UNCHANGED state
  BY DEF Delivered
<1>1. ASSUME NEW u \in Thread, SingleStepInPort(u), u # e.thread \/ e.kind \notin SingleStep
      PROVE  SingleStepInPort(u)'
  BY <1>0, <1>1, SingleStepDelivered
<1>2. CASE CompleteInternalStep
  <2>1. /\ trap' = [trap EXCEPT ![e.thread] = FALSE]
        /\ gInternalStepCallbacks' = gInternalStepCallbacks \ {e.thread}
    BY <1>2 DEF CompleteInternalStep
  <2>2. \A u \in Thread : trap'[u] <=> trap[u] /\ u # e.thread
    BY <2>1 DEF TargetDomains
  <2>3. QED
    BY <1>0, <1>1, <2>1, <2>2 DEF TrapFlagOwned, Alive
<1>3. ASSUME UNCHANGED <<trap, gInternalStepCallbacks>>,
             e.kind \in SingleStep => e.thread \notin gInternalStepCallbacks
      PROVE  TrapFlagOwned'
  BY <1>0, <1>1, <1>3 DEF TrapFlagOwned, Alive
<1>4. CASE DeliverHit \/ DeliverHitFails \/ DeliverStaleHit \/ DeliverCreateThread \/ DeliverExit
  BY <1>3, <1>4 DEF DeliverHit, DeliverHitFails, DeliverStaleHit, DeliverCreateThread,
     DeliverExit, Deliver, SingleStep, target, steps, internal
<1>5. CASE CompleteUserStep \/ DeliverException \/ DeliverStrayStop
  BY <1>3, <1>5 DEF CompleteUserStep, DeliverException, DeliverStrayStop, target, steps,
     internal, SingleStep
<1>6. QED
  BY <1>2, <1>4, <1>5

LEMMA TrapUserHandler ==
  ASSUME Domains, ThreadsKnown, pc # "ended", TrapFlagOwned,
         \/ User
         \/ CallbackReturns \/ SkipRearm \/ ChainInternalStep \/ ScheduleInternalStep
         \/ ScheduleInternalStepFails \/ Finish \/ ReapThread \/ ReleasePeers
         \/ Resume \/ EndSession
  PROVE  TrapFlagOwned'
<1> USE DEF Domains
<1>0. ASSUME UNCHANGED <<state, port>>
      PROVE  Alive' = Alive /\ \A u \in Thread : SingleStepInPort(u)' <=> SingleStepInPort(u)
  BY <1>0 DEF Alive, SingleStepInPort
<1>1. CASE ScheduleInternalStep
  <2>1. /\ gInternalStepCallbacks' = gInternalStepCallbacks \cup {event.thread}
        /\ trap' = [trap EXCEPT ![event.thread] = TRUE]
        /\ UNCHANGED <<state, port>>
    BY <1>1 DEF ScheduleInternalStep, SetTrap
  <2>2. \A u \in Thread : trap'[u] <=> trap[u] \/ u = event.thread
    BY <2>1 DEF TargetDomains
  <2>3. QED
    BY <1>0, <2>1, <2>2 DEF TrapFlagOwned, Alive
<1>2. CASE ReapThread
  <2>1. /\ gInternalStepCallbacks' = gInternalStepCallbacks \ {event.thread}
        /\ UNCHANGED <<state, port, trap>> /\ pc = "reap"
    BY <1>2 DEF ReapThread, FinishDebugEvent, target
  <2>2. event.thread \notin Alive
    BY <2>1 DEF ThreadsKnown, EventKnown, Handling, Alive
  <2>3. QED
    BY <1>0, <2>1, <2>2 DEF TrapFlagOwned, Alive
<1>3. CASE EndSession
  BY <1>3 DEF EndSession, TrapFlagOwned
<1>4. ASSUME UNCHANGED <<state, port, trap, gInternalStepCallbacks>> PROVE TrapFlagOwned'
  BY <1>0, <1>4 DEF TrapFlagOwned, Alive
<1>5. QED
  BY <1>1, <1>2, <1>3, <1>4 DEF loop, target, internal, steps, User, DebugStep,
     SetBreakpoint, DeleteBreakpoint, ReadMemory, CallbackReturns, SkipRearm,
     ChainInternalStep, ScheduleInternalStepFails, Finish, FinishDebugEvent,
     ReleasePeers, Resume

\* Once the session has ended nothing happens.
LEMMA EndedStays == ASSUME pc = "ended", [Next]_vars PROVE pc' = "ended"
<1>1. ASSUME NEW t \in Thread, Target(t) PROVE FALSE
  BY <1>1 DEF Target, Fault, Retire, Exit, Throw, Create, Runnable
<1>2. ASSUME DebugLoop PROVE FALSE
  BY <1>2 DEF DebugLoop, DeliverHit, DeliverHitFails, DeliverStaleHit,
     CompleteInternalStep, CompleteUserStep, DeliverException, DeliverStrayStop,
     DeliverCreateThread, DeliverExit, Deliver, CallbackReturns, SkipRearm,
     ChainInternalStep, ScheduleInternalStep, ScheduleInternalStepFails, Finish,
     ReapThread, FinishDebugEvent, ReleasePeers, Resume, EndSession
<1>3. ASSUME User PROVE FALSE
  BY <1>3 DEF User, DebugStep, SetBreakpoint, DeleteBreakpoint, MayEdit, ReadMemory, Handling
<1>4. QED
  BY <1>1, <1>2, <1>3 DEF Next, Ended, vars, loop

LEMMA TrapNext == Domains /\ ThreadsKnown /\ TrapFlagOwned /\ [Next]_vars => TrapFlagOwned'
<1>1. ASSUME TrapFlagOwned, UNCHANGED vars PROVE TrapFlagOwned'
  BY <1>1 DEF vars, loop, target, steps, internal, TrapFlagOwned, Alive, SingleStepInPort
<1>2. CASE pc = "ended"
  BY <1>2, EndedStays DEF TrapFlagOwned
<1>3. CASE pc # "ended"
  BY <1>1, <1>3, TrapTarget, DeliverCommon, TrapDeliver, TrapUserHandler
  DEF Next, DebugLoop, Ended
<1>4. QED
  BY <1>2, <1>3

\* Every pending internal step will be reported and nobody else is trapped:
\* the program never sees a single step of the adapter's, for any number of
\* threads and queued events, with failures and threads that end in their step.
THEOREM TrapFlagOwnedInvariant == Spec => []TrapFlagOwned
<1>1. Init => TrapFlagOwned
  BY DEF Init, TrapFlagOwned, Alive
<1>2. QED
  BY <1>1, TrapNext, KnownInvariant, DomainsInvariant, PTL DEF Spec

-----------------------------------------------------------------------------
(* Suspend counts.  What a thread's count exceeds the number of its holders *)
(* by is changed by no step but those that drop records of held peers.      *)

LEMMA HoldersFinite ==
  ASSUME Domains, NEW u \in Thread
  PROVE  IsFiniteSet(Holders(u)) /\ Cardinality(Holders(u)) \in Nat
<1>1. Holders(u) \subseteq Thread
  BY DEF Holders
<1>2. QED
  BY <1>1, ThreadAssumption, FS_Subset, FS_CardinalityType

Excess(u) == susp[u] - Cardinality(Holders(u))

LEMMA ExcessFrame ==
  ASSUME UNCHANGED <<susp, gInternalStepSuspendedThreads>>, NEW u \in Thread
  PROVE  Excess(u)' = Excess(u)
  BY DEF Excess, Holders

LEMMA ExcessScheduled ==
  ASSUME Domains, StepRecordsAgree, ScheduleInternalStep, NEW u \in Thread
  PROVE  Excess(u)' = Excess(u)
<1> DEFINE t == event.thread
           held == gInternalStepSuspendedThreads
<1>1. /\ pc = "rearm" /\ t \notin gInternalStepCallbacks /\ t \in Thread
      /\ held' = [held EXCEPT ![t] = Peers(t)]
      /\ susp' = SuspendPeers(t)
  BY HandledEvent DEF ScheduleInternalStep, Domains, Handling
<1>2. held[t] = {}
  BY <1>1 DEF StepRecordsAgree, Releasing
<1>3. \A v \in Thread : held'[v] = IF v = t THEN Peers(t) ELSE held[v]
  BY <1>1 DEF Domains, StepDomains
<1>4. t \notin Holders(u) /\ t \in Thread
  BY <1>1, <1>2 DEF Holders
<1>5. Holders(u)' = IF u \in Peers(t) THEN Holders(u) \cup {t} ELSE Holders(u)
  BY <1>2, <1>3, <1>4 DEF Holders
<1>6. susp'[u] = IF u \in Peers(t) THEN susp[u] + 1 ELSE susp[u]
  BY <1>1 DEF SuspendPeers
<1>7. susp[u] \in Int
  BY DEF Domains, TargetDomains
<1>8. Cardinality(Holders(u) \cup {t}) = Cardinality(Holders(u)) + 1
  BY <1>4, HoldersFinite, FS_AddElement
<1>9. QED
  BY <1>5, <1>6, <1>7, <1>8, HoldersFinite DEF Excess

LEMMA ExcessReleased ==
  ASSUME Domains, ReleasePeers, NEW u \in Thread
  PROVE  Excess(u)' = Excess(u)
<1> DEFINE t == event.thread
           held == gInternalStepSuspendedThreads
<1>1. /\ t \in Thread /\ held' = [held EXCEPT ![t] = {}] /\ susp' = ResumePeers(t)
  BY HandledEvent DEF ReleasePeers, Domains, Handling
<1>2. \A v \in Thread : held'[v] = IF v = t THEN {} ELSE held[v]
  BY <1>1 DEF Domains, StepDomains
<1>3. Holders(u)' = Holders(u) \ {t}
  BY <1>2 DEF Holders
<1>4. susp'[u] = IF t \in Holders(u) THEN susp[u] - 1 ELSE susp[u]
  BY <1>1 DEF ResumePeers, Holders
<1>5. susp[u] \in Int
  BY DEF Domains, TargetDomains
<1>6. CASE t \in Holders(u)
  <2>1. Cardinality(Holders(u) \ {t}) = Cardinality(Holders(u)) - 1
    BY <1>6, HoldersFinite, FS_RemoveElement
  <2>2. QED
    BY <2>1, <1>3, <1>4, <1>5, <1>6, HoldersFinite DEF Excess
<1>7. CASE t \notin Holders(u)
  <2>1. Holders(u) \ {t} = Holders(u)
    BY <1>7
  <2>2. QED
    BY <2>1, <1>3, <1>4, <1>7 DEF Excess
<1>8. QED
  BY <1>6, <1>7

LEMMA ExcessDropped ==
  ASSUME Domains, ReapThread \/ EndSession, NEW u \in Thread
  PROVE  Excess(u)' >= Excess(u)
<1>1. UNCHANGED susp
  BY DEF ReapThread, FinishDebugEvent, EndSession, target
<1>2. Holders(u)' \subseteq Holders(u)
  BY DEF ReapThread, EndSession, Holders, Domains, StepDomains
<1>3. /\ Cardinality(Holders(u)') \in Nat
      /\ Cardinality(Holders(u)') <= Cardinality(Holders(u))
  BY <1>2, HoldersFinite, FS_Subset, FS_CardinalityType
<1>4. susp[u] \in Int
  BY DEF Domains, TargetDomains
<1>5. QED
  BY <1>1, <1>3, <1>4, HoldersFinite DEF Excess

\* Every other step leaves the counts and the holders alone.
LEMMA ExcessNext ==
  ASSUME Domains, StepRecordsAgree, [Next]_vars, NEW u \in Thread
  PROVE  \/ Excess(u)' = Excess(u)
         \/ (ReapThread \/ EndSession) /\ Excess(u)' >= Excess(u)
<1>1. ASSUME NEW t \in Thread, Target(t)
      PROVE  UNCHANGED <<susp, gInternalStepSuspendedThreads>>
  BY <1>1 DEF Target, Fault, Retire, Exit, Throw, Create, target, steps, internal
<1>2. ASSUME User PROVE UNCHANGED <<susp, gInternalStepSuspendedThreads>>
  BY <1>2 DEF User, DebugStep, SetBreakpoint, DeleteBreakpoint, ReadMemory, target,
     steps, internal
<1>3. ASSUME DebugLoop
      PROVE  \/ UNCHANGED <<susp, gInternalStepSuspendedThreads>>
             \/ ScheduleInternalStep \/ ReleasePeers \/ ReapThread \/ EndSession
  BY <1>3 DEF DebugLoop, DeliverHit, DeliverHitFails, DeliverStaleHit,
     CompleteInternalStep, CompleteUserStep, DeliverException, DeliverStrayStop,
     DeliverCreateThread, DeliverExit, CallbackReturns, SkipRearm,
     ChainInternalStep, ScheduleInternalStepFails, Finish, FinishDebugEvent, Resume,
     target, steps, internal
<1>4. ASSUME UNCHANGED vars PROVE UNCHANGED <<susp, gInternalStepSuspendedThreads>>
  BY <1>4 DEF vars, target, steps, internal
<1>5. QED
  BY <1>1, <1>2, <1>3, <1>4, ExcessFrame, ExcessScheduled, ExcessReleased, ExcessDropped
  DEF Next, Ended

\* A thread is suspended at least once for each internal step that holds it.
HoldersCounted == \A u \in Thread : Excess(u) >= 0

LEMMA InitExcess == ASSUME Init, NEW u \in Thread PROVE Excess(u) = 0
<1>1. Holders(u) = {} /\ susp[u] = 0
  BY DEF Init, Holders
<1>2. QED
  BY <1>1, FS_EmptySet DEF Excess

LEMMA ExcessType == ASSUME Domains, NEW u \in Thread PROVE Excess(u) \in Int
  BY HoldersFinite DEF Excess, Domains, TargetDomains

LEMMA HoldersCountedNext ==
  Domains /\ Domains' /\ StepRecordsAgree /\ HoldersCounted /\ [Next]_vars => HoldersCounted'
<1> SUFFICES ASSUME Domains, Domains', StepRecordsAgree, HoldersCounted, [Next]_vars,
                    NEW u \in Thread
             PROVE  Excess(u)' >= 0
  BY DEF HoldersCounted
<1>1. Excess(u)' >= Excess(u) \/ Excess(u)' = Excess(u)
  BY ExcessNext
<1>2. Excess(u) \in Int /\ Excess(u) >= 0
  BY ExcessType DEF HoldersCounted
<1>3. Excess(u)' \in Int
  <2>1. susp'[u] \in Int
    BY DEF Domains, TargetDomains
  <2>2. Holders(u)' \subseteq Thread
    BY DEF Holders
  <2>3. Cardinality(Holders(u)') \in Nat
    BY <2>2, ThreadAssumption, FS_Subset, FS_CardinalityType
  <2>4. QED
    BY <2>1, <2>3 DEF Excess
<1>4. QED
  BY <1>1, <1>2, <1>3

\* All variables stay in their domains, suspend counts included: DebugLoop never
\* resumes a thread more often than it suspended it, although internal steps of
\* several threads may hold it and threads may end while they hold it.
THEOREM TypeOKInvariant == Spec => []TypeOK
<1>1. Init => HoldersCounted
  BY InitExcess DEF HoldersCounted
<1>2. Domains /\ HoldersCounted => TypeOK
  BY HoldersFinite DEF TypeOK, HoldersCounted, Excess, Domains, TargetDomains
<1>3. QED
  BY <1>1, <1>2, HoldersCountedNext, DomainsInvariant, StepRecordsAgreeInvariant, PTL
  DEF Spec

-----------------------------------------------------------------------------
(* The exact count, when no thread ends inside its own internal step.      *)

\* Hits are of living threads, and the dead are not stepping.
LivingSteps ==
  /\ \A i \in 1..Len(port) : port[i].kind = "hit" => state[port[i].thread] = "alive"
  /\ Handling /\ event.kind = "hit" => state[event.thread] = "alive"
  /\ \A t \in Thread : state[t] = "dead" => t \notin gInternalStepCallbacks

LEMMA LivingTarget ==
  ASSUME ~SteppedSyscall, Domains, ThreadsKnown, pc # "ended", TrapFlagOwned, LivingSteps,
         NEW t \in Thread, Target(t)
  PROVE  LivingSteps'
<1> USE DEF Domains
<1>0. /\ pc = "wait" /\ state[t] = "alive" /\ t \in Alive /\ ~InPort(t)
      /\ UNCHANGED <<pc, gInternalStepCallbacks>>
  BY DEF Target, Fault, Retire, Exit, Throw, Create, Runnable, Alive, steps, internal, loop
<1>1. ~Handling'
  BY <1>0 DEF Handling
<1>2. \A i \in 1..Len(port) : port[i].thread # t /\ port[i].thread \in Thread
  BY <1>0, EventThreads DEF InPort
<1>3. ASSUME NEW u \in Thread, NEW kind, NEW l, Raise(u, kind, l),
             kind = "hit" => state'[u] = "alive",
             \A v \in Thread \ {t} : state[v] = "alive" => state'[v] = "alive"
      PROVE  \A i \in 1..Len(port') : port'[i].kind = "hit" => state'[port'[i].thread] = "alive"
  <2>1. /\ Len(port') = Len(port) + 1 /\ Len(port) \in Nat
        /\ port'[Len(port')] = Event(u, kind, l)
        /\ \A i \in 1..Len(port) : port'[i] = port[i]
    BY <1>3, RaisedEvents
  <2>2. Event(u, kind, l).thread = u /\ Event(u, kind, l).kind = kind
    BY DEF Event
  <2>3. ASSUME NEW i \in 1..Len(port'), port'[i].kind = "hit"
        PROVE  state'[port'[i].thread] = "alive"
    <3>1. CASE i = Len(port')
      BY <3>1, <2>1, <2>2, <2>3, <1>3
    <3>2. CASE i # Len(port')
      <4>1. i \in 1..Len(port) /\ port'[i] = port[i]
        BY <3>2, <2>1
      <4>2. port[i].kind = "hit" /\ port[i].thread \in Thread \ {t}
        BY <4>1, <2>3, <1>2
      <4>3. state[port[i].thread] = "alive"
        BY <4>1, <4>2 DEF LivingSteps
      <4>4. QED
        BY <4>1, <4>2, <4>3, <1>3
    <3>3. QED
      BY <3>1, <3>2
  <2>4. QED
    BY <2>3
<1>4. ASSUME NEW l \in Loc, Fault(t, l) PROVE LivingSteps'
  <2>1. Raise(t, "hit", l) /\ UNCHANGED state
    BY <1>4 DEF Fault, target
  <2>2. QED
    BY <1>0, <1>1, <1>3, <2>1 DEF LivingSteps
<1>5. CASE Retire(t)
  <2>1. UNCHANGED state /\ (UNCHANGED port \/ Raise(t, "trap", NoLoc)
                           \/ Raise(t, "stepped", NoLoc))
    BY <1>5 DEF Retire
  <2>2. CASE UNCHANGED port
    BY <1>0, <1>1, <2>1, <2>2 DEF LivingSteps
  <2>3. CASE Raise(t, "trap", NoLoc) \/ Raise(t, "stepped", NoLoc)
    BY <1>0, <1>1, <1>3, <2>1, <2>3 DEF LivingSteps
  <2>4. QED
    BY <2>1, <2>2, <2>3
<1>6. CASE Exit(t)
  <2>1. /\ state' = [state EXCEPT ![t] = "dead"] /\ ~trap[t]
        /\ Raise(t, "exit", NoLoc) \/ Raise(t, "exitprocess", NoLoc)
    BY <1>6 DEF Exit
  <2>2. t \notin gInternalStepCallbacks
    BY <1>0, <2>1 DEF TrapFlagOwned, InPort, SingleStepInPort
  <2>3. \A v \in Thread : state'[v] = IF v = t THEN "dead" ELSE state[v]
    BY <2>1 DEF TargetDomains
  <2>4. \A i \in 1..Len(port') : port'[i].kind = "hit" => state'[port'[i].thread] = "alive"
    BY <1>3, <2>1, <2>3
  <2>5. QED
    BY <1>0, <1>1, <2>2, <2>3, <2>4 DEF LivingSteps
<1>7. ASSUME NEW u \in Thread, Create(t, u) PROVE LivingSteps'
  <2>1. state' = [state EXCEPT ![u] = "alive"] /\ Raise(u, "create", NoLoc)
    BY <1>7 DEF Create
  <2>2. \A v \in Thread : state'[v] = IF v = u THEN "alive" ELSE state[v]
    BY <2>1 DEF TargetDomains
  <2>3. \A i \in 1..Len(port') : port'[i].kind = "hit" => state'[port'[i].thread] = "alive"
    BY <1>3, <2>1, <2>2
  <2>4. QED
    BY <1>0, <1>1, <2>2, <2>3 DEF LivingSteps
<1>8. CASE Throw(t)
  <2>1. Raise(t, "unhandled", NoLoc) /\ UNCHANGED state
    BY <1>8 DEF Throw, target
  <2>2. QED
    BY <1>0, <1>1, <1>3, <2>1 DEF LivingSteps
<1>9. QED
  BY <1>4, <1>5, <1>6, <1>7, <1>8 DEF Target

LEMMA LivingDeliver ==
  ASSUME Domains, LivingSteps, Delivered
  PROVE  LivingSteps'
<1> USE DEF Domains
<1>1. Head(port).kind = "hit" => state[Head(port).thread] = "alive"
  <2>1. 1 \in 1..Len(port) /\ Head(port) = port[1]
    BY TailEvents DEF Delivered
  <2>2. QED
    BY <2>1 DEF LivingSteps
<1>2. \A i \in 1..Len(port') : i + 1 \in 1..Len(port) /\ port'[i] = port[i + 1]
  BY TailEvents DEF Delivered
<1>3. QED
  BY <1>1, <1>2 DEF LivingSteps, Delivered

LEMMA LivingUserHandler ==
  ASSUME Domains, LivingSteps,
         \/ User
         \/ CallbackReturns \/ SkipRearm \/ ChainInternalStep \/ ScheduleInternalStep
         \/ ScheduleInternalStepFails \/ Finish \/ ReapThread \/ ReleasePeers
         \/ Resume \/ EndSession
  PROVE  LivingSteps'
<1>1. UNCHANGED <<state, port>> /\ (Handling' => Handling /\ UNCHANGED event)
  BY DEF Domains, LoopDomains, target, loop, User, DebugStep, SetBreakpoint,
     DeleteBreakpoint, ReadMemory, Handling, CallbackReturns, SkipRearm,
     ChainInternalStep, ScheduleInternalStep, ScheduleInternalStepFails, Finish,
     ReapThread, FinishDebugEvent, ReleasePeers, Resume, EndSession
<1>2. CASE ScheduleInternalStep
  <2>1. /\ gInternalStepCallbacks' = gInternalStepCallbacks \cup {event.thread}
        /\ Handling /\ pc = "rearm"
    BY <1>2 DEF ScheduleInternalStep, Handling
  <2>2. state[event.thread] = "alive"
    BY <2>1 DEF LivingSteps, Domains, LoopDomains
  <2>3. QED
    BY <1>1, <2>1, <2>2 DEF LivingSteps
<1>3. ASSUME gInternalStepCallbacks' \subseteq gInternalStepCallbacks PROVE LivingSteps'
  BY <1>1, <1>3 DEF LivingSteps
<1>4. QED
  BY <1>2, <1>3 DEF internal, steps, loop, User, DebugStep, SetBreakpoint,
     DeleteBreakpoint, ReadMemory, CallbackReturns, SkipRearm, ChainInternalStep,
     ScheduleInternalStepFails, Finish, ReapThread, FinishDebugEvent, ReleasePeers,
     Resume, EndSession

LEMMA LivingNext ==
  ASSUME ~SteppedSyscall
  PROVE  /\ Domains /\ ThreadsKnown /\ TrapFlagOwned /\ LivingSteps /\ [Next]_vars
         => LivingSteps'
<1> SUFFICES ASSUME Domains, ThreadsKnown, TrapFlagOwned, LivingSteps, [Next]_vars
             PROVE  LivingSteps'
  OBVIOUS
<1>1. ASSUME UNCHANGED vars PROVE LivingSteps'
  BY <1>1 DEF vars, loop, target, steps, internal, LivingSteps, Handling
<1>2. ASSUME NEW t \in Thread, Target(t) PROVE LivingSteps'
  <2>1. pc # "ended"
    BY <1>2 DEF Target, Fault, Retire, Exit, Throw, Create, Runnable
  <2>2. QED
    BY <1>2, <2>1, LivingTarget
<1>3. ASSUME DebugLoop \/ User PROVE LivingSteps'
  BY <1>3, DeliverCommon, LivingDeliver, LivingUserHandler DEF DebugLoop
<1>4. QED
  BY <1>1, <1>2, <1>3 DEF Next, Ended

HoldersExact == pc # "ended" => \A u \in Thread : Excess(u) = 0

LEMMA HoldersExactNext ==
  ASSUME Domains, ThreadsKnown, StepRecordsAgree, LivingSteps, HoldersExact, [Next]_vars
  PROVE  HoldersExact'
<1> SUFFICES ASSUME pc' # "ended", NEW u \in Thread PROVE Excess(u)' = 0
  BY DEF HoldersExact
<1>1. pc # "ended" /\ ~EndSession
  BY EndedStays DEF EndSession
<1>2. CASE ReapThread
  <2> DEFINE t == event.thread
             held == gInternalStepSuspendedThreads
  <2>1. pc = "reap" /\ held' = [held EXCEPT ![t] = {}] /\ UNCHANGED susp
    BY <1>2 DEF ReapThread, FinishDebugEvent, target
  <2>2. t \in Thread /\ state[t] = "dead"
    BY <2>1, HandledEvent DEF ThreadsKnown, EventKnown, Handling, Domains
  <2>3. held[t] = {}
    BY <2>1, <2>2 DEF LivingSteps, StepRecordsAgree, Releasing
  <2>4. held' = held
    BY <2>1, <2>3 DEF Domains, StepDomains
  <2>5. QED
    BY <1>1, <2>1, <2>4, ExcessFrame DEF HoldersExact
<1>3. CASE ~ReapThread
  BY <1>1, <1>3, ExcessNext DEF HoldersExact
<1>4. QED
  BY <1>2, <1>3

LEMMA CountsInvariant ==
  ASSUME ~SteppedSyscall
  PROVE  Spec => [](LivingSteps /\ HoldersExact)
<1>1. Init => HoldersExact /\ LivingSteps
  <2>1. Init => HoldersExact
    BY InitExcess DEF HoldersExact
  <2>2. ASSUME Init PROVE LivingSteps
    <3>1. PICK t \in InitThreads : event = Event(t, "stop", NoLoc)
      BY <2>2 DEF Init
    <3>2. event.kind = "stop"
      BY <3>1 DEF Event
    <3>3. QED
      BY <2>2, <3>2 DEF Init, LivingSteps
  <2>3. QED
    BY <2>1, <2>2
<1>2. /\ Domains /\ ThreadsKnown /\ StepRecordsAgree /\ LivingSteps /\ HoldersExact
      /\ [Next]_vars
      => HoldersExact'
  BY HoldersExactNext
<1>3. QED
  BY <1>1, <1>2, LivingNext, DomainsInvariant, StepRecordsAgreeInvariant,
     KnownInvariant, TrapFlagOwnedInvariant, PTL DEF Spec

LEMMA ExactAccounts == Domains /\ HoldersExact => SuspensionAccounted
<1> SUFFICES ASSUME Domains, HoldersExact, pc # "ended", NEW u \in Thread
             PROVE  susp[u] = Cardinality(Holders(u))
  BY DEF SuspensionAccounted, Alive
<1>1. Excess(u) = 0
  BY DEF HoldersExact
<1>2. susp[u] \in Int /\ Cardinality(Holders(u)) \in Nat
  BY HoldersFinite, FS_CardinalityType DEF Domains, TargetDomains
<1>3. QED
  BY <1>1, <1>2 DEF Excess

\* As long as a stepped instruction returns, every thread the adapter suspended
\* is held by a pending internal step, once by each: none stays suspended for good.
THEOREM SuspensionAccountedInvariant ==
  ASSUME ~SteppedSyscall
  PROVE  Spec => []SuspensionAccounted
  BY ExactAccounts, CountsInvariant, DomainsInvariant, PTL
=============================================================================
