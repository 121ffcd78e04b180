---------------------------- MODULE InternalStep ----------------------------
(***************************************************************************)
(* The live half of the adapter: DebugLoop delivers the debug events of a  *)
(* multi-threaded target one at a time, and after a breakpoint hit hides   *)
(* one "internal step" of the hit thread: the breakpoint is lifted, the    *)
(* peers are suspended, the thread runs one instruction under the trap     *)
(* flag, and the resulting single-step event arms the breakpoint again.    *)
(*                                                                         *)
(* A location is either a watched page (PAGE_GUARD) or the address of a    *)
(* breakpoint patched into the code.  The target, the Windows debug port   *)
(* and the stepping of DbgEng are the environment: they are modelled from  *)
(* what the handlers rely on.  A handler is cut where the code calls out   *)
(* to the user, and nowhere else does anything interleave with it but the  *)
(* reads of the background GUI.                                            *)
(***************************************************************************)
EXTENDS Integers, Sequences, FiniteSets

CONSTANTS Thread,         \* engine thread indices, in the order of std::map
          InitThreads,    \* the threads alive when the session starts
          NoThread,       \* not a thread
          Loc,            \* locations that can carry a breakpoint
          GuardPages,     \* those that are pages; the others are code patches
          OneShot,        \* those set as single-shot (or not restoreOnHit)
          NoLoc,          \* not a location
          Footprints,     \* the sets of locations one instruction may touch
          MaxPort,        \* bound on the debug events raised and not delivered
          SteppedSyscall, \* can a stepped instruction be one that never returns?
          Faulty,         \* can writing the context or the code bytes fail?
          UserEdits,      \* does the user set and delete breakpoints?
          UserReads,      \* does the GUI read watched memory?
          Throws          \* does the program raise exceptions of its own?

ASSUME ThreadAssumption == /\ Thread \subseteq Nat /\ InitThreads \subseteq Thread
                           /\ InitThreads # {} /\ NoThread \notin Thread
                           /\ IsFiniteSet(Thread)
ASSUME LocAssumption == /\ GuardPages \subseteq Loc /\ OneShot \subseteq Loc
                        /\ NoLoc \notin Loc
                        /\ Footprints \subseteq SUBSET Loc /\ Footprints # {}
ASSUME BoundAssumption == /\ MaxPort \in Nat \ {0}
                          /\ {SteppedSyscall, Faulty, UserEdits, UserReads, Throws}
                               \subseteq BOOLEAN

VARIABLES
  \* the target and the engine
  state,       \* "unborn", "alive" or "dead", per thread
  susp,        \* its suspend count
  trap,        \* its trap flag
  touch,       \* the locations its next instruction touches
  port,        \* debug events raised and not yet delivered
  engineStep,  \* the thread DbgEng itself is stepping, or NoThread
  \* breakpoints
  present,     \* has the location a record (gBreakpoints, gMemoryBreakpointPages)?
  armed,       \* is the page guarded, the patch in memory?
  \* steps
  gStepCallbacks,                \* threads with a pending user step
  gStepStatuses,                 \* status to resume with, per thread
  gInternalStepCallbacks,        \* threads with a pending internal step
  rearm,                         \* what the internal step's callback re-arms
  absorbed,                      \* internal steps that also call a user step
  gInternalStepSuspendedThreads, \* peers an internal step suspended
  \* DebugLoop
  gIdMap,                        \* threads with a registered handle
  gNextExecutionStatus,
  pc, after,   \* phase of the handler, and the phase that follows the callback
  event        \* the event being handled

target == <<state, susp, trap, touch>>
breakpoints == <<present, armed>>
internal == <<gInternalStepCallbacks, rearm, absorbed, gInternalStepSuspendedThreads>>
steps == <<gStepCallbacks, gStepStatuses, internal>>
loop == <<gIdMap, gNextExecutionStatus, pc, after, event>>
vars == <<target, port, engineStep, breakpoints, steps, loop>>

Native == Loc \ GuardPages
Event(t, kind, l) == [thread |-> t, kind |-> kind, loc |-> l]
NoEvent == Event(NoThread, "none", NoLoc)
SingleStep == {"trap", "stepped"}  \* by the trap flag, by the engine
Kinds == {"none", "stop", "hit", "trap", "stepped", "create", "exit", "exitprocess",
          "unhandled"}
Statuses == {"NO_CHANGE", "STEP", "GO", "GO_HANDLED", "GO_NOT_HANDLED"}
Phases == {"wait", "callback", "rearm", "finish", "reap", "release", "resume", "ended"}

\* Is a handler running? Only then is there an event.
Handling == pc \notin {"wait", "ended"}
Alive == {t \in Thread : state[t] = "alive"}
InPort(t) == \E i \in 1..Len(port) : port[i].thread = t

\* The user has launched the target, run to the system breakpoint and set some
\* breakpoints in its callback, which has not returned yet.
Init ==
  /\ state = [t \in Thread |-> IF t \in InitThreads THEN "alive" ELSE "unborn"]
  /\ susp = [t \in Thread |-> 0]
  /\ trap = [t \in Thread |-> FALSE]
  /\ touch \in [Thread -> Footprints]
  /\ port = <<>> /\ engineStep = NoThread
  /\ present \in [Loc -> BOOLEAN] /\ armed = present
  /\ gStepCallbacks = {} /\ gStepStatuses = [t \in Thread |-> "none"]
  /\ gInternalStepCallbacks = {} /\ absorbed = {}
  /\ rearm = [t \in Thread |-> {}]
  /\ gInternalStepSuspendedThreads = [t \in Thread |-> {}]
  /\ gIdMap = InitThreads /\ gNextExecutionStatus = "NO_CHANGE"
  /\ pc = "callback" /\ after = "finish"
  /\ event \in {Event(t, "stop", NoLoc) : t \in InitThreads}

-----------------------------------------------------------------------------
(* The target, running while DebugLoop is inside WaitForEvent.             *)

Runnable(t) == /\ pc = "wait" /\ state[t] = "alive" /\ susp[t] = 0
               /\ ~InPort(t) /\ Len(port) < MaxPort

Raise(t, kind, l) == port' = Append(port, Event(t, kind, l))

\* Touching an armed location raises a hit before the instruction retires;
\* the processor's page-guard is one-shot, a patch stays.
Fault(t, l) ==
  /\ Runnable(t) /\ l \in touch[t] /\ armed[l]
  /\ Raise(t, "hit", l)
  /\ armed' = IF l \in GuardPages THEN [armed EXCEPT ![l] = FALSE] ELSE armed
  /\ UNCHANGED <<target, engineStep, present, steps, loop>>

\* The instruction retires; stepping, by the trap flag or by DbgEng, is
\* reported, and the processor clears the flag.
Retire(t) ==
  /\ Runnable(t) /\ \A l \in touch[t] : ~armed[l]
  /\ \E F \in Footprints : touch' = [touch EXCEPT ![t] = F]
  /\ \/ trap[t] /\ Raise(t, "trap", NoLoc)
     \/ engineStep = t /\ Raise(t, "stepped", NoLoc)
     \/ ~trap[t] /\ engineStep # t /\ UNCHANGED port
  /\ trap' = [trap EXCEPT ![t] = FALSE]
  /\ UNCHANGED <<state, susp, engineStep, breakpoints, steps, loop>>

\* The instruction is the system call that ends the thread.
Exit(t) ==
  /\ Runnable(t) /\ \A l \in touch[t] : ~armed[l]
  /\ SteppedSyscall \/ ~trap[t]
  /\ state' = [state EXCEPT ![t] = "dead"]
  /\ trap' = [trap EXCEPT ![t] = FALSE]
  /\ Raise(t, IF Alive = {t} THEN "exitprocess" ELSE "exit", NoLoc)
  /\ UNCHANGED <<susp, touch, engineStep, breakpoints, steps, loop>>

\* The instruction, not a stepped one, raises an exception of the program's.
Throw(t) ==
  /\ Throws /\ Runnable(t) /\ ~trap[t] /\ \A l \in touch[t] : ~armed[l]
  /\ Raise(t, "unhandled", NoLoc)
  /\ UNCHANGED <<target, engineStep, breakpoints, steps, loop>>

\* t starts u: the event is u's own.
Create(t, u) ==
  /\ Runnable(t) /\ \A l \in touch[t] : ~armed[l]
  /\ ~trap[t] /\ engineStep # t /\ state[u] = "unborn"
  /\ state' = [state EXCEPT ![u] = "alive"]
  /\ \E F, G \in Footprints : touch' = [touch EXCEPT ![t] = F, ![u] = G]
  /\ Raise(u, "create", NoLoc)
  /\ UNCHANGED <<susp, trap, engineStep, breakpoints, steps, loop>>

Target(t) == \/ \E l \in Loc : Fault(t, l)
             \/ Retire(t)
             \/ Exit(t)
             \/ Throw(t)
             \/ \E u \in Thread : Create(t, u)

-----------------------------------------------------------------------------
(* WaitForEvent returns: the engine calls the event's handler, whose work  *)
(* runs from the queue.  Any event ends a step of the engine's.            *)

Deliver(kinds, phase, next) ==
  /\ pc = "wait" /\ port # <<>> /\ Head(port).kind \in kinds
  /\ port' = Tail(port) /\ engineStep' = NoThread
  /\ pc' = phase /\ after' = next

\* A breakpoint that is still recorded: lift a patch, retire a one-shot, and
\* call the user.
DeliverHit ==
  LET e == Head(port) IN
  /\ Deliver({"hit"}, "callback", "rearm") /\ present[e.loc]
  /\ event' = e
  /\ armed' = IF e.loc \in GuardPages /\ e.loc \notin OneShot THEN armed
              ELSE [armed EXCEPT ![e.loc] = FALSE]
  /\ present' = [present EXCEPT ![e.loc] = e.loc \notin OneShot]
  /\ UNCHANGED <<target, steps, gIdMap, gNextExecutionStatus>>

\* The original bytes cannot be written back: the handler gives up at once.
DeliverHitFails ==
  LET e == Head(port) IN
  /\ Faulty /\ Deliver({"hit"}, "resume", "resume") /\ present[e.loc] /\ e.loc \in Native
  /\ event' = e
  /\ UNCHANGED <<target, breakpoints, steps, gIdMap, gNextExecutionStatus>>

\* A hit on a location deleted since: a patch is known to be stale, a guard
\* violation is nobody's and becomes the program's own exception.
DeliverStaleHit ==
  LET e == Head(port) IN
  /\ Deliver({"hit"}, "callback", "finish") /\ ~present[e.loc]
  /\ event' = IF e.loc \in Native THEN e ELSE [e EXCEPT !.kind = "unhandled"]
  /\ UNCHANGED <<target, breakpoints, steps, gIdMap, gNextExecutionStatus>>

\* (variant: pages are forgotten)
RearmedPatchesOnly(t) ==
  [l \in Loc |-> armed[l] \/ (l \in rearm[t] \cap Native /\ present[l])]
\* What the callback of t's internal step arms again: pages that still have a
\* record, patches whose breakpoint still exists.
Rearmed(t) == [l \in Loc |-> armed[l] \/ (l \in rearm[t] /\ present[l])]

\* completeInternalStep, up to the user step it absorbed.  (What a later hit
\* chained to the step is re-armed after that user step's callback; nothing the
\* callback can do tells the two apart.)
CompleteInternalStep ==
  LET e == Head(port)  t == e.thread IN
  /\ Deliver(SingleStep, IF t \in absorbed THEN "callback" ELSE "release", "release")
  /\ t \in gInternalStepCallbacks
  /\ event' = e
  /\ trap' = [trap EXCEPT ![t] = FALSE]
  /\ gInternalStepCallbacks' = gInternalStepCallbacks \ {t}
  /\ gStepStatuses' = [gStepStatuses EXCEPT ![t] = "none"]
  /\ gNextExecutionStatus' = "GO_HANDLED"
  /\ armed' = Rearmed(t)
  /\ rearm' = [rearm EXCEPT ![t] = {}] /\ absorbed' = absorbed \ {t}
  /\ UNCHANGED <<state, susp, touch, present, gStepCallbacks,
                 gInternalStepSuspendedThreads, gIdMap>>

\* The engine stops without an event callback and the thread has a user step.
CompleteUserStep ==
  LET e == Head(port)  t == e.thread IN
  /\ Deliver(SingleStep, "callback", "resume")
  /\ t \in gStepCallbacks \ gInternalStepCallbacks
  /\ event' = e
  /\ gStepCallbacks' = gStepCallbacks \ {t}
  /\ gStepStatuses' = [gStepStatuses EXCEPT ![t] = "none"]
  /\ gNextExecutionStatus' = "GO"
  /\ UNCHANGED <<target, breakpoints, internal, gIdMap>>

\* An exception of the program's, and a trap nobody asked for is one.
DeliverException ==
  LET e == Head(port) IN
  /\ Deliver({"trap", "unhandled"}, "callback", "finish")
  /\ e.kind = "unhandled" \/ e.thread \notin gInternalStepCallbacks
  /\ event' = [e EXCEPT !.kind = "unhandled"]
  /\ UNCHANGED <<target, breakpoints, steps, gIdMap, gNextExecutionStatus>>

\* The engine stepped a thread that has no step of any kind: a stop without work.
DeliverStrayStop ==
  LET e == Head(port) IN
  /\ Deliver({"stepped"}, "resume", "resume")
  /\ e.thread \notin gInternalStepCallbacks \cup gStepCallbacks
  /\ event' = e
  /\ UNCHANGED <<target, breakpoints, steps, gIdMap, gNextExecutionStatus>>

DeliverCreateThread ==
  /\ Deliver({"create"}, "callback", "finish")
  /\ event' = Head(port) /\ gIdMap' = gIdMap \cup {Head(port).thread}
  /\ UNCHANGED <<target, breakpoints, steps, gNextExecutionStatus>>

DeliverExit ==
  /\ Deliver({"exit", "exitprocess"}, "callback",
             IF Head(port).kind = "exit" THEN "reap" ELSE "finish")
  /\ event' = Head(port)
  /\ UNCHANGED <<target, breakpoints, steps, gIdMap, gNextExecutionStatus>>

-----------------------------------------------------------------------------
(* The user: calls made from a callback, and the calls the code admits     *)
(* while the target runs.                                                  *)

\* (variant: the map entry is overwritten)
StatusOverwritten(t) == [gStepStatuses EXCEPT ![t] = "STEP"]
\* emplace keeps the status of a pending internal step.
StatusAfterStep(t) == IF gStepStatuses[t] = "none"
                      THEN [gStepStatuses EXCEPT ![t] = "STEP"] ELSE gStepStatuses

\* debugStep, for StepInto and StepOver.
DebugStep ==
  LET t == event.thread IN
  /\ pc = "callback" /\ t \notin gStepCallbacks
  /\ gNextExecutionStatus' = "STEP"
  /\ gStepCallbacks' = gStepCallbacks \cup {t}
  /\ gStepStatuses' = StatusAfterStep(t)
  /\ UNCHANGED <<target, port, engineStep, breakpoints, internal, gIdMap, pc, after, event>>

\* SetBPX and DeleteBPX also work while the target runs.
MayEdit(l) == UserEdits /\ (pc = "callback" \/ (pc = "wait" /\ l \in Native))

SetBreakpoint(l) ==
  /\ MayEdit(l) /\ ~present[l]
  /\ present' = [present EXCEPT ![l] = TRUE]
  /\ armed' = [armed EXCEPT ![l] = TRUE]
  /\ UNCHANGED <<target, port, engineStep, steps, loop>>

\* A deleted patch is forgotten by the internal steps that would restore it
\* (they hold its id); a page is looked up by its address.
DeleteBreakpoint(l) ==
  /\ MayEdit(l) /\ present[l]
  /\ present' = [present EXCEPT ![l] = FALSE]
  /\ armed' = [armed EXCEPT ![l] = FALSE]
  /\ rearm' = [t \in Thread |-> rearm[t] \ ({l} \cap Native)]
  /\ UNCHANGED <<target, port, engineStep, gStepCallbacks, gStepStatuses,
                 gInternalStepCallbacks, absorbed, gInternalStepSuspendedThreads, loop>>

\* MemoryReadUnsafe, called by the GUI at any moment of the pause, lifts the
\* guard of a watched page and puts it back.
ReadMemory(l) ==
  /\ UserReads /\ Handling /\ l \in GuardPages /\ present[l]
  /\ armed' = [armed EXCEPT ![l] = TRUE]
  /\ UNCHANGED <<target, port, engineStep, present, steps, loop>>

CallbackReturns ==
  /\ pc = "callback" /\ pc' = after
  /\ UNCHANGED <<target, port, engineStep, breakpoints, steps, gIdMap,
                 gNextExecutionStatus, after, event>>

-----------------------------------------------------------------------------
(* The rest of the handlers.                                               *)

\* (variant: a page hit is not stepped over)
MustRearmPatchesOnly(l) == present[l] /\ l \in Native /\ ~armed[l]
\* The condition under which the hit handlers schedule the internal step.
MustRearm(l) == present[l] /\ (l \in GuardPages \/ ~armed[l])

\* (variant: the step already pending re-arms at the second hit)
ExposedRearmingOthers(l) ==
  [k \in Loc |-> k # l /\ (armed[k] \/ k \in rearm[event.thread])]
\* Pages are exposed explicitly before the step.
Exposed(l) == [armed EXCEPT ![l] = FALSE]

\* (variant: the walk over the threads starts after the stepped one)
LaterPeers(t) == {u \in gIdMap : u > t /\ state[u] = "alive"}
\* The peers that SuspendThread can suspend.
Peers(t) == {u \in gIdMap \ {t} : state[u] = "alive"}

SuspendPeers(t) == [u \in Thread |-> IF u \in Peers(t) THEN susp[u] + 1 ELSE susp[u]]

\* (variant: SetContextDataEx does not reach the thread)
TrapNotSet(t) == trap
SetTrap(t) == [trap EXCEPT ![t] = TRUE]

\* (variant: the callback is stored without the user step)
NothingAbsorbed(t) == absorbed
AbsorbUserStep(t) == IF t \in gStepCallbacks THEN absorbed \cup {t} ELSE absorbed

SkipRearm ==
  /\ pc = "rearm" /\ ~MustRearm(event.loc) /\ pc' = "finish"
  /\ UNCHANGED <<target, port, engineStep, breakpoints, steps, gIdMap,
                 gNextExecutionStatus, after, event>>

\* The thread is already in an internal step: it gets one more thing to re-arm.
ChainInternalStep ==
  LET t == event.thread IN
  /\ pc = "rearm" /\ MustRearm(event.loc) /\ t \in gInternalStepCallbacks
  /\ pc' = "finish" /\ armed' = Exposed(event.loc)
  /\ rearm' = [rearm EXCEPT ![t] = @ \cup {event.loc}]
  /\ UNCHANGED <<target, port, engineStep, present, gStepCallbacks, gStepStatuses,
                 gInternalStepCallbacks, absorbed, gInternalStepSuspendedThreads,
                 gIdMap, gNextExecutionStatus, after, event>>

\* scheduleInternalStep takes over a pending user step of the thread.
ScheduleInternalStep ==
  LET t == event.thread IN
  /\ pc = "rearm" /\ MustRearm(event.loc) /\ t \in gIdMap \ gInternalStepCallbacks
  /\ pc' = "finish" /\ armed' = Exposed(event.loc)
  /\ gStepCallbacks' = gStepCallbacks \ {t}
  /\ absorbed' = AbsorbUserStep(t)
  /\ gInternalStepSuspendedThreads' =
       [gInternalStepSuspendedThreads EXCEPT ![t] = Peers(t)]
  /\ susp' = SuspendPeers(t) /\ trap' = SetTrap(t)
  /\ gInternalStepCallbacks' = gInternalStepCallbacks \cup {t}
  /\ rearm' = [rearm EXCEPT ![t] = {event.loc}]
  /\ gStepStatuses' = [gStepStatuses EXCEPT ![t] = "GO_HANDLED"]
  /\ UNCHANGED <<state, touch, port, engineStep, present,
                 gIdMap, gNextExecutionStatus, after, event>>

\* The trap flag cannot be set: the peers are let go, the user step is not
\* given back.
ScheduleInternalStepFails ==
  LET t == event.thread IN
  /\ Faulty /\ pc = "rearm" /\ MustRearm(event.loc) /\ t \notin gInternalStepCallbacks
  /\ pc' = "finish" /\ armed' = Exposed(event.loc)
  /\ gStepCallbacks' = gStepCallbacks \ {t}
  /\ UNCHANGED <<target, port, engineStep, present, gStepStatuses, internal,
                 gIdMap, gNextExecutionStatus, after, event>>

\* Threads that have a status to resume with.
WithStatus == {t \in Thread : gStepStatuses[t] # "none"}

\* The first status in the map is used, whichever thread it belongs to.  Without
\* one the event is handled, or is passed on to the program (the user chooses in
\* the callback, with SetNextDbgContinueStatus).
FinishDebugEvent ==
  /\ pc' = "resume"
  /\ \/ gNextExecutionStatus # "NO_CHANGE" /\ UNCHANGED gNextExecutionStatus
     \/ /\ gNextExecutionStatus = "NO_CHANGE"
        /\ \E t \in WithStatus : /\ \A u \in WithStatus : t <= u
                                 /\ gNextExecutionStatus' = gStepStatuses[t]
     \/ /\ gNextExecutionStatus = "NO_CHANGE" /\ WithStatus = {}
        /\ gNextExecutionStatus' \in
             {"GO_HANDLED"} \cup (IF event.kind = "unhandled" THEN {"GO_NOT_HANDLED"} ELSE {})
  /\ UNCHANGED <<target, port, engineStep, breakpoints, after, event>>

\* ExitThread then drops all that was recorded of the thread.
Finish == pc = "finish" /\ FinishDebugEvent /\ UNCHANGED <<steps, gIdMap>>
ReapThread ==
  LET t == event.thread IN
  /\ pc = "reap" /\ FinishDebugEvent
  /\ gIdMap' = gIdMap \ {t}
  /\ gStepCallbacks' = gStepCallbacks \ {t}
  /\ gInternalStepCallbacks' = gInternalStepCallbacks \ {t}
  /\ rearm' = [rearm EXCEPT ![t] = {}] /\ absorbed' = absorbed \ {t}
  /\ gInternalStepSuspendedThreads' =
       [gInternalStepSuspendedThreads EXCEPT ![t] = {}]
  /\ gStepStatuses' = [gStepStatuses EXCEPT ![t] = "none"]

\* (variants: every thread is resumed; none is)
ResumeAll(t) == [u \in Thread |-> IF u \in gIdMap THEN susp[u] - 1 ELSE susp[u]]
ResumeNone(t) == susp
ResumePeers(t) ==
  [u \in Thread |-> IF u \in gInternalStepSuspendedThreads[t] THEN susp[u] - 1
                    ELSE susp[u]]

\* completeInternalStep lets the peers go.
ReleasePeers ==
  LET t == event.thread IN
  /\ pc = "release" /\ pc' = "resume"
  /\ susp' = ResumePeers(t)
  /\ gInternalStepSuspendedThreads' =
       [gInternalStepSuspendedThreads EXCEPT ![t] = {}]
  /\ UNCHANGED <<state, trap, touch, port, engineStep, breakpoints, gStepCallbacks,
                 gStepStatuses, gInternalStepCallbacks, rearm, absorbed,
                 gIdMap, gNextExecutionStatus, after, event>>

\* A guard violation is the program's own exception unless the status marks it
\* handled, and a StepInto of the user's, in the hit's callback or pending on the
\* first thread, leaves a status that does not.
PassedOn ==
  /\ event.kind = "unhandled" \/ event.loc \in GuardPages
  /\ gNextExecutionStatus \in {"STEP", "GO_NOT_HANDLED"}

\* SetExecutionStatus; a step is a step of the event's thread.  What is passed on
\* makes the thread go on in a handler of the program's.
Resume ==
  /\ pc = "resume" /\ pc' = "wait" /\ after' = "wait" /\ event' = NoEvent
  /\ engineStep' = IF gNextExecutionStatus = "STEP" /\ state[event.thread] = "alive"
                   THEN event.thread ELSE NoThread
  /\ gNextExecutionStatus' = "NO_CHANGE"
  /\ IF PassedOn THEN \E F \in Footprints : touch' = [touch EXCEPT ![event.thread] = F]
     ELSE UNCHANGED touch
  /\ UNCHANGED <<state, susp, trap, port, breakpoints, steps, gIdMap>>

\* WaitForEvent fails: the process is gone, or the engine was never told to
\* go on (what it then does is not documented).  DebugLoop clears its state.
EndSession ==
  /\ \/ pc = "wait" /\ port = <<>> /\ Alive = {}
     \/ pc = "resume" /\ gNextExecutionStatus = "NO_CHANGE"
  /\ pc' = "ended" /\ after' = "wait" /\ event' = NoEvent
  /\ engineStep' = NoThread /\ gNextExecutionStatus' = "NO_CHANGE"
  /\ present' = [l \in Loc |-> FALSE] /\ gIdMap' = {}
  /\ gStepCallbacks' = {} /\ gStepStatuses' = [t \in Thread |-> "none"]
  /\ gInternalStepCallbacks' = {} /\ absorbed' = {}
  /\ rearm' = [t \in Thread |-> {}]
  /\ gInternalStepSuspendedThreads' = [t \in Thread |-> {}]
  /\ UNCHANGED <<target, port, armed>>

Ended == pc = "ended" /\ UNCHANGED vars

DebugLoop ==
  \/ DeliverHit \/ DeliverHitFails \/ DeliverStaleHit
  \/ CompleteInternalStep \/ CompleteUserStep
  \/ DeliverException \/ DeliverStrayStop
  \/ DeliverCreateThread \/ DeliverExit
  \/ CallbackReturns
  \/ SkipRearm \/ ChainInternalStep \/ ScheduleInternalStep \/ ScheduleInternalStepFails
  \/ Finish \/ ReapThread \/ ReleasePeers \/ Resume \/ EndSession

User == \/ DebugStep
        \/ \E l \in Loc : SetBreakpoint(l) \/ DeleteBreakpoint(l) \/ ReadMemory(l)

Next == (\E t \in Thread : Target(t)) \/ DebugLoop \/ User \/ Ended

Spec == Init /\ [][Next]_vars

\* DebugLoop never stops while it has work, callbacks return, and a thread that
\* may run eventually does.
FairSpec == /\ Spec /\ WF_vars(DebugLoop)
            /\ \A t \in Thread : WF_vars((\E l \in Loc : Fault(t, l)) \/ Retire(t))

-----------------------------------------------------------------------------
(* Properties.                                                             *)

\* The domains of the variables, suspend counts apart.
TargetDomains ==
  /\ state \in [Thread -> {"unborn", "alive", "dead"}]
  /\ susp \in [Thread -> Int] /\ trap \in [Thread -> BOOLEAN]
  /\ touch \in [Thread -> SUBSET Loc]
  /\ engineStep \in Thread \cup {NoThread}
EventDomain == {e \in [thread : Thread, kind : Kinds, loc : Loc \cup {NoLoc}] :
                  e.kind = "hit" => e.loc \in Loc}
PortDomain == port \in Seq(EventDomain)
BreakpointDomains == present \in [Loc -> BOOLEAN] /\ armed \in [Loc -> BOOLEAN]
StepDomains ==
  /\ gStepCallbacks \subseteq Thread
  /\ gStepStatuses \in [Thread -> {"none", "STEP", "GO_HANDLED"}]
  /\ gInternalStepCallbacks \subseteq Thread /\ absorbed \subseteq Thread
  /\ rearm \in [Thread -> SUBSET Loc]
  /\ gInternalStepSuspendedThreads \in [Thread -> SUBSET Thread]
\* A running handler has an event, and one that is to re-arm has a hit.
LoopDomains ==
  /\ gIdMap \subseteq Thread /\ gNextExecutionStatus \in Statuses
  /\ pc \in Phases /\ after \in Phases
  /\ event \in EventDomain \cup {NoEvent}
  /\ Handling => event \in EventDomain
  /\ Handling /\ "rearm" \in {pc, after} => event.kind = "hit"
Domains == TargetDomains /\ PortDomain /\ BreakpointDomains /\ StepDomains /\ LoopDomains

\* Every variable stays in its domain; in particular no thread is resumed more
\* often than it was suspended, though several steps may hold it at once.
TypeOK == Domains /\ \A t \in Thread : susp[t] >= 0

\* Is t's internal step just over, its peers not yet released?
Releasing(t) == /\ pc \in {"callback", "release"} /\ after = "release"
                /\ event.thread = t

\* The maps of the step machinery agree: a thread resumes with GO_HANDLED
\* exactly while its internal step is pending, and only such a thread (or the
\* one whose step is just over) holds peers, re-arms or carries a user step.
StepRecordsAgree ==
  \A t \in Thread :
    /\ t \in gInternalStepCallbacks <=> gStepStatuses[t] = "GO_HANDLED"
    /\ t \notin gInternalStepCallbacks =>
         /\ rearm[t] = {} /\ t \notin absorbed
         /\ gInternalStepSuspendedThreads[t] # {} => Releasing(t)

SingleStepInPort(t) ==
  \E i \in 1..Len(port) : port[i].thread = t /\ port[i].kind \in SingleStep

\* The trap flag belongs to the internal steps: a thread with a pending one
\* will report its single step, and no other thread is trapped, so the program
\* is never shown a single step of the adapter's.
TrapFlagOwned ==
  pc # "ended" => \A t \in Alive :
    /\ t \in gInternalStepCallbacks => trap[t] \/ SingleStepInPort(t)
    /\ trap[t] => t \in gInternalStepCallbacks

Holders(u) == {t \in Thread : u \in gInternalStepSuspendedThreads[t]}

\* A thread is suspended once for each internal step that keeps it still and
\* for nothing else: whoever is suspended will be resumed by somebody.
SuspensionAccounted ==
  pc # "ended" => \A u \in Alive : susp[u] = Cardinality(Holders(u))

\* A breakpoint that is recorded but not armed while the target runs is either
\* being stepped over, and will be armed again, or has a hit to be delivered.
NoLostWatch ==
  pc = "wait" => \A l \in Loc :
    present[l] /\ ~armed[l] =>
      \/ \E t \in Thread : l \in rearm[t]
      \/ \E i \in 1..Len(port) : port[i].kind = "hit" /\ port[i].loc = l

HasUserStep(t) == t \in gStepCallbacks \cup absorbed

\* A step the user asked for ends only by its callback being called, with the
\* thread or with the session: taking it into an internal step does not lose it.
UserStepKept ==
  [][\A t \in Thread : HasUserStep(t) /\ ~HasUserStep(t)' =>
       \/ pc' = "callback" /\ event'.thread = t
       \/ state[t] = "dead" \/ pc' = "ended"]_vars

\* While a thread executes its hidden instruction no other thread can run.
HiddenStepAlone ==
  \A t \in gInternalStepCallbacks : \A u \in Thread \ {t} : ~Runnable(u)

\* No access escapes: a thread about to run cannot touch a watched location
\* without a hit, except for the one its own internal step is stepping over.
NoEscape ==
  \A t \in Thread : Runnable(t) =>
    \A l \in touch[t] : present[l] => armed[l] \/ l \in rearm[t]

\* An instruction is not reported twice: what a pending internal step is to
\* re-arm stays exposed until the step is over.
ExposedForStep ==
  pc = "wait" => \A t \in gInternalStepCallbacks : \A l \in rearm[t] :
    present[l] => ~armed[l]

\* An internal step gets done, and its peers are let go, whether its thread executes
\* the instruction that was hit or, the exception being passed on, a handler's.
StepCompletes ==
  \A t \in Thread :
    (t \in gInternalStepCallbacks) ~> (t \notin gInternalStepCallbacks)
=============================================================================
