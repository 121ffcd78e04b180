----------------------------- MODULE TtdReplay -----------------------------
(***************************************************************************)
(* TTD sessions: a cursor in a recording, moved by runs of DebugLoop and   *)
(* by the seeks and steps of other threads, with breakpoints as engine     *)
(* watchpoints, pauses as interruptions, and the recorded process exit as  *)
(* an event the cursor can go back from.                                   *)
(*                                                                         *)
(* The recording is a CONSTANT: for each position the thread that executes *)
(* there, the address it executes and the one it accesses, the return      *)
(* address if the instruction is a call, and the threads and modules that  *)
(* exist.  The replay engine is external: what a replay may do is EngineRun *)
(* and EngineStep.                                                         *)
(***************************************************************************)
EXTENDS Integers, FiniteSets, Sequences, SequencesExt

CONSTANTS Thread,     \* unique thread ids of the recording
          SystemId,   \* unique thread id -> the system's, which callbacks carry
          Address,    \* addresses breakpoints can be at
          Module,     \* modules of the recording
          Base,       \* module -> its image base
          LastPosition,       \* gTtdLastPosition; gTtdFirstPosition is 0
          Runs,       \* position -> the thread that executes there
          At,         \* position -> the address it executes
          Touch,      \* position -> the address its instruction accesses
          Call,       \* position -> the return address of a call, or NoAddress
          Alive,      \* position -> the active threads
          Mapped,     \* position -> the mapped modules
          Exceptions, \* the positions of exception events
          NoAddress,  \* no address
          User,       \* the owner of a breakpoint the front end has set
          Caller,     \* threads that call the adapter
          Ops,        \* the calls they make
          UserCode,   \* the software breakpoints the front end sets
          UserData,   \* the memory breakpoints it sets
          MaxQueue    \* bound: no call is begun with more callbacks queued

Position == 0..LastPosition
NoPosition == -1

ASSUME RecordingAssumption ==
  /\ IsFiniteSet(Thread) /\ IsFiniteSet(Module)
  /\ SystemId \in [Thread -> Nat] /\ Base \in [Module -> Nat]
  /\ LastPosition \in Nat \ {0} /\ NoAddress \notin Address /\ User \notin Thread
  /\ Runs \in [Position -> Thread]
  /\ At \in [Position -> Address] /\ Touch \in [Position -> Address \cup {NoAddress}]
  /\ Call \in [Position -> Address \cup {NoAddress}]
  /\ Alive \in [Position -> SUBSET Thread] /\ Mapped \in [Position -> SUBSET Module]
  /\ \A p \in Position : Runs[p] \in Alive[p]
  /\ Exceptions \subseteq Position
  /\ UserCode \subseteq [addr : Address, once : BOOLEAN, owner : {User}]
  /\ UserData \subseteq [addr : Address, once : BOOLEAN]
  /\ MaxQueue \in Nat

VARIABLES
  loop,        \* DebugLoop: "drain" (the callback queue), "callback", "moving" (in
               \* runTtd with gMutexPaused), "report" (the end of runTtd), "ended" or
               \* "crashed" (a null cursor has been used)
  queue,       \* gCallbackQueue
  go,          \* is gNextExecutionStatus a GO?
  cursor,      \* gTtdCursor's position
  gPaused,
  gTtdNextRunReverse,
  code,        \* software breakpoints in gBreakpoints; owner is User, or the thread
               \* a step-over's temporary breakpoint has affinity to
  data,        \* gMemoryBreakpoints
  threads,     \* gDebugIdMap.threadIndexToHandle
  modules,     \* gTtdActiveModules
  shown,       \* the system thread ids and the modules the front end has been told of
  gTtdProcessExitBoundary, \* NoPosition while gTtdHasProcessExitBoundary is false
  gTtdStopRequested,
  gTtdInterruptRequested,
  gPauseCallback,  \* is one set?
  stopping,    \* is a StopDebug between its flag and its InterruptReplay?
  run,         \* runTtd's locals; fresh: the breakpoints set while it moves
  cut,         \* has InterruptReplay been called during the replay in progress?
  call         \* the calls in progress

flags == <<gTtdStopRequested, gTtdInterruptRequested, gPauseCallback, stopping>>
points == <<code, data>>
timeline == <<threads, modules>>
vars == <<loop, queue, go, cursor, gPaused, gTtdNextRunReverse, points, timeline, shown,
          gTtdProcessExitBoundary, flags, run, cut, call>>

Hits == [at : Position, addr : Address \cup {NoAddress}]
NoHit == [at |-> NoPosition, addr |-> NoAddress]
Breakpoint == [addr : Address, once : BOOLEAN, owner : Thread \cup {User}]
NoRun == [back |-> FALSE, limit |-> 0, exception |-> FALSE, at |-> 0, hit |-> NoHit,
          cut |-> FALSE, fresh |-> {}]
Idle == [op |-> "idle", phase |-> "begin", hit |-> NoHit]

Work(what, id) == [what |-> what, id |-> id]
Told == {"thread", "exitthread", "module", "unload"}
WorkItems ==
  [what : {"thread", "exitthread"}, id : Thread] \cup [what : {"module", "unload"}, id : Module]
  \cup [what : {"code"}, id : [at : Position, owner : Thread \cup {User}]]
  \cup [what : {"data", "exception", "exit", "break", "pause", "step"}, id : Position]

-----------------------------------------------------------------------------
(* The timeline: what exists at the cursor, and what the front end knows.  *)

EventsFor(what, S) == LET items == SetToSeq(S) IN [i \in 1..Len(items) |-> Work(what, items[i])]

\* Modules are compared by their bases.
NewAmong(S, old) == {m \in S : \A n \in old : Base[n] # Base[m]}

\* (variant: unloaded modules are forgotten silently)
NoUnloads(p) ==
  EventsFor("thread", Alive[p] \ threads) \o EventsFor("exitthread", threads \ Alive[p])
  \o EventsFor("module", NewAmong(Mapped[p], modules))
\* The callbacks refreshTtdTimeline queues, in its order.
TimelineEvents(p) ==
  EventsFor("thread", Alive[p] \ threads) \o EventsFor("exitthread", threads \ Alive[p])
  \o EventsFor("module", NewAmong(Mapped[p], modules))
  \o EventsFor("unload", NewAmong(modules, Mapped[p]))

refreshTtdTimeline(p) == threads' = Alive[p] /\ modules' = Mapped[p]

\* A new thread's system id is looked up when its callback runs, with its handle,
\* which is gone if the thread's end is queued behind (rest): then it is the id
\* of the thread at the cursor.  A thread's end carries the id it was queued with.
CreatedId(t, rest) ==
  SystemId[IF \E i \in DOMAIN rest : rest[i] = Work("exitthread", t) THEN Runs[cursor] ELSE t]

\* The front end handles one event; it knows threads by their system ids and
\* modules by their bases.
Learn(view, item, rest) ==
  CASE item.what = "thread"     -> [view EXCEPT !.threads = @ \cup {CreatedId(item.id, rest)}]
    [] item.what = "exitthread" -> [view EXCEPT !.threads = @ \ {SystemId[item.id]}]
    [] item.what = "module"     -> [view EXCEPT !.modules = NewAmong(@, {item.id}) \cup {item.id}]
    [] item.what = "unload"     -> [view EXCEPT !.modules = NewAmong(@, {item.id})]
    [] OTHER                    -> view

-----------------------------------------------------------------------------
(* The replay engine.                                                      *)

\* (variant: the affinity is not looked at)
OnAnyThread(hit) == {b \in code : b.addr = hit.addr}
\* The watchpoint callback stops for a software breakpoint at the address of
\* the access unless it has affinity to another thread, and for a memory
\* breakpoint.
SoftwareAt(hit) ==
  {b \in code : b.addr = hit.addr /\ b.owner \in {User, Runs[hit.at]}}
MemoryAt(hit) == {d \in data : d.addr = hit.addr /\ hit.addr = Touch[hit.at]}

\* What the engine asks the callback about at a position.
Watched(p) ==
  {[at |-> p, addr |-> At[p]] : b \in {b \in code : b.addr = At[p]}}
  \cup {[at |-> p, addr |-> Touch[p]] : d \in {d \in data : d.addr = Touch[p]}}

ttdMemoryWatchpointCallback(p) ==
  {hit \in Watched(p) : SoftwareAt(hit) # {} \/ MemoryAt(hit) # {}}

\* Is a run bound to stop for the hit?  A breakpoint that is set while it moves may
\* come into effect or not.
Bound(hit) == SoftwareAt(hit) \ run.fresh # {} \/ MemoryAt(hit) # {}
Stops == {p \in Position : \E hit \in ttdMemoryWatchpointCallback(p) : Bound(hit)}

Ahead(back, p) == {q \in Position : IF back THEN q < p ELSE q > p}
Nearest(back, S) ==
  CHOOSE q \in S : \A s \in S : IF back THEN s <= q ELSE q <= s

\* A replay outcome: where the cursor is, the hit accepted there, and whether
\* the engine counts a step.
Outcome(q, hit, moved) == [at |-> q, hit |-> hit, moved |-> moved]

\* The hit at the current position is reported a second time, both attempts
\* (or, in the single steps of a reverse run, the first).
Stale(p) == {Outcome(p, hit, FALSE) : hit \in ttdMemoryWatchpointCallback(p)}

\* A replay that ends at a hit accepted in S, and one that ends without a hit.
HitsAt(S) == UNION {{Outcome(q, hit, TRUE) : hit \in ttdMemoryWatchpointCallback(q)} : q \in S}
QuietAt(p, S) == {Outcome(q, NoHit, q # p) : q \in S}

\* A replay from p up to limit: it ends at an accepted hit, no further than the
\* first one it is bound to stop for, or at the limit, where a hit may be found or
\* not; if it is cut short, anywhere before.
EngineRun(back, p, limit, short) ==
  LET path == {q \in Ahead(back, p) : IF back THEN q >= limit ELSE q <= limit}
      stop == Nearest(back, (path \cap Stops) \cup {limit})
      upto == path \ Ahead(back, stop)
  IN  HitsAt(upto) \cup Stale(p)
      \cup QuietAt(p, IF short THEN {p} \cup upto ELSE {stop} \cap {limit})

\* One recorded instruction; the watchpoint of the next may be reported.
EngineStep(back, p) ==
  LET to == IF back THEN p - 1 ELSE p + 1
  IN  IF to \notin Position THEN {Outcome(p, NoHit, FALSE)}
      ELSE {Outcome(to, hit, TRUE) : hit \in ttdMemoryWatchpointCallback(to) \cup {NoHit}}
           \cup {Outcome(p, NoHit, FALSE) : hit \in ttdMemoryWatchpointCallback(p)}

-----------------------------------------------------------------------------
(* A session as InitReplayW leaves it to DebugLoop.                        *)

Init ==
  /\ loop = "drain" /\ go = FALSE /\ cursor = 0 /\ gPaused = TRUE
  /\ threads = Alive[0] /\ modules = Mapped[0] /\ shown = [threads |-> {}, modules |-> {}]
  /\ queue = EventsFor("thread", Alive[0]) \o EventsFor("module", Mapped[0]) \o <<Work("break", 0)>>
  /\ code = {} /\ data = {} /\ gTtdNextRunReverse = FALSE
  /\ gTtdProcessExitBoundary = NoPosition
  /\ gTtdStopRequested = FALSE /\ gTtdInterruptRequested = FALSE /\ gPauseCallback = FALSE
  /\ stopping = FALSE /\ run = NoRun
  /\ cut = FALSE /\ call = [c \in Caller |-> Idle]

-----------------------------------------------------------------------------
(* DebugLoop and runTtd.                                                   *)

\* The next callback is taken from the queue and invoked; it lasts until the
\* front end lets the target go on.
InvokeCallback ==
  /\ loop = "drain" /\ queue # <<>>
  /\ loop' = "callback" /\ queue' = Tail(queue) /\ shown' = Learn(shown, Head(queue), Tail(queue))
  /\ UNCHANGED <<go, cursor, gPaused, gTtdNextRunReverse, points, timeline,
                 gTtdProcessExitBoundary, flags, run, cut, call>>

\* It returns, and finishDebugEvent asks for a run.
CallbackReturns ==
  /\ loop = "callback"
  /\ loop' = "drain" /\ go' = TRUE
  /\ UNCHANGED <<queue, cursor, gPaused, gTtdNextRunReverse, points, timeline, shown,
                 gTtdProcessExitBoundary, flags, run, cut, call>>

\* The exception event a run stops at: the first one in its direction that
\* comes before the end of the recording.
NextException(back, p) ==
  (Exceptions \cap Ahead(back, p)) \ {IF back THEN 0 ELSE LastPosition}

\* (variant: a reverse run may go one position too far)
BeforeFirst(back, p) ==
  Nearest(back, NextException(back, p) \cup {IF back THEN -1 ELSE LastPosition})
\* (variant: the comparisons with the best one so far are the wrong way round)
FarthestException(back, p) ==
  IF NextException(back, p) = {} THEN IF back THEN 0 ELSE LastPosition
  ELSE Nearest(~back, NextException(back, p))
MovementLimit(back, p) ==
  Nearest(back, NextException(back, p) \cup {IF back THEN 0 ELSE LastPosition})

\* With the queue empty and a GO to carry out, runTtd locks gMutexPaused and
\* looks for the limit.
BeginRun ==
  /\ loop = "drain" /\ queue = <<>> /\ ~gTtdStopRequested /\ go
  /\ loop' = "moving" /\ go' = FALSE /\ gPaused' = FALSE
  /\ gTtdNextRunReverse' = FALSE
  /\ run' = [back |-> gTtdNextRunReverse, at |-> cursor, hit |-> NoHit,
             limit |-> MovementLimit(gTtdNextRunReverse, cursor),
             exception |-> NextException(gTtdNextRunReverse, cursor) # {}, cut |-> FALSE,
             fresh |-> {}]
  /\ UNCHANGED <<queue, cursor, points, timeline, shown, gTtdProcessExitBoundary, flags,
                 cut, call>>

\* (variant: an exception event is taken for the exit)
AtAnyLimit(out) ==
  ~run.back /\ out.moved /\ out.hit = NoHit /\ ~gTtdStopRequested /\ ~gTtdInterruptRequested

\* A forward run that comes to an end of its own stands at the recorded exit:
\* the cursor is moved back by one instruction.
AtExit(out) ==
  /\ ~run.back /\ out.moved /\ out.hit = NoHit
  /\ ~(run.exception /\ out.at = run.limit)
  /\ ~gTtdStopRequested /\ ~gTtdInterruptRequested

Parking(out) ==
  IF AtExit(out) THEN {out.at - o.at : o \in EngineStep(TRUE, out.at)} ELSE {0}

\* The engine has been interrupted; or a reverse run has come to its bound of
\* instructions or of single steps, or these see a flag.
Interruptible == cut \/ run.back

\* The replay ends; the cursor is parked, the timeline brought up to date and
\* gMutexPaused released.
Move ==
  /\ loop = "moving"
  /\ \E out \in EngineRun(run.back, cursor, run.limit, Interruptible) :
       \E back \in Parking(out) :
         LET to == out.at - back
         IN  /\ cursor' = to
             /\ gTtdProcessExitBoundary' = IF back = 1 THEN to ELSE gTtdProcessExitBoundary
             /\ run' = [run EXCEPT !.at = to, !.hit = out.hit, !.cut = cut, !.fresh = {},
                                   !.exception = @ /\ out.at = run.limit]
             /\ refreshTtdTimeline(to) /\ queue' = queue \o TimelineEvents(to)
  /\ loop' = "report" /\ gPaused' = TRUE /\ cut' = FALSE
  /\ UNCHANGED <<go, gTtdNextRunReverse, points, shown, flags, call>>

\* A hit is reported to the callback of the breakpoint that is there now; a
\* single-shot one is removed.
queueTtdWatchpointHit(hit) ==
  IF SoftwareAt(hit) # {}
  THEN \E b \in SoftwareAt(hit) :
         /\ queue' = Append(queue, Work("code", [at |-> hit.at, owner |-> b.owner]))
         /\ code' = IF b.once THEN code \ {b} ELSE code
         /\ UNCHANGED data
  ELSE \E d \in MemoryAt(hit) :
         /\ queue' = Append(queue, Work("data", hit.at))
         /\ data' = IF d.once THEN data \ {d} ELSE data
         /\ UNCHANGED code

Reportable(hit) == hit # NoHit /\ (SoftwareAt(hit) # {} \/ MemoryAt(hit) # {})

\* (variant: the stop is consumed here, as an interrupt is)
StopConsumed ==
  gTtdStopRequested' = FALSE
  /\ UNCHANGED <<queue, points, gTtdInterruptRequested, gPauseCallback, stopping>>
LeaveStop == UNCHANGED <<queue, points, flags>>

\* The rest of runTtd, without the lock: a stop is left to DebugLoop, a pause
\* replaces what the run has found, and a forward run that has found nothing
\* is at the recorded exit.
Report ==
  /\ loop = "report" /\ loop' = "drain" /\ run' = NoRun
  /\ IF gTtdStopRequested THEN LeaveStop
     ELSE IF gTtdInterruptRequested
     THEN /\ gTtdInterruptRequested' = FALSE /\ gPauseCallback' = FALSE
          /\ queue' = Append(queue, Work(IF gPauseCallback THEN "pause" ELSE "break", run.at))
          /\ UNCHANGED <<gTtdStopRequested, stopping, points>>
     ELSE IF Reportable(run.hit) THEN queueTtdWatchpointHit(run.hit) /\ UNCHANGED flags
     ELSE /\ queue' = Append(queue, Work(IF run.exception THEN "exception"
                                         ELSE IF run.back THEN "break" ELSE "exit", run.at))
          /\ UNCHANGED <<points, flags>>
  /\ UNCHANGED <<go, cursor, gPaused, gTtdNextRunReverse, timeline, shown,
                 gTtdProcessExitBoundary, cut, call>>

\* DebugLoop sees the stop, clears its tables and resets the session.
EndSession ==
  /\ loop = "drain" /\ queue = <<>> /\ gTtdStopRequested
  /\ loop' = "ended" /\ go' = FALSE /\ gPaused' = FALSE /\ gTtdNextRunReverse' = FALSE
  /\ code' = {} /\ data' = {} /\ threads' = {} /\ modules' = {}
  /\ gTtdProcessExitBoundary' = NoPosition /\ cut' = FALSE
  /\ gTtdStopRequested' = FALSE /\ gTtdInterruptRequested' = FALSE /\ gPauseCallback' = FALSE
  /\ UNCHANGED <<queue, cursor, shown, stopping, run, call>>

DebugLoop == InvokeCallback \/ CallbackReturns \/ BeginRun \/ Move \/ Report \/ EndSession

-----------------------------------------------------------------------------
(* Calls of the front end.                                                 *)

Movements == {"ReplaySetPosition", "ReplayRunBack", "ReplayStepBack", "StepInto", "StepOver"}

Finished(c) == call' = [call EXCEPT ![c] = Idle]

Over == loop \in {"ended", "crashed"}

\* What a call does before it waits for gMutexPaused: it fails while a run is
\* in progress.
BeginMovement(c, op) ==
  /\ op \in Ops /\ call[c] = Idle
  /\ ~Over /\ gPaused /\ Len(queue) <= MaxQueue
  /\ call' = [call EXCEPT ![c] = [op |-> op, phase |-> "lock", hit |-> NoHit]]
  /\ UNCHANGED <<loop, queue, go, cursor, gPaused, gTtdNextRunReverse, points, timeline,
                 shown, gTtdProcessExitBoundary, flags, run, cut>>

\* gMutexPaused is held during a run only.
Locks(c, ops) ==
  loop # "moving" /\ ~Over /\ call[c].phase = "lock" /\ call[c].op \in ops

\* A call whose session has ended while it waited for the lock, or before it calls
\* InterruptReplay, goes on with the cursor that resetTtdSession has taken away.
CursorGone(c) ==
  /\ loop = "ended" /\ call[c].phase \in {"lock", "interrupt"} /\ call[c].op # "ReplayRunBack"
  /\ loop' = "crashed"
  /\ UNCHANGED <<queue, go, cursor, gPaused, gTtdNextRunReverse, points, timeline, shown,
                 gTtdProcessExitBoundary, flags, run, cut, call>>

ReplaySetPosition(c) ==
  /\ Locks(c, {"ReplaySetPosition"})
  /\ \E p \in Position :
       cursor' = p /\ refreshTtdTimeline(p) /\ queue' = queue \o TimelineEvents(p)
  /\ Finished(c)
  /\ UNCHANGED <<loop, go, gPaused, gTtdNextRunReverse, points, shown,
                 gTtdProcessExitBoundary, flags, run, cut>>

\* This one takes no lock.
ReplayRunBack(c) ==
  /\ loop # "crashed" /\ call[c].op = "ReplayRunBack"
  /\ gTtdNextRunReverse' = TRUE
  /\ Finished(c)
  /\ UNCHANGED <<loop, queue, go, cursor, gPaused, points, timeline, shown,
                 gTtdProcessExitBoundary, flags, run, cut>>

\* (variant: they are not)
StepsAnyway(back) == EngineStep(back, cursor)
\* Forward steps are refused at the exit boundary.
Steps(back) ==
  IF ~back /\ cursor = gTtdProcessExitBoundary THEN {Outcome(cursor, NoHit, FALSE)}
  ELSE EngineStep(back, cursor)

\* The rest of a step-over of a call is a run to a temporary breakpoint at
\* the return address, unless a software breakpoint is there.
ReturnBreakpoint ==
  IF \E b \in code : b.addr = Call[cursor] THEN {}
  ELSE {[addr |-> Call[cursor], once |-> TRUE, owner |-> Runs[cursor]]}

\* replayStep up to the release of gMutexPaused.
replayStep(c) ==
  /\ Locks(c, {"ReplayStepBack", "StepInto", "StepOver"})
  /\ \E out \in Steps(call[c].op = "ReplayStepBack") :
       LET over == call[c].op = "StepOver" /\ out.moved /\ out.hit = NoHit
                   /\ Call[cursor] # NoAddress
       IN  /\ cursor' = out.at
           /\ IF out.moved
              THEN refreshTtdTimeline(out.at) /\ queue' = queue \o TimelineEvents(out.at)
              ELSE UNCHANGED <<timeline, queue>>
           /\ code' = IF over THEN code \cup ReturnBreakpoint ELSE code
           /\ gTtdNextRunReverse' = (gTtdNextRunReverse /\ ~over)
           /\ IF over \/ (~out.moved /\ call[c].op = "ReplayStepBack") THEN Finished(c)
              ELSE call' = [call EXCEPT ![c].phase = "queue", ![c].hit = out.hit]
  /\ UNCHANGED <<loop, go, gPaused, data, shown, gTtdProcessExitBoundary, flags, run, cut>>

\* The hit of the step, or else the callback, is queued; a failed StepInto or
\* StepOver queues its callback too.
QueueStep(c) ==
  /\ call[c].phase = "queue" /\ loop # "crashed"
  /\ IF Reportable(call[c].hit) THEN queueTtdWatchpointHit(call[c].hit)
     ELSE queue' = Append(queue, Work("step", cursor)) /\ UNCHANGED points
  /\ Finished(c)
  /\ UNCHANGED <<loop, go, cursor, gPaused, gTtdNextRunReverse, timeline, shown,
                 gTtdProcessExitBoundary, flags, run, cut>>

\* SetBPX waits for gMutexPaused while the session is paused and takes no lock
\* while a replay moves; DeleteBPX asks for nothing.  Memory breakpoints are edited
\* only while it is paused.
MayEdit(op) == op \in Ops /\ Len(queue) <= MaxQueue /\ ~Over
Edited ==
  UNCHANGED <<loop, queue, go, cursor, gPaused, gTtdNextRunReverse, timeline, shown,
              gTtdProcessExitBoundary, flags, cut, call>>

SetBPX(b) ==
  /\ MayEdit("SetBPX") /\ ~\E other \in code : other.addr = b.addr
  /\ code' = code \cup {b}
  /\ run' = IF loop = "moving" THEN [run EXCEPT !.fresh = @ \cup {b}] ELSE run
  /\ UNCHANGED data /\ Edited

DeleteBPX(a) ==
  /\ MayEdit("DeleteBPX") /\ \E b \in code : b.addr = a
  /\ code' = {b \in code : b.addr # a}
  /\ UNCHANGED <<data, run>> /\ Edited

SetMemoryBPXEx(d) ==
  /\ MayEdit("SetMemoryBPXEx") /\ gPaused /\ ~\E other \in data : other.addr = d.addr
  /\ data' = data \cup {d}
  /\ UNCHANGED <<code, run>> /\ Edited

RemoveMemoryBPX(d) ==
  /\ MayEdit("RemoveMemoryBPX") /\ gPaused /\ d \in data
  /\ data' = data \ {d}
  /\ UNCHANGED <<code, run>> /\ Edited

\* RequestPause: the callback is exchanged, unless one is pending already; the
\* flag is set; and a replay in progress is interrupted.
RequestPause(c) ==
  /\ "RequestPause" \in Ops /\ Len(queue) <= MaxQueue /\ call[c] = Idle
  /\ ~Over /\ ~gPauseCallback
  /\ gPauseCallback' = TRUE
  /\ call' = [call EXCEPT ![c] = [op |-> "RequestPause", phase |-> "flag", hit |-> NoHit]]
  /\ UNCHANGED <<loop, queue, go, cursor, gPaused, gTtdNextRunReverse, points, timeline, shown,
                 gTtdProcessExitBoundary, gTtdStopRequested, gTtdInterruptRequested, stopping, run,
                 cut>>

\* (variant: only a replay in progress is interrupted)
InterruptIfMoving == gTtdInterruptRequested' = (loop = "moving")
InterruptNext == gTtdInterruptRequested' = TRUE

\* The request is withdrawn if the cursor is gone; it may go after that is checked.
SetInterruptFlag(c) ==
  /\ call[c].phase = "flag" /\ loop # "crashed"
  /\ \/ /\ InterruptNext /\ UNCHANGED gPauseCallback
        /\ call' = [call EXCEPT ![c].phase = "interrupt"]
     \/ /\ loop = "ended" /\ gPauseCallback' = FALSE /\ UNCHANGED gTtdInterruptRequested
        /\ Finished(c)
  /\ UNCHANGED <<loop, queue, go, cursor, gPaused, gTtdNextRunReverse, points, timeline, shown,
                 gTtdProcessExitBoundary, gTtdStopRequested, stopping, run, cut>>

InterruptReplay(c) ==
  /\ call[c].phase = "interrupt" /\ ~Over
  /\ cut' = (cut \/ loop = "moving")
  /\ Finished(c)
  /\ UNCHANGED <<loop, queue, go, cursor, gPaused, gTtdNextRunReverse, points, timeline, shown,
                 gTtdProcessExitBoundary, flags, run>>

\* StopDebug sets the flag, and interrupts the replay if the session is still there.
StopDebug ==
  /\ "StopDebug" \in Ops /\ Len(queue) <= MaxQueue /\ ~Over /\ ~gTtdStopRequested
  /\ gTtdStopRequested' = TRUE /\ stopping' = TRUE
  /\ UNCHANGED <<loop, queue, go, cursor, gPaused, gTtdNextRunReverse, points, timeline, shown,
                 gTtdProcessExitBoundary, gTtdInterruptRequested, gPauseCallback, run, cut, call>>

StopInterrupts ==
  /\ stopping /\ loop # "crashed"
  /\ stopping' = FALSE /\ cut' = (cut \/ loop = "moving")
  /\ UNCHANGED <<loop, queue, go, cursor, gPaused, gTtdNextRunReverse, points, timeline, shown,
                 gTtdProcessExitBoundary, gTtdStopRequested, gTtdInterruptRequested,
                 gPauseCallback, run, call>>

Carry(c) == ReplaySetPosition(c) \/ ReplayRunBack(c) \/ replayStep(c) \/ QueueStep(c)
            \/ SetInterruptFlag(c) \/ InterruptReplay(c) \/ CursorGone(c)

Calls ==
  \/ \E c \in Caller, op \in Movements : BeginMovement(c, op)
  \/ \E c \in Caller : Carry(c) \/ RequestPause(c)
  \/ \E b \in UserCode : SetBPX(b)
  \/ \E a \in Address : DeleteBPX(a)
  \/ \E d \in UserData : SetMemoryBPXEx(d) \/ RemoveMemoryBPX(d)
  \/ StopDebug \/ StopInterrupts

Next == DebugLoop \/ Calls

\* DebugLoop and the calls in progress are threads that get the processor,
\* and the front end lets the target go on after each callback.
Fairness ==
  /\ WF_vars(DebugLoop)
  /\ \A c \in Caller : WF_vars(Carry(c))

Spec == Init /\ [][Next]_vars /\ Fairness
-----------------------------------------------------------------------------
(* Properties.                                                             *)

TypeOK ==
  /\ loop \in {"drain", "callback", "moving", "report", "ended", "crashed"}
  /\ queue \in Seq(WorkItems) /\ cursor \in Position
  /\ {go, gPaused, gTtdNextRunReverse, gTtdStopRequested, gTtdInterruptRequested,
      gPauseCallback, stopping, cut} \subseteq BOOLEAN
  /\ code \subseteq Breakpoint /\ data \subseteq [addr : Address, once : BOOLEAN]
  /\ threads \subseteq Thread /\ modules \subseteq Module
  /\ shown \in [threads : SUBSET {SystemId[t] : t \in Thread}, modules : SUBSET Module]
  /\ gTtdProcessExitBoundary \in Position \cup {NoPosition}
  /\ run \in [back : BOOLEAN, limit : Position, exception : BOOLEAN, at : Position,
              hit : Hits \cup {NoHit}, cut : BOOLEAN, fresh : SUBSET Breakpoint]
  /\ call \in [Caller -> [op : Movements \cup {"idle", "RequestPause"},
                          phase : {"begin", "lock", "queue", "flag", "interrupt"},
                          hit : Hits \cup {NoHit}]]

\* Does the recording use no system thread id and no image base twice?
IdsUnique ==
  /\ \A t, u \in Thread : SystemId[t] = SystemId[u] => t = u
  /\ \A m, n \in Module : Base[m] = Base[n] => m = n

\* The tables are those of the cursor's position, and once the front end has
\* handled the callbacks that are queued it knows exactly the threads and
\* modules in them, whatever has been run, sought and stepped meanwhile and
\* whichever threads have ended before their creation was told.
TimelineReported ==
  IdsUnique /\ ~Over =>
    /\ threads = Alive[cursor] /\ modules = Mapped[cursor]
    /\ queue = <<>> => shown = [threads |-> {SystemId[t] : t \in threads}, modules |-> modules]

\* Replays that InterruptReplay has not cut short set the boundary steps stop
\* at only to the last executable position, and if they have hit no breakpoint
\* they report the process exit only there.
ExitAtEnd ==
  [][/\ Move /\ ~cut /\ gTtdProcessExitBoundary' # gTtdProcessExitBoundary
          => gTtdProcessExitBoundary' = LastPosition - 1
     /\ Report /\ ~run.cut /\ run.hit = NoHit /\ queue' # queue /\ Last(queue').what = "exit"
          => run.at >= LastPosition - 1]_vars

\* A step does not cross the published exit boundary.
StepKeepsBoundary ==
  [][\A c \in Caller : replayStep(c) =>
       (cursor <= gTtdProcessExitBoundary => cursor' <= gTtdProcessExitBoundary)]_vars

\* The temporary breakpoint of a step-over is reported for the thread that
\* steps, never for another one that executes the return address.
StepOnOwnThread ==
  \A i \in DOMAIN queue :
    queue[i].what = "code" /\ queue[i].id.owner # User
      => Runs[queue[i].id.at] = queue[i].id.owner

\* No run passes over an exception event, or over a breakpoint that is there when
\* it begins and stays.
Walk == INSTANCE ReplayWalk WITH
  pos <- cursor, running <- loop = "moving", back <- run.back /\ loop = "moving",
  stops <- Stops \cup Exceptions
NothingSkipped == Walk!Spec

\* Callbacks are queued by the front end's own calls only finitely often.
CallsEnd == <>[][\A c \in Caller : ~(ReplaySetPosition(c) \/ replayStep(c) \/ QueueStep(c))]_vars

\* A requested pause is delivered.
PauseDelivered == CallsEnd => (gPauseCallback ~> ~gPauseCallback)

\* A session that is stopped ends.
StopEndsSession == CallsEnd => (gTtdStopRequested ~> loop = "ended")
=============================================================================
