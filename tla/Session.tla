------------------------------ MODULE Session ------------------------------
(***************************************************************************)
(* The life of a debug session: how one is begun (InitDebugW, InitReplayW, *)
(* AttachDebugger), run by DebugLoop and ended, and who owns the handles   *)
(* that are opened in it.                                                  *)
(*                                                                         *)
(* A debug thread begins sessions and runs DebugLoop; another thread of    *)
(* the front end calls StopDebug, RequestPause, TitanOpenProcess and       *)
(* TitanCloseHandle whenever it likes.  One handle stands for the process  *)
(* and its initial thread, which the code treats alike side by side.       *)
(***************************************************************************)
EXTENDS Integers, FiniteSets, Sequences, Functions

CONSTANTS Handle,      \* values of native handles, reused once they are closed
          NoHandle,
          MaxSessions, \* bound: attempts to begin a session
          MaxTokens,   \* bound: synthetic handles
          Troubles     \* what a run admits, of AllTroubles

Token == 1..MaxTokens
Kind == {"LIVE", "MINIDUMP", "TTD"}
NoPause == 0

\* A beginning that fails after its target's first event; a front end that begins or runs
\* a session, or detaches from its target, next to another call; an interrupt accepted
\* without a target; a native handle opened with a value that queued work is about;
\* registers that cannot be read or flushed with a target.
AllTroubles == {"late_failure", "impatience", "idle_interrupt", "reused_handle", "lost_registers"}

ASSUME SessionAssumption ==
  /\ IsFiniteSet(Handle) /\ NoHandle \notin Handle
  /\ MaxSessions \in Nat /\ MaxTokens \in Nat /\ Troubles \subseteq AllTroubles
  /\ (Handle \cup {NoHandle}) \cap Nat = {}

VARIABLES
  gSessionKind,       \* "NONE" or a kind
  gIsDebugging,
  gSessionGeneration,
  gHandleRegistry,    \* handle -> [gen, callerOwned]
  gNextSyntheticHandle,
  gCallbackQueue,     \* [type, handle, gen]
  gPauseCallback,     \* the session it was requested in, or NoPause
  gTtdStopRequested,
  gTtdInterruptRequested,
  pc,                 \* the debug thread
  call,               \* the front end's call in progress
  engine,             \* DbgEng's session: "none", "live" or "dump"
  process,            \* DbgEng's handle of the process,
  threads,            \* its handles of threads,
  leaving,            \* and those it closes when the target goes on
  interrupted,        \* SetInterrupt was called
  opened              \* native handles the adapter has opened for its caller

session == <<gSessionKind, gIsDebugging, gSessionGeneration>>
registry == <<gHandleRegistry, gNextSyntheticHandle, opened>>
requests == <<gPauseCallback, gTtdStopRequested, gTtdInterruptRequested>>
dbgeng == <<engine, process, threads, leaving, interrupted>>
vars == <<session, registry, gCallbackQueue, requests, pc, call, dbgeng>>

NoCall == [op |-> "none"]
Stopping == call.op = "stop"
Allows(trouble) == trouble \in Troubles

-----------------------------------------------------------------------------
(* Handles and the registry.                                               *)

Engines == (threads \cup {process}) \ {NoHandle}
Free == Handle \ (Engines \cup opened)

\* registerTitanHandle: insert_or_assign.
Registered(reg, h, owned) ==
  [x \in DOMAIN reg \cup {h} |->
     IF x = h THEN [gen |-> gSessionGeneration, callerOwned |-> owned] ELSE reg[x]]
Unregistered(reg, h) == Restrict(reg, DOMAIN reg \ {h})
NoHandles == [h \in {} |-> NoHandle]

CallerOwned == {h \in DOMAIN gHandleRegistry : gHandleRegistry[h].callerOwned}

\* Synthetic handles have no native handle to close.
closeCallerOwnedTitanHandles ==
  /\ opened' = opened \ CallerOwned
  /\ gHandleRegistry' = NoHandles /\ UNCHANGED gNextSyntheticHandle

-----------------------------------------------------------------------------
(* DbgEng.                                                                 *)

Work(type, h, gen) == [type |-> type, handle |-> h, gen |-> gen]
queueCallback(type, h) ==
  gCallbackQueue' = Append(gCallbackQueue, Work(type, h, gSessionGeneration'))

\* EndSession, or the target's end: its handles are closed.
EngineEnds ==
  /\ engine' = "none" /\ process' = NoHandle /\ threads' = {} /\ leaving' = {}
  /\ interrupted' = FALSE

NewTarget(h) ==
  /\ engine' = "live" /\ process' = h /\ threads' = {} /\ leaving' = {}
  /\ interrupted' = FALSE

-----------------------------------------------------------------------------
(* Beginning a session.                                                    *)

MayBegin ==
  /\ pc = "idle" /\ gSessionGeneration < MaxSessions
  /\ Stopping \/ call.op = "pause" => Allows("impatience")

\* InitDebugW and AttachDebugger up to the wait for the create-process event, whose
\* callback may have queued its work.
Create(how) ==
  /\ MayBegin /\ gSessionGeneration' = gSessionGeneration + 1
  /\ gPauseCallback' = IF how = "attach" THEN NoPause ELSE gPauseCallback
  /\ \/ /\ UNCHANGED <<pc, gCallbackQueue, dbgeng>>
     \/ /\ engine = "none" /\ pc' = how
        /\ \E h \in Free :
             NewTarget(h) /\ (queueCallback("create", h) \/ UNCHANGED gCallbackQueue)
  /\ UNCHANGED <<gSessionKind, gIsDebugging, registry, gTtdStopRequested, gTtdInterruptRequested,
                 call>>

ProcessCreated ==
  \E i \in DOMAIN gCallbackQueue :
    gCallbackQueue[i].type = "create" /\ gCallbackQueue[i].gen = gSessionGeneration

\* The wait fails, or, with the event's work queued, the wait or the duplication.
CreateFails ==
  /\ pc \in {"launch", "attach"} /\ (ProcessCreated => Allows("late_failure")) /\ pc' = "idle"
  /\ EngineEnds
  /\ UNCHANGED <<session, registry, gCallbackQueue, requests, call>>

\* The caller gets duplicates of the handles.
Launched ==
  /\ pc = "launch" /\ ProcessCreated /\ pc' = "begun" /\ gSessionKind' = "LIVE"
  /\ \E h \in Free :
       /\ opened' = opened \cup {h}
       /\ gHandleRegistry' = Registered(gHandleRegistry, h, TRUE)
  /\ UNCHANGED <<gIsDebugging, gSessionGeneration, gNextSyntheticHandle, gCallbackQueue, requests,
                 call, dbgeng>>

\* AttachDebugger runs DebugLoop itself.
Attached ==
  /\ pc = "attach" /\ ProcessCreated /\ pc' = "loop" /\ gSessionKind' = "LIVE" /\ gIsDebugging' = TRUE
  /\ UNCHANGED <<gSessionGeneration, registry, gCallbackQueue, requests, call, dbgeng>>

resetTtdSession ==
  gPauseCallback' = NoPause /\ gTtdStopRequested' = FALSE /\ gTtdInterruptRequested' = FALSE

\* InitReplayW clears what an earlier session may have left, requests excepted;
\* ERROR_BUSY otherwise.
OpenReplay(kind) ==
  /\ MayBegin /\ gSessionKind = "NONE" /\ ~gIsDebugging
  /\ gSessionGeneration' = gSessionGeneration + 1 /\ pc' = kind
  /\ closeCallerOwnedTitanHandles /\ gCallbackQueue' = <<>>
  /\ UNCHANGED <<gSessionKind, gIsDebugging, requests, call, dbgeng>>

\* The process and its threads get synthetic handles, and so does the caller.
ReplayOpened ==
  /\ pc \in {"MINIDUMP", "TTD"} /\ gNextSyntheticHandle + 1 \in Token
  /\ pc' = "begun" /\ gSessionKind' = pc /\ UNCHANGED <<gIsDebugging, gSessionGeneration>>
  /\ LET event == gNextSyntheticHandle
     IN  /\ gNextSyntheticHandle' = event + 2
         /\ gHandleRegistry' =
              Registered(Registered(gHandleRegistry, event, FALSE), event + 1, TRUE)
         /\ gCallbackQueue' = <<Work("create", event, gSessionGeneration),
                              Work("event", NoHandle, gSessionGeneration)>>
  /\ IF pc = "MINIDUMP" THEN engine = "none" /\ engine' = "dump" ELSE UNCHANGED engine
  /\ UNCHANGED <<opened, requests, call, process, threads, leaving, interrupted>>

ReplayFails ==
  /\ pc \in {"MINIDUMP", "TTD"} /\ pc' = "idle" /\ gSessionKind' = "NONE"
  /\ gCallbackQueue' = <<>> /\ resetTtdSession
  /\ gHandleRegistry' = NoHandles /\ opened' = opened \ CallerOwned
  /\ EngineEnds
  /\ UNCHANGED <<gIsDebugging, gSessionGeneration, gNextSyntheticHandle, call>>

-----------------------------------------------------------------------------
(* DebugLoop.                                                              *)

DebugLoop ==
  /\ pc = "begun" /\ (Stopping /\ gSessionKind # "LIVE" => Allows("impatience"))
  /\ gSessionKind = "NONE" => Allows("impatience")
  /\ gIsDebugging' = TRUE /\ pc' = IF gSessionKind = "TTD" THEN "replay" ELSE "loop"
  /\ UNCHANGED <<gSessionKind, gSessionGeneration, registry, gCallbackQueue, requests, call, dbgeng>>

\* The front end has stopped the session instead.
Abandoned ==
  /\ pc = "begun" /\ gSessionKind = "NONE" /\ ~Stopping /\ pc' = "idle"
  /\ UNCHANGED <<session, registry, gCallbackQueue, requests, call, dbgeng>>

\* What WaitForEvent returns with, and its handlers queue.
Event ==
  \/ queueCallback("event", NoHandle) /\ UNCHANGED dbgeng
  \/ \E h \in Free :
       /\ queueCallback("create", h) /\ threads' = threads \cup {h}
       /\ UNCHANGED <<engine, process, leaving, interrupted>>
  \/ \E h \in threads :
       /\ queueCallback("exit", h) /\ leaving' = {h}
       /\ UNCHANGED <<engine, process, threads, interrupted>>
  \/ /\ queueCallback("exit", process) /\ leaving' = Engines
     /\ UNCHANGED <<engine, process, threads, interrupted>>

WaitForEvent ==
  /\ pc = "loop" /\ gCallbackQueue = <<>> /\ engine = "live" /\ pc' = "work"
  /\ UNCHANGED <<session, registry, requests, call>> /\ Event

\* It returns without an event: the interrupt's, and a requested pause is delivered.
Interrupt ==
  /\ pc = "loop" /\ gCallbackQueue = <<>> /\ engine = "live" /\ interrupted /\ pc' = "work"
  /\ interrupted' = FALSE /\ gPauseCallback' = NoPause
  /\ gCallbackQueue' = IF gPauseCallback = NoPause THEN <<>>
                       ELSE <<Work("pause", NoHandle, gPauseCallback)>>
  /\ UNCHANGED <<session, registry, gTtdStopRequested, gTtdInterruptRequested, call, engine, process,
                 threads, leaving>>

\* InitDebugW has consumed the create-process event.
AlreadyQueued ==
  /\ pc = "loop" /\ gCallbackQueue # <<>> /\ pc' = "work"
  /\ UNCHANGED <<session, registry, gCallbackQueue, requests, call, dbgeng>>

\* WaitForEvent fails without a target, and so may reading its registers before the
\* queue is worked off and flushing them after.
NoTarget ==
  \/ pc = "loop" /\ engine = "none"
  \/ pc = "work" /\ (engine # "none" => Allows("lost_registers"))

\* (variant: the flag is left set)
LoopEndsDebugging ==
  /\ NoTarget /\ gCallbackQueue' = <<>> /\ pc' = "ending"
  /\ UNCHANGED <<session, registry, requests, call, dbgeng>>

LoopEnds ==
  /\ NoTarget
  /\ gIsDebugging' = FALSE /\ gCallbackQueue' = <<>> /\ pc' = "ending"
  /\ UNCHANGED <<gSessionKind, gSessionGeneration, registry, requests, call, dbgeng>>

\* (variant: the engine's handles are registered as the caller's)
AllCallerOwned(work) ==
  IF gSessionKind # "LIVE" \/ work.type # "create" THEN gHandleRegistry
  ELSE Registered(gHandleRegistry, work.handle, TRUE)

\* The work of CreateProcess and CreateThread registers a live session's handles as
\* the engine's, that of ExitProcess and ExitThread takes them out again.
AfterWork(work) ==
  IF gSessionKind # "LIVE" THEN gHandleRegistry
  ELSE IF work.type = "create" THEN Registered(gHandleRegistry, work.handle, FALSE)
  ELSE IF work.type = "exit" /\ engine = "live" THEN Unregistered(gHandleRegistry, work.handle)
  ELSE gHandleRegistry

RunWork ==
  /\ pc \in {"work", "replay"} /\ gCallbackQueue # <<>>
  /\ gCallbackQueue' = Tail(gCallbackQueue) /\ UNCHANGED session
  /\ gHandleRegistry' = AfterWork(Head(gCallbackQueue))
  /\ UNCHANGED <<gNextSyntheticHandle, opened, requests, pc, call, dbgeng>>

\* The target goes on: DbgEng closes the handles of what has exited.
Resume ==
  /\ pc = "work" /\ gCallbackQueue = <<>> /\ pc' = "loop"
  /\ IF process # NoHandle /\ process \in leaving THEN EngineEnds
     ELSE /\ threads' = threads \ leaving /\ leaving' = {}
          /\ UNCHANGED <<engine, process, interrupted>>
  /\ UNCHANGED <<session, registry, gCallbackQueue, requests, call>>

\* runTtd reports something, and the requested pause once its interrupt is seen.
runTtd ==
  /\ pc = "replay" /\ gCallbackQueue = <<>> /\ ~gTtdStopRequested
  /\ UNCHANGED session /\ gTtdInterruptRequested' = FALSE
  /\ IF gTtdInterruptRequested /\ gPauseCallback # NoPause
     THEN /\ gPauseCallback' = NoPause
          /\ gCallbackQueue' = <<Work("pause", NoHandle, gPauseCallback)>>
     ELSE queueCallback("event", NoHandle) /\ UNCHANGED gPauseCallback
  /\ UNCHANGED <<registry, gTtdStopRequested, pc, call, dbgeng>>

ReplayEnds ==
  /\ pc = "replay" /\ gCallbackQueue = <<>> /\ gTtdStopRequested
  /\ gIsDebugging' = FALSE /\ pc' = "ending"
  /\ UNCHANGED <<gSessionKind, gSessionGeneration, registry, gCallbackQueue, requests, call, dbgeng>>

\* How both end.
CloseHandles ==
  /\ pc = "ending" /\ pc' = "closed" /\ closeCallerOwnedTitanHandles
  /\ UNCHANGED <<session, gCallbackQueue, requests, call, dbgeng>>
\* (variant: the request of an ended live session stays)
ResetReplayRequests ==
  /\ pc = "closed" /\ pc' = "reset"
  /\ IF gSessionKind = "TTD" THEN resetTtdSession ELSE UNCHANGED requests
  /\ UNCHANGED <<session, registry, gCallbackQueue, call, dbgeng>>

ResetRequests ==
  /\ pc = "closed" /\ pc' = "reset"
  /\ IF gSessionKind = "TTD" THEN resetTtdSession
     ELSE gPauseCallback' = NoPause /\ UNCHANGED <<gTtdStopRequested, gTtdInterruptRequested>>
  /\ UNCHANGED <<session, registry, gCallbackQueue, call, dbgeng>>
Ended ==
  /\ pc = "reset" /\ pc' = "idle" /\ gSessionKind' = "NONE"
  /\ UNCHANGED <<gIsDebugging, gSessionGeneration, registry, gCallbackQueue, requests, call, dbgeng>>

-----------------------------------------------------------------------------
(* StopDebug.                                                              *)

StopCall(at, kind) == [op |-> "stop", at |-> at, kind |-> kind]
At(step) == Stopping /\ call.at = step

StopDebug ==
  /\ call = NoCall /\ (pc \in {"launch", "attach", "MINIDUMP", "TTD"} => Allows("impatience"))
  /\ call' = StopCall("request", gSessionKind)
  /\ UNCHANGED <<session, registry, gCallbackQueue, requests, pc, dbgeng>>

\* (variant: a replay is asked to stop like a DbgEng session)
StopAsksDbgEng ==
  /\ At("request") /\ call' = StopCall("check", call.kind) /\ EngineEnds
  /\ UNCHANGED <<session, registry, gCallbackQueue, requests, pc>>

\* EndSession may fail: StopDebug returns false with everything as it was.
StopRequested ==
  /\ At("request")
  /\ \/ call' = StopCall("check", call.kind) /\ call.kind = "TTD"
        /\ gTtdStopRequested' = TRUE /\ UNCHANGED dbgeng
     \/ call' = StopCall("check", call.kind) /\ call.kind # "TTD"
        /\ EngineEnds /\ UNCHANGED gTtdStopRequested
     \/ call' = NoCall /\ call.kind # "TTD" /\ UNCHANGED <<gTtdStopRequested, dbgeng>>
  /\ UNCHANGED <<session, registry, gCallbackQueue, gPauseCallback, gTtdInterruptRequested, pc>>

\* (variant: whether the loop runs is not looked at)
LeavesLiveToLoop == call.kind = "LIVE"

\* DebugLoop cleans up if it runs, and a live session is left to it.
LeavesItToLoop == gIsDebugging \/ call.kind = "LIVE"
StopChecked ==
  /\ At("check") /\ call' = IF LeavesItToLoop THEN NoCall ELSE StopCall("close", call.kind)
  /\ UNCHANGED <<session, registry, gCallbackQueue, requests, pc, dbgeng>>

StopCloses ==
  /\ At("close") /\ call' = StopCall("reset", call.kind)
  /\ closeCallerOwnedTitanHandles /\ gCallbackQueue' = <<>>
  /\ IF call.kind = "TTD" THEN resetTtdSession ELSE UNCHANGED requests
  /\ UNCHANGED <<session, pc, dbgeng>>
StopReturns ==
  /\ At("reset") /\ call' = NoCall /\ gSessionKind' = "NONE"
  /\ UNCHANGED <<gIsDebugging, gSessionGeneration, registry, gCallbackQueue, requests, pc, dbgeng>>

-----------------------------------------------------------------------------
(* RequestPause.                                                           *)

PauseCall(at, gen) == [op |-> "pause", at |-> at, gen |-> gen]

RequestPause ==
  /\ call = NoCall /\ gIsDebugging /\ gSessionKind \in {"LIVE", "TTD"}
  /\ call' = PauseCall("exchange", gSessionGeneration)
  /\ UNCHANGED <<session, registry, gCallbackQueue, requests, pc, dbgeng>>

\* A request is pending already, or this one becomes it.
PauseExchanged ==
  /\ call.op = "pause" /\ call.at = "exchange"
  /\ IF gPauseCallback # NoPause THEN call' = NoCall /\ UNCHANGED gPauseCallback
     ELSE gPauseCallback' = call.gen /\ call' = PauseCall("interrupt", call.gen)
  /\ UNCHANGED <<session, registry, gCallbackQueue, gTtdStopRequested, gTtdInterruptRequested, pc,
                 dbgeng>>

\* The request is withdrawn if there is nothing to interrupt: no cursor, no target.
HasCursor == gSessionKind = "TTD" /\ pc # "reset"
Accepts ==
  engine = "live" \/ HasCursor \/ (gSessionKind # "TTD" /\ Allows("idle_interrupt"))
\* (variant: a request that fails is not withdrawn)
NeverWithdrawn ==
  /\ call.op = "pause" /\ call.at = "interrupt"
  /\ call' = IF HasCursor THEN PauseCall("flag", call.gen) ELSE NoCall
  /\ interrupted' = (interrupted \/ engine = "live")
  /\ UNCHANGED <<session, registry, gCallbackQueue, requests, pc, engine, process, threads, leaving>>

Interrupted ==
  /\ call.op = "pause" /\ call.at = "interrupt"
  /\ call' = IF HasCursor THEN PauseCall("flag", call.gen) ELSE NoCall
  /\ gPauseCallback' = IF Accepts THEN gPauseCallback ELSE NoPause
  /\ interrupted' = (interrupted \/ engine = "live")
  /\ UNCHANGED <<session, registry, gCallbackQueue, gTtdStopRequested, gTtdInterruptRequested, pc,
                 engine, process, threads, leaving>>

\* For a replay the flag follows, whatever has become of the session by then.
InterruptFlagged ==
  /\ call.op = "pause" /\ call.at = "flag" /\ call' = PauseCall("replay", call.gen)
  /\ gTtdInterruptRequested' = TRUE
  /\ UNCHANGED <<session, registry, gCallbackQueue, gPauseCallback, gTtdStopRequested, pc, dbgeng>>

\* (variant: the cursor is looked at once more, and the call returns)
ReplaySpared ==
  /\ call.op = "pause" /\ call.at = "replay" /\ call' = NoCall
  /\ UNCHANGED <<session, registry, gCallbackQueue, requests, pc, dbgeng>>

\* And InterruptReplay: resetTtdSession may have taken the cursor away, and the null
\* pointer ends the program.
ReplayInterrupted ==
  /\ call.op = "pause" /\ call.at = "replay" /\ pc # "crashed"
  /\ IF HasCursor THEN call' = NoCall /\ UNCHANGED <<gIsDebugging, pc>>
     ELSE pc' = "crashed" /\ gIsDebugging' = FALSE /\ UNCHANGED call
  /\ UNCHANGED <<gSessionKind, gSessionGeneration, registry, gCallbackQueue, requests, dbgeng>>

-----------------------------------------------------------------------------
(* Handles for the caller.                                                 *)

\* Handles of DbgEng's that work still queued will register, closed though they may be.
ToBeRegistered ==
  {gCallbackQueue[i].handle : i \in {j \in DOMAIN gCallbackQueue : gCallbackQueue[j].type = "create"}}

\* A native handle is open before it is registered.
TitanOpenNative ==
  /\ call = NoCall /\ gSessionKind \in {"NONE", "LIVE"}
  /\ \E h \in Free :
       /\ h \in ToBeRegistered => Allows("reused_handle")
       /\ opened' = opened \cup {h} /\ call' = [op |-> "open", handle |-> h]
  /\ UNCHANGED <<session, gHandleRegistry, gNextSyntheticHandle, gCallbackQueue, requests, pc, dbgeng>>

OpenReturns ==
  /\ call.op = "open" /\ call' = NoCall /\ UNCHANGED session
  /\ gHandleRegistry' = Registered(gHandleRegistry, call.handle, TRUE)
  /\ UNCHANGED <<gNextSyntheticHandle, opened, gCallbackQueue, requests, pc, dbgeng>>

TitanOpenSynthetic ==
  /\ call = NoCall /\ gSessionKind \in {"MINIDUMP", "TTD"} /\ gNextSyntheticHandle \in Token
  /\ gNextSyntheticHandle' = gNextSyntheticHandle + 1 /\ UNCHANGED session
  /\ gHandleRegistry' = Registered(gHandleRegistry, gNextSyntheticHandle, TRUE)
  /\ UNCHANGED <<opened, gCallbackQueue, requests, pc, call, dbgeng>>

\* Only the caller's own are closed.
TitanCloseHandle ==
  /\ call = NoCall
  /\ \E h \in CallerOwned :
       /\ opened' = opened \ {h}
       /\ gHandleRegistry' = Unregistered(gHandleRegistry, h)
  /\ UNCHANGED <<session, gNextSyntheticHandle, gCallbackQueue, requests, pc, call, dbgeng>>

-----------------------------------------------------------------------------
(* Detaching.                                                              *)

\* The loop finds out as after StopDebug.  A refused one leaves everything as it was.
DetachDebuggerEx ==
  /\ call = NoCall /\ engine = "live" /\ (pc \in {"launch", "attach"} => Allows("impatience"))
  /\ EngineEnds
  /\ UNCHANGED <<session, registry, gCallbackQueue, requests, pc, call>>

-----------------------------------------------------------------------------
Init ==
  /\ gSessionKind = "NONE" /\ gIsDebugging = FALSE /\ gSessionGeneration = 0
  /\ gHandleRegistry = NoHandles /\ gNextSyntheticHandle = 1 /\ gCallbackQueue = <<>>
  /\ gPauseCallback = NoPause /\ gTtdStopRequested = FALSE /\ gTtdInterruptRequested = FALSE
  /\ pc = "idle" /\ call = NoCall
  /\ engine = "none" /\ process = NoHandle /\ threads = {} /\ leaving = {}
  /\ interrupted = FALSE /\ opened = {}

Beginning ==
  \/ Create("launch") \/ Create("attach") \/ CreateFails \/ Launched \/ Attached
  \/ OpenReplay("MINIDUMP") \/ OpenReplay("TTD") \/ ReplayOpened \/ ReplayFails
Loop ==
  \/ DebugLoop \/ Abandoned \/ WaitForEvent \/ Interrupt \/ AlreadyQueued \/ LoopEnds
  \/ RunWork \/ Resume \/ runTtd \/ ReplayEnds \/ CloseHandles \/ ResetRequests \/ Ended
Returning ==
  \/ StopRequested \/ StopChecked \/ StopCloses \/ StopReturns
  \/ PauseExchanged \/ Interrupted \/ InterruptFlagged \/ ReplayInterrupted \/ OpenReturns
Calling ==
  \/ StopDebug \/ RequestPause \/ TitanOpenNative \/ TitanOpenSynthetic \/ TitanCloseHandle
  \/ DetachDebuggerEx
Crashed == pc = "crashed" /\ UNCHANGED vars
Next == Beginning \/ Loop \/ Returning \/ Calling \/ Crashed

Spec == Init /\ [][Next]_vars

Begins == CreateFails \/ Launched \/ Attached \/ ReplayOpened \/ ReplayFails

\* A beginning and a call return, the debug thread goes on, a target that is
\* interrupted breaks in and a replay that is interrupted reports it.
Delivers == Interrupt \/ (runTtd /\ gPauseCallback' # gPauseCallback)
FairSpec ==
  Spec /\ WF_vars(Begins) /\ WF_vars(Loop) /\ WF_vars(Returning)
       /\ SF_vars(Delivers)

-----------------------------------------------------------------------------
WorkType == {"create", "exit", "event", "pause"}
CallType ==
  {NoCall} \cup [op : {"stop"}, at : {"request", "check", "close", "reset"}, kind : Kind \cup {"NONE"}]
  \cup [op : {"pause"}, at : {"exchange", "interrupt", "flag", "replay"}, gen : 1..MaxSessions]
  \cup [op : {"open"}, handle : Handle]

\* The types of the variables; synthetic handles are given out once; the loop's flag
\* and the debug thread agree, and a session of DbgEng's has its process.
TypeOK ==
  /\ gSessionKind \in Kind \cup {"NONE"} /\ gSessionGeneration \in 0..MaxSessions
  /\ gIsDebugging \in BOOLEAN /\ (gIsDebugging <=> pc \in {"loop", "work", "replay"})
  /\ DOMAIN gHandleRegistry \subseteq Handle \cup 1..(gNextSyntheticHandle - 1)
  /\ \A h \in DOMAIN gHandleRegistry :
       gHandleRegistry[h] \in [gen : 0..gSessionGeneration, callerOwned : BOOLEAN]
  /\ gNextSyntheticHandle \in 1..(MaxTokens + 1)
  /\ gCallbackQueue \in Seq([type : WorkType, handle : Handle \cup Token \cup {NoHandle},
                             gen : 1..gSessionGeneration])
  /\ gPauseCallback \in 0..gSessionGeneration /\ gTtdStopRequested \in BOOLEAN
  /\ gTtdInterruptRequested \in BOOLEAN
  /\ pc \in {"idle", "launch", "attach", "MINIDUMP", "TTD", "begun", "loop", "work", "replay",
             "ending", "closed", "reset", "crashed"}
  /\ call \in CallType /\ engine \in {"none", "live", "dump"} /\ interrupted \in BOOLEAN
  /\ process \in Handle \cup {NoHandle} /\ (process # NoHandle) = (engine = "live")
  /\ threads \subseteq Handle /\ leaving \subseteq Engines /\ opened \subseteq Handle

\* The registry answers for exactly the native handles that are open for the caller:
\* each is listed as the caller's, so that the end of the session closes it, or still
\* in the hands of the call opening it; and nothing else is, so that
\* closeCallerOwnedTitanHandles and TitanCloseHandle never close a handle of DbgEng's,
\* or a value that was closed before and is somebody else's now.
HandlesAccounted ==
  /\ CallerOwned \cap Handle \subseteq opened
  /\ \A h \in opened : h \in CallerOwned \/ (call.op = "open" /\ call.handle = h)

\* DebugLoop calls back only for the session it runs, be it an event or the pause.
CallbacksInSession ==
  gIsDebugging =>
    /\ \A i \in DOMAIN gCallbackQueue : gCallbackQueue[i].gen = gSessionGeneration
    /\ gPauseCallback \in {NoPause, gSessionGeneration}

\* Once a session has ended, and the call that ended it has returned, nothing of it is
\* left: no event, request, interrupt or stop for the next one, no handle of the engine's.
NothingRemains ==
  pc = "idle" /\ call = NoCall =>
    /\ gSessionKind = "NONE" /\ gCallbackQueue = <<>> /\ engine = "none"
    /\ gPauseCallback = NoPause /\ ~gTtdStopRequested /\ ~gTtdInterruptRequested
    /\ DOMAIN gHandleRegistry = CallerOwned

\* StopDebug never takes the session away under a running DebugLoop, which reads its
\* kind at every event.
KindKept == [][gIsDebugging /\ gIsDebugging' => gSessionKind' = gSessionKind]_vars

\* A StopDebug that has not failed gets a running DebugLoop to end.
StopEnds == At("check") /\ gIsDebugging ~> ~gIsDebugging

\* A requested pause is delivered or its session ends: the request does not stay, so
\* the next one is not taken for a repetition of it.
PauseAnswered == gPauseCallback # NoPause ~> gPauseCallback = NoPause
=============================================================================
