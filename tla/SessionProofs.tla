-------------------------- MODULE SessionProofs --------------------------
(***************************************************************************)
(* Sessions keep their types, for any handles, bounds and front end; and   *)
(* for a front end that begins and runs none next to a StopDebug, with no  *)
(* failure after the target's first event, nothing of one reaches another  *)
(* and the registry answers for exactly the handles that are open.         *)
(***************************************************************************)
EXTENDS Session, TLAPS

Running == {"loop", "work", "replay"}
Over == {"ending", "closed", "reset"}

-----------------------------------------------------------------------------
(* The types, with what keeps them: whoever asks for a pause has seen its  *)
(* session begin, and work is about handles that were given out.           *)

Phase ==
  {"idle", "launch", "attach", "MINIDUMP", "TTD", "begun", "loop", "work", "replay",
   "ending", "closed", "reset", "crashed"}
SessionTyped ==
  /\ gSessionKind \in Kind \cup {"NONE"} /\ gSessionGeneration \in 0..MaxSessions
  /\ pc \in Phase /\ gIsDebugging \in BOOLEAN /\ (gIsDebugging <=> pc \in Running)
  /\ pc # "idle" => gSessionGeneration >= 1
RequestsTyped ==
  /\ gPauseCallback \in 0..gSessionGeneration /\ gTtdStopRequested \in BOOLEAN
  /\ gTtdInterruptRequested \in BOOLEAN
  /\ call \in CallType /\ (call.op = "pause" => call.gen <= gSessionGeneration)
GivenOut == Handle \cup 1..(gNextSyntheticHandle - 1)
RegistryTyped ==
  /\ gNextSyntheticHandle \in 1..(MaxTokens + 1)
  /\ gHandleRegistry = [h \in DOMAIN gHandleRegistry |-> gHandleRegistry[h]]
  /\ DOMAIN gHandleRegistry \subseteq GivenOut
  /\ \A h \in DOMAIN gHandleRegistry :
       gHandleRegistry[h] \in [gen : 0..gSessionGeneration, callerOwned : BOOLEAN]
QueueTyped ==
  /\ gCallbackQueue \in Seq([type : WorkType, handle : Handle \cup Token \cup {NoHandle},
                             gen : 1..gSessionGeneration])
  /\ \A i \in DOMAIN gCallbackQueue :
       gCallbackQueue[i].type \in {"create", "exit"} => gCallbackQueue[i].handle \in GivenOut
EngineTyped ==
  /\ engine \in {"none", "live", "dump"} /\ interrupted \in BOOLEAN
  /\ process \in Handle \cup {NoHandle} /\ (process # NoHandle) = (engine = "live")
  /\ threads \subseteq Handle /\ leaving \subseteq Engines /\ opened \subseteq Handle
Typed == SessionTyped /\ RequestsTyped /\ RegistryTyped /\ QueueTyped /\ EngineTyped


\* Sessions are counted when they begin.
LEMMA SessionTypes ==
  ASSUME Typed, [Next]_vars
  PROVE  SessionTyped'
<1> USE SessionAssumption DEF Typed, SessionTyped, Phase, Running, Kind
<1>1. CASE Create("launch")
  BY <1>1 DEF Create, MayBegin, dbgeng, Free, NewTarget, queueCallback, registry, Stopping,
         Allows, Work
<1>2. CASE Create("attach")
  BY <1>2 DEF Create, MayBegin, dbgeng, Free, NewTarget, queueCallback, registry, Stopping,
         Allows, Work
<1>3. CASE CreateFails
  BY <1>3 DEF CreateFails, ProcessCreated, Allows, EngineEnds, session, registry, requests
<1>4. CASE Launched
  BY <1>4 DEF Launched, ProcessCreated, Free, Registered, requests, dbgeng
<1>5. CASE Attached
  BY <1>5 DEF Attached, ProcessCreated, registry, requests, dbgeng
<1>6. CASE OpenReplay("MINIDUMP")
  BY <1>6 DEF OpenReplay, MayBegin, closeCallerOwnedTitanHandles, requests, dbgeng,
         Stopping, Allows, CallerOwned, NoHandles
<1>7. CASE OpenReplay("TTD")
  BY <1>7 DEF OpenReplay, MayBegin, closeCallerOwnedTitanHandles, requests, dbgeng,
         Stopping, Allows, CallerOwned, NoHandles
<1>8. CASE ReplayOpened
  BY <1>8 DEF ReplayOpened, Registered, Work, requests
<1>9. CASE ReplayFails
  BY <1>9 DEF ReplayFails, resetTtdSession, NoHandles, CallerOwned, EngineEnds
<1>10. CASE DebugLoop
  BY <1>10 DEF DebugLoop, Stopping, Allows, registry, requests, dbgeng
<1>11. CASE Abandoned
  BY <1>11 DEF Abandoned, Stopping, session, registry, requests, dbgeng
<1>12. CASE WaitForEvent
  BY <1>12 DEF WaitForEvent, session, registry, requests, Event, queueCallback, dbgeng,
         Free, Work
<1>13. CASE Interrupt
  BY <1>13 DEF Interrupt, Work, session, registry
<1>14. CASE AlreadyQueued
  BY <1>14 DEF AlreadyQueued, session, registry, requests, dbgeng
<1>15. CASE LoopEnds
  BY <1>15 DEF LoopEnds, NoTarget, Allows, registry, requests, dbgeng
<1>16. CASE RunWork
  BY <1>16 DEF RunWork, session, AfterWork, requests, dbgeng, Registered, Unregistered,
         Restrict
<1>17. CASE Resume
  BY <1>17 DEF Resume, EngineEnds, session, registry, requests
<1>18. CASE runTtd
  BY <1>18 DEF runTtd, session, queueCallback, Work, registry, dbgeng
<1>19. CASE ReplayEnds
  BY <1>19 DEF ReplayEnds, registry, requests, dbgeng
<1>20. CASE CloseHandles
  BY <1>20 DEF CloseHandles, closeCallerOwnedTitanHandles, session, requests, dbgeng,
         CallerOwned, NoHandles
<1>21. CASE ResetRequests
  BY <1>21 DEF ResetRequests, resetTtdSession, session, registry, dbgeng
<1>22. CASE Ended
  BY <1>22 DEF Ended, registry, requests, dbgeng
<1>23. CASE Returning
  <2>1. CASE StopRequested
    BY <2>1 DEF StopRequested, At, StopCall, NoCall, EngineEnds, session, registry, dbgeng, Stopping
  <2>2. CASE StopChecked
    BY <2>2 DEF StopChecked, At, StopCall, NoCall, LeavesItToLoop, session, registry, requests,
           dbgeng, Stopping
  <2>3. CASE StopCloses
    BY <2>3 DEF StopCloses, At, StopCall, closeCallerOwnedTitanHandles, resetTtdSession,
           CallerOwned,
         NoHandles, requests, session, dbgeng, Stopping
  <2>4. CASE StopReturns
    BY <2>4 DEF StopReturns, At, NoCall, registry, requests, dbgeng, Stopping
  <2>5. CASE PauseExchanged
    BY <2>5 DEF PauseExchanged, PauseCall, NoCall, session, registry, dbgeng, Stopping
  <2>6. CASE Interrupted
    BY <2>6 DEF Interrupted, PauseCall, NoCall, Accepts, HasCursor, Allows, session, registry,
           dbgeng, Stopping
  <2>7. CASE InterruptFlagged
    BY <2>7 DEF InterruptFlagged, PauseCall, session, registry, dbgeng, Stopping
  <2>8. CASE ReplayInterrupted
    <3>1. call.op = "pause" /\ call \in CallType /\ call.gen <= gSessionGeneration
      BY <2>8 DEF ReplayInterrupted, RequestsTyped
    <3>2. gSessionGeneration >= 1
      BY <3>1 DEF CallType, NoCall
    <3>3. QED
      BY <2>8, <3>2 DEF ReplayInterrupted
  <2>9. CASE OpenReturns
    BY <2>9 DEF OpenReturns, NoCall, Registered, session, requests, dbgeng, Stopping
  <2>10. QED
    BY <1>23, <2>1, <2>2, <2>3, <2>4, <2>5, <2>6, <2>7, <2>8, <2>9 DEF Returning
<1>24. CASE Calling
  BY <1>24 DEF Calling, StopDebug, NoCall, Allows, StopCall, session, registry, requests,
         dbgeng, RequestPause, PauseCall, TitanOpenNative, ToBeRegistered, DetachDebuggerEx,
                EngineEnds, Free, TitanOpenSynthetic,
         Registered, TitanCloseHandle, CallerOwned, Unregistered, Restrict
<1>25. CASE UNCHANGED vars
  BY <1>25 DEF vars, session, registry, requests, dbgeng, CallerOwned
<1>26. QED
  BY <1>1, <1>2, <1>3, <1>4, <1>5, <1>6, <1>7, <1>8, <1>9, <1>10, <1>11, <1>12, <1>13,
     <1>14, <1>15, <1>16, <1>17, <1>18, <1>19, <1>20, <1>21, <1>22, <1>23, <1>24, <1>25 DEF Next,
            Crashed, Beginning, Loop

\* A pause is requested for a session that has begun.
LEMMA RequestTypes ==
  ASSUME Typed, [Next]_vars
  PROVE  RequestsTyped'
<1> USE SessionAssumption DEF Typed, SessionTyped, RequestsTyped, CallType, NoPause, NoCall,
      Kind, Running
<1>1. CASE Create("launch")
  BY <1>1 DEF Create, MayBegin, dbgeng, Free, NewTarget, queueCallback, registry, Stopping,
         Allows, Work
<1>2. CASE Create("attach")
  BY <1>2 DEF Create, MayBegin, dbgeng, Free, NewTarget, queueCallback, registry, Stopping,
         Allows, Work
<1>3. CASE CreateFails
  BY <1>3 DEF CreateFails, ProcessCreated, Allows, EngineEnds, session, registry, requests
<1>4. CASE Launched
  BY <1>4 DEF Launched, ProcessCreated, Free, Registered, requests, dbgeng
<1>5. CASE Attached
  BY <1>5 DEF Attached, ProcessCreated, registry, requests, dbgeng
<1>6. CASE OpenReplay("MINIDUMP")
  BY <1>6 DEF OpenReplay, MayBegin, closeCallerOwnedTitanHandles, requests, dbgeng,
         Stopping, Allows, CallerOwned, NoHandles
<1>7. CASE OpenReplay("TTD")
  BY <1>7 DEF OpenReplay, MayBegin, closeCallerOwnedTitanHandles, requests, dbgeng,
         Stopping, Allows, CallerOwned, NoHandles
<1>8. CASE ReplayOpened
  BY <1>8 DEF ReplayOpened, Registered, Work, requests
<1>9. CASE ReplayFails
  <2>1. gTtdStopRequested' \in BOOLEAN /\ gTtdInterruptRequested' \in BOOLEAN
    BY <1>9, Zenon DEF ReplayFails, resetTtdSession, NoHandles, CallerOwned, EngineEnds
  <2>2. QED
    BY <1>9, <2>1 DEF ReplayFails, resetTtdSession, NoHandles, CallerOwned, EngineEnds
<1>10. CASE DebugLoop
  BY <1>10 DEF DebugLoop, Stopping, Allows, registry, requests, dbgeng
<1>11. CASE Abandoned
  BY <1>11 DEF Abandoned, Stopping, session, registry, requests, dbgeng
<1>12. CASE WaitForEvent
  BY <1>12 DEF WaitForEvent, session, registry, requests, Event, queueCallback, dbgeng,
         Free, Work
<1>13. CASE Interrupt
  BY <1>13 DEF Interrupt, Work, session, registry
<1>14. CASE AlreadyQueued
  BY <1>14 DEF AlreadyQueued, session, registry, requests, dbgeng
<1>15. CASE LoopEnds
  BY <1>15 DEF LoopEnds, NoTarget, Allows, registry, requests, dbgeng
<1>16. CASE RunWork
  BY <1>16 DEF RunWork, session, AfterWork, requests, dbgeng, Registered, Unregistered,
         Restrict
<1>17. CASE Resume
  BY <1>17 DEF Resume, EngineEnds, session, registry, requests
<1>18. CASE runTtd
  <2>1. gTtdStopRequested' \in BOOLEAN /\ gTtdInterruptRequested' \in BOOLEAN
    BY <1>18, Zenon DEF runTtd
  <2>2. QED
    BY <1>18, <2>1 DEF runTtd, session
<1>19. CASE ReplayEnds
  BY <1>19 DEF ReplayEnds, registry, requests, dbgeng
<1>20. CASE CloseHandles
  BY <1>20 DEF CloseHandles, closeCallerOwnedTitanHandles, session, requests, dbgeng,
         CallerOwned, NoHandles
<1>21. CASE ResetRequests
  <2>1. gTtdStopRequested' \in BOOLEAN /\ gTtdInterruptRequested' \in BOOLEAN
    BY <1>21, Zenon DEF ResetRequests, resetTtdSession, session, registry, dbgeng
  <2>2. QED
    BY <1>21, <2>1 DEF ResetRequests, resetTtdSession, session, registry, dbgeng
<1>22. CASE Ended
  BY <1>22 DEF Ended, registry, requests, dbgeng
<1>23. CASE StopRequested
  <2>1. gTtdStopRequested' \in BOOLEAN /\ gTtdInterruptRequested' \in BOOLEAN
    BY <1>23, Zenon DEF StopRequested, NoCall, At, StopCall, dbgeng, EngineEnds, session, registry,
           Stopping
  <2>2. QED
    BY <1>23, <2>1 DEF StopRequested, NoCall, At, StopCall, dbgeng, EngineEnds, session, registry,
           Stopping
<1>24. CASE StopChecked
  BY <1>24 DEF StopChecked, At, LeavesItToLoop, StopCall, session, registry, requests,
         dbgeng, Stopping
<1>25. CASE StopCloses
  <2>1. gTtdStopRequested' \in BOOLEAN /\ gTtdInterruptRequested' \in BOOLEAN
    BY <1>25, Zenon DEF StopCloses, At, StopCall, closeCallerOwnedTitanHandles, resetTtdSession,
           requests, session, dbgeng, Stopping, CallerOwned, NoHandles
  <2>2. QED
    BY <1>25, <2>1 DEF StopCloses, At, StopCall, closeCallerOwnedTitanHandles, resetTtdSession,
           requests, session, dbgeng, Stopping, CallerOwned, NoHandles
<1>26. CASE StopReturns
  BY <1>26 DEF StopReturns, At, registry, requests, dbgeng, Stopping
<1>27. CASE PauseExchanged
  BY <1>27 DEF PauseExchanged, PauseCall, session, registry, dbgeng
<1>28. CASE Interrupted
  BY <1>28 DEF Interrupted, PauseCall, Accepts, session, registry, HasCursor, Allows
<1>28a. CASE InterruptFlagged
  <2>1. gTtdInterruptRequested' \in BOOLEAN
    BY <1>28a, Zenon DEF InterruptFlagged
  <2>2. QED
    BY <1>28a, <2>1 DEF InterruptFlagged, PauseCall, session
<1>28b. CASE ReplayInterrupted
  BY <1>28b DEF ReplayInterrupted, HasCursor, registry, requests, dbgeng
<1>29. CASE OpenReturns
  BY <1>29 DEF OpenReturns, session, Registered, requests, dbgeng
<1>30. CASE StopDebug
  BY <1>30 DEF StopDebug, Allows, StopCall, session, registry, requests, dbgeng
<1>31. CASE RequestPause
  BY <1>31 DEF RequestPause, PauseCall, session, registry, requests, dbgeng
<1>32. CASE TitanOpenNative
  BY <1>32 DEF TitanOpenNative, ToBeRegistered, Allows, Free, session, requests, dbgeng
<1>33. CASE TitanOpenSynthetic
  BY <1>33 DEF TitanOpenSynthetic, session, Registered, requests, dbgeng
<1>34. CASE TitanCloseHandle
  BY <1>34 DEF TitanCloseHandle, CallerOwned, Unregistered, session, requests, dbgeng,
         Restrict
<1>34a. CASE DetachDebuggerEx
  BY <1>34a DEF DetachDebuggerEx, EngineEnds, Allows, session, registry, requests
<1>35. CASE UNCHANGED vars
  BY <1>35 DEF vars, session, registry, requests, dbgeng, CallerOwned
<1>36. QED
  BY <1>1, <1>2, <1>3, <1>4, <1>5, <1>6, <1>7, <1>8, <1>9, <1>10, <1>11, <1>12, <1>13,
     <1>14, <1>15, <1>16, <1>17, <1>18, <1>19, <1>20, <1>21, <1>22, <1>23, <1>24, <1>25,
     <1>26, <1>27, <1>28, <1>28a, <1>28b, <1>29, <1>30, <1>31, <1>32, <1>33, <1>34, <1>34a,
            <1>35 DEF Next, Crashed, Beginning, Loop, Returning, Calling

\* Only handles that were given out are registered, those of queued work included.
LEMMA RegistryTypes ==
  ASSUME Typed, [Next]_vars
  PROVE  RegistryTyped'
<1> USE SessionAssumption DEF Typed, SessionTyped, RequestsTyped, RegistryTyped, GivenOut,
      Token, Kind, CallType, NoCall, NoPause
<1>1. CASE Create("launch")
  BY <1>1 DEF Create, MayBegin, dbgeng, Free, NewTarget, queueCallback, registry, Stopping,
         Allows, Work
<1>2. CASE Create("attach")
  BY <1>2 DEF Create, MayBegin, dbgeng, Free, NewTarget, queueCallback, registry, Stopping,
         Allows, Work
<1>3. CASE CreateFails
  BY <1>3 DEF CreateFails, ProcessCreated, Allows, EngineEnds, session, registry, requests
<1>4. CASE Launched
  BY <1>4 DEF Launched, ProcessCreated, Free, Registered, requests, dbgeng
<1>5. CASE Attached
  BY <1>5 DEF Attached, ProcessCreated, registry, requests, dbgeng
<1>6. CASE OpenReplay("MINIDUMP")
  BY <1>6 DEF OpenReplay, MayBegin, closeCallerOwnedTitanHandles, requests, dbgeng,
         Stopping, Allows, CallerOwned, NoHandles
<1>7. CASE OpenReplay("TTD")
  BY <1>7 DEF OpenReplay, MayBegin, closeCallerOwnedTitanHandles, requests, dbgeng,
         Stopping, Allows, CallerOwned, NoHandles
<1>8. CASE ReplayOpened
  BY <1>8 DEF ReplayOpened, Registered, Work, requests
<1>9. CASE ReplayFails
  BY <1>9 DEF ReplayFails, resetTtdSession, NoHandles, CallerOwned, EngineEnds
<1>10. CASE DebugLoop
  BY <1>10 DEF DebugLoop, Stopping, Allows, registry, requests, dbgeng
<1>11. CASE Abandoned
  BY <1>11 DEF Abandoned, Stopping, session, registry, requests, dbgeng
<1>12. CASE WaitForEvent
  BY <1>12 DEF WaitForEvent, session, registry, requests, Event, queueCallback, dbgeng,
         Free, Work
<1>13. CASE Interrupt
  BY <1>13 DEF Interrupt, Work, session, registry
<1>14. CASE AlreadyQueued
  BY <1>14 DEF AlreadyQueued, session, registry, requests, dbgeng
<1>15. CASE LoopEnds
  BY <1>15 DEF LoopEnds, NoTarget, Allows, registry, requests, dbgeng
<1>16. CASE RunWork
  <2>1. gNextSyntheticHandle' = gNextSyntheticHandle /\ gSessionGeneration' = gSessionGeneration
    BY <1>16 DEF RunWork, session
  <2>2. gCallbackQueue # <<>> /\ gHandleRegistry' = AfterWork(Head(gCallbackQueue))
    BY <1>16 DEF RunWork
  <2>3. Head(gCallbackQueue) = gCallbackQueue[1] /\ 1 \in DOMAIN gCallbackQueue
    BY <2>2 DEF QueueTyped
  <2>4. Head(gCallbackQueue).type = "create" => Head(gCallbackQueue).handle \in GivenOut
    BY <2>3 DEF QueueTyped
  <2> DEFINE h == Head(gCallbackQueue).handle
  <2>5. CASE gHandleRegistry' = gHandleRegistry
    BY <2>1, <2>5
  <2>6. CASE Head(gCallbackQueue).type = "create" /\ gHandleRegistry' = Registered(gHandleRegistry,
         h, FALSE)
    <3>1. h \in GivenOut
      BY <2>4, <2>6
    <3> HIDE DEF h
    <3>2. QED
      BY <2>1, <2>6, <3>1 DEF Registered
  <2>7. CASE gHandleRegistry' = Unregistered(gHandleRegistry, h)
    <3> HIDE DEF h
    <3>1. QED
      BY <2>1, <2>7 DEF Unregistered, Restrict
  <2>8. QED
    BY <2>2, <2>5, <2>6, <2>7, Zenon DEF AfterWork
<1>17. CASE Resume
  BY <1>17 DEF Resume, EngineEnds, session, registry, requests
<1>18. CASE runTtd
  BY <1>18 DEF runTtd, session, queueCallback, Work, registry, dbgeng
<1>19. CASE ReplayEnds
  BY <1>19 DEF ReplayEnds, registry, requests, dbgeng
<1>20. CASE CloseHandles
  BY <1>20 DEF CloseHandles, closeCallerOwnedTitanHandles, session, requests, dbgeng,
         CallerOwned, NoHandles
<1>21. CASE ResetRequests
  BY <1>21 DEF ResetRequests, resetTtdSession, session, registry, dbgeng
<1>22. CASE Ended
  BY <1>22 DEF Ended, registry, requests, dbgeng
<1>23. CASE StopRequested
  BY <1>23 DEF StopRequested, NoCall, At, StopCall, dbgeng, EngineEnds, session, registry, Stopping
<1>24. CASE StopChecked
  BY <1>24 DEF StopChecked, At, LeavesItToLoop, StopCall, session, registry, requests,
         dbgeng, Stopping
<1>25. CASE StopCloses
  BY <1>25 DEF StopCloses, At, StopCall, closeCallerOwnedTitanHandles, resetTtdSession,
         requests, session, dbgeng, Stopping, CallerOwned, NoHandles
<1>26. CASE StopReturns
  BY <1>26 DEF StopReturns, At, registry, requests, dbgeng, Stopping
<1>27. CASE PauseExchanged
  BY <1>27 DEF PauseExchanged, PauseCall, session, registry, dbgeng
<1>28. CASE Interrupted
  BY <1>28 DEF Interrupted, PauseCall, Accepts, session, registry, HasCursor, Allows
<1>28a. CASE InterruptFlagged
  BY <1>28a DEF InterruptFlagged, PauseCall, session, registry, dbgeng
<1>28b. CASE ReplayInterrupted
  BY <1>28b DEF ReplayInterrupted, HasCursor, registry, requests, dbgeng
<1>29. CASE OpenReturns
  BY <1>29 DEF OpenReturns, session, Registered, requests, dbgeng
<1>30. CASE StopDebug
  BY <1>30 DEF StopDebug, Allows, StopCall, session, registry, requests, dbgeng
<1>31. CASE RequestPause
  BY <1>31 DEF RequestPause, PauseCall, session, registry, requests, dbgeng
<1>32. CASE TitanOpenNative
  BY <1>32 DEF TitanOpenNative, ToBeRegistered, Allows, Free, session, requests, dbgeng
<1>33. CASE TitanOpenSynthetic
  BY <1>33 DEF TitanOpenSynthetic, session, Registered, requests, dbgeng
<1>34. CASE TitanCloseHandle
  BY <1>34 DEF TitanCloseHandle, CallerOwned, Unregistered, session, requests, dbgeng,
         Restrict
<1>34a. CASE DetachDebuggerEx
  BY <1>34a DEF DetachDebuggerEx, EngineEnds, Allows, session, registry, requests
<1>35. CASE UNCHANGED vars
  BY <1>35 DEF vars, session, registry, requests, dbgeng, CallerOwned
<1>36. QED
  BY <1>1, <1>2, <1>3, <1>4, <1>5, <1>6, <1>7, <1>8, <1>9, <1>10, <1>11, <1>12, <1>13,
     <1>14, <1>15, <1>16, <1>17, <1>18, <1>19, <1>20, <1>21, <1>22, <1>23, <1>24, <1>25,
     <1>26, <1>27, <1>28, <1>28a, <1>28b, <1>29, <1>30, <1>31, <1>32, <1>33, <1>34, <1>34a,
            <1>35 DEF Next, Crashed, Beginning, Loop, Returning, Calling

\* The types of a sequence's elements may grow.
LEMMA LaterItems == ASSUME NEW S, NEW T, S \subseteq T PROVE \A q \in Seq(S) : q \in Seq(T)
  OBVIOUS

\* Work that is appended is about a handle that was given out.
LEMMA QueueGrows ==
  ASSUME Typed, gNextSyntheticHandle' = gNextSyntheticHandle,
         gSessionGeneration' \in Nat \ {0}, gSessionGeneration' >= gSessionGeneration,
         NEW type \in WorkType, NEW h \in Handle \cup {NoHandle},
         type \in {"create", "exit"} => h \in Handle,
         gCallbackQueue' = Append(gCallbackQueue, Work(type, h, gSessionGeneration'))
  PROVE  QueueTyped'
<1> DEFINE Items(g) == [type : WorkType, handle : Handle \cup Token \cup {NoHandle}, gen : 1..g]
           item == Work(type, h, gSessionGeneration')
<1>1. gCallbackQueue \in Seq(Items(gSessionGeneration')) /\ item \in Items(gSessionGeneration')
  <2>1. gSessionGeneration \in Nat /\ gCallbackQueue \in Seq(Items(gSessionGeneration))
    BY SessionAssumption DEF Typed, SessionTyped, QueueTyped
  <2>2. Items(gSessionGeneration) \subseteq Items(gSessionGeneration')
    BY <2>1
  <2>3. item \in Items(gSessionGeneration')
    BY DEF Work
  <2>4. QED
    BY <2>1, <2>2, <2>3, LaterItems
<1>2. gCallbackQueue' = Append(gCallbackQueue, item)
  OBVIOUS
<1>3. gCallbackQueue' \in Seq(Items(gSessionGeneration'))
  BY <1>1, <1>2
<1>4. ASSUME NEW i \in DOMAIN gCallbackQueue', gCallbackQueue'[i].type \in {"create", "exit"}
      PROVE  gCallbackQueue'[i].handle \in GivenOut'
  <2>1. CASE i = Len(gCallbackQueue) + 1
    BY <1>1, <1>2, <1>4, <2>1 DEF Work, GivenOut
  <2>2. CASE i # Len(gCallbackQueue) + 1
    <3>1. i \in DOMAIN gCallbackQueue /\ gCallbackQueue'[i] = gCallbackQueue[i]
      BY <1>1, <1>2, <1>4, <2>2
    <3>2. QED
      BY <1>4, <3>1 DEF Typed, QueueTyped, GivenOut
  <2>3. QED
    BY <2>1, <2>2
<1>5. QED
  BY <1>3, <1>4 DEF QueueTyped

\* Nothing but appended work, and the work of a new replay, gets into the queue.
LEMMA QueueTypes ==
  ASSUME Typed, [Next]_vars
  PROVE  QueueTyped'
<1> USE SessionAssumption DEF Typed, SessionTyped, RegistryTyped, QueueTyped, GivenOut,
      Kind, WorkType, Token
<1>1. CASE Create("launch")
  <2>1. CASE UNCHANGED gCallbackQueue
    <3>1. gSessionGeneration' \in Nat /\ gSessionGeneration' >= gSessionGeneration
          /\ gNextSyntheticHandle' = gNextSyntheticHandle
      BY <1>1 DEF Create, registry
    <3>2. [type : WorkType, handle : Handle \cup Token \cup {NoHandle}, gen : 1..gSessionGeneration]
            \subseteq [type : WorkType, handle : Handle \cup Token \cup {NoHandle},
                       gen : 1..gSessionGeneration']
      BY <3>1
    <3>3. QED
      BY <2>1, <3>1, <3>2, LaterItems
  <2>2. CASE \E h \in Free : queueCallback("create", h)
    <3>1. gSessionGeneration' \in Nat \ {0} /\ gSessionGeneration' >= gSessionGeneration
          /\ gNextSyntheticHandle' = gNextSyntheticHandle
      BY <1>1 DEF Create, registry
    <3>2. QED
      BY <2>2, <3>1, QueueGrows DEF Free, queueCallback
  <2>3. QED
    BY <1>1, <2>1, <2>2 DEF Create
<1>2. CASE Create("attach")
  <2>1. CASE UNCHANGED gCallbackQueue
    <3>1. gSessionGeneration' \in Nat /\ gSessionGeneration' >= gSessionGeneration
          /\ gNextSyntheticHandle' = gNextSyntheticHandle
      BY <1>2 DEF Create, registry
    <3>2. [type : WorkType, handle : Handle \cup Token \cup {NoHandle}, gen : 1..gSessionGeneration]
            \subseteq [type : WorkType, handle : Handle \cup Token \cup {NoHandle},
                       gen : 1..gSessionGeneration']
      BY <3>1
    <3>3. QED
      BY <2>1, <3>1, <3>2, LaterItems
  <2>2. CASE \E h \in Free : queueCallback("create", h)
    <3>1. gSessionGeneration' \in Nat \ {0} /\ gSessionGeneration' >= gSessionGeneration
          /\ gNextSyntheticHandle' = gNextSyntheticHandle
      BY <1>2 DEF Create, registry
    <3>2. QED
      BY <2>2, <3>1, QueueGrows DEF Free, queueCallback
  <2>3. QED
    BY <1>2, <2>1, <2>2 DEF Create
<1>3. CASE CreateFails
  BY <1>3 DEF CreateFails, ProcessCreated, Allows, EngineEnds, session, registry, requests
<1>4. CASE Launched
  BY <1>4 DEF Launched, ProcessCreated, Free, Registered, requests, dbgeng
<1>5. CASE Attached
  BY <1>5 DEF Attached, ProcessCreated, registry, requests, dbgeng
<1>6. CASE OpenReplay("MINIDUMP")
  BY <1>6 DEF OpenReplay, MayBegin, closeCallerOwnedTitanHandles, requests, dbgeng,
         Stopping, Allows, CallerOwned, NoHandles
<1>7. CASE OpenReplay("TTD")
  BY <1>7 DEF OpenReplay, MayBegin, closeCallerOwnedTitanHandles, requests, dbgeng,
         Stopping, Allows, CallerOwned, NoHandles
<1>8. CASE ReplayOpened
  <2>1. gSessionGeneration' = gSessionGeneration /\ gSessionGeneration \in Nat \ {0}
        /\ gNextSyntheticHandle \in Token /\ gNextSyntheticHandle' = gNextSyntheticHandle + 2
    BY <1>8 DEF ReplayOpened
  <2>2. gCallbackQueue' = <<Work("create", gNextSyntheticHandle, gSessionGeneration),
                          Work("event", NoHandle, gSessionGeneration)>>
    BY <1>8 DEF ReplayOpened
  <2>3. QED
    BY <2>1, <2>2 DEF Work
<1>9. CASE ReplayFails
  BY <1>9 DEF ReplayFails, resetTtdSession, NoHandles, CallerOwned, EngineEnds
<1>10. CASE DebugLoop
  BY <1>10 DEF DebugLoop, Stopping, Allows, registry, requests, dbgeng
<1>11. CASE Abandoned
  BY <1>11 DEF Abandoned, Stopping, session, registry, requests, dbgeng
<1>12. CASE WaitForEvent
  <2>1. gSessionGeneration' = gSessionGeneration /\ gSessionGeneration # 0
        /\ gNextSyntheticHandle' = gNextSyntheticHandle
    BY <1>12 DEF WaitForEvent, session, registry
  <2>2. process \in Handle /\ threads \subseteq Handle
    BY <1>12 DEF WaitForEvent, EngineTyped
  <2>3. CASE queueCallback("event", NoHandle)
    BY <2>1, <2>3, QueueGrows DEF queueCallback
  <2>4. CASE \E h \in Free : queueCallback("create", h)
    BY <2>1, <2>4, QueueGrows DEF Free, queueCallback
  <2>5. CASE \E h \in threads \cup {process} : queueCallback("exit", h)
    BY <2>1, <2>2, <2>5, QueueGrows DEF queueCallback
  <2>6. QED
    BY <1>12, <2>3, <2>4, <2>5 DEF WaitForEvent, Event
<1>13. CASE Interrupt
  <2>1. gSessionGeneration' = gSessionGeneration /\ gNextSyntheticHandle' = gNextSyntheticHandle
    BY <1>13 DEF Interrupt, session, registry
  <2>2. CASE gPauseCallback = NoPause
    BY <1>13, <2>1, <2>2 DEF Interrupt
  <2>3. CASE gPauseCallback # NoPause
    <3>1. gPauseCallback \in 1..gSessionGeneration
      BY <2>3 DEF RequestsTyped, NoPause
    <3>2. gCallbackQueue' = <<Work("pause", NoHandle, gPauseCallback)>>
      BY <1>13, <2>3 DEF Interrupt
    <3>3. QED
      BY <2>1, <3>1, <3>2 DEF Work
  <2>4. QED
    BY <2>2, <2>3
<1>14. CASE AlreadyQueued
  BY <1>14 DEF AlreadyQueued, session, registry, requests, dbgeng
<1>15. CASE LoopEnds
  BY <1>15 DEF LoopEnds, NoTarget, Allows, registry, requests, dbgeng
<1>16. CASE RunWork
  BY <1>16 DEF RunWork, session, AfterWork, requests, dbgeng, Registered, Unregistered,
         Restrict
<1>17. CASE Resume
  BY <1>17 DEF Resume, EngineEnds, session, registry, requests
<1>18. CASE runTtd
  <2>1. gSessionGeneration' = gSessionGeneration /\ gSessionGeneration \in Nat \ {0}
        /\ gNextSyntheticHandle' = gNextSyntheticHandle
    BY <1>18 DEF runTtd, session, registry
  <2>2. CASE queueCallback("event", NoHandle)
    BY <2>1, <2>2, QueueGrows DEF queueCallback
  <2>3. CASE gPauseCallback # NoPause /\ gCallbackQueue' = <<Work("pause", NoHandle,
         gPauseCallback)>>
    <3>1. gPauseCallback \in 1..gSessionGeneration
      BY <2>3 DEF RequestsTyped, NoPause
    <3>2. QED
      BY <2>1, <2>3, <3>1 DEF Work
  <2>4. QED
    BY <1>18, <2>2, <2>3 DEF runTtd
<1>19. CASE ReplayEnds
  BY <1>19 DEF ReplayEnds, registry, requests, dbgeng
<1>20. CASE CloseHandles
  BY <1>20 DEF CloseHandles, closeCallerOwnedTitanHandles, session, requests, dbgeng,
         CallerOwned, NoHandles
<1>21. CASE ResetRequests
  BY <1>21 DEF ResetRequests, resetTtdSession, session, registry, dbgeng
<1>22. CASE Ended
  BY <1>22 DEF Ended, registry, requests, dbgeng
<1>23. CASE StopRequested
  BY <1>23 DEF StopRequested, NoCall, At, StopCall, dbgeng, EngineEnds, session, registry, Stopping
<1>24. CASE StopChecked
  BY <1>24 DEF StopChecked, At, LeavesItToLoop, NoCall, StopCall, session, registry,
         requests, dbgeng, Stopping
<1>25. CASE StopCloses
  BY <1>25 DEF StopCloses, At, StopCall, closeCallerOwnedTitanHandles, resetTtdSession,
         requests, session, dbgeng, Stopping, CallerOwned, NoHandles
<1>26. CASE StopReturns
  BY <1>26 DEF StopReturns, At, NoCall, registry, requests, dbgeng, Stopping
<1>27. CASE PauseExchanged
  BY <1>27 DEF PauseExchanged, NoCall, PauseCall, session, registry, dbgeng
<1>28. CASE Interrupted
  BY <1>28 DEF Interrupted, PauseCall, NoCall, Accepts, session, registry, HasCursor, Allows
<1>28a. CASE InterruptFlagged
  BY <1>28a DEF InterruptFlagged, PauseCall, session, registry, dbgeng
<1>28b. CASE ReplayInterrupted
  BY <1>28b DEF ReplayInterrupted, HasCursor, registry, requests, dbgeng
<1>29. CASE OpenReturns
  BY <1>29 DEF OpenReturns, NoCall, session, Registered, requests, dbgeng
<1>30. CASE StopDebug
  BY <1>30 DEF StopDebug, NoCall, Allows, StopCall, session, registry, requests, dbgeng
<1>31. CASE RequestPause
  BY <1>31 DEF RequestPause, NoCall, PauseCall, session, registry, requests, dbgeng
<1>32. CASE TitanOpenNative
  BY <1>32 DEF TitanOpenNative, ToBeRegistered, NoCall, Allows, Free, session, requests, dbgeng
<1>33. CASE TitanOpenSynthetic
  BY <1>33 DEF TitanOpenSynthetic, NoCall, session, Registered, requests, dbgeng
<1>34. CASE TitanCloseHandle
  BY <1>34 DEF TitanCloseHandle, NoCall, CallerOwned, Unregistered, session, requests,
         dbgeng, Restrict
<1>34a. CASE DetachDebuggerEx
  BY <1>34a DEF DetachDebuggerEx, EngineEnds, Allows, session, registry, requests
<1>35. CASE UNCHANGED vars
  BY <1>35 DEF vars, session, registry, requests, dbgeng, CallerOwned
<1>36. QED
  BY <1>1, <1>2, <1>3, <1>4, <1>5, <1>6, <1>7, <1>8, <1>9, <1>10, <1>11, <1>12, <1>13,
     <1>14, <1>15, <1>16, <1>17, <1>18, <1>19, <1>20, <1>21, <1>22, <1>23, <1>24, <1>25,
     <1>26, <1>27, <1>28, <1>28a, <1>28b, <1>29, <1>30, <1>31, <1>32, <1>33, <1>34, <1>34a,
            <1>35 DEF Next, Crashed, Beginning, Loop, Returning, Calling

\* DbgEng has a process exactly while its session is live.
LEMMA EngineTypes ==
  ASSUME Typed, [Next]_vars
  PROVE  EngineTyped'
<1> USE SessionAssumption DEF Typed, EngineTyped, RequestsTyped, Engines, CallType, NoCall
<1>1. CASE Beginning
  BY <1>1 DEF Beginning, Create, MayBegin, dbgeng, Free, NewTarget, queueCallback, registry,
         Stopping, Allows, Work, CreateFails, ProcessCreated, EngineEnds, session, requests,
         Launched, Registered, Attached, OpenReplay, closeCallerOwnedTitanHandles,
         CallerOwned, NoHandles, ReplayOpened, ReplayFails, resetTtdSession
<1>2. CASE Loop
  BY <1>2 DEF Loop, DebugLoop, Stopping, Allows, registry, requests, dbgeng, Abandoned,
         session, WaitForEvent, Event, queueCallback, Free, Work, Interrupt, AlreadyQueued,
         LoopEnds, NoTarget, RunWork, AfterWork, Registered, Unregistered, Restrict, Resume,
         EngineEnds, runTtd, ReplayEnds, CloseHandles, closeCallerOwnedTitanHandles,
         CallerOwned, NoHandles, ResetRequests, resetTtdSession, Ended
<1>3. CASE Returning
  BY <1>3 DEF Returning, StopRequested, At, StopCall, dbgeng, EngineEnds, session, registry,
         Stopping, StopChecked, LeavesItToLoop, requests, StopCloses,
         closeCallerOwnedTitanHandles, resetTtdSession, CallerOwned, NoHandles, StopReturns,
         PauseExchanged, PauseCall, Interrupted, InterruptFlagged, ReplayInterrupted, Accepts,
                HasCursor, Allows, OpenReturns,
         Registered
<1>4. CASE Calling
  BY <1>4 DEF Calling, StopDebug, Allows, StopCall, session, registry, requests, dbgeng,
         RequestPause, PauseCall, TitanOpenNative, ToBeRegistered, DetachDebuggerEx, EngineEnds,
                Free, TitanOpenSynthetic, Registered,
         TitanCloseHandle, CallerOwned, Unregistered, Restrict
<1>5. CASE UNCHANGED vars
  BY <1>5 DEF vars, session, registry, requests, dbgeng, CallerOwned
<1>6. QED
  BY <1>1, <1>2, <1>3, <1>4, <1>5 DEF Next, Crashed

LEMMA TypedInvariant == Spec => []Typed
<1>1. Init => Typed
  <2> SUFFICES ASSUME Init PROVE Typed
    OBVIOUS
  <2> USE SessionAssumption DEF Init, NoHandles, NoPause, NoCall
  <2>1. SessionTyped
    <3>1. gIsDebugging \in BOOLEAN /\ ~gIsDebugging
      BY Zenon
    <3>2. QED
      BY <3>1 DEF SessionTyped, Phase, Running, Kind
  <2>2. call \in CallType /\ call.op = "none"
    BY DEF CallType
  <2>3. gTtdStopRequested \in BOOLEAN /\ gTtdInterruptRequested \in BOOLEAN
    BY Zenon DEF Init
  <2>4. RequestsTyped
    BY <2>2, <2>3 DEF RequestsTyped
  <2>5. RegistryTyped
    BY DEF RegistryTyped, GivenOut
  <2>6. QueueTyped
    BY DEF QueueTyped, GivenOut
  <2>7. EngineTyped
    BY DEF EngineTyped, Engines
  <2>8. QED
    BY <2>1, <2>4, <2>5, <2>6, <2>7 DEF Typed
<1>2. Typed /\ [Next]_vars => Typed'
  BY SessionTypes, RequestTypes, RegistryTypes, QueueTypes, EngineTypes DEF Typed
<1>3. QED
  BY <1>1, <1>2, PTL DEF Spec

\* All variables stay in their domains and the loop's flag agrees with the
\* debug thread, whatever InitDebugW, DebugLoop, StopDebug, RequestPause
\* and TitanOpenProcess do next to each other.
THEOREM SessionTypeInvariant == Spec => []TypeOK
<1>1. Typed => TypeOK
  BY DEF Typed, SessionTyped, RequestsTyped, RegistryTyped, QueueTyped, EngineTyped, TypeOK,
     Phase, Running, GivenOut
<1>2. QED
  BY <1>1, TypedInvariant, PTL

-----------------------------------------------------------------------------
(* How far a session and its StopDebug are determines the rest.            *)

Beginnings == {"launch", "attach", "MINIDUMP", "TTD"}

KindByPhase ==
  /\ pc \in {"idle"} \cup Beginnings => gSessionKind = "NONE"
  /\ pc \in {"loop", "work"} => gSessionKind \in {"LIVE", "MINIDUMP"}
  /\ pc = "replay" => gSessionKind = "TTD"

\* Has the session got nothing to show yet, or no more?
Blank == gSessionKind = "NONE" /\ pc \notin {"launch", "attach"}

EngineByPhase ==
  /\ Blank \/ gSessionKind = "TTD" \/ pc \in Over => engine = "none"
  /\ pc \in {"launch", "attach"} => engine = "live"
  /\ engine = "dump" => gSessionKind = "MINIDUMP"

QueueByPhase ==
  /\ Blank \/ pc \in Over => gCallbackQueue = <<>>
  /\ \A i \in DOMAIN gCallbackQueue : gCallbackQueue[i].gen = gSessionGeneration
  /\ pc \in {"launch", "attach"} =>
       \A i \in DOMAIN gCallbackQueue : gCallbackQueue[i].type = "create"

OnlyCallers == DOMAIN gHandleRegistry = CallerOwned
RegistryByPhase == gSessionKind = "NONE" \/ pc \in {"closed", "reset"} => OnlyCallers

StopByPhase ==
  Stopping =>
    /\ pc \notin Beginnings /\ gSessionKind \in {call.kind, "NONE"}
    /\ call.at # "request" => engine = "none"
    /\ call.at \in {"close", "reset"} => call.kind # "LIVE" /\ pc \notin Running
    /\ call.at = "reset" => 
         gCallbackQueue = <<>> /\ ~gTtdStopRequested /\ ~gTtdInterruptRequested /\ OnlyCallers

\* A stop is known to the call that makes it or to the loop that will see it, a pause
\* to the call that may withdraw it or to the loop.
StopKnown ==
  gTtdStopRequested =>
    \/ pc \in {"replay", "ending", "closed"} /\ gSessionKind = "TTD"
    \/ Stopping /\ call.kind = "TTD" /\ call.at \in {"check", "close"}
PauseKnown ==
  /\ call.op = "pause" =>
       /\ call.gen = gSessionGeneration /\ pc \in Running \cup Over \cup {"idle", "crashed"}
       /\ call.at \in {"flag", "replay"} => gSessionKind = "TTD" \/ pc \in {"idle", "crashed"}
  /\ gPauseCallback # NoPause =>
       /\ gPauseCallback = gSessionGeneration
       /\ \/ pc \in Running \cup {"ending", "closed"}
          \/ call.op = "pause" /\ call.at = "interrupt"
  /\ pc = "crashed" => call.op = "pause" /\ call.at = "replay"
  /\ gTtdInterruptRequested =>
       \/ pc \in {"replay", "ending", "closed"} /\ gSessionKind = "TTD"
       \/ call.op = "pause" /\ call.at = "replay"

\* The engine's handles, those work is about and the caller's are told apart.
HandlesApart ==
  /\ Engines \cap opened = {}
  /\ \A i \in DOMAIN gCallbackQueue :
       /\ gCallbackQueue[i].type = "create" => gCallbackQueue[i].handle \notin opened
       /\ engine = "live" /\ gCallbackQueue[i].type \in {"create", "exit"}
            => gCallbackQueue[i].handle \in Engines
  /\ call.op = "open" => call.handle \in opened \ CallerOwned
  /\ HandlesAccounted

Phases == KindByPhase /\ EngineByPhase /\ QueueByPhase /\ RegistryByPhase /\ StopByPhase
Life == Phases /\ StopKnown /\ PauseKnown /\ HandlesApart

\* The kind is known from the phase: StopDebug takes it away only without a loop.
LEMMA KindStep ==
  ASSUME Troubles = {}, Typed, Typed', Life, [Next]_vars
  PROVE  KindByPhase'
<1> USE SessionAssumption DEF Stopping, Typed, SessionTyped, RequestsTyped, CallType,
      NoCall, NoPause, Kind, Phase, Running, Over, Beginnings, Life, Phases, KindByPhase,
      Blank, EngineByPhase, StopByPhase
<1>1. CASE Beginning
  BY <1>1 DEF Beginning, Create, MayBegin, dbgeng, Free, NewTarget, queueCallback, registry,
         Allows, Work, CreateFails, ProcessCreated, EngineEnds, session, requests, Launched,
         Registered, Attached, OpenReplay, closeCallerOwnedTitanHandles, CallerOwned,
         NoHandles, ReplayOpened, ReplayFails, resetTtdSession
<1>2. CASE Loop
  BY <1>2 DEF Loop, DebugLoop, Allows, registry, requests, dbgeng, Abandoned, session,
         WaitForEvent, Event, queueCallback, Free, Work, Interrupt, AlreadyQueued, LoopEnds,
                NoTarget,
         RunWork, AfterWork, Registered, Unregistered, Restrict, Resume, EngineEnds, runTtd,
         ReplayEnds, CloseHandles, closeCallerOwnedTitanHandles, CallerOwned, NoHandles,
         ResetRequests, resetTtdSession, Ended
<1>3. CASE Returning
  <2>1. CASE StopRequested
    BY <2>1 DEF StopRequested, At, StopCall, NoCall, EngineEnds, session, registry, dbgeng, Stopping
  <2>2. CASE StopChecked
    BY <2>2 DEF StopChecked, At, StopCall, NoCall, LeavesItToLoop, session, registry, requests,
           dbgeng, Stopping
  <2>3. CASE StopCloses
    BY <2>3 DEF StopCloses, At, StopCall, closeCallerOwnedTitanHandles, resetTtdSession,
           CallerOwned,
         NoHandles, requests, session, dbgeng, Stopping
  <2>4. CASE StopReturns
    BY <2>4 DEF StopReturns, At, NoCall, registry, requests, dbgeng, Stopping
  <2>5. CASE PauseExchanged
    BY <2>5 DEF PauseExchanged, PauseCall, NoCall, session, registry, dbgeng, Stopping
  <2>6. CASE Interrupted
    BY <2>6 DEF Interrupted, PauseCall, NoCall, Accepts, HasCursor, Allows, session, registry,
           dbgeng, Stopping
  <2>7. CASE InterruptFlagged
    BY <2>7 DEF InterruptFlagged, PauseCall, session, registry, dbgeng, Stopping
  <2>8. CASE ReplayInterrupted
    BY <2>8 DEF ReplayInterrupted, HasCursor, NoCall, registry, requests, dbgeng, Stopping
  <2>9. CASE OpenReturns
    BY <2>9 DEF OpenReturns, NoCall, Registered, session, requests, dbgeng, Stopping
  <2>10. QED
    BY <1>3, <2>1, <2>2, <2>3, <2>4, <2>5, <2>6, <2>7, <2>8, <2>9 DEF Returning
<1>4. CASE Calling
  BY <1>4 DEF Calling, StopDebug, Allows, StopCall, session, registry, requests, dbgeng,
         RequestPause, PauseCall, TitanOpenNative, ToBeRegistered, DetachDebuggerEx, EngineEnds,
                Free, TitanOpenSynthetic, Registered,
         TitanCloseHandle, CallerOwned, Unregistered, Restrict
<1>5. CASE UNCHANGED vars
  BY <1>5 DEF vars, session, registry, requests, dbgeng, CallerOwned
<1>6. QED
  BY <1>1, <1>2, <1>3, <1>4, <1>5 DEF Next, Crashed

\* DbgEng has a session in the phases of one.
LEMMA EngineStep ==
  ASSUME Troubles = {}, Typed, Typed', Life, [Next]_vars
  PROVE  EngineByPhase'
<1> USE SessionAssumption DEF Stopping, Typed, SessionTyped, RequestsTyped, CallType,
      NoCall, NoPause, Kind, Phase, Running, Over, Beginnings, Life, Phases, KindByPhase,
      Blank, EngineByPhase, StopByPhase, EngineTyped
<1>1. CASE Create("launch")
  BY <1>1 DEF Create, MayBegin, dbgeng, Free, NewTarget, queueCallback, registry, Allows,
         Work
<1>2. CASE Create("attach")
  BY <1>2 DEF Create, MayBegin, dbgeng, Free, NewTarget, queueCallback, registry, Allows,
         Work
<1>3. CASE CreateFails
  BY <1>3 DEF CreateFails, ProcessCreated, Allows, EngineEnds, session, registry, requests
<1>4. CASE Launched
  BY <1>4 DEF Launched, ProcessCreated, Free, Registered, requests, dbgeng
<1>5. CASE Attached
  BY <1>5 DEF Attached, ProcessCreated, registry, requests, dbgeng
<1>6. CASE OpenReplay("MINIDUMP")
  BY <1>6 DEF OpenReplay, MayBegin, closeCallerOwnedTitanHandles, requests, dbgeng, Allows,
         CallerOwned, NoHandles
<1>7. CASE OpenReplay("TTD")
  BY <1>7 DEF OpenReplay, MayBegin, closeCallerOwnedTitanHandles, requests, dbgeng, Allows,
         CallerOwned, NoHandles
<1>8. CASE ReplayOpened
  BY <1>8 DEF ReplayOpened, Registered, Work, requests
<1>9. CASE ReplayFails
  BY <1>9 DEF ReplayFails, resetTtdSession, NoHandles, CallerOwned, EngineEnds
<1>10. CASE DebugLoop
  BY <1>10 DEF DebugLoop, Allows, registry, requests, dbgeng
<1>11. CASE Abandoned
  BY <1>11 DEF Abandoned, session, registry, requests, dbgeng
<1>12. CASE WaitForEvent
  BY <1>12 DEF WaitForEvent, session, registry, requests, Event, queueCallback, dbgeng,
         Free, Work
<1>13. CASE Interrupt
  BY <1>13 DEF Interrupt, Work, session, registry
<1>14. CASE AlreadyQueued
  BY <1>14 DEF AlreadyQueued, session, registry, requests, dbgeng
<1>15. CASE LoopEnds
  BY <1>15 DEF LoopEnds, NoTarget, Allows, registry, requests, dbgeng
<1>16. CASE RunWork
  BY <1>16 DEF RunWork, session, AfterWork, requests, dbgeng, Registered, Unregistered,
         Restrict
<1>17. CASE Resume
  BY <1>17 DEF Resume, EngineEnds, session, registry, requests
<1>18. CASE runTtd
  BY <1>18 DEF runTtd, session, queueCallback, Work, registry, dbgeng
<1>19. CASE ReplayEnds
  BY <1>19 DEF ReplayEnds, registry, requests, dbgeng
<1>20. CASE CloseHandles
  BY <1>20 DEF CloseHandles, closeCallerOwnedTitanHandles, session, requests, dbgeng,
         CallerOwned, NoHandles
<1>21. CASE ResetRequests
  BY <1>21 DEF ResetRequests, resetTtdSession, session, registry, dbgeng
<1>22. CASE Ended
  BY <1>22 DEF Ended, registry, requests, dbgeng
<1>23. CASE Returning
  <2>1. CASE StopRequested
    BY <2>1 DEF StopRequested, At, StopCall, NoCall, EngineEnds, session, registry, dbgeng, Stopping
  <2>2. CASE StopChecked
    BY <2>2 DEF StopChecked, At, StopCall, NoCall, LeavesItToLoop, session, registry, requests,
           dbgeng, Stopping
  <2>3. CASE StopCloses
    BY <2>3 DEF StopCloses, At, StopCall, closeCallerOwnedTitanHandles, resetTtdSession,
           CallerOwned,
         NoHandles, requests, session, dbgeng, Stopping
  <2>4. CASE StopReturns
    BY <2>4 DEF StopReturns, At, NoCall, registry, requests, dbgeng, Stopping
  <2>5. CASE PauseExchanged
    BY <2>5 DEF PauseExchanged, PauseCall, NoCall, session, registry, dbgeng, Stopping
  <2>6. CASE Interrupted
    BY <2>6 DEF Interrupted, PauseCall, NoCall, Accepts, HasCursor, Allows, session, registry,
           dbgeng, Stopping
  <2>7. CASE InterruptFlagged
    BY <2>7 DEF InterruptFlagged, PauseCall, session, registry, dbgeng, Stopping
  <2>8. CASE ReplayInterrupted
    BY <2>8 DEF ReplayInterrupted, PauseKnown, HasCursor, NoCall, registry, requests, dbgeng,
           Stopping
  <2>9. CASE OpenReturns
    BY <2>9 DEF OpenReturns, NoCall, Registered, session, requests, dbgeng, Stopping
  <2>10. QED
    BY <1>23, <2>1, <2>2, <2>3, <2>4, <2>5, <2>6, <2>7, <2>8, <2>9 DEF Returning
<1>24. CASE Calling
  BY <1>24 DEF Calling, StopDebug, Allows, StopCall, session, registry, requests, dbgeng,
         RequestPause, PauseCall, TitanOpenNative, ToBeRegistered, DetachDebuggerEx, EngineEnds,
                Free, TitanOpenSynthetic, Registered,
         TitanCloseHandle, CallerOwned, Unregistered, Restrict
<1>25. CASE UNCHANGED vars
  BY <1>25 DEF vars, session, registry, requests, dbgeng, CallerOwned
<1>26. QED
  BY <1>1, <1>2, <1>3, <1>4, <1>5, <1>6, <1>7, <1>8, <1>9, <1>10, <1>11, <1>12, <1>13,
     <1>14, <1>15, <1>16, <1>17, <1>18, <1>19, <1>20, <1>21, <1>22, <1>23, <1>24, <1>25 DEF Next,
            Crashed, Beginning, Loop

\* A sequence without indices is empty.
LEMMA NoItems ==
  ASSUME NEW S, NEW s \in Seq(S), \A i \in DOMAIN s : FALSE
  PROVE  s = <<>>
<1>1. s \in Seq(S) /\ DOMAIN s = 1..Len(s) /\ Len(s) \in Nat
  OBVIOUS
<1>2. Len(s) = 0
  BY <1>1
<1>3. QED
  BY <1>1, <1>2

\* Each beginning finds the queue empty, so all its work is of one session.
LEMMA QueueStep ==
  ASSUME Troubles = {}, Typed, Typed', Life, [Next]_vars
  PROVE  QueueByPhase'
<1> USE SessionAssumption DEF Stopping, Typed, SessionTyped, RequestsTyped, CallType,
      NoCall, NoPause, Kind, Phase, Running, Over, Beginnings, Life, Phases, KindByPhase,
      Blank, EngineByPhase, StopByPhase, QueueByPhase
<1>1. CASE Create("launch")
  <2>1. gCallbackQueue = <<>> /\ gSessionKind = "NONE" /\ gSessionKind' = "NONE"
    BY <1>1 DEF Create, MayBegin
  <2>2. CASE UNCHANGED gCallbackQueue
    BY <1>1, <2>1, <2>2 DEF Create, MayBegin
  <2>3. CASE pc' \in {"launch", "attach"} /\ \E h \in Free : queueCallback("create", h)
    <3>1. PICK h : gCallbackQueue' = <<Work("create", h, gSessionGeneration')>>
      BY <2>1, <2>3 DEF queueCallback
    <3>2. \A i \in DOMAIN gCallbackQueue' :
             gCallbackQueue'[i].type = "create" /\ gCallbackQueue'[i].gen = gSessionGeneration'
      BY <3>1 DEF Work
    <3>3. QED
      BY <2>3, <3>2
  <2>4. QED
    BY <1>1, <2>2, <2>3 DEF Create
<1>2. CASE Create("attach")
  <2>1. gCallbackQueue = <<>> /\ gSessionKind = "NONE" /\ gSessionKind' = "NONE"
    BY <1>2 DEF Create, MayBegin
  <2>2. CASE UNCHANGED gCallbackQueue
    BY <1>2, <2>1, <2>2 DEF Create, MayBegin
  <2>3. CASE pc' \in {"launch", "attach"} /\ \E h \in Free : queueCallback("create", h)
    <3>1. PICK h : gCallbackQueue' = <<Work("create", h, gSessionGeneration')>>
      BY <2>1, <2>3 DEF queueCallback
    <3>2. \A i \in DOMAIN gCallbackQueue' :
             gCallbackQueue'[i].type = "create" /\ gCallbackQueue'[i].gen = gSessionGeneration'
      BY <3>1 DEF Work
    <3>3. QED
      BY <2>3, <3>2
  <2>4. QED
    BY <1>2, <2>2, <2>3 DEF Create
<1>3. CASE CreateFails
  <2>1. \A i \in DOMAIN gCallbackQueue : FALSE
    BY <1>3 DEF CreateFails, ProcessCreated, Allows
  <2> DEFINE Works == [type : WorkType, handle : Handle \cup Token \cup {NoHandle},
                       gen : 1..gSessionGeneration]
  <2>1a. gCallbackQueue \in Seq(Works)
    BY DEF QueueTyped
  <2> HIDE DEF Works
  <2>2. gCallbackQueue = <<>>
    BY <2>1, <2>1a, NoItems
  <2>3. gCallbackQueue' = gCallbackQueue
    BY <1>3, Zenon DEF CreateFails
  <2>4. gCallbackQueue' = <<>>
    BY <2>2, <2>3, Zenon
  <2>5. QED
    BY <2>4
<1>4. CASE Launched
  BY <1>4 DEF Launched, ProcessCreated, Free, Registered, requests, dbgeng
<1>5. CASE Attached
  BY <1>5 DEF Attached, ProcessCreated, registry, requests, dbgeng
<1>6. CASE OpenReplay("MINIDUMP")
  BY <1>6 DEF OpenReplay, MayBegin, closeCallerOwnedTitanHandles, requests, dbgeng, Allows,
         CallerOwned, NoHandles
<1>7. CASE OpenReplay("TTD")
  BY <1>7 DEF OpenReplay, MayBegin, closeCallerOwnedTitanHandles, requests, dbgeng, Allows,
         CallerOwned, NoHandles
<1>8. CASE ReplayOpened
  BY <1>8 DEF ReplayOpened, Registered, Work, requests
<1>9. CASE ReplayFails
  BY <1>9 DEF ReplayFails, resetTtdSession, NoHandles, CallerOwned, EngineEnds
<1>10. CASE DebugLoop
  BY <1>10 DEF DebugLoop, Allows, registry, requests, dbgeng
<1>11. CASE Abandoned
  BY <1>11 DEF Abandoned, session, registry, requests, dbgeng
<1>12. CASE WaitForEvent
  BY <1>12 DEF WaitForEvent, session, registry, requests, Event, queueCallback, dbgeng,
         Free, Work
<1>13. CASE Interrupt
  <2>1. gSessionGeneration' = gSessionGeneration /\ gCallbackQueue = <<>>
        /\ pc' \in {"work", "replay"} /\ gSessionKind' # "NONE"
    BY <1>13 DEF Interrupt, session
  <2>2. gCallbackQueue' = <<>> \/ \E type, h : gCallbackQueue' = <<Work(type, h,
         gSessionGeneration)>>
    BY <1>13, <2>1 DEF Interrupt, queueCallback, PauseKnown
  <2>3. \A i \in DOMAIN gCallbackQueue' : gCallbackQueue'[i].gen = gSessionGeneration
    BY <2>2 DEF Work
  <2>4. QED
    BY <2>1, <2>3
<1>14. CASE AlreadyQueued
  BY <1>14 DEF AlreadyQueued, session, registry, requests, dbgeng
<1>15. CASE LoopEnds
  BY <1>15 DEF LoopEnds, NoTarget, Allows, registry, requests, dbgeng
<1>16. CASE RunWork
  <2>1. UNCHANGED <<gSessionKind, gSessionGeneration, pc>> /\ gCallbackQueue # <<>>
        /\ gCallbackQueue' = Tail(gCallbackQueue)
    BY <1>16 DEF RunWork, session
  <2>2. \A i \in DOMAIN gCallbackQueue' :
          i + 1 \in DOMAIN gCallbackQueue /\ gCallbackQueue'[i] = gCallbackQueue[i + 1]
    BY <2>1 DEF QueueTyped
  <2>3. pc \in {"work", "replay"}
    BY <1>16 DEF RunWork
  <2>4. QED
    BY <2>1, <2>2, <2>3
<1>17. CASE Resume
  BY <1>17 DEF Resume, EngineEnds, session, registry, requests
<1>18. CASE runTtd
  <2>1. gSessionGeneration' = gSessionGeneration /\ gCallbackQueue = <<>>
        /\ pc' \in {"work", "replay"} /\ gSessionKind' # "NONE"
    BY <1>18 DEF runTtd, session
  <2>2. gCallbackQueue' = <<>> \/ \E type, h : gCallbackQueue' = <<Work(type, h,
         gSessionGeneration)>>
    BY <1>18, <2>1 DEF runTtd, queueCallback, PauseKnown
  <2>3. \A i \in DOMAIN gCallbackQueue' : gCallbackQueue'[i].gen = gSessionGeneration
    BY <2>2 DEF Work
  <2>4. QED
    BY <2>1, <2>3
<1>19. CASE ReplayEnds
  BY <1>19 DEF ReplayEnds, registry, requests, dbgeng
<1>20. CASE CloseHandles
  BY <1>20 DEF CloseHandles, closeCallerOwnedTitanHandles, session, requests, dbgeng,
         CallerOwned, NoHandles
<1>21. CASE ResetRequests
  BY <1>21 DEF ResetRequests, resetTtdSession, session, registry, dbgeng
<1>22. CASE Ended
  BY <1>22 DEF Ended, registry, requests, dbgeng
<1>23. CASE Returning
  <2>1. CASE StopRequested
    BY <2>1 DEF StopRequested, At, StopCall, NoCall, EngineEnds, session, registry, dbgeng, Stopping
  <2>2. CASE StopChecked
    BY <2>2 DEF StopChecked, At, StopCall, NoCall, LeavesItToLoop, session, registry, requests,
           dbgeng, Stopping
  <2>3. CASE StopCloses
    BY <2>3 DEF StopCloses, At, StopCall, closeCallerOwnedTitanHandles, resetTtdSession,
           CallerOwned,
         NoHandles, requests, session, dbgeng, Stopping
  <2>4. CASE StopReturns
    BY <2>4 DEF StopReturns, At, NoCall, registry, requests, dbgeng, Stopping
  <2>5. CASE PauseExchanged
    BY <2>5 DEF PauseExchanged, PauseCall, NoCall, session, registry, dbgeng, Stopping
  <2>6. CASE Interrupted
    BY <2>6 DEF Interrupted, PauseCall, NoCall, Accepts, HasCursor, Allows, session, registry,
           dbgeng, Stopping
  <2>7. CASE InterruptFlagged
    BY <2>7 DEF InterruptFlagged, PauseCall, session, registry, dbgeng, Stopping
  <2>8. CASE ReplayInterrupted
    BY <2>8 DEF ReplayInterrupted, PauseKnown, HasCursor, NoCall, registry, requests, dbgeng,
           Stopping
  <2>9. CASE OpenReturns
    BY <2>9 DEF OpenReturns, NoCall, Registered, session, requests, dbgeng, Stopping
  <2>10. QED
    BY <1>23, <2>1, <2>2, <2>3, <2>4, <2>5, <2>6, <2>7, <2>8, <2>9 DEF Returning
<1>24. CASE Calling
  BY <1>24 DEF Calling, StopDebug, Allows, StopCall, session, registry, requests, dbgeng,
         RequestPause, PauseCall, TitanOpenNative, ToBeRegistered, DetachDebuggerEx, EngineEnds,
                Free, TitanOpenSynthetic, Registered,
         TitanCloseHandle, CallerOwned, Unregistered, Restrict
<1>25. CASE UNCHANGED vars
  BY <1>25 DEF vars, session, registry, requests, dbgeng, CallerOwned
<1>26. QED
  BY <1>1, <1>2, <1>3, <1>4, <1>5, <1>6, <1>7, <1>8, <1>9, <1>10, <1>11, <1>12, <1>13,
     <1>14, <1>15, <1>16, <1>17, <1>18, <1>19, <1>20, <1>21, <1>22, <1>23, <1>24, <1>25 DEF Next,
            Crashed, Beginning, Loop

\* Between sessions only handles of the caller's are registered.
LEMMA RegistryStep ==
  ASSUME Troubles = {}, Typed, Typed', Life, [Next]_vars
  PROVE  RegistryByPhase'
<1> USE SessionAssumption DEF Typed, SessionTyped, RequestsTyped, RegistryTyped, QueueTyped,
      EngineTyped, Stopping, Phase, Running, Over, Token, Kind, NoPause, CallType, NoCall,
      Engines, GivenOut, WorkType, Life, Phases, Beginnings, KindByPhase, Blank,
      EngineByPhase, QueueByPhase, OnlyCallers, CallerOwned, RegistryByPhase, StopByPhase,
      StopKnown, PauseKnown, HandlesApart, HandlesAccounted
<1>1. CASE Create("launch")
  BY <1>1 DEF Create, MayBegin, dbgeng, Free, NewTarget, queueCallback, registry, Allows,
         Work
<1>2. CASE Create("attach")
  BY <1>2 DEF Create, MayBegin, dbgeng, Free, NewTarget, queueCallback, registry, Allows,
         Work
<1>3. CASE CreateFails
  BY <1>3 DEF CreateFails, ProcessCreated, Allows, EngineEnds, session, registry, requests
<1>4. CASE Launched
  BY <1>4 DEF Launched, ProcessCreated, Free, Registered, requests, dbgeng
<1>5. CASE Attached
  BY <1>5 DEF Attached, ProcessCreated, registry, requests, dbgeng
<1>6. CASE OpenReplay("MINIDUMP")
  BY <1>6 DEF OpenReplay, MayBegin, closeCallerOwnedTitanHandles, requests, dbgeng, Allows,
         NoHandles
<1>7. CASE OpenReplay("TTD")
  BY <1>7 DEF OpenReplay, MayBegin, closeCallerOwnedTitanHandles, requests, dbgeng, Allows,
         NoHandles
<1>8. CASE ReplayOpened
  BY <1>8 DEF ReplayOpened, Registered, Work, requests
<1>9. CASE ReplayFails
  BY <1>9 DEF ReplayFails, resetTtdSession, NoHandles, EngineEnds
<1>10. CASE DebugLoop
  BY <1>10 DEF DebugLoop, Allows, registry, requests, dbgeng
<1>11. CASE Abandoned
  BY <1>11 DEF Abandoned, session, registry, requests, dbgeng
<1>12. CASE WaitForEvent
  BY <1>12 DEF WaitForEvent, session, registry, requests, Event, queueCallback, dbgeng,
         Free, Work
<1>13. CASE Interrupt
  BY <1>13 DEF Interrupt, Work, session, registry
<1>14. CASE AlreadyQueued
  BY <1>14 DEF AlreadyQueued, session, registry, requests, dbgeng
<1>15. CASE LoopEnds
  BY <1>15 DEF LoopEnds, NoTarget, Allows, registry, requests, dbgeng
<1>16. CASE RunWork
  BY <1>16 DEF RunWork, session, AfterWork, requests, dbgeng, Registered, Unregistered,
         Restrict
<1>17. CASE Resume
  BY <1>17 DEF Resume, EngineEnds, session, registry, requests
<1>18. CASE runTtd
  BY <1>18 DEF runTtd, session, queueCallback, Work, registry, dbgeng
<1>19. CASE ReplayEnds
  BY <1>19 DEF ReplayEnds, registry, requests, dbgeng
<1>20. CASE CloseHandles
  BY <1>20 DEF CloseHandles, closeCallerOwnedTitanHandles, session, requests, dbgeng,
         NoHandles
<1>21. CASE ResetRequests
  BY <1>21 DEF ResetRequests, resetTtdSession, session, registry, dbgeng
<1>22. CASE Ended
  BY <1>22 DEF Ended, registry, requests, dbgeng
<1>23. CASE StopRequested
  BY <1>23 DEF StopRequested, NoCall, At, StopCall, dbgeng, EngineEnds, session, registry
<1>24. CASE StopChecked
  BY <1>24 DEF StopChecked, At, LeavesItToLoop, StopCall, session, registry, requests,
         dbgeng
<1>25. CASE StopCloses
  BY <1>25 DEF StopCloses, At, StopCall, closeCallerOwnedTitanHandles, resetTtdSession,
         requests, session, dbgeng, NoHandles
<1>26. CASE StopReturns
  BY <1>26 DEF StopReturns, At, registry, requests, dbgeng
<1>27. CASE PauseExchanged
  BY <1>27 DEF PauseExchanged, PauseCall, session, registry, dbgeng
<1>28. CASE Interrupted
  BY <1>28 DEF Interrupted, PauseCall, Accepts, session, registry, HasCursor, Allows
<1>28a. CASE InterruptFlagged
  BY <1>28a DEF InterruptFlagged, PauseCall, session, registry, dbgeng
<1>28b. CASE ReplayInterrupted
  BY <1>28b DEF ReplayInterrupted, HasCursor, registry, requests, dbgeng
<1>29. CASE OpenReturns
  BY <1>29 DEF OpenReturns, session, Registered, requests, dbgeng
<1>30. CASE StopDebug
  BY <1>30 DEF StopDebug, Allows, StopCall, session, registry, requests, dbgeng
<1>31. CASE RequestPause
  BY <1>31 DEF RequestPause, PauseCall, session, registry, requests, dbgeng
<1>32. CASE TitanOpenNative
  BY <1>32 DEF TitanOpenNative, ToBeRegistered, Allows, Free, session, requests, dbgeng
<1>33. CASE TitanOpenSynthetic
  BY <1>33 DEF TitanOpenSynthetic, session, Registered, requests, dbgeng
<1>34. CASE TitanCloseHandle
  BY <1>34 DEF TitanCloseHandle, Unregistered, session, requests, dbgeng, Restrict
<1>34a. CASE DetachDebuggerEx
  BY <1>34a DEF DetachDebuggerEx, EngineEnds, Allows, session, registry, requests
<1>35. CASE UNCHANGED vars
  BY <1>35 DEF vars, session, registry, requests, dbgeng
<1>36. QED
  BY <1>1, <1>2, <1>3, <1>4, <1>5, <1>6, <1>7, <1>8, <1>9, <1>10, <1>11, <1>12, <1>13,
     <1>14, <1>15, <1>16, <1>17, <1>18, <1>19, <1>20, <1>21, <1>22, <1>23, <1>24, <1>25,
     <1>26, <1>27, <1>28, <1>28a, <1>28b, <1>29, <1>30, <1>31, <1>32, <1>33, <1>34, <1>34a,
            <1>35 DEF Next, Crashed, Beginning, Loop, Returning, Calling

\* A StopDebug that cleans up itself runs next to no beginning and no loop.
LEMMA StopStep ==
  ASSUME Troubles = {}, Typed, Typed', Life, [Next]_vars
  PROVE  StopByPhase'
<1> USE SessionAssumption DEF Stopping, Typed, SessionTyped, RequestsTyped, CallType,
      NoCall, NoPause, Kind, Phase, Running, Over, Beginnings, Life, Phases, KindByPhase,
      Blank, EngineByPhase, StopByPhase, QueueByPhase, RegistryByPhase, StopKnown,
      PauseKnown
<1>0. /\ UNCHANGED gHandleRegistry => (OnlyCallers' <=> OnlyCallers)
      /\ gHandleRegistry' = NoHandles => OnlyCallers'
  BY DEF OnlyCallers, CallerOwned, NoHandles
<1>1. CASE Beginning
  BY <1>1, <1>0 DEF Beginning, Create, MayBegin, dbgeng, Free, NewTarget, queueCallback,
         registry, Allows, Work, CreateFails, ProcessCreated, EngineEnds, session, requests,
         Launched, Registered, Attached, OpenReplay, closeCallerOwnedTitanHandles,
         ReplayOpened, ReplayFails, resetTtdSession
<1>2. CASE DebugLoop
  BY <1>2, <1>0 DEF DebugLoop, Allows, registry, requests, dbgeng
<1>3. CASE Abandoned
  BY <1>3, <1>0 DEF Abandoned, session, registry, requests, dbgeng
<1>4. CASE WaitForEvent
  BY <1>4, <1>0 DEF WaitForEvent, session, registry, requests, Event, queueCallback, dbgeng,
         Free, Work
<1>5. CASE Interrupt
  BY <1>5, <1>0 DEF Interrupt, Work, session, registry
<1>6. CASE AlreadyQueued
  BY <1>6, <1>0 DEF AlreadyQueued, session, registry, requests, dbgeng
<1>7. CASE LoopEnds
  BY <1>7, <1>0 DEF LoopEnds, NoTarget, Allows, registry, requests, dbgeng
<1>8. CASE RunWork
  BY <1>8, <1>0 DEF RunWork, session, AfterWork, requests, dbgeng, Registered, Unregistered,
         Restrict
<1>9. CASE Resume
  BY <1>9, <1>0 DEF Resume, EngineEnds, session, registry, requests
<1>10. CASE runTtd
  BY <1>10, <1>0 DEF runTtd, session, queueCallback, Work, registry, dbgeng
<1>11. CASE ReplayEnds
  BY <1>11, <1>0 DEF ReplayEnds, registry, requests, dbgeng
<1>12. CASE CloseHandles
  BY <1>12, <1>0 DEF CloseHandles, closeCallerOwnedTitanHandles, session, requests, dbgeng
<1>13. CASE ResetRequests
  BY <1>13, <1>0 DEF ResetRequests, resetTtdSession, session, registry, dbgeng
<1>14. CASE Ended
  BY <1>14, <1>0 DEF Ended, registry, requests, dbgeng
<1>15. CASE StopRequested
  BY <1>15, <1>0 DEF StopRequested, NoCall, At, StopCall, dbgeng, EngineEnds, session, registry
<1>16. CASE StopChecked
  BY <1>16, <1>0 DEF StopChecked, At, LeavesItToLoop, StopCall, session, registry, requests,
         dbgeng
<1>17. CASE StopCloses
  BY <1>17, <1>0 DEF StopCloses, At, StopCall, closeCallerOwnedTitanHandles,
         resetTtdSession, requests, session, dbgeng
<1>18. CASE StopReturns
  BY <1>18, <1>0 DEF StopReturns, At, registry, requests, dbgeng
<1>19. CASE PauseExchanged
  BY <1>19, <1>0 DEF PauseExchanged, PauseCall, session, registry, dbgeng
<1>20. CASE Interrupted
  BY <1>20, <1>0 DEF Interrupted, PauseCall, Accepts, session, registry, HasCursor, Allows
<1>20a. CASE InterruptFlagged
  BY <1>20a, <1>0 DEF InterruptFlagged, PauseCall, session, registry, dbgeng
<1>20b. CASE ReplayInterrupted
  BY <1>20b, <1>0 DEF ReplayInterrupted, HasCursor, registry, requests, dbgeng
<1>21. CASE OpenReturns
  BY <1>21, <1>0 DEF OpenReturns, session, Registered, requests, dbgeng
<1>22. CASE Calling
  BY <1>22, <1>0 DEF Calling, StopDebug, Allows, StopCall, session, registry, requests,
         dbgeng, RequestPause, PauseCall, TitanOpenNative, ToBeRegistered, DetachDebuggerEx,
                EngineEnds, Free, TitanOpenSynthetic,
         Registered, TitanCloseHandle, Unregistered, Restrict
<1>23. CASE UNCHANGED vars
  BY <1>23, <1>0 DEF vars, session, registry, requests, dbgeng
<1>24. QED
  BY <1>1, <1>2, <1>3, <1>4, <1>5, <1>6, <1>7, <1>8, <1>9, <1>10, <1>11, <1>12, <1>13,
     <1>14, <1>15, <1>16, <1>17, <1>18, <1>19, <1>20, <1>20a, <1>20b, <1>21, <1>22, <1>23 DEF Next,
            Crashed, Loop, Returning

\* A requested stop is always seen or reset by somebody.
LEMMA StopKnownStep ==
  ASSUME Troubles = {}, Typed, Typed', Life, [Next]_vars
  PROVE  StopKnown'
<1> USE SessionAssumption DEF Stopping, Typed, SessionTyped, RequestsTyped, CallType,
      NoCall, NoPause, Kind, Phase, Running, Over, Beginnings, Life, Phases, KindByPhase,
      Blank, EngineByPhase, StopByPhase, StopKnown
<1>1. CASE Beginning
  BY <1>1 DEF Beginning, Create, MayBegin, dbgeng, Free, NewTarget, queueCallback, registry,
         Allows, Work, CreateFails, ProcessCreated, EngineEnds, session, requests, Launched,
         Registered, Attached, OpenReplay, closeCallerOwnedTitanHandles, CallerOwned,
         NoHandles, ReplayOpened, ReplayFails, resetTtdSession
<1>2. CASE Loop
  BY <1>2 DEF Loop, DebugLoop, Allows, registry, requests, dbgeng, Abandoned, session,
         WaitForEvent, Event, queueCallback, Free, Work, Interrupt, AlreadyQueued, LoopEnds,
                NoTarget,
         RunWork, AfterWork, Registered, Unregistered, Restrict, Resume, EngineEnds, runTtd,
         ReplayEnds, CloseHandles, closeCallerOwnedTitanHandles, CallerOwned, NoHandles,
         ResetRequests, resetTtdSession, Ended
<1>3. CASE StopRequested
  <2>1. CASE call' = StopCall("check", call.kind) /\ call.kind = "TTD"
    BY <2>1 DEF StopCall
  <2>2. CASE call.kind # "TTD" /\ UNCHANGED gTtdStopRequested
    <3>1. gTtdStopRequested => pc \in {"replay", "ending", "closed"} /\ gSessionKind = "TTD"
      BY <2>2
    <3>2. UNCHANGED <<pc, gSessionKind>>
      BY <1>3 DEF StopRequested, session
    <3>3. QED
      BY <2>2, <3>1, <3>2
  <2>3. QED
    BY <1>3, <2>1, <2>2 DEF StopRequested
<1>4. CASE StopChecked
  BY <1>4 DEF StopChecked, At, LeavesItToLoop, StopCall, session, registry, requests, dbgeng
<1>5. CASE StopCloses
  BY <1>5 DEF StopCloses, At, StopCall, closeCallerOwnedTitanHandles, resetTtdSession,
         requests, session, dbgeng, CallerOwned, NoHandles
<1>6. CASE StopReturns
  BY <1>6 DEF StopReturns, At, registry, requests, dbgeng
<1>7. CASE PauseExchanged
  BY <1>7 DEF PauseExchanged, PauseCall, session, registry, dbgeng
<1>8. CASE Interrupted
  BY <1>8 DEF Interrupted, PauseCall, Accepts, session, registry, HasCursor, Allows
<1>8a. CASE InterruptFlagged
  BY <1>8a DEF InterruptFlagged, PauseCall, session, registry, dbgeng
<1>8b. CASE ReplayInterrupted
  BY <1>8b DEF ReplayInterrupted, HasCursor, registry, requests, dbgeng
<1>9. CASE OpenReturns
  BY <1>9 DEF OpenReturns, session, Registered, requests, dbgeng
<1>10. CASE StopDebug
  BY <1>10 DEF StopDebug, Allows, StopCall, session, registry, requests, dbgeng
<1>11. CASE RequestPause
  BY <1>11 DEF RequestPause, PauseCall, session, registry, requests, dbgeng
<1>12. CASE TitanOpenNative
  BY <1>12 DEF TitanOpenNative, ToBeRegistered, Allows, Free, session, requests, dbgeng
<1>13. CASE TitanOpenSynthetic
  BY <1>13 DEF TitanOpenSynthetic, session, Registered, requests, dbgeng
<1>14. CASE TitanCloseHandle
  BY <1>14 DEF TitanCloseHandle, CallerOwned, Unregistered, session, requests, dbgeng,
         Restrict
<1>14a. CASE DetachDebuggerEx
  BY <1>14a DEF DetachDebuggerEx, EngineEnds, Allows, session, registry, requests
<1>15. CASE UNCHANGED vars
  BY <1>15 DEF vars, session, registry, requests, dbgeng, CallerOwned
<1>16. QED
  BY <1>1, <1>2, <1>3, <1>4, <1>5, <1>6, <1>7, <1>8, <1>8a, <1>8b, <1>9, <1>10, <1>11, <1>12, <1>13,
     <1>14, <1>14a, <1>15 DEF Next, Crashed, Returning, Calling

\* So is a requested pause, and it is of the session that runs.
LEMMA PauseStep ==
  ASSUME Troubles = {}, Typed, Typed', Life, [Next]_vars
  PROVE  PauseKnown'
<1> USE SessionAssumption DEF Stopping, Typed, SessionTyped, RequestsTyped, CallType,
      NoCall, NoPause, Kind, Phase, Running, Over, Beginnings, Life, Phases, KindByPhase,
      Blank, EngineByPhase, StopByPhase, PauseKnown
<1>1. CASE Beginning
  BY <1>1 DEF Beginning, Create, MayBegin, dbgeng, Free, NewTarget, queueCallback, registry,
         Allows, Work, CreateFails, ProcessCreated, EngineEnds, session, requests, Launched,
         Registered, Attached, OpenReplay, closeCallerOwnedTitanHandles, CallerOwned,
         NoHandles, ReplayOpened, ReplayFails, resetTtdSession
<1>2. CASE Loop
  BY <1>2 DEF Loop, DebugLoop, Allows, registry, requests, dbgeng, Abandoned, session,
         WaitForEvent, Event, queueCallback, Free, Work, Interrupt, AlreadyQueued, LoopEnds,
                NoTarget,
         RunWork, AfterWork, Registered, Unregistered, Restrict, Resume, EngineEnds, runTtd,
         ReplayEnds, CloseHandles, closeCallerOwnedTitanHandles, CallerOwned, NoHandles,
         ResetRequests, resetTtdSession, Ended
<1>3. CASE Returning
  <2>1. CASE StopRequested
    BY <2>1 DEF StopRequested, At, StopCall, NoCall, EngineEnds, session, registry, dbgeng, Stopping
  <2>2. CASE StopChecked
    BY <2>2 DEF StopChecked, At, StopCall, NoCall, LeavesItToLoop, session, registry, requests,
           dbgeng, Stopping
  <2>3. CASE StopCloses
    BY <2>3 DEF StopCloses, At, StopCall, closeCallerOwnedTitanHandles, resetTtdSession,
           CallerOwned,
         NoHandles, requests, session, dbgeng, Stopping
  <2>4. CASE StopReturns
    BY <2>4 DEF StopReturns, At, NoCall, registry, requests, dbgeng, Stopping
  <2>5. CASE PauseExchanged
    BY <2>5 DEF PauseExchanged, PauseCall, NoCall, session, registry, dbgeng, Stopping
  <2>6. CASE Interrupted
    BY <2>6 DEF Interrupted, PauseCall, NoCall, Accepts, HasCursor, Allows, session, registry,
           dbgeng, Stopping
  <2>7. CASE InterruptFlagged
    BY <2>7 DEF InterruptFlagged, PauseCall, session, registry, dbgeng, Stopping
  <2>8. CASE ReplayInterrupted
    BY <2>8 DEF ReplayInterrupted, HasCursor, NoCall, registry, requests, dbgeng, Stopping
  <2>9. CASE OpenReturns
    BY <2>9 DEF OpenReturns, NoCall, Registered, session, requests, dbgeng, Stopping
  <2>10. QED
    BY <1>3, <2>1, <2>2, <2>3, <2>4, <2>5, <2>6, <2>7, <2>8, <2>9 DEF Returning
<1>4. CASE Calling
  BY <1>4 DEF Calling, StopDebug, Allows, StopCall, session, registry, requests, dbgeng,
         RequestPause, PauseCall, TitanOpenNative, ToBeRegistered, DetachDebuggerEx, EngineEnds,
                Free, TitanOpenSynthetic, Registered,
         TitanCloseHandle, CallerOwned, Unregistered, Restrict
<1>5. CASE UNCHANGED vars
  BY <1>5 DEF vars, session, registry, requests, dbgeng, CallerOwned
<1>6. QED
  BY <1>1, <1>2, <1>3, <1>4, <1>5 DEF Next, Crashed

\* A handle is the engine's, the caller's or free.
LEMMA HandlesStep ==
  ASSUME Troubles = {}, Typed, Typed', Life, [Next]_vars
  PROVE  HandlesApart'
<1> USE SessionAssumption DEF Typed, SessionTyped, RequestsTyped, RegistryTyped, QueueTyped,
      EngineTyped, Stopping, Phase, Running, Over, Token, Kind, NoPause, CallType, NoCall,
      Engines, GivenOut, WorkType, Life, Phases, Beginnings, KindByPhase, Blank,
      EngineByPhase, QueueByPhase, OnlyCallers, CallerOwned, RegistryByPhase, StopByPhase,
      StopKnown, PauseKnown, HandlesApart, HandlesAccounted
<1>1. CASE Create("launch")
  <2>1. UNCHANGED <<gHandleRegistry, opened, call>> /\ gCallbackQueue = <<>>
    BY <1>1 DEF Create, MayBegin, registry
  <2>2. CASE UNCHANGED <<gCallbackQueue, dbgeng>>
    BY <1>1, <2>1, <2>2 DEF dbgeng
  <2>3. ASSUME NEW h \in Free, NewTarget(h), queueCallback("create", h) \/ UNCHANGED gCallbackQueue
        PROVE  HandlesApart'
    <3>1. h \in Handle \ opened /\ engine' = "live" /\ process' = h /\ threads' = {}
      BY <2>3 DEF Free, NewTarget
    <3>2. gCallbackQueue' = <<>> \/ gCallbackQueue' = <<Work("create", h, gSessionGeneration')>>
      BY <2>1, <2>3 DEF queueCallback
    <3>3. \A i \in DOMAIN gCallbackQueue' : gCallbackQueue'[i].handle = h
      BY <3>2 DEF Work
    <3>4. Engines' = {h}
      BY <3>1
    <3>5. QED
      BY <2>1, <3>1, <3>3, <3>4
  <2>4. QED
    BY <1>1, <2>2, <2>3 DEF Create
<1>2. CASE Create("attach")
  <2>1. UNCHANGED <<gHandleRegistry, opened, call>> /\ gCallbackQueue = <<>>
    BY <1>2 DEF Create, MayBegin, registry
  <2>2. CASE UNCHANGED <<gCallbackQueue, dbgeng>>
    BY <1>2, <2>1, <2>2 DEF dbgeng
  <2>3. ASSUME NEW h \in Free, NewTarget(h), queueCallback("create", h) \/ UNCHANGED gCallbackQueue
        PROVE  HandlesApart'
    <3>1. h \in Handle \ opened /\ engine' = "live" /\ process' = h /\ threads' = {}
      BY <2>3 DEF Free, NewTarget
    <3>2. gCallbackQueue' = <<>> \/ gCallbackQueue' = <<Work("create", h, gSessionGeneration')>>
      BY <2>1, <2>3 DEF queueCallback
    <3>3. \A i \in DOMAIN gCallbackQueue' : gCallbackQueue'[i].handle = h
      BY <3>2 DEF Work
    <3>4. Engines' = {h}
      BY <3>1
    <3>5. QED
      BY <2>1, <3>1, <3>3, <3>4
  <2>4. QED
    BY <1>2, <2>2, <2>3 DEF Create
<1>3. CASE CreateFails
  BY <1>3 DEF CreateFails, ProcessCreated, Allows, EngineEnds, session, registry, requests
<1>4. CASE Launched
  BY <1>4 DEF Launched, ProcessCreated, Free, Registered, requests, dbgeng
<1>5. CASE Attached
  BY <1>5 DEF Attached, ProcessCreated, registry, requests, dbgeng
<1>6. CASE OpenReplay("MINIDUMP")
  BY <1>6 DEF OpenReplay, MayBegin, closeCallerOwnedTitanHandles, requests, dbgeng, Allows,
         NoHandles
<1>7. CASE OpenReplay("TTD")
  BY <1>7 DEF OpenReplay, MayBegin, closeCallerOwnedTitanHandles, requests, dbgeng, Allows,
         NoHandles
<1>8. CASE ReplayOpened
  BY <1>8 DEF ReplayOpened, Registered, Work, requests
<1>9. CASE ReplayFails
  BY <1>9 DEF ReplayFails, resetTtdSession, NoHandles, EngineEnds
<1>10. CASE DebugLoop
  BY <1>10 DEF DebugLoop, Allows, registry, requests, dbgeng
<1>11. CASE Abandoned
  BY <1>11 DEF Abandoned, session, registry, requests, dbgeng
<1>12. CASE WaitForEvent
  BY <1>12 DEF WaitForEvent, session, registry, requests, Event, queueCallback, dbgeng,
         Free, Work
<1>13. CASE Interrupt
  BY <1>13 DEF Interrupt, Work, session, registry
<1>14. CASE AlreadyQueued
  BY <1>14 DEF AlreadyQueued, session, registry, requests, dbgeng
<1>15. CASE LoopEnds
  BY <1>15 DEF LoopEnds, NoTarget, Allows, registry, requests, dbgeng
<1>16. CASE RunWork
  <2> DEFINE w == Head(gCallbackQueue)
  <2>1. /\ UNCHANGED <<opened, call, engine, process, threads>>
        /\ gCallbackQueue # <<>> /\ gCallbackQueue' = Tail(gCallbackQueue)
        /\ gHandleRegistry' = AfterWork(w)
    BY <1>16 DEF RunWork, dbgeng
  <2>2. /\ w = gCallbackQueue[1] /\ 1 \in DOMAIN gCallbackQueue
        /\ \A i \in DOMAIN gCallbackQueue' :
             i + 1 \in DOMAIN gCallbackQueue /\ gCallbackQueue'[i] = gCallbackQueue[i + 1]
    BY <2>1
  <2>3. \/ CallerOwned' = CallerOwned
        \/ w.handle \notin opened /\ CallerOwned' = CallerOwned \ {w.handle}
    <3>1. CASE gHandleRegistry' = gHandleRegistry
      BY <3>1
    <3>2. CASE w.type = "create" /\ gHandleRegistry' = Registered(gHandleRegistry, w.handle, FALSE)
      <4>1. w.handle \notin opened
        BY <2>2, <3>2
      <4>2. CallerOwned' = CallerOwned \ {w.handle}
        BY <3>2 DEF Registered
      <4>3. QED
        BY <4>1, <4>2
    <3>3. CASE /\ w.type = "exit" /\ engine = "live"
               /\ gHandleRegistry' = Unregistered(gHandleRegistry, w.handle)
      <4>1. w.handle \notin opened
        BY <2>2, <3>3
      <4>2. CallerOwned' = CallerOwned \ {w.handle}
        BY <3>3 DEF Unregistered, Restrict
      <4>3. QED
        BY <4>1, <4>2
    <3>4. \/ gHandleRegistry' = gHandleRegistry
          \/ w.type = "create" /\ gHandleRegistry' = Registered(gHandleRegistry, w.handle, FALSE)
          \/ /\ w.type = "exit" /\ engine = "live"
             /\ gHandleRegistry' = Unregistered(gHandleRegistry, w.handle)
      <4> HIDE DEF w, Registered, Unregistered
      <4>1. QED
        BY <2>1 DEF AfterWork
    <3>5. QED
      BY <3>1, <3>2, <3>3, <3>4
  <2>4. /\ HandlesAccounted'
        /\ call'.op = "open" => call'.handle \in opened' \ CallerOwned'
    BY <2>1, <2>3
  <2>5. \A i \in DOMAIN gCallbackQueue' :
          /\ gCallbackQueue'[i].type = "create" => gCallbackQueue'[i].handle \notin opened'
          /\ engine' = "live" /\ gCallbackQueue'[i].type \in {"create", "exit"}
               => gCallbackQueue'[i].handle \in Engines'
    BY <2>1, <2>2
  <2>6. Engines' \cap opened' = {}
    BY <2>1
  <2>7. QED
    BY <2>4, <2>5, <2>6
<1>17. CASE Resume
  BY <1>17 DEF Resume, EngineEnds, session, registry, requests
<1>18. CASE runTtd
  BY <1>18 DEF runTtd, session, queueCallback, Work, registry, dbgeng
<1>19. CASE ReplayEnds
  BY <1>19 DEF ReplayEnds, registry, requests, dbgeng
<1>20. CASE CloseHandles
  BY <1>20 DEF CloseHandles, closeCallerOwnedTitanHandles, session, requests, dbgeng,
         NoHandles
<1>21. CASE ResetRequests
  BY <1>21 DEF ResetRequests, resetTtdSession, session, registry, dbgeng
<1>22. CASE Ended
  BY <1>22 DEF Ended, registry, requests, dbgeng
<1>23. CASE StopRequested
  BY <1>23 DEF StopRequested, NoCall, At, StopCall, dbgeng, EngineEnds, session, registry
<1>24. CASE StopChecked
  BY <1>24 DEF StopChecked, At, LeavesItToLoop, StopCall, session, registry, requests,
         dbgeng
<1>25. CASE StopCloses
  BY <1>25 DEF StopCloses, At, StopCall, closeCallerOwnedTitanHandles, resetTtdSession,
         requests, session, dbgeng, NoHandles
<1>26. CASE StopReturns
  BY <1>26 DEF StopReturns, At, registry, requests, dbgeng
<1>27. CASE PauseExchanged
  BY <1>27 DEF PauseExchanged, PauseCall, session, registry, dbgeng
<1>28. CASE Interrupted
  BY <1>28 DEF Interrupted, PauseCall, Accepts, session, registry, HasCursor, Allows
<1>28a. CASE InterruptFlagged
  BY <1>28a DEF InterruptFlagged, PauseCall, session, registry, dbgeng
<1>28b. CASE ReplayInterrupted
  BY <1>28b DEF ReplayInterrupted, HasCursor, registry, requests, dbgeng
<1>29. CASE OpenReturns
  BY <1>29 DEF OpenReturns, session, Registered, requests, dbgeng
<1>30. CASE StopDebug
  BY <1>30 DEF StopDebug, Allows, StopCall, session, registry, requests, dbgeng
<1>31. CASE RequestPause
  BY <1>31 DEF RequestPause, PauseCall, session, registry, requests, dbgeng
<1>32. CASE TitanOpenNative
  BY <1>32 DEF TitanOpenNative, ToBeRegistered, Allows, Free, session, requests, dbgeng
<1>33. CASE TitanOpenSynthetic
  BY <1>33 DEF TitanOpenSynthetic, session, Registered, requests, dbgeng
<1>34. CASE TitanCloseHandle
  BY <1>34 DEF TitanCloseHandle, Unregistered, session, requests, dbgeng, Restrict
<1>34a. CASE DetachDebuggerEx
  BY <1>34a DEF DetachDebuggerEx, EngineEnds, Allows, session, registry, requests
<1>35. CASE UNCHANGED vars
  BY <1>35 DEF vars, session, registry, requests, dbgeng
<1>36. QED
  BY <1>1, <1>2, <1>3, <1>4, <1>5, <1>6, <1>7, <1>8, <1>9, <1>10, <1>11, <1>12, <1>13,
     <1>14, <1>15, <1>16, <1>17, <1>18, <1>19, <1>20, <1>21, <1>22, <1>23, <1>24, <1>25,
     <1>26, <1>27, <1>28, <1>28a, <1>28b, <1>29, <1>30, <1>31, <1>32, <1>33, <1>34, <1>34a,
            <1>35 DEF Next, Crashed, Beginning, Loop, Returning, Calling


-----------------------------------------------------------------------------

LEMMA LifeInvariant == ASSUME Troubles = {} PROVE Spec => []Life
<1>1. Init => Life
  BY DEF Init, Life, Phases, KindByPhase, EngineByPhase, QueueByPhase, RegistryByPhase, OnlyCallers,
     StopByPhase, StopKnown, PauseKnown, HandlesApart, HandlesAccounted, Blank, Beginnings, Running,
     Over, Stopping, NoCall, NoHandles, NoPause, CallerOwned, Engines
<1>2. Typed /\ Typed' /\ Life /\ [Next]_vars => Life'
  BY KindStep, EngineStep, QueueStep, RegistryStep, StopStep, StopKnownStep, PauseStep, HandlesStep
     DEF Life, Phases
<1>3. QED
  BY <1>1, <1>2, TypedInvariant, PTL DEF Spec

\* registerTitanHandle and closeCallerOwnedTitanHandles keep account of
\* exactly the handles that are open for the caller: for a front end that
\* begins no session during its own calls, and as long as the system gives
\* no newly opened handle the value of one that work still queued from a
\* target that has ended is about to register.
THEOREM HandlesAccountedInvariant == ASSUME Troubles = {} PROVE Spec => []HandlesAccounted
<1>1. Life => HandlesAccounted
  BY DEF Life, HandlesApart
<1>2. QED
  BY <1>1, LifeInvariant, PTL

\* DebugLoop's queue and gPauseCallback are of the session it runs.
THEOREM CallbacksInSessionInvariant == ASSUME Troubles = {} PROVE Spec => []CallbacksInSession
<1>1. Life => CallbacksInSession
  BY DEF Life, Phases, QueueByPhase, PauseKnown, CallbacksInSession
<1>2. QED
  BY <1>1, LifeInvariant, PTL

\* The end of DebugLoop, or of StopDebug without one, leaves nothing, and a
\* RequestPause that writes gTtdInterruptRequested after that does not
\* return: its next statement uses the cursor that is gone.
THEOREM NothingRemainsInvariant == ASSUME Troubles = {} PROVE Spec => []NothingRemains
<1>1. Life => NothingRemains
  BY DEF Life, Phases, KindByPhase, EngineByPhase, QueueByPhase, RegistryByPhase, OnlyCallers,
     StopKnown, PauseKnown, Blank, Stopping, NoCall, Running, NothingRemains
<1>2. QED
  BY <1>1, LifeInvariant, PTL

\* A running DebugLoop's gSessionKind is not written by StopDebug, whose
\* clean-up it would race.
THEOREM KindKeptTheorem == ASSUME Troubles = {} PROVE Spec => KindKept
<1>1. Typed /\ Life /\ [Next]_vars => [gIsDebugging /\ gIsDebugging' => gSessionKind' = gSessionKind]_vars
  <2> SUFFICES ASSUME Typed, Life, [Next]_vars, gIsDebugging, gIsDebugging'
               PROVE  gSessionKind' = gSessionKind
    OBVIOUS
  <2>1. pc \in Running
    BY DEF Typed, SessionTyped
  <2> USE <2>1 DEF Running
  <2>2. CASE Beginning
    BY <2>2 DEF Beginning, Create, CreateFails, Launched, Attached, OpenReplay, ReplayOpened,
       ReplayFails, MayBegin
  <2>3. CASE Loop
    BY <2>3 DEF Loop, DebugLoop, Abandoned, WaitForEvent, Interrupt, AlreadyQueued, LoopEnds,
       RunWork, Resume, runTtd, ReplayEnds, CloseHandles, ResetRequests, Ended, session
  <2>4. CASE Returning
    BY <2>4 DEF Returning, StopRequested, StopChecked, StopCloses, StopReturns, PauseExchanged,
       Interrupted, InterruptFlagged, ReplayInterrupted, OpenReturns, session, At, Life, Phases,
       StopByPhase
  <2>5. CASE Calling
    BY <2>5 DEF Calling, StopDebug, RequestPause, TitanOpenNative, TitanOpenSynthetic,
       TitanCloseHandle, DetachDebuggerEx, session
  <2>6. CASE UNCHANGED vars
    BY <2>6 DEF vars, session
  <2>7. QED
    BY <2>2, <2>3, <2>4, <2>5, <2>6 DEF Next, Crashed
<1>2. QED
  BY <1>1, LifeInvariant, TypedInvariant, PTL DEF Spec, KindKept
=============================================================================
