-------------------------- MODULE PauseGateProofs --------------------------
(***************************************************************************)
(* Registers stay with their threads, for any threads, registers and       *)
(* callers, as long as the GUI calls only while the debug thread is in a   *)
(* callback, and the callback outlasts its calls.                          *)
(***************************************************************************)
EXTENDS PauseGate, TLAPS

LEMMA FlushTypes ==
  ASSUME TypeOK, FlushSucceeds \/ FlushFails
  PROVE  /\ regs' \in [Thread -> [Register -> Value]]
         /\ values' \in [Register -> Value] /\ Changed' \subseteq Register
<1>1. CASE FlushSucceeds
  <2>1. [r \in Register |-> IF r \in Changed THEN values[r] ELSE regs[current][r]]
          \in [Register -> Value]
    BY DEF TypeOK
  <2>2. QED
    BY <1>1, <2>1 DEF FlushSucceeds, TypeOK
<1>2. CASE FlushFails
  BY <1>2 DEF FlushFails, TypeOK, cache
<1>3. QED
  BY <1>1, <1>2

LEMMA ReadTypes ==
  ASSUME TypeOK, NEW t \in Thread, Read(t)
  PROVE  values' \in [Register -> Value] /\ Changed' \subseteq Register
  BY DEF TypeOK, Read

LEMMA SetTypes ==
  ASSUME TypeOK, NEW r \in Register, NEW v \in Value, SetValue(r, v)
  PROVE  values' \in [Register -> Value] /\ Changed' \subseteq Register
  BY DEF TypeOK, SetValue

\* The call in progress only changes its phase.
LEMMA PhaseTypes ==
  ASSUME TypeOK, NEW p \in Phase, To(p)
  PROVE  /\ scope' \in Scopes /\ scope'.phase = p
         /\ scope'.thread = scope.thread /\ scope'.previous = scope.previous
         /\ scope'.register = scope.register /\ scope'.write = scope.write
  BY DEF TypeOK, To, Scopes

LEMMA DonePhase ==
  ASSUME TypeOK, Done
  PROVE  \E p \in {"leave", "unlock"} :
           To(p) /\ (p = "unlock" <=> scope.thread = scope.previous)
  BY DEF Done

LEMMA CallTypes ==
  ASSUME TypeOK, RegisterCall
  PROVE  TypeOK'
<1> USE GateAssumption
<1>0. scope.thread \in Thread /\ scope.previous \in Thread /\ scope.register \in Register
  BY DEF TypeOK, Scopes
<1>1. ASSUME NEW c \in Caller, Admit(c) PROVE TypeOK'
  BY <1>1 DEF Admit, TypeOK, cache
<1>2. ASSUME NEW c \in Caller, Lock(c) PROVE TypeOK'
  BY <1>2 DEF Lock, Free, TypeOK, cache, Caller
<1>3. ASSUME NEW c \in Caller, Unlock(c) PROVE TypeOK'
  BY <1>3 DEF Unlock, TypeOK, cache, Caller
<1>4. CASE Enter
  <2>1. PICK p \in Phase : To(p)
    BY <1>4 DEF Enter, FlushBeforeSwitch, Phase
  <2>2. scope' \in Scopes
    BY <2>1, PhaseTypes
  <2>3. /\ regs' \in [Thread -> [Register -> Value]]
        /\ values' \in [Register -> Value] /\ Changed' \subseteq Register
    <3>1. CASE UNCHANGED <<regs, cache>>
      BY <3>1 DEF TypeOK, cache
    <3>2. CASE FlushSucceeds \/ FlushFails
      BY <3>2, FlushTypes
    <3>3. QED
      BY <1>4, <3>1, <3>2 DEF Enter, FlushBeforeSwitch
  <2>4. QED
    BY <1>4, <2>2, <2>3 DEF Enter, InScopeUnchanged, gate, TypeOK
<1>5. CASE Switch
  <2>1. PICK p \in Phase : To(p)
    BY <1>5 DEF Switch, Phase
  <2>2. scope' \in Scopes
    BY <2>1, PhaseTypes
  <2>3. current' \in Thread /\ values' \in [Register -> Value] /\ Changed' \subseteq Register
    <3>1. CASE UNCHANGED <<current, cache>>
      BY <3>1 DEF TypeOK, cache
    <3>2. CASE current' = scope.thread /\ Read(scope.thread)
      BY <3>2, <1>0, ReadTypes
    <3>3. QED
      BY <1>5, <3>1, <3>2 DEF Switch, ReadOnSwitch
  <2>4. QED
    BY <1>5, <2>2, <2>3 DEF Switch, InScopeUnchanged, gate, TypeOK
<1>6. CASE GetContextDataEx
  <2>1. PICK p \in Phase : To(p)
    BY <1>6, DonePhase DEF GetContextDataEx, Phase
  <2>2. QED
    BY <1>6, <2>1, PhaseTypes DEF GetContextDataEx, InScopeUnchanged, gate, cache, TypeOK
<1>7. ASSUME NEW d \in Datum, SetContextDataEx(d) PROVE TypeOK'
  <2>1. To("write") /\ "write" \in Phase /\ [of |-> scope.thread, datum |-> d] \in Value
    BY <1>0, <1>7 DEF SetContextDataEx, Phase, Value
  <2>2. values' \in [Register -> Value] /\ Changed' \subseteq Register
    BY <1>0, <1>7, <2>1, SetTypes DEF SetContextDataEx
  <2>3. QED
    BY <1>7, <2>1, <2>2, PhaseTypes DEF SetContextDataEx, InScopeUnchanged, gate, TypeOK
<1>8. CASE Write \/ Leave
  <2>1. PICK p \in Phase : To(p)
    BY <1>8, DonePhase DEF Write, Leave, Phase
  <2>2. FlushSucceeds \/ FlushFails
    BY <1>8 DEF Write, Leave
  <2>3. QED
    BY <1>8, <2>1, <2>2, FlushTypes, PhaseTypes DEF Write, Leave, InScopeUnchanged, gate, TypeOK
<1>9. CASE Back
  <2>1. To("unlock") /\ "unlock" \in Phase
    BY <1>9 DEF Back, Phase
  <2>2. current' \in Thread /\ values' \in [Register -> Value] /\ Changed' \subseteq Register
    <3>1. CASE UNCHANGED <<current, cache>>
      BY <3>1 DEF TypeOK, cache
    <3>2. CASE current' = scope.previous /\ Read(scope.previous)
      BY <3>2, <1>0, ReadTypes
    <3>3. QED
      BY <1>9, <3>1, <3>2 DEF Back, ThreadToRestore
  <2>3. QED
    BY <1>9, <2>1, <2>2, PhaseTypes DEF Back, InScopeUnchanged, gate, TypeOK
<1>10. QED
  BY <1>1, <1>2, <1>3, <1>4, <1>5, <1>6, <1>7, <1>8, <1>9 DEF RegisterCall

LEMMA LoopTypes ==
  ASSUME TypeOK, DebugLoop
  PROVE  TypeOK'
<1>1. ASSUME NEW t \in Thread, WaitForEvent(t) PROVE TypeOK'
  <2>1. PICK data \in [Register -> Datum] :
          regs' = [regs EXCEPT ![t] = [r \in Register |-> [of |-> t, datum |-> data[r]]]]
    BY <1>1 DEF WaitForEvent
  <2>2. [r \in Register |-> [of |-> t, datum |-> data[r]]] \in [Register -> Value]
    BY DEF Value
  <2>3. regs' \in [Thread -> [Register -> Value]]
    BY <2>1, <2>2 DEF TypeOK
  <2>4. QED
    BY <1>1, <2>3 DEF WaitForEvent, TypeOK, cache, gate
<1>2. CASE FillCache
  <2>1. values' \in [Register -> Value] /\ Changed' \subseteq Register
    BY <1>2, ReadTypes DEF FillCache, TypeOK
  <2>2. QED
    BY <1>2, <2>1 DEF FillCache, TypeOK
<1>3. CASE HandleEvent
  <2>1. values' \in [Register -> Value] /\ Changed' \subseteq Register
    <3>1. CASE UNCHANGED cache
      BY <3>1 DEF TypeOK, cache
    <3>2. ASSUME NEW d \in Datum, SetValue(UE_CIP, [of |-> event, datum |-> d])
          PROVE  values' \in [Register -> Value] /\ Changed' \subseteq Register
      <4>1. [of |-> event, datum |-> d] \in Value
        BY DEF TypeOK, Value
      <4>2. QED
        BY <3>2, <4>1, SetTypes, GateAssumption
    <3>3. QED
      BY <1>3, <3>1, <3>2 DEF HandleEvent
  <2>2. QED
    BY <1>3, <2>1 DEF HandleEvent, TypeOK, gate
<1>4. CASE CallbackReturns
  BY <1>4 DEF CallbackReturns, TypeOK, cache, gate
<1>5. CASE FlushCache
  BY <1>5, FlushTypes DEF FlushCache, TypeOK, gate
<1>6. CASE Resume
  BY <1>6 DEF Resume, TypeOK, cache
<1>7. QED
  BY <1>1, <1>2, <1>3, <1>4, <1>5, <1>6 DEF DebugLoop

LEMMA InitType == Init => TypeOK
<1> SUFFICES ASSUME Init PROVE TypeOK
  OBVIOUS
<1>1. regs \in [Thread -> [Register -> Value]] /\ current \in Thread /\ event \in Thread
  BY DEF Init
<1>2. values \in [Register -> Value] /\ Changed \subseteq Register
  BY <1>1 DEF Init
<1>3. call \in [Caller -> {"idle", "admitted", "in"}]
  BY DEF Init
<1>4. \A c \in Caller : call[c] = "in" <=> gMutexPaused = c
  BY GateAssumption DEF Init, Caller
<1>5. /\ pc = "stopped" /\ gPaused \in BOOLEAN /\ scope \in Scopes
      /\ gMutexPaused \in Caller \cup {NoOne}
  BY DEF Init
<1>6. QED
  BY <1>1, <1>2, <1>3, <1>4, <1>5 DEF TypeOK

LEMMA TypeNext == TypeOK /\ [Next]_vars => TypeOK'
<1> SUFFICES ASSUME TypeOK, [Next]_vars PROVE TypeOK'
  OBVIOUS
<1>1. CASE UNCHANGED vars
  BY <1>1 DEF vars, cache, gate, TypeOK
<1>2. QED
  BY <1>1, CallTypes, LoopTypes DEF Next, Ended

\* Every variable has its type, and gMutexPaused belongs to exactly the caller
\* that is in, whatever the GUI does.
THEOREM GateTypeInvariant == Spec => []TypeOK
  BY InitType, TypeNext, PTL DEF Spec

-----------------------------------------------------------------------------
(* The inductive invariant of the registers.                               *)

\* Calls last no longer than the callback.
Calling == \A c \in Caller : call[c] # "idle" => pc = "callback"

\* The current thread is the event's, or that of the call in progress.
Selected ==
  /\ gMutexPaused = NoOne => current = event
  /\ gMutexPaused \in Caller =>
       /\ scope.previous = event
       /\ scope.phase \in {"enter", "switch", "unlock"} => current = event
       /\ scope.phase \in {"use", "write", "leave", "back"} => current = scope.thread

\* Registers, and those still to be written, are their thread's own.
Owned == OwnRegisters /\ \A r \in Changed : values[r].of = current

\* While handlers and calls read the cache, it is up to date.
Fresh == pc \in {"work", "callback", "flush"} =>
           \A r \in Register \ Changed : values[r] = regs[current][r]

\* The program does not run on with registers still to be written.
Clean == pc \in {"resume", "wait", "stopped"} => Changed = {}

\* A call for another thread leaves nothing unwritten but what it wrote itself.
Pending ==
  gMutexPaused \in Caller =>
    /\ scope.phase \in {"switch", "leave", "back"} => scope.thread # scope.previous
    /\ scope.thread # scope.previous =>
         /\ scope.phase \in {"switch", "use"} => Changed = {}
         /\ scope.phase \in {"write", "leave", "back"} =>
              Changed \subseteq {r \in {scope.register} : scope.write}

GateInv == TypeOK /\ Calling /\ Selected /\ Owned /\ Fresh /\ Clean /\ Pending

-----------------------------------------------------------------------------
(* What the operations of the cache keep.                                  *)

\* A flush writes values of the current thread, and no more.
LEMMA FlushKeeps ==
  ASSUME TypeOK, Owned, FlushSucceeds \/ FlushFails, current' = current,
         \A r \in Register \ Changed : values[r] = regs[current][r]
  PROVE  /\ Owned' /\ Changed' \subseteq Changed
         /\ \A r \in Register \ Changed' : values'[r] = regs'[current][r]
         /\ \A t \in Thread, r \in Register : Effective(t, r)' = Effective(t, r)
<1>1. CASE FlushSucceeds
  <2>1. /\ regs' = [regs EXCEPT ![current] = [r \in Register |->
                     IF r \in Changed THEN values[r] ELSE regs[current][r]]]
        /\ Changed' = {} /\ values' = values
    BY <1>1 DEF FlushSucceeds
  <2>2. \A t \in Thread, r \in Register : regs'[t][r] = Effective(t, r)
    BY <2>1 DEF TypeOK, Effective
  <2>3. \A t \in Thread, r \in Register : Effective(t, r).of = t
    BY DEF Owned, OwnRegisters, Effective
  <2>4. Owned'
    BY <2>1, <2>2, <2>3 DEF Owned, OwnRegisters
  <2>5. \A r \in Register : values[r] = Effective(current, r)
    BY DEF Effective
  <2>6. QED
    BY <2>1, <2>2, <2>4, <2>5 DEF TypeOK, Effective
<1>2. CASE FlushFails
  BY <1>2 DEF FlushFails, cache, Owned, OwnRegisters, Effective
<1>3. QED
  BY <1>1, <1>2

\* After a read the cache is that of the thread that was read.
LEMMA ReadKeeps ==
  ASSUME TypeOK, OwnRegisters, NEW t \in Thread, Read(t), current' = t, regs' = regs
  PROVE  /\ Owned' /\ Changed' = Changed
         /\ \A r \in Register : values'[r] = regs'[current'][r]
         /\ \A u \in Thread, r \in Register : Effective(u, r)' = regs[u][r]
  BY DEF TypeOK, Read, Owned, OwnRegisters, Effective

\* A value written to the cache of its own thread.
LEMMA SetKeeps ==
  ASSUME TypeOK, Owned, NEW r \in Register, NEW d \in Datum,
         SetValue(r, [of |-> current, datum |-> d]), current' = current, regs' = regs
  PROVE  /\ Owned' /\ Changed' = Changed \cup {r}
         /\ \A q \in Register \ {r} : values'[q] = values[q]
         /\ \A t \in Thread, q \in Register :
              t # current \/ q # r => Effective(t, q)' = Effective(t, q)
  BY DEF TypeOK, SetValue, Owned, OwnRegisters, Effective

-----------------------------------------------------------------------------
(* Every step keeps the invariant and loses nothing.                       *)

\* Where a call is in, the debug thread is in its callback.
LEMMA InCallback ==
  ASSUME GateInv, gMutexPaused \in Caller
  PROVE  pc = "callback" /\ Accessible
  BY DEF GateInv, TypeOK, Calling, Accessible

LEMMA CallKeeps ==
  ASSUME ~Eager, GateInv, RegisterCall
  PROVE  GateInv' /\ LosesNothing
<1> USE GateAssumption
<1> DEFINE Same == \A t \in Thread, r \in Register : Effective(t, r)' = Effective(t, r)
<1> DEFINE Synced == \A r \in Register \ Changed : values[r] = regs[current][r]
<1>0. /\ TypeOK /\ TypeOK' /\ Calling /\ Selected /\ Owned /\ Fresh /\ Clean /\ Pending
      /\ scope.thread \in Thread /\ scope.previous \in Thread /\ scope.register \in Register
  BY CallTypes DEF GateInv, TypeOK, Scopes
<1>a. ASSUME NEW c \in Caller, Admit(c) PROVE GateInv' /\ LosesNothing
  <2>1. Calling'
    BY <1>0, <1>a DEF Admit, Calling, TypeOK
  <2>2. QED
    BY <1>0, <1>a, <2>1 DEF Admit, cache, GateInv, Selected, Owned, OwnRegisters, Fresh, Clean,
                          Pending, LosesNothing, Effective
<1>b. ASSUME NEW c \in Caller, Lock(c) PROVE GateInv' /\ LosesNothing
  <2>1. Calling'
    BY <1>0, <1>b DEF Lock, Calling, TypeOK
  <2>2. Selected' /\ Pending'
    BY <1>0, <1>b DEF Lock, Free, Selected, Pending
  <2>3. QED
    BY <1>0, <1>b, <2>1, <2>2 DEF Lock, cache, GateInv, Owned, OwnRegisters, Fresh, Clean,
                          LosesNothing, Effective
<1>c. ASSUME NEW c \in Caller, Unlock(c) PROVE GateInv' /\ LosesNothing
  <2>1. Calling'
    BY <1>0, <1>c DEF Unlock, Calling, TypeOK
  <2>2. Selected' /\ Pending'
    BY <1>0, <1>c DEF Unlock, In, Selected, Pending, Caller
  <2>3. QED
    BY <1>0, <1>c, <2>1, <2>2 DEF Unlock, cache, GateInv, Owned, OwnRegisters, Fresh, Clean,
                          LosesNothing, Effective
\* The others are steps of the call that is in, and change the mutex, the loop
\* and the other calls in nothing.
<1>1. ASSUME gMutexPaused \in Caller, InScopeUnchanged, Owned', Selected', Pending',
             (\A r \in Register \ Changed' : values'[r] = regs'[current'][r])
      PROVE  GateInv'
  BY <1>0, <1>1, InCallback DEF InScopeUnchanged, gate, GateInv, Calling, Fresh, Clean
<1>2. ASSUME gMutexPaused \in Caller
      PROVE  pc = "callback" /\ Accessible /\ Synced /\ scope.previous = event
  BY <1>0, <1>2, InCallback DEF Fresh, Selected
<1>3. CASE Enter
  <2>0. /\ In("enter") /\ gMutexPaused \in Caller /\ current = event /\ current' = current
        /\ InScopeUnchanged
    BY <1>0, <1>3 DEF Enter, In, Selected
  <2>1. CASE scope.thread = scope.previous
    <3>1. To("use") /\ UNCHANGED <<regs, cache>>
      BY <1>3, <2>1 DEF Enter
    <3>2. Selected' /\ Pending'
      BY <1>0, <1>2, <2>0, <2>1, <3>1, PhaseTypes DEF Phase, Selected, Pending, InScopeUnchanged, gate
    <3>3. QED
      BY <1>0, <1>1, <1>2, <2>0, <3>1, <3>2 DEF cache, Owned, OwnRegisters, LosesNothing, Effective
  <2>2. CASE scope.thread # scope.previous
    <3>1. \/ FlushSucceeds /\ To("switch")
          \/ FlushFails /\ To("unlock")
      BY <1>3, <2>2 DEF Enter, FlushBeforeSwitch
    <3>2. Owned' /\ (\A r \in Register \ Changed' : values'[r] = regs'[current'][r]) /\ Same
      BY <1>0, <1>2, <2>0, <3>1, FlushKeeps
    <3>3. CASE FlushSucceeds /\ To("switch")
      <4>1. Selected' /\ Pending'
        BY <1>0, <1>2, <2>0, <3>3, PhaseTypes
           DEF Phase, Selected, Pending, InScopeUnchanged, gate, FlushSucceeds
      <4>2. QED
        BY <1>1, <2>0, <3>2, <4>1 DEF LosesNothing
    <3>4. CASE FlushFails /\ To("unlock")
      <4>1. Selected' /\ Pending'
        BY <1>0, <1>2, <2>0, <3>4, PhaseTypes DEF Phase, Selected, Pending, InScopeUnchanged, gate
      <4>2. QED
        BY <1>1, <2>0, <3>2, <4>1 DEF LosesNothing
    <3>5. QED
      BY <3>1, <3>3, <3>4
  <2>3. QED
    BY <2>1, <2>2
<1>4. CASE Switch
  <2>1. /\ gMutexPaused \in Caller /\ current = event /\ regs' = regs /\ InScopeUnchanged
        /\ In("switch")
    BY <1>0, <1>4 DEF Switch, In, Selected
  <2>2. current' = scope.thread /\ Read(scope.thread) /\ To("use")
    BY <1>2, <1>4, <2>1 DEF Switch, ReadOnSwitch
  <2>3. Owned' /\ Changed' = Changed /\ \A r \in Register : values'[r] = regs'[current'][r]
    BY <1>0, <2>1, <2>2, ReadKeeps DEF Owned
  <2>4. Selected' /\ Pending'
    <3>1. /\ scope'.phase = "use" /\ scope'.thread = scope.thread
          /\ scope'.previous = scope.previous /\ event' = event /\ gMutexPaused' = gMutexPaused
      BY <1>0, <2>1, <2>2, PhaseTypes DEF Phase, InScopeUnchanged, gate
    <3>2. Changed' = {}
      BY <1>0, <2>1, <2>3 DEF In, Pending
    <3>3. QED
      BY <1>2, <2>1, <2>2, <3>1, <3>2 DEF Selected, Pending, Caller
  <2>5. LosesNothing
    <3>1. \A t \in Thread, r \in Register : Effective(t, r)' = regs[t][r]
      BY <1>0, <2>1, <2>2, ReadKeeps DEF Owned
    <3>2. Changed = {}
      BY <1>0, <2>1 DEF In, Pending
    <3>3. QED
      BY <3>1, <3>2 DEF LosesNothing, Effective
  <2>6. QED
    BY <1>1, <2>1, <2>3, <2>4, <2>5
<1>5. CASE GetContextDataEx
  <2>1. /\ In("use") /\ gMutexPaused \in Caller /\ current = scope.thread /\ Done
        /\ UNCHANGED <<regs, current, cache>> /\ InScopeUnchanged
    BY <1>0, <1>5 DEF GetContextDataEx, In, Selected
  <2>2. PICK p \in {"leave", "unlock"} : To(p) /\ (p = "unlock" <=> scope.thread = scope.previous)
    BY <1>0, <2>1, DonePhase
  <2>3. Selected' /\ Pending'
    BY <1>0, <1>2, <2>1, <2>2, PhaseTypes
       DEF Phase, In, Selected, Pending, InScopeUnchanged, gate, cache
  <2>4. QED
    BY <1>0, <1>1, <1>2, <2>1, <2>3 DEF cache, Owned, OwnRegisters, LosesNothing, Effective
<1>6. ASSUME NEW d \in Datum, SetContextDataEx(d) PROVE GateInv' /\ LosesNothing
  <2>1. /\ In("use") /\ gMutexPaused \in Caller /\ current = scope.thread /\ To("write")
        /\ scope.write /\ regs' = regs /\ current' = current /\ InScopeUnchanged
        /\ SetValue(scope.register, [of |-> current, datum |-> d])
    BY <1>0, <1>6 DEF SetContextDataEx, In, Selected
  <2>2. /\ Owned' /\ Changed' = Changed \cup {scope.register}
        /\ \A q \in Register \ {scope.register} : values'[q] = values[q]
        /\ \A t \in Thread, q \in Register :
             t # current \/ q # scope.register => Effective(t, q)' = Effective(t, q)
    BY <1>0, <2>1, SetKeeps
  <2>3. Selected' /\ Pending'
    BY <1>0, <1>2, <2>1, <2>2, PhaseTypes
       DEF Phase, In, Selected, Pending, InScopeUnchanged, gate
  <2>4. \A r \in Register \ Changed' : values'[r] = regs'[current'][r]
    BY <1>2, <2>1, <2>2
  <2>5. LosesNothing
    BY <2>1, <2>2 DEF LosesNothing
  <2>6. QED
    BY <1>1, <2>1, <2>2, <2>3, <2>4, <2>5
<1>7. CASE Write \/ Leave
  <2>1. /\ In("write") \/ In("leave")
        /\ FlushSucceeds \/ FlushFails
        /\ gMutexPaused \in Caller /\ current = scope.thread
        /\ current' = current /\ InScopeUnchanged
    BY <1>0, <1>7 DEF Write, Leave, In, Selected
  <2>2. /\ Owned' /\ (\A r \in Register \ Changed' : values'[r] = regs'[current'][r]) /\ Same
        /\ Changed' \subseteq Changed
    BY <1>0, <1>2, <2>1, FlushKeeps
  <2>3. PICK p \in {"leave", "back", "unlock"} :
          To(p) /\ (p = "unlock" <=> scope.thread = scope.previous)
    BY <1>0, <1>7, <2>1, DonePhase DEF Write, Leave, In, Pending
  <2>4. Selected' /\ Pending'
    <3>1. /\ scope'.phase = p /\ scope'.thread = scope.thread /\ scope'.write = scope.write
          /\ scope'.previous = scope.previous /\ scope'.register = scope.register
          /\ event' = event /\ gMutexPaused' = gMutexPaused
      BY <1>0, <2>1, <2>3, PhaseTypes DEF Phase, InScopeUnchanged, gate
    <3>2. scope.thread # scope.previous => Changed \subseteq {r \in {scope.register} : scope.write}
      BY <1>0, <2>1 DEF In, Pending
    <3>3. QED
      BY <1>2, <2>1, <2>2, <2>3, <3>1, <3>2 DEF Selected, Pending, Caller
  <2>5. QED
    BY <1>1, <2>1, <2>2, <2>4 DEF LosesNothing
<1>8. CASE Back
  <2>1. /\ In("back") /\ gMutexPaused \in Caller /\ current = scope.thread /\ regs' = regs
        /\ InScopeUnchanged /\ current' = event /\ Read(event) /\ To("unlock")
    BY <1>0, <1>2, <1>8 DEF Back, In, Selected, ThreadToRestore
  <2>2. /\ Owned' /\ Changed' = Changed /\ (\A r \in Register : values'[r] = regs'[current'][r])
        /\ \A t \in Thread, r \in Register : Effective(t, r)' = regs[t][r]
    BY <1>0, <2>1, ReadKeeps DEF Owned, TypeOK
  <2>3. Selected' /\ Pending'
    BY <1>0, <1>2, <2>1, PhaseTypes DEF Phase, In, Selected, Pending, InScopeUnchanged, gate
  <2>4. LosesNothing
    <3>1. Changed \subseteq {r \in {scope.register} : scope.write}
      BY <1>0, <2>1 DEF In, Pending
    <3>2. QED
      BY <2>1, <2>2, <3>1 DEF LosesNothing, Effective
  <2>5. QED
    BY <1>1, <2>1, <2>2, <2>3, <2>4
<1>9. QED
  BY <1>a, <1>b, <1>c, <1>3, <1>4, <1>5, <1>6, <1>7, <1>8 DEF RegisterCall

LEMMA LoopKeeps ==
  ASSUME ~Eager, GateInv, DebugLoop
  PROVE  GateInv' /\ LosesNothing
<1> USE GateAssumption
<1>0. /\ TypeOK /\ TypeOK' /\ Calling /\ Selected /\ Owned /\ Fresh /\ Clean /\ Pending
      /\ event \in Thread /\ current \in Thread
  BY LoopTypes DEF GateInv, TypeOK
<1>1. pc # "callback" => gMutexPaused = NoOne /\ current = event
  BY <1>0 DEF TypeOK, Calling, Selected
<1>2. \A c \in Caller : pc # "callback" => call[c] = "idle"
  BY <1>0 DEF Calling
<1>3. ASSUME NEW t \in Thread, WaitForEvent(t) PROVE GateInv' /\ LosesNothing
  <2>1. /\ Changed = {} /\ Changed' = {} /\ current' = t /\ event' = t /\ pc' = "stopped"
        /\ pc = "wait" /\ UNCHANGED gate
    BY <1>0, <1>3 DEF WaitForEvent, Clean, cache
  <2>2. PICK data \in [Register -> Datum] :
          regs' = [regs EXCEPT ![t] = [r \in Register |-> [of |-> t, datum |-> data[r]]]]
    BY <1>3 DEF WaitForEvent
  <2>3. \A u \in Thread, r \in Register :
          regs'[u][r] = IF u = t THEN [of |-> t, datum |-> data[r]] ELSE regs[u][r]
    BY <1>0, <2>2 DEF TypeOK
  <2>4. Owned'
    <3>1. ASSUME NEW u \in Thread, NEW r \in Register PROVE regs'[u][r].of = u
      <4>1. CASE u = t
        <5>1. regs'[u][r] = [of |-> t, datum |-> data[r]]
          BY <2>3, <4>1
        <5>2. QED
          BY <4>1, <5>1
      <4>2. CASE u # t
        BY <1>0, <2>3, <4>2 DEF Owned, OwnRegisters
      <4>3. QED
        BY <4>1, <4>2
    <3>2. QED
      BY <2>1, <3>1 DEF Owned, OwnRegisters
  <2>5. Calling' /\ Selected' /\ Fresh' /\ Clean' /\ Pending'
    BY <1>1, <1>2, <2>1 DEF Calling, Selected, Fresh, Clean, Pending, gate, Caller
  <2>6. LosesNothing
    BY <2>1, <2>3 DEF LosesNothing, Effective
  <2>7. QED
    BY <1>0, <2>4, <2>5, <2>6 DEF GateInv
<1>4. CASE FillCache
  <2>1. /\ Read(current) /\ current' = current /\ event' = event /\ regs' = regs
        /\ pc = "stopped" /\ pc' = "work" /\ gMutexPaused' = gMutexPaused /\ call' = call
    BY <1>4 DEF FillCache
  <2>2. /\ Owned' /\ Changed' = Changed /\ (\A r \in Register : values'[r] = regs'[current'][r])
        /\ \A u \in Thread, r \in Register : Effective(u, r)' = regs[u][r]
    BY <1>0, <2>1, ReadKeeps DEF Owned
  <2>3. Calling' /\ Selected' /\ Fresh' /\ Clean' /\ Pending'
    BY <1>1, <1>2, <2>1, <2>2 DEF Calling, Selected, Fresh, Clean, Pending, Caller
  <2>4. LosesNothing
    BY <1>0, <2>1, <2>2 DEF Clean, LosesNothing, Effective
  <2>5. QED
    BY <1>0, <2>2, <2>3, <2>4 DEF GateInv
<1>5. CASE HandleEvent
  <2>1. /\ current' = current /\ event' = event /\ current = event /\ regs' = regs
        /\ pc = "work" /\ pc' = "callback" /\ gMutexPaused' = NoOne /\ call' = call
    BY <1>1, <1>5 DEF HandleEvent, gate
  <2>2. Calling' /\ Selected' /\ Clean' /\ Pending'
    BY <1>2, <2>1 DEF Calling, Selected, Clean, Pending, Caller
  <2>3. CASE UNCHANGED cache
    BY <1>0, <2>1, <2>2, <2>3
       DEF GateInv, cache, Owned, OwnRegisters, Fresh, LosesNothing, Effective
  <2>4. ASSUME NEW d \in Datum, SetValue(UE_CIP, [of |-> event, datum |-> d])
        PROVE  GateInv' /\ LosesNothing
    <3>1. /\ Owned' /\ Changed' = Changed \cup {UE_CIP}
          /\ \A q \in Register \ {UE_CIP} : values'[q] = values[q]
          /\ \A t \in Thread, q \in Register :
               t # current \/ q # UE_CIP => Effective(t, q)' = Effective(t, q)
      BY <1>0, <2>1, <2>4, SetKeeps
    <3>2. Fresh'
      BY <1>0, <2>1, <3>1 DEF Fresh
    <3>3. LosesNothing
      BY <2>1, <3>1 DEF LosesNothing
    <3>4. QED
      BY <1>0, <2>2, <3>1, <3>2, <3>3 DEF GateInv
  <2>5. QED
    BY <1>5, <2>3, <2>4 DEF HandleEvent
<1>6. CASE CallbackReturns
  <2>1. \A c \in Caller : call'[c] = "idle"
    BY <1>6 DEF CallbackReturns, gate, Caller
  <2>2. Calling' /\ Selected' /\ Fresh' /\ Clean' /\ Pending'
    BY <1>0, <1>6, <2>1
       DEF CallbackReturns, cache, gate, Calling, Selected, Fresh, Clean, Pending
  <2>3. Owned' /\ LosesNothing
    BY <1>0, <1>6 DEF CallbackReturns, cache, Owned, OwnRegisters, LosesNothing, Effective
  <2>4. QED
    BY <1>0, <2>2, <2>3 DEF GateInv
<1>7. CASE FlushCache
  <2>1. /\ pc = "flush" /\ current' = current /\ event' = event /\ current = event
        /\ gMutexPaused' = NoOne /\ call' = call
    BY <1>1, <1>7 DEF FlushCache, gate
  <2>2. /\ FlushSucceeds \/ FlushFails
        /\ \A r \in Register \ Changed : values[r] = regs[current][r]
    BY <1>0, <1>7, <2>1 DEF FlushCache, Fresh
  <2>3. /\ Owned' /\ LosesNothing
    BY <1>0, <2>1, <2>2, FlushKeeps DEF LosesNothing
  <2>4. Clean' /\ Fresh'
    BY <1>7 DEF FlushCache, FlushSucceeds, Clean, Fresh
  <2>5. Calling' /\ Selected' /\ Pending'
    BY <1>2, <2>1 DEF Calling, Selected, Pending, Caller
  <2>6. QED
    BY <1>0, <2>3, <2>4, <2>5 DEF GateInv
<1>8. CASE Resume
  BY <1>0, <1>1, <1>2, <1>8
     DEF Resume, GateInv, cache, Calling, Selected, Owned, OwnRegisters, Fresh, Clean, Pending,
         LosesNothing, Effective, Caller
<1>9. QED
  BY <1>3, <1>4, <1>5, <1>6, <1>7, <1>8 DEF DebugLoop

LEMMA GateStep == ~Eager /\ GateInv /\ [Next]_vars => GateInv' /\ [LosesNothing]_vars
<1> SUFFICES ASSUME ~Eager, GateInv, [Next]_vars PROVE GateInv' /\ [LosesNothing]_vars
  OBVIOUS
<1>1. CASE UNCHANGED vars
  BY <1>1 DEF vars, cache, gate, GateInv, TypeOK, Calling, Selected, Owned, OwnRegisters, Fresh,
              Clean, Pending
<1>2. QED
  BY <1>1, CallKeeps, LoopKeeps DEF Next, Ended

LEMMA GateInit == Init => GateInv
<1> SUFFICES ASSUME Init PROVE GateInv
  OBVIOUS
<1>1. TypeOK
  BY InitType
<1>2. /\ Changed = {} /\ pc = "stopped" /\ current = event /\ OwnRegisters
      /\ gMutexPaused \notin Caller /\ \A c \in Caller : call[c] = "idle"
  BY GateAssumption DEF Init, OwnRegisters, Caller
<1>3. QED
  BY <1>1, <1>2 DEF GateInv, Calling, Selected, Owned, Fresh, Clean, Pending

\* No thread is given another one's register, a call finds its own thread's
\* registers, and the handlers find the event's thread current.
LEMMA GateMeaning == GateInv => OwnRegisters /\ OwnCache /\ CurrentIsEvent
<1> SUFFICES ASSUME GateInv PROVE OwnRegisters /\ OwnCache /\ CurrentIsEvent
  OBVIOUS
<1>1. OwnRegisters
  BY DEF GateInv, Owned
<1>2. OwnCache
  BY InCallback DEF GateInv, Selected, Fresh, OwnCache, In
<1>3. CurrentIsEvent
  BY DEF GateInv, TypeOK, Calling, Selected, CurrentIsEvent, Free
<1>4. QED
  BY <1>1, <1>2, <1>3

LEMMA GateInvariant == ASSUME ~Eager PROVE Spec => []GateInv
<1>1. GateInv /\ [Next]_vars => GateInv'
  BY GateStep
<1>2. QED
  BY <1>1, GateInit, PTL DEF Spec

\* The registers a flush writes are always those of the thread they were read
\* from or meant for (RegisterCache::Flush, DebugThreadScope).
THEOREM OwnRegistersInvariant == ASSUME ~Eager PROVE Spec => []OwnRegisters
  BY GateInvariant, GateMeaning, PTL

\* A register call works on the thread it names, with that thread's registers.
THEOREM OwnCacheInvariant == ASSUME ~Eager PROVE Spec => []OwnCache
  BY GateInvariant, GateMeaning, PTL

\* What handlers take for the event's thread is the event's thread.
THEOREM CurrentIsEventInvariant == ASSUME ~Eager PROVE Spec => []CurrentIsEvent
  BY GateInvariant, GateMeaning, PTL

\* Looking at threads, and failures to do so, change no register of the program.
THEOREM NothingIsLost == ASSUME ~Eager PROVE Spec => NothingLost
<1>1. GateInv /\ [Next]_vars => [LosesNothing]_vars
  BY GateStep
<1>2. QED
  BY <1>1, GateInvariant, PTL DEF Spec, NothingLost
=============================================================================
