----------------------------- MODULE PauseGate -----------------------------
(***************************************************************************)
(* PauseLock, the register cache and DbgEng's current thread.              *)
(*                                                                         *)
(* The registers of one thread are cached: those of DbgEng's current       *)
(* thread, which is the thread of the event.  A register call locks        *)
(* gMutexPaused, and its DebugThreadScope makes the thread it names the    *)
(* current one and swaps the cache for the length of the call.  DebugLoop  *)
(* takes the mutex to fill and to flush the cache, and not while its       *)
(* handlers use the cache and the current thread.                          *)
(***************************************************************************)
EXTENDS FiniteSets

CONSTANTS Thread,       \* the target's threads
          Register,     \* the registers of each
          UE_CIP,       \* the instruction pointer
          Gui,          \* threads of x64dbg that call the adapter
          DebugThread,  \* the thread that runs DebugLoop and the callbacks
          NoOne,        \* no thread
          Datum,        \* what distinguishes the values of one register
          Eager,        \* do the GUI's calls overlap the handlers and the resumption?
          Faulty        \* can SetValues fail?

ASSUME GateAssumption ==
  /\ UE_CIP \in Register /\ DebugThread \notin Gui
  /\ NoOne \notin Gui \cup {DebugThread} /\ Thread # {} /\ Datum # {}
  /\ {Eager, Faulty} \subseteq BOOLEAN

VARIABLES
  regs,         \* the target's registers
  pc,           \* DebugLoop: "wait" (for an event: the target runs), "stopped", "work",
                \* "callback", "flush", "resume" or "ended"
  event,        \* the thread of the event
  current,      \* DbgEng's current thread
  values,       \* gRegisterCache.Values
  Changed,      \* gRegisterCache.Changed
  gPaused,
  gMutexPaused, \* who holds it
  call,         \* callers: "idle", "admitted" (by PauseLock's test) or "in"
  scope         \* the call that is in: its arguments and how far it is

cache == <<values, Changed>>
gate == <<gPaused, gMutexPaused, call>>
vars == <<regs, pc, event, current, cache, gate, scope>>

Caller == Gui \cup {DebugThread}
Value == [of : Thread, datum : Datum]
Phase == {"enter", "switch", "use", "write", "leave", "back", "unlock"}
Scopes == [phase : Phase, thread : Thread, register : Register, write : BOOLEAN,
           previous : Thread]

Init ==
  /\ regs \in [Thread -> [Register -> Value]]
  /\ \A t \in Thread, r \in Register : regs[t][r].of = t
  /\ event \in Thread /\ current = event /\ pc = "stopped"
  /\ values = regs[current] /\ Changed = {}
  /\ gPaused = FALSE /\ gMutexPaused = NoOne /\ call = [c \in Caller |-> "idle"]
  /\ scope \in Scopes /\ scope.phase = "unlock"

-----------------------------------------------------------------------------
(* The register cache.                                                     *)

\* DbgEng refuses register and thread operations while the target runs.
Accessible == pc # "wait"

\* SetValue of RegisterCache.
SetValue(r, v) ==
  /\ values' = [values EXCEPT ![r] = v] /\ Changed' = Changed \cup {r}

\* Flush: what was changed is written to the current thread.
FlushSucceeds ==
  /\ Changed = {} \/ Accessible
  /\ regs' = [regs EXCEPT ![current] = [r \in Register |->
                IF r \in Changed THEN values[r] ELSE regs[current][r]]]
  /\ Changed' = {} /\ UNCHANGED values
FlushFails ==
  /\ Changed # {} /\ (Faulty \/ ~Accessible)
  /\ UNCHANGED <<regs, cache>>

\* Read: what was marked as changed stays marked.
Read(t) == values' = regs[t] /\ UNCHANGED Changed

-----------------------------------------------------------------------------
(* Register calls: GetContextDataEx, SetContextDataEx and the like.        *)

\* PauseLock finds the target stopped.  Unless the GUI is eager it calls only
\* while the debug thread is in a callback, as the debug thread itself does.
Admit(c) ==
  /\ call[c] = "idle" /\ gPaused /\ pc # "ended"
  /\ pc = "callback" \/ (Eager /\ c \in Gui)
  /\ call' = [call EXCEPT ![c] = "admitted"]
  /\ UNCHANGED <<regs, pc, event, current, cache, gPaused, gMutexPaused, scope>>

\* (variant: the mutex is not waited for)
NotWaitedFor == TRUE
Free == gMutexPaused = NoOne

Lock(c) ==
  /\ call[c] = "admitted" /\ Free
  /\ call' = [call EXCEPT ![c] = "in"] /\ gMutexPaused' = c
  /\ scope' \in Scopes /\ scope'.phase = "enter" /\ scope'.previous = current
  /\ UNCHANGED <<regs, pc, event, current, cache, gPaused>>

To(phase) == scope' = [scope EXCEPT !.phase = phase]
In(phase) == gMutexPaused \in Caller /\ scope.phase = phase
InScopeUnchanged == UNCHANGED <<pc, event, gate>>

\* (variant: another thread's registers replace unwritten ones)
SwitchAtOnce == To("switch") /\ UNCHANGED <<regs, cache>>
\* (variant: the thread is selected before the cache is flushed)
FlushAfterSelect ==
  /\ regs' = [regs EXCEPT ![scope.thread] = [r \in Register |->
                IF r \in Changed THEN values[r] ELSE regs[scope.thread][r]]]
  /\ Changed' = {} /\ UNCHANGED values /\ To("switch")
FlushBeforeSwitch == \/ FlushSucceeds /\ To("switch")
                     \/ FlushFails /\ To("unlock")

Enter ==
  /\ In("enter")
  /\ IF scope.thread = scope.previous THEN To("use") /\ UNCHANGED <<regs, cache>>
     ELSE FlushBeforeSwitch
  /\ UNCHANGED current /\ InScopeUnchanged

\* (variant: the cache keeps the previous thread's registers)
KeepCache(t) == UNCHANGED cache
ReadOnSwitch(t) == Read(t)

Switch ==
  /\ In("switch")
  /\ IF Accessible THEN current' = scope.thread /\ ReadOnSwitch(scope.thread) /\ To("use")
     ELSE To("unlock") /\ UNCHANGED <<current, cache>>
  /\ UNCHANGED regs /\ InScopeUnchanged

\* Where the call's work is done, the scope's destructor follows.
Done == IF scope.thread = scope.previous THEN To("unlock") ELSE To("leave")

\* GetValue, of the cache alone.
GetContextDataEx ==
  /\ In("use") /\ ~scope.write /\ Done
  /\ UNCHANGED <<regs, current, cache>> /\ InScopeUnchanged

\* SetValue, and the Flush that decides what is returned.
SetContextDataEx(d) ==
  /\ In("use") /\ scope.write /\ To("write")
  /\ SetValue(scope.register, [of |-> scope.thread, datum |-> d])
  /\ UNCHANGED <<regs, current>> /\ InScopeUnchanged

Write ==
  /\ In("write") /\ Done
  /\ FlushSucceeds \/ FlushFails
  /\ UNCHANGED current /\ InScopeUnchanged

Leave ==
  /\ In("leave") /\ To("back")
  /\ FlushSucceeds \/ FlushFails
  /\ UNCHANGED current /\ InScopeUnchanged

\* (variant: the thread the call named stays current)
ThreadCalledFor == scope.thread
ThreadToRestore == scope.previous

Back ==
  /\ In("back") /\ To("unlock")
  /\ IF Accessible THEN current' = ThreadToRestore /\ Read(current')
     ELSE UNCHANGED <<current, cache>>
  /\ UNCHANGED regs /\ InScopeUnchanged

Unlock(c) ==
  /\ In("unlock") /\ gMutexPaused = c /\ gMutexPaused' = NoOne
  /\ call' = [call EXCEPT ![c] = "idle"]
  /\ UNCHANGED <<regs, pc, event, current, cache, gPaused, scope>>

-----------------------------------------------------------------------------
(* DebugLoop.                                                              *)

\* WaitForEvent returns: the program has run, and thread t has an event.
WaitForEvent(t) ==
  /\ pc = "wait" /\ pc' = "stopped" /\ event' = t /\ current' = t
  /\ \E data \in [Register -> Datum] :
       regs' = [regs EXCEPT ![t] = [r \in Register |-> [of |-> t, datum |-> data[r]]]]
  /\ UNCHANGED <<cache, gate, scope>>

FillCache ==
  /\ pc = "stopped" /\ Free /\ pc' = "work"
  /\ Read(current) /\ gPaused' = TRUE
  /\ UNCHANGED <<regs, event, current, gMutexPaused, call, scope>>

\* The handler calls the user back.  That of a patched breakpoint first moves the
\* instruction pointer back, in the cache and without the mutex.
HandleEvent ==
  /\ pc = "work" /\ pc' = "callback"
  /\ UNCHANGED cache \/ \E d \in Datum : SetValue(UE_CIP, [of |-> event, datum |-> d])
  /\ UNCHANGED <<regs, event, current, gate, scope>>

CallbackReturns ==
  /\ pc = "callback" /\ pc' = "flush"
  /\ call[DebugThread] = "idle" /\ (~Eager => \A c \in Gui : call[c] = "idle")
  /\ UNCHANGED <<regs, event, current, cache, gate, scope>>

\* A failure ends the session, and with it the cache.
FlushCache ==
  /\ pc = "flush" /\ Free
  /\ \/ FlushSucceeds /\ pc' = "resume"
     \/ FlushFails /\ pc' = "ended"
  /\ UNCHANGED <<event, current, gate, scope>>

Resume ==
  /\ pc = "resume" /\ pc' = "wait" /\ gPaused' = FALSE
  /\ UNCHANGED <<regs, event, current, cache, gMutexPaused, call, scope>>

Ended == pc = "ended" /\ UNCHANGED vars

DebugLoop == \/ \E t \in Thread : WaitForEvent(t)
             \/ FillCache \/ HandleEvent \/ CallbackReturns \/ FlushCache \/ Resume
RegisterCall == \/ \E c \in Caller : Admit(c) \/ Lock(c) \/ Unlock(c)
                \/ Enter \/ Switch \/ GetContextDataEx \/ Write \/ Leave \/ Back
                \/ \E d \in Datum : SetContextDataEx(d)

Next == DebugLoop \/ RegisterCall \/ Ended
Spec == Init /\ [][Next]_vars

-----------------------------------------------------------------------------
(* Properties.                                                             *)

\* Types; and the mutex belongs to exactly the caller that is in.
TypeOK ==
  /\ regs \in [Thread -> [Register -> Value]] /\ values \in [Register -> Value]
  /\ Changed \subseteq Register /\ current \in Thread /\ event \in Thread
  /\ pc \in {"wait", "stopped", "work", "callback", "flush", "resume", "ended"}
  /\ gPaused \in BOOLEAN /\ gMutexPaused \in Caller \cup {NoOne}
  /\ call \in [Caller -> {"idle", "admitted", "in"}] /\ scope \in Scopes
  /\ \A c \in Caller : call[c] = "in" <=> gMutexPaused = c

\* No thread is ever given a register of another one.
OwnRegisters == \A t \in Thread, r \in Register : regs[t][r].of = t

\* A call finds its own thread's registers in the cache, up to date.
OwnCache ==
  In("use") => /\ current = scope.thread
               /\ \A r \in Register \ Changed : values[r] = regs[current][r]

\* The handlers ask DbgEng for the current thread to know whose event they handle:
\* it is the event's, whatever threads are looked at meanwhile.
CurrentIsEvent ==
  pc \in {"work", "flush", "resume"} \/ (pc = "callback" /\ Free) => current = event

\* What thread t's register will be when it runs.
Effective(t, r) == IF t = current /\ r \in Changed THEN values[r] ELSE regs[t][r]

LosesNothing ==
  \A t \in Thread, r \in Register : Effective(t, r)' # Effective(t, r) =>
    \/ pc \in {"wait", "work"} /\ event' = t
    \/ gMutexPaused \in Caller /\ scope.write /\ scope.thread = t /\ scope.register = r

\* What a thread will run with changes by its own running, by the handler of its
\* event and by a call that writes it; calls for other threads lose nothing.
NothingLost == [][LosesNothing]_vars
=============================================================================
