# TLA+ models of the DbgEng TitanEngine adapter

`src/src/TitanEngine/TitanEngine.cpp` ("the code" below; line numbers are its
lines) lets x64dbg, which is written against the TitanEngine API, debug with
Microsoft's DbgEng: live processes, minidumps and time-travel (TTD) recordings.
This directory holds TLA+ models of its logic, the TLC runs that check them on
small instances, and TLAPS proofs. `PROJECT.json` lists the runs, which lines
each definition models, the hazards and the findings.

## 1. The system

| Component | State | Operations |
|---|---|---|
| Debug loop, live (5466-5655) | `gIsDebugging`, `gPaused`, `gCallbackQueue`, `gNextExecutionStatus`, `gFakeDebugEvent` | `DebugLoop`: wait for an event, read the registers, run the queued handlers, flush, resume; clear everything at the end |
| Event handlers (1063-1723) | the queue | `DebugEventCallbacks`: breakpoint, exception, thread, process, module, output events; each queues its work |
| Step machinery (447-452, 852-954, 4990-5110) | `gStepCallbacks`, `gStepStatuses`, `gInternalStepCallbacks`, `gInternalStepSuspendedThreads` | `StepInto`, `StepOver`, `scheduleInternalStep`, `completeInternalStep` |
| Memory breakpoints (762-838, 920-1006, 4254-4386) | `gMemoryBreakpoints`, `gMemoryBreakpointPages` | `SetMemoryBPXEx`, `RemoveMemoryBPX`, the guard-page handler, `MemoryReadUnsafe`'s lifting of guards |
| Code and hardware breakpoints (4096-4252, 5112-5382) | `gBreakpoints`, `gHardwareBreakpointIds`, `gRetiredBreakpointAddresses` | `SetBPX`, `DeleteBPX`, hardware slots, `RemoveAllBreakPoints` |
| Pause gate and register cache (463-498, 1731-2210, 4526-4880) | `gPaused`, `gMutexPaused`, `gRegisterCache`, DbgEng's current thread | `PauseLock`, `DebugThreadScope`, `Get/SetContextDataEx` and friends, called by the GUI's threads |
| Handle registry (680-733, 5743-5929) | `gHandleRegistry`, `gDebugIdMap` | register, resolve, close, invalidate at the end of a session |
| Session lifecycle (2217-2444, 2858-2935, 4045-4089, 5669-5735) | `gSessionKind`, `gDbgEngInitialized`, `gProcessInfo` | `InitDebugW`, `AttachDebugger`, `StopDebug`, `DetachDebuggerEx`, end of `DebugLoop` |
| Pause requests (5506-5522, 5953-5992) | `gPauseCallback` | `RequestPause`, and its delivery by the loop |
| TTD replay (560-582, 2937-3843, 3850-4043, 5394-5464) | cursor, positions, pending watch hits, `gTtd*` flags | forward and reverse run and step, watchpoints, breakpoints, module and thread timeline |
| Minidump sessions (parts of 2858-2935, 5611-5615) | none of their own | read only; stay at the first event |
| Static files, PE helpers, memory queries (2450-2850, 6024-6062; `FileMap.h`) | file mappings | conversions, `StaticFileLoad`, pure I/O |
| Tools (`playground`, `replay_probe`, `shim_replay_probe`, `testapp`, `testlib`, `exception`) | | clients and targets for manual tests |

How they interact. DbgEng calls a handler inside `WaitForEvent`; the handler
queues its work and `DebugLoop` runs it after the wait has returned and
`gPaused` is set. The work calls the user (x64dbg) back, and the user calls the
API from there: steps, breakpoints, registers. x64dbg's GUI threads call the
register and memory API at any time; `PauseLock` is meant to refuse them while
the target runs. Memory and code breakpoints call `scheduleInternalStep` to run
one instruction without the breakpoint, and its completion re-arms it. The
target's threads run whenever the loop waits, and events of several threads
queue up at the debug port.

What is hard: events of several threads handled one at a time while more are
queued; handlers that change the breakpoints and steps other handlers rely on;
user callbacks in the middle of a handler; threads that are created or end
during a hidden step; GUI threads racing the debug loop; API calls that fail
half-way.

What makes each component correct: a watched access is reported, once, and is
never missed; the program cannot tell that it is being watched (no stray
exception, no changed protection, no thread left suspended, no register of one
thread written to another); a requested step is reported once; everything a
session changes is undone or forgotten at its end.

## 2. Plan

1. `InternalStep` (done): the debug loop with the step machinery, the core.
   Proofs in `InternalStepProofs` (done).
2. `MemoryBreakpoints` (done): records and pages of memory breakpoints,
   protections, partial failures. Proofs in `MemoryBreakpointsProofs` (done).
3. `PauseGate` (done): `PauseLock`, register cache and current thread against
   GUI threads. Proofs in `PauseGateProofs` (done).
4. `NativeBreakpoints` (done): patches in memory, the retired addresses, the
   hardware slots, `RemoveAllBreakPoints`; it implements `CodeWatch`, which knows
   only a set of watched addresses.
5. `Session` (done): the life of a session (launch, attach, replay, dump; loop;
   stop) with the handles opened in it. Proofs in `SessionProofs` (done).
6. `TtdReplay` (done): runs, steps and seeks over a recording, pause and stop; it
   implements `ReplayWalk`, a walk that never passes over a position it has to
   stop at.
7. Theorems on the rest of the safety properties (done): `InternalStepWatchProofs`,
   `NativeBreakpointsProofs` with the refinement of `CodeWatch`, `TtdReplayProofs`
   with the refinement of `ReplayWalk`, and the two promises of `MemoryBreakpoints`
   to the running target.
8. Compositions, later: `InternalStep` with `MemoryBreakpoints`' page table and
   with `PauseGate`'s readers; and which of the theorems' hypotheses can be weakened.

## 3. InternalStep

### What is modelled

One action per handler, cut where the code calls the user. The phases are `pc`:
`wait` (inside `WaitForEvent`), `callback` (the user's code runs), `rearm` (the
rest of a hit's handler), `release` (the rest of `completeInternalStep`),
`finish` and `reap` (`finishDebugEvent`, and what `ExitThread` erases after it),
`resume` (`SetExecutionStatus`), `ended`. A location is a page or a patched
address; `present` says that it has a record, `armed` that the guard or the
patch is in place. The internal step's callback is a closure in the code; it is
`rearm[t]`, the locations it arms again, and `absorbed`, whether it also calls
a user step.

The target's threads are the environment: an instruction touches a set of
locations (`Footprints`), faults on an armed one, else retires. Suspension,
trap flag, the debug port and DbgEng's own stepping are modelled from what the
handlers rely on; those definitions are marked external in `PROJECT.json`.

A guard violation resumed with a status that does not mark it handled is passed on
to the program (`PassedOn`): `finishDebugEvent` (521) keeps a status the callback has
asked for, and a `StepInto` (5013) asks for one that, as 882-884 says, does not. The
program is taken to have a handler for what is passed on, and to go on there with
another instruction and with the trap flag still set.

Abstractions. DbgEng resumes "not told" (`NO_CHANGE`) in an undocumented way:
the loop may go on or the session may end. A user step is one kind of step
(`StepInto` and `StepOver` differ in the status only). Setting and deleting
breakpoints succeed or change nothing. The user's own `TitanSuspendThread`, the
WOW64 transition step, pause requests, module and output events and several
debuggee processes are left out.

### Bounds

`MaxPort` bounds the events raised and not delivered. Two are enough for two
threads to be hit before either hit is handled, and for an event of each kind
to be queued behind a hit; with one the target raises no event while another is
queued, which is how the promises that fail otherwise are checked. Three
threads allow one to be created and one to die while a step is pending.
One page and one patch are the two kinds of location. `Footprints` gives what an
instruction may touch: with `Always` one location, which may carry no
breakpoint; with `OneOf` also nothing; with `CrossPage` nothing or both, so
that it faults twice within one step.

### Runs

| Run | Shows |
|---|---|
| `racing` | with hits that race, steps that overlap and breakpoints that are edited or single-shot: no thread is resumed more often than suspended, each living thread is suspended once per step that holds it, trap flags belong to internal steps, a recorded breakpoint is armed, being stepped over or about to be handled, and a requested step is not lost |
| `hostile` | the step maps agree when contexts or code cannot be written and when threads end in their step |
| `orderly` | with one event at a time nothing runs next to a hidden step, no access escapes and each step gets done, also of instructions that fault twice |
| `mutual` | finding: two hits queued at once suspend each other's threads |

The finding quotes the comment it contradicts in `PROJECT.json`. Seen with other
constants: with `SteppedSyscall = TRUE`, `racing` no longer keeps
`SuspensionAccounted`, since a thread that ends in its hidden step leaves its
peers suspended; with a third thread to be created next to two and `MaxPort = 2`,
`HiddenStepAlone` fails, since a thread whose creation event is still queued runs
next to the hidden step. Seen as well, and listed as hazards with a note: the status a
callback requests overrides the "handled" of a guard exception, which then reaches the
program (521); a user step requested before another thread's step completes is
resumed as a run (945, with 525); a read admitted before the target was resumed
guards an exposed page again, so that the step faults once more (467).

`CHECK_DEADLOCK FALSE` where two threads can suspend each other: the target
then really stops (`mutual` shows it).

Fairness (`FairSpec`): the loop continues when it can and callbacks return
(weak fairness of `DebugLoop`), and a thread that stays able to run executes
(weak fairness of its instruction). Thread creation, ends, edits and reads need
not happen. Windows schedules every runnable thread, and `DebugLoop` is a plain
loop, so both are justified.

### Proofs

`InternalStepProofs` proves, for any set of threads and locations and any bound:

- `TypeOKInvariant`: all variables stay in their domains and no suspend count
  becomes negative;
- `StepRecordsAgreeInvariant`: the step maps agree;
- `TrapFlagOwnedInvariant`: each pending internal step is trapped or reported,
  and nobody else is trapped;
- `SuspensionAccountedInvariant`: if stepped instructions return, a thread is
  suspended exactly once per step that holds it.

The argument is by layers, each inductive given those before it: `Domains`;
`StepRecordsAgree`, which is inductive itself; `ThreadsKnown`, that only
threads that have lived have events, registrations and steps;
`TrapFlagOwned`; and the excess of a thread's suspend count over the number of
steps that hold it, which no step changes but the loss of a record: it is never
negative (`HoldersCounted`), and is zero if no thread dies in its step
(`LivingSteps`, `HoldersExact`). Without the layers the invariants are not
inductive: an event of an unborn thread, or a step of a dead one, would break
each of them.

`InternalStepWatchProofs` builds on them. The code keeps these promises only where
nothing of what is named here happens; the hypotheses are those of the runs:

| Theorem | Assumes |
|---|---|
| `NoLostWatchInvariant` | `~SteppedSyscall`, `~Faulty` |
| `UserStepKeptTheorem` | `~Faulty` |
| `HiddenStepAloneInvariant` | `MaxPort = 1`, `~SteppedSyscall` |
| `NoEscapeInvariant` | `MaxPort = 1`, `~SteppedSyscall`, `~Faulty` |
| `ExposedForStepInvariant` | `MaxPort = 1`, `~SteppedSyscall`, `~UserEdits`, `~UserReads` |

The first two hold with events that race; what carries `NoLostWatch` is `WatchKept`:
a recorded location that is not armed is to be armed again at the end of a step, or its
hit is in the port or being handled. The others rest on `Orderly`, again in layers: at most
one event is in the port or handled (`OneEvent`), at most one thread steps
(`OneStep`), events and steps are the stepping thread's (`OwnEvents`), the threads
that live are listed (`AliveListed`), all of them but that one are held
(`PeersHeld`), and they are let go only once the step is over (`StepOver`).
Without `PeersHeld` another thread could raise the second event
that breaks `OneEvent`: neither is inductive alone.

Liveness (`StepCompletes`) is model-checked only.

## 4. MemoryBreakpoints

### What is modelled

`gMemoryBreakpoints` and `gMemoryBreakpointPages` with the protections of the
target's pages: what the program gave them (`own`) and what they have
(`protect`). `SetMemoryBPX` is the call that succeeds, `SetMemoryBPXFails` the one
that fails at page `f` and takes back what it did; `RemoveById` is shared by the
user's call and by a breakpoint that removes itself; `DispatchHit`, the user's
callback and `ExposeAndStep` are the handler, cut where the code calls the user. (The
handler also calls the user's `UE_CH_DEBUGEVENT`, at 984; it is taken to change no
breakpoint.) `pc` says where `DebugLoop` is: the target runs (`run`); it has raised
something that waits for gMutexPaused (`raised`, left by `Stop`); `event`, `callback`,
`rest` are the handler; `flush` waits for the mutex again (left by `Resume`).
`CompleteStep` is the re-arm at the end of the internal step, whose machinery is
`InternalStep`'s. The target has one thread: what several do to an exposed page
is `InternalStep`'s question.

The end of a session is `DetachDebuggerEx` in a callback, which removes the
breakpoints first, or `DetachUnpaused` while the target runs: `PauseLock` does not let
it pass, `removeAllMemoryBreakpoints` is skipped (5725), and the target goes its way
with its pages guarded (`abandoned`). `ProtectionRestored` excepts what is left then.

The GUI's `MemoryReadUnsafe` is admitted by `PauseLock`'s test of `gPaused` (`Admit`)
and then waits for gMutexPaused, so that the target may have been resumed before it
begins (`BeginRead`). It runs next to the handlers, which do not take its
mutex: it lifts the guards, then for each page looks the table up (`LookUp`) and
guards it (`GuardAgain`), with handlers and target between. That the table is
read while a handler may change it is a data race in the code; the model takes
each lookup as one atomic step, one of the outcomes of the race.

Abstractions. An address is its page; matching within a page is by the kind of
access. The program's own exception handler (`PassOn`) is external: it deals with
the exception, and the program goes on with another access. The program does not
change protections itself. `MemoryWriteSafe` lifts no guards and is left out.

### Bounds

Two adjacent pages with the ranges of one, the other and both are enough for
breakpoints to share a page, to cover it alone, and for an instruction to cross
the boundary. `MaxId` bounds the breakpoints set in one session: two overlap;
with one more nothing new is covered, since ranges in use are refused.
`Faulty`, `OneShots` and `Reads` say which of the failing calls, breakpoints
without `RestoreOnHit` and GUI reads a run has; `Own` whether the program has read-only
pages (`mem_edits`, `mem_reads`) or writable ones only (`mem_settled`).

### Runs

| Run | Shows |
|---|---|
| `mem_edits` | with everything, failures included: the page table lists exactly the pages breakpoints cover, with exactly their ids |
| `mem_reads` | finding: a read admitted while the target was stopped lifts guards when it runs again, which the comment at 5480 rules out |
| `mem_settled` | with one-shot breakpoints and no reads: what is kept to be restored is the program's own protection, no access escapes, and each fault ends in the instruction executed and the pages guarded again |

Fairness (`FairSpec`): weak fairness of the target's thread and of the handlers
with the return of the callback; the user and the GUI need do nothing.

Seen as well, contradicting no document and listed as hazards with a note: a
GUI read mixed with one-shot breakpoints leaves a guard nobody owns (2565), a
detach from the running target leaves all guards (5725), a protection that cannot be restored (821) or set again (925), and an access the
program's own protection forbids, or a guard page of the program's own, which is
stepped forever (1216; a page with such a protection violates `FaultSettled`).

### Proofs

`MemoryBreakpointsProofs` proves for any pages, ranges, kinds and number of
breakpoints:

- `TablesAgreeInvariant`: `TablesAgree`, with all failures and reads;
- `MemoryTypeInvariant`: `TypeOK`; that no page keeps the id of a breakpoint that
  is gone rests on `TablesAgree`, which is why both are proved together;
- `ProtectionRestoredInvariant`: `ProtectionRestored`, assuming `~Faulty` and
  `~(Reads /\ OneShots)`; without these the code does not keep it;
- `WatchArmedInvariant`: `WatchArmed`, assuming `~Faulty` and `~Reads`: with reads the
  run `mem_reads` shows that the code violates it;
- `NoEscapeInvariant`: `NoEscape`, under the same assumptions.

`TablesAgree` is proved by one lemma per operation on the tables (removal, the
new breakpoint, the rolled back call, the detach). `ProtectionRestored` is not
inductive: a read in progress could set a guard on a page nobody watches. What
is, is its conjunction with: the reader holds only watched pages, and what it is
about to set is that page's guard; and, where reads are allowed, no breakpoint
removes itself, so that a page stays watched as long as the reader holds the
mutex. For `WatchArmed` the invariant (`Armed`) speaks of
every phase: a watched page is guarded, or in a step's re-arm, or the page of the fault
being handled. `FaultSettled` (liveness) is model-checked only.

## 5. PauseGate

### What is modelled

The cache (`values`, `Changed`), DbgEng's current thread, `gPaused`,
`gMutexPaused` and the target's registers. A register value is a pair: the
thread it belongs to and a datum; the ghost `of` is what the properties look at.
A call is `idle`, `admitted` (it has seen `gPaused`) or `in` (it has the mutex);
`scope` is the call that is in. `DebugThreadScope`'s constructor is `Enter`
(flush) and `Switch` (select the thread and read it), the work is
`GetContextDataEx` or `SetContextDataEx` and its `Write`, the destructor `Leave`
(flush) and `Back` (select the previous thread and read it). `DebugLoop` is `wait`,
`stopped`, `work` (the handlers), `callback`, `flush`, `resume`.

`Eager` says whether the GUI's calls overlap the handlers and the resumption.
x64dbg usually keeps the debug thread in a callback while it is stopped, and
the user resumes from there; with `Eager = FALSE` calls are admitted in a
callback only and it returns after them. Nothing in the code enforces it: with
`Eager = TRUE` `PauseLock` alone decides.

`Faulty` says whether `SetValues` fails. Selecting a thread and reading its
registers do not fail while the target is stopped, and all three fail while it
runs. `FillCache` is the read under the mutex together with the `gPaused = true`
after it: no call is admitted between them, so no caller sees the difference.
`WaitForEvent` changes the registers of the event's thread, the others' stay:
any number of events gives any combination. The calls for the whole and the
extended context (4526-4674, 4807-4942) use the same scope, and write through
`SetThreadContext` as well and read the cache again after it; they are left out. So are
the branches of `GetContextDataEx` for TTD sessions and for a target that is not
stopped (4675-4786), which do not touch the cache.

### Bounds

Two of the target's threads (the event's and another one), two registers (the
instruction pointer and another one), two values, two GUI threads and the debug
thread: two callers can be admitted while a third is in. Nothing is counted,
so the model has no other bound.

### Runs

| Run | Shows |
|---|---|
| `gate` | no register goes to another thread, a call finds the registers of the thread it names, handlers find the event's thread current, and calls for other threads lose nothing, with failing writes |
| `eager` | finding: a handler that moves the instruction pointer while the GUI looks at another thread writes it to that thread |

### Proofs

`PauseGateProofs` proves `TypeOK` for any GUI, and, assuming `~Eager`,
`OwnRegisters`, `OwnCache`, `CurrentIsEvent` and `NothingLost`, for any threads,
registers and callers. The invariant is `GateInv`: calls last no longer than
the callback (`Calling`); which thread is current is determined by how far the
call is (`Selected`); what is still to be written belongs to the current thread
(`Owned`); what is not is up to date (`Fresh`); the target resumes with nothing
to be written (`Clean`); and a call for another thread leaves only what it wrote
itself unwritten (`Pending`), even if its write back failed, which is what
makes the read that follows harmless. Three lemmas say what a flush, a read and
a write of the cache keep; each step is one of them at the place `Selected`
says.

## 6. NativeBreakpoints

### What is modelled

The bytes of the program's memory, `program`, which is what they would be without
breakpoints, and one thread that executes them. `SetBPX` and an execute
`SetHardwareBreakPoint` write a patch of the type asked for (`int3`, long `int3`, `ud2`)
and keep the bytes that were there; `DeleteBPX`, `DeleteHardwareBreakPoint` and
`RemoveAllBreakPoints` put them back. `Raise` is the exception of a patch, with the
address DbgEng reports and the instruction pointer the processor leaves;
`DispatchHit` lifts the patch, puts the instruction pointer back and runs the
callback; `SuppressStale` swallows the exception of an address that has been
retired; `DispatchException` passes on an `int3` of the program's own;
`CallbackReturns` schedules the step over the original instruction and
`CompleteStep` executes it and writes the patch again. `RemoveAllBreakPointsFails`
stops at a record, `SetFails` uses an id up and leaves no record. A data
breakpoint is an id of DbgEng's and a slot.

`lost` is a ghost: breakpoints that are recorded and no longer have their patch,
because writing it again failed (`CompleteStep`) or because
`RemoveAllBreakPoints` failed behind them.

`SetBPX` and `DeleteBPX` come at any moment, also while the target runs: the first goes
on without the pause lock when a session is in progress (4138), the second asks for
none. The other calls are made in a callback.

`CodeWatch` is the promise: a set of watched addresses, which the user changes
at any time; what is watched executes only after a report, and a
report does not move the program. `WatchedIsReported` is the refinement, with the
recorded patches that are not lost for the watched addresses.

Abstractions. A handler is one step, and so is a call: the patch `SetBPX` writes before
it inserts the record (4188-4214), and the data race of an unlocked call and a handler
on `gBreakpoints`, are not taken apart; a call comes at
any moment between handlers. Reads and writes of memory by the adapter itself
succeed, but for the two failures named. The internal step is a state of `pc`;
its machinery is `InternalStep`'s.

### Bounds and run

Four bytes are an instruction of two bytes, which is where a long `int3` or `ud2`
goes, one of a byte, and an `int3` of the program's own. Three patches in a
session (`MaxId`) are one on each instruction and a second life for one address.
Two debug registers, which are interchangeable (`SYMMETRY`; all the run's
properties are safety properties), are enough for all to be taken.

| Run | Shows |
|---|---|
| `native` | slots and records agree; memory is the program's but for recorded patches, and what they keep is the program's; the breakpoints implement `CodeWatch`, with patches set and deleted under the running target and writes and removals that fail |

`Overlap = FALSE`: x64dbg keeps patches apart and does not write into them.
Nothing in the code checks it. With `Overlap = TRUE`, a second patch that keeps a
byte of the first one violates `ProgramKept` (deleting them in the order they were
set leaves a stray `int3`), and so does a write into a patch.

### Proofs

`NativeBreakpointsProofs` proves for any program, sites, registers and number of
patches, with all failures:

- `NativeTypeInvariant` and `SlotsAgreeInvariant`: `TypeOK` and `SlotsAgree`;
- `ProgramKeptInvariant`: `ProgramKept`, assuming `~Overlap`;
- `WatchedIsReportedTheorem`: the refinement of `CodeWatch`, assuming `~Overlap` and
  `Faulty => OffOwnTraps` (no patch lies over an `int3` of the program's own).
  Without the latter TLC finds it violated: the program's own `int3` under a
  patch that could not be written again is reported as that breakpoint, which is
  no longer watched.

`Typed` has the accounts (`Slots`) in it: that DbgEng has an id left for a data
breakpoint is a pigeonhole argument, one register for each id that is taken. `Kept`
says that patches are apart, that each record keeps the program's bytes, that each
patch is in place (`Armed`) or the program's bytes are (`Lifted`), and that
memory is the program's elsewhere. Each action's writes are summed up once, as the patches it
lifts and those it puts in place (`Effect`), and both invariants are derived
from that. `Watching` adds why nothing escapes: a patch that is neither
lost nor being stepped over (`Over`) is in place; what is being stepped over is
lifted, and the program stands at it (`AtIt`) in each phase, through a
second exception at the same address as well; and an exception is never that of a lost
breakpoint. Writing or lifting several patches is defined per address, as what the
one with the highest id leaves there, and not by a fold over the records in the order
of their ids: the two are equal and TLC explores the same states, but what a fold
computes cannot be proved.

## 7. Session

### What is modelled

The debug thread is `pc`: `idle`; `launch`, `attach`, `MINIDUMP`, `TTD` inside
`InitDebugW`, `AttachDebugger` and `InitReplayW`; `begun`; `loop` (in `WaitForEvent`),
`work` (the queued handlers) and `replay` in `DebugLoop`; `ending`, `closed`, `reset` for
the steps of its end; `crashed` when the program is gone. Another thread of the front end is `call`: `StopDebug`,
`RequestPause` and `TitanOpenProcess` cut at each read or write of what the debug
thread shares with them, since they take no lock. `EndSession` may fail, and `StopDebug`
returns with everything as it was (4075, 4088). `RequestPause` exchanges the callback,
checks the cursor or calls `SetInterrupt`, sets `gTtdInterruptRequested` and uses the
cursor: `resetTtdSession` can come between any two of these. If it comes after the
check, the flag is set for the next session, but the call then goes through the null
cursor (5980) and the program ends (`ReplayInterrupted`). `DetachDebuggerEx` ends
DbgEng's session under the loop, as `StopDebug` does. One handle stands for the process
and its initial thread, which the code treats alike side by side. Values of native
handles are used again once closed, and DbgEng's handles are values of the same
kind (`Free`), so that a registry entry that outlives its handle is seen to answer
for another one. `gSessionGeneration` is the code's, and a callback in the queue
carries the generation in which it was queued.

`Troubles` lists what the run leaves out because the properties do not survive it
and nothing in the code prevents it:

| Trouble | What it is | What it violates |
|---|---|---|
| `late_failure` | the launch fails after the create-process event has queued its work (2916) | `HandlesAccounted`, `CallbacksInSession`, `NothingRemains` |
| `impatience` | the front end begins or runs a session while its own `StopDebug` or `RequestPause` for another has not returned (4057) | the same, and `KindKept`, `StopEnds`, `PauseAnswered` |
| `idle_interrupt` | DbgEng accepts an interrupt when it has no target (5968) | `CallbacksInSession`, `NothingRemains`, `PauseAnswered` |
| `reused_handle` | a native handle is opened with a value that create work still queued is about (685) | `HandlesAccounted` |
| `lost_registers` | the loop ends because it cannot read or flush the registers (5571, 5602) while DbgEng still has the target | `NothingRemains` |

A launch that fails before that event is in the run. They are hazards with a note.

### Bounds, fairness and run

Two sessions are enough for something of the first to reach the second. Three
handles are the process, a thread and one of the caller's, be it a launch's duplicate or
one opened, or the process and both of the latter. Four
synthetic handles are those of two replays, or of one with handles opened in it.

`FairSpec`: a beginning returns; `DebugLoop` goes on when it can; a call returns
(weak fairness: each is the rest of a function on a thread of its own); and
strong fairness of `Delivers`: an interrupted target breaks in, and an interrupted
replay reports it, although other events may come first any number of times.
A dump's loop stays at its event until `StopDebug`, which need not come.

| Run | Shows |
|---|---|
| `session` | native handles opened for the caller are registered as the caller's until closed, and no others are; `DebugLoop` calls back only for its own session; nothing is left of an ended session; the kind does not change under a running loop; a stop that has not failed ends the loop; a pause is delivered or withdrawn |

### Proofs

`SessionProofs` proves for any handles, numbers of sessions and tokens:

- `SessionTypeInvariant`: `TypeOK`, whatever the front end does (any `Troubles`);
- `HandlesAccountedInvariant`, `CallbacksInSessionInvariant`,
  `NothingRemainsInvariant` and `KindKeptTheorem`, assuming `Troubles = {}`; with any
  of them the code does not keep what the table above says. So `HandlesAccounted`
  covers handle values that are used again, but not by an open while create work about
  the value is queued; and `NothingRemains` covers `gTtdInterruptRequested` because a
  `RequestPause` late with it does not return.

`Typed` is `TypeOK` with two facts it needs: work in the queue is about a handle that
was given out, and whoever asks for a pause has seen its session begin. `Life` says
what each phase of the debug thread, and of a `StopDebug` in progress, leaves of the
rest: the kind (`KindByPhase`), DbgEng's session (`EngineByPhase`), the queue and
whose session its work is of (`QueueByPhase`), the registry (`RegistryByPhase`), how far
a stop has come (`StopByPhase`), who still knows of a stop or a pause (`StopKnown`,
`PauseKnown`), and that the engine's handles, the queue's and the caller's are different
(`HandlesApart`). `HandlesAccounted` alone is not inductive: a creation in the queue
about a handle that is by now the caller's would break it when it is run.

## 8. TtdReplay

### What is modelled

The recording is a CONSTANT: thread, address, access, call, threads and modules of
each position, with the system's id of each thread and the base of each module. The
adapter's tables hold unique thread ids and the front end is told system ids: that of an
exit is fixed when its callback is queued (3529), that of a creation looked up when its
callback runs, and if the thread has ended by then it is the current thread's (1338,
`CreatedId`). Modules are compared by base (3556, `NewAmong`). `DebugLoop`'s replay branch is `drain` (invoke the queued
callbacks), `callback`, `moving` (`runTtd` with `gMutexPaused` held) and `report` (the
rest of it without). `Move` is the replay with what follows under the lock: the step
back from the recorded exit, the timeline. `Report` decides what the run is
reported as. Calls of the front end wait for the lock after looking at `gPaused`
(`BeginMovement`), move (`ReplaySetPosition`, `replayStep`) and report after releasing
it (`QueueStep`); `RequestPause` is three steps, `StopDebug` two. A call whose session
ends while it waits for the lock, or before it calls `InterruptReplay`, goes on with the
null cursor (3691, 3740, 5980) and the program ends (`CursorGone`). The clean-up
(`EndSession`) is one action here and taken apart in `Session`.

`SetBPX` (4138) and `DeleteBPX` come at any moment, also during a replay; a breakpoint
that is set meanwhile is in `run.fresh`, and the replay may stop for it or not. The
unlocked insertion next to the engine's callback, a data race, is one step.

The engine is external. `EngineRun` is what a replay may return: the first accepted
hit, the limit, any position before if it is interrupted or runs backward, or the hit at the
current position once more (`Stale`), for which the code repeats the replay. (A reverse run
is bounded, by 0x10000000 instructions at 3888 and a million single steps at 3912; the
model takes the bounds as reached anywhere.) A position has at most one instruction.

`ReplayWalk` is what a front end relies on: between runs it goes anywhere, and a run
arrives without having passed over a stop. `NothingSkipped` is the refinement, where
the stops are the exception events and the positions of accepted watchpoints whose
breakpoint was there when the run began.

`TimelineReported` assumes `IdsUnique`: with a system id used twice the exit of one
thread takes the other out of the front end's list. `ExitAtEnd` is stated for replays
`InterruptReplay` has not cut short, and as to the report for runs without a hit.

### Bounds, fairness and run

Four positions: a call on one thread, another thread that executes its return
address before it does, exceptions at two positions, a module that is mapped for a
while, and the exit. One calling thread next to the debug loop; a call is not begun
with callbacks in the queue (`MaxQueue = 0`), but one begun earlier may end with
them. The two threads have different system ids and the two modules different bases.
`CHECK_DEADLOCK FALSE`, because a stopped session ends.

Fairness: `DebugLoop` and each call in progress go on; the front end lets the target
go on after a callback. The two liveness properties assume `CallsEnd`: a front end
that steps or seeks forever queues callbacks forever, and `DebugLoop` looks at the
stop and begins the run that delivers the pause only with an empty queue.

| Run | Shows |
|---|---|
| `ttd` | the timeline's tables are those of the cursor and the front end is told of every change; the exit boundary is set at the end of the recording only, and steps do not cross it; the breakpoint of a step-over is reported for its thread; no run passes over an exception, or a breakpoint that was there when it began; a pause is delivered and a stop ends the session |

Seen, and listed as hazards with a note: a pause requested during a run replaces the
hit it has found (3972); an exception at the position of a hit is not reported (3870); a
late `InterruptReplay` that cuts a run short, or a `DeleteBPX` between a hit and its
report, makes it report the process exit elsewhere (3940); the temporary breakpoint of a
step-over stays when the run ends at something else (3809); a reused system id (3512).

### Proofs

`TtdReplayProofs` proves, for any recording with finitely many threads and modules,
any breakpoints and any interruptions, without further hypotheses (but what the
properties themselves except, as said above):

- `ReplayTypeInvariant`, `StepOnOwnThreadInvariant`, `TimelineReportedInvariant`: the
  three invariants of the run;
- `ExitAtEndTheorem`, `StepKeepsBoundaryTheorem`: its two action properties;
- `NothingSkippedTheorem`: runs implement `ReplayWalk`.

`Typed` is `TypeOK` with `Underway`: the limit and the exception a run in progress was
given are those of the cursor. Lemmas say what the engine's step and run may return (`EngineStepIs`,
`EngineRunIs`, resting on `SmallestExists` and `NearestIs`: of some positions one is the
first on the way) and when a hit is accepted (`LimitIs`, `HitQueued`). For
`TimelineReported` each action is one of five kinds of change to the queue (`Quiet`,
`Handled`, `Queued`, `Moved`, `Ends`), and `Informed` says that the cursor's threads
and modules are in the tables and are those the front end will know (`WillKnow`) once the
queued events are applied. It says so for each thread and module by its last event in
the queue (`Announced`) and not by a fold over the queue, for the reason given for
`NativeBreakpoints`; a thread whose end is queued behind its creation is announced by
neither, whatever id the creation resolves to. The refinement has three parts: a move arrives
without having passed a stop (`MoveArrives`); while a run is in progress nothing moves the
cursor, and what is set then is fresh and adds no stop (`UnderwayKept`); and between runs
`ReplayWalk` allows anything (`AtRest`).

`PauseDelivered` and `StopEndsSession` (liveness) are model-checked only.

## 9. Not modelled

`PROJECT.json` says it for each component. Module and output events only call the
user. `gDebugIdMap` and the PEB and TEB caches follow the registry, without checks of
their own. Extended contexts are copied field by field. Reads of a dump's or a
recording's registers and memory, static files, PE helpers and memory queries are
I/O and conversions; the TTD wrapper loads a library; the tools (`playground`, the
probes) and the test targets are clients for manual tests; the TTD headers are
vendored. The C interface in `TitanEngine.h` is declarations.

Every safety property of the passing runs is a theorem, under the hypotheses named with it.
Model-checked only: the liveness properties (`StepCompletes`, `FaultSettled`,
`PauseDelivered`, `StopEndsSession`, `StopEnds`, `PauseAnswered`), since fairness needs
`ENABLED`, which TLAPS does not reach.
