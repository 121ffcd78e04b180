------------------------- MODULE MemoryBreakpoints -------------------------
(***************************************************************************)
(* Memory breakpoints: the records, the table of watched pages, and the    *)
(* protections of the target's pages, with one thread of the target.       *)
(*                                                                         *)
(* A breakpoint watches a range of pages for a kind of access.  Its pages  *)
(* are made PAGE_GUARD; the guard violation is looked up in the table, the *)
(* first matching breakpoint's callback is called, and the instruction is  *)
(* stepped with the page exposed.  Breakpoints are set and removed from    *)
(* callbacks; a thread of the GUI that PauseLock has let pass while the    *)
(* target was stopped reads watched memory under gMutexPaused.  DebugLoop  *)
(* takes that mutex for a moment after an event and before it resumes the  *)
(* target; its handlers do not.                                            *)
(***************************************************************************)
EXTENDS Integers, FiniteSets

CONSTANTS Page,      \* the target's pages, in order of their addresses
          Range,     \* the page ranges a breakpoint may be set on
          Access,    \* kinds of access
          Accesses,  \* what an instruction may do: [pages, kind]
          Own,       \* the protections the program may give its pages
          MaxId,     \* bound on the breakpoints set in a session
          OneShots,  \* are breakpoints set without RestoreOnHit?
          Faulty,    \* can VirtualQueryEx and VirtualProtectEx fail?
          Reads      \* does the GUI read watched memory?

ASSUME PageAssumption == /\ Page \subseteq Nat /\ IsFiniteSet(Page)
                         /\ Range \subseteq SUBSET Page /\ {} \notin Range
ASSUME AccessAssumption ==
  /\ Accesses \subseteq [pages : SUBSET Page, kind : Access] /\ Accesses # {}
  /\ Own \subseteq [rights : SUBSET Access, guard : BOOLEAN] /\ Own # {}
ASSUME MemoryBoundAssumption == /\ MaxId \in Nat
                                /\ {OneShots, Faulty, Reads} \subseteq BOOLEAN

VARIABLES
  gMemoryBreakpoints,      \* id -> its range, kind of access and RestoreOnHit
  gMemoryBreakpointPages,  \* page -> originalProtect and breakpointIds
  gNextMemoryBreakpointId,
  own,      \* the protection the program last gave each page
  protect,  \* the protection each page has
  access,   \* what the target's next instruction does
  pc,       \* DebugLoop: "run", "raised", "event" (its work), "callback", "rest" (of the
            \* handler), "flush", and "detached" or "abandoned"
  event,    \* what the target has raised: [kind, page]
  rearm,    \* pages the pending internal step guards again
  admitted, \* has the GUI's read passed PauseLock's test?
  reading,  \* the GUI's read in progress: the pages whose guard it has lifted
  guarding  \* a page it is about to guard, with the protection to set

records == <<gMemoryBreakpoints, gMemoryBreakpointPages, gNextMemoryBreakpointId>>
program == <<own, access>>
reader == <<admitted, reading, guarding>>
vars == <<records, program, protect, pc, event, rearm, reader>>

Protection == [rights : SUBSET Access, guard : BOOLEAN]
Kind == Access \cup {"UE_MEMORY"}
EventKind == {"none", "guard", "violation", "trap", "unhandled"}
NoReader == [pages |-> {}, active |-> FALSE]
NoGuarding == [page |-> -1, protection |-> [rights |-> {}, guard |-> FALSE]]

Live == DOMAIN gMemoryBreakpoints
Watched == DOMAIN gMemoryBreakpointPages
Without(f, S) == [x \in DOMAIN f \ S |-> f[x]]

\* What protectMemoryBreakpointPage sets.
Exposure(p) == gMemoryBreakpointPages[p].originalProtect
Guard(p) == [Exposure(p) EXCEPT !.guard = TRUE]

\* The sets of pages on which VirtualProtectEx may fail.
Failing(S) == IF Faulty THEN SUBSET S ELSE {{}}

Init ==
  /\ gMemoryBreakpoints = [i \in {} |-> {}] /\ gMemoryBreakpointPages = [p \in {} |-> {}]
  /\ gNextMemoryBreakpointId = 1
  /\ own \in [Page -> Own] /\ protect = own /\ access \in Accesses
  /\ pc = "callback" /\ event = [kind |-> "none", page |-> -1]
  /\ rearm = {} /\ admitted = FALSE /\ reading = NoReader /\ guarding = NoGuarding

-----------------------------------------------------------------------------
(* The target.                                                             *)

Permitted(p) == access.kind \in protect[p].rights

\* A guarded page is touched: the processor clears the guard.
GuardViolation(p) ==
  /\ pc = "run" /\ p \in access.pages /\ protect[p].guard
  /\ protect' = [protect EXCEPT ![p].guard = FALSE]
  /\ pc' = "raised" /\ event' = [kind |-> "guard", page |-> p]
  /\ UNCHANGED <<records, program, rearm, reader>>

AccessViolation(p) ==
  /\ pc = "run" /\ p \in access.pages /\ ~protect[p].guard /\ ~Permitted(p)
  /\ pc' = "raised" /\ event' = [kind |-> "violation", page |-> p]
  /\ UNCHANGED <<records, program, protect, rearm, reader>>

Retire ==
  /\ pc = "run" /\ \A p \in access.pages : ~protect[p].guard /\ Permitted(p)
  /\ access' \in Accesses
  /\ IF rearm = {} THEN UNCHANGED <<pc, event>>
     ELSE pc' = "raised" /\ event' = [kind |-> "trap", page |-> -1]
  /\ UNCHANGED <<records, own, protect, rearm, reader>>

-----------------------------------------------------------------------------
(* DebugLoop and its handlers.                                             *)

\* gMutexPaused is free.
Unlocked == ~reading.active

\* The registers are read, under the mutex; then gPaused is set.
Stop ==
  /\ pc = "raised" /\ Unlocked /\ pc' = "event"
  /\ UNCHANGED <<records, program, protect, event, rearm, reader>>

\* They are written back, under the mutex; then gPaused is reset, and the target
\* resumed.
Resume ==
  /\ pc = "flush" /\ Unlocked /\ pc' = "run"
  /\ UNCHANGED <<records, program, protect, event, rearm, reader>>

gPaused == pc \in {"event", "callback", "rest", "flush"}

Matches(b, k) == b.kind \in {"UE_MEMORY", k}

\* The breakpoints of the page that watch this access.
Matching(p) == {i \in gMemoryBreakpointPages[p].breakpointIds \cap Live :
                  /\ p \in gMemoryBreakpoints[i].range
                  /\ Matches(gMemoryBreakpoints[i], access.kind)}

\* (variant: pages another breakpoint watches too are let go)
AllPagesOf(i) == gMemoryBreakpoints[i].range \cap Watched
\* The pages of breakpoint i that no other breakpoint watches.
PagesOnlyOf(i) == {p \in gMemoryBreakpoints[i].range \cap Watched :
                     gMemoryBreakpointPages[p].breakpointIds \ {i} = {}}

\* removeMemoryBreakpointById: every page is visited, whatever fails.
RemoveById(i) ==
  /\ gMemoryBreakpoints' = Without(gMemoryBreakpoints, {i})
  /\ gMemoryBreakpointPages' =
       [p \in Watched \ PagesOnlyOf(i) |->
          IF p \in gMemoryBreakpoints[i].range
          THEN [gMemoryBreakpointPages[p] EXCEPT !.breakpointIds = @ \ {i}]
          ELSE gMemoryBreakpointPages[p]]
  /\ \E failed \in Failing(PagesOnlyOf(i)) :
       protect' = [p \in Page |-> IF p \in PagesOnlyOf(i) \ failed THEN Exposure(p)
                                  ELSE protect[p]]

\* dispatchMemoryBreakpointException, up to the callback, which is that of the
\* first breakpoint of the page that watches the access; one that is not to be
\* restored is removed.  (The user's handler of UE_CH_DEBUGEVENT, called between
\* the two, is taken to change no breakpoint.)
DispatchHit ==
  LET p == event.page IN
  /\ pc = "event" /\ event.kind \in {"guard", "violation"} /\ p \in Watched
  /\ pc' = "callback"
  /\ \E i \in Matching(p) :
       /\ \A j \in Matching(p) : i <= j
       /\ IF gMemoryBreakpoints[i].restoreOnHit
          THEN UNCHANGED <<gMemoryBreakpoints, gMemoryBreakpointPages, protect>>
          ELSE RemoveById(i)
  /\ UNCHANGED <<gNextMemoryBreakpointId, program, event, rearm, reader>>

\* No breakpoint of the page watches this access.
DispatchMiss ==
  LET p == event.page IN
  /\ pc = "event" /\ event.kind \in {"guard", "violation"} /\ p \in Watched
  /\ Matching(p) = {} /\ pc' = "rest"
  /\ UNCHANGED <<records, program, protect, event, rearm, reader>>

\* Not a watched page: an exception of the program's, which its handler deals
\* with; a guard of its own is then used up.
PassOn ==
  /\ pc = "event" /\ event.kind \in {"guard", "violation"} /\ event.page \notin Watched
  /\ pc' = "callback" /\ event' = [event EXCEPT !.kind = "unhandled"]
  /\ own' = [own EXCEPT ![event.page] = protect[event.page]]
  /\ access' \in Accesses
  /\ UNCHANGED <<records, protect, rearm, reader>>

\* (variant: the page is guarded, not exposed)
GuardedPage(p) == [protect EXCEPT ![p] = Guard(p)]
ExposedPage(p) == [protect EXCEPT ![p] = Exposure(p)]

\* The rest of the handler: a page still watched is exposed, and guarded by the
\* internal step.
ExposeAndStep ==
  LET p == event.page IN
  /\ pc = "rest" /\ pc' = "flush" /\ event' = [kind |-> "none", page |-> -1]
  /\ IF event.kind \in {"guard", "violation"} /\ p \in Watched
     THEN /\ protect' = ExposedPage(p) \/ (Faulty /\ UNCHANGED protect)
          /\ rearm' = rearm \cup {p}
     ELSE UNCHANGED <<protect, rearm>>
  /\ UNCHANGED <<records, program, reader>>

\* (variant: a later hit's re-arm replaces the earlier one's)
RearmedLast == {p \in rearm \cap Watched : \A q \in rearm : q <= p}
\* What the internal step guards again: the pages still watched.
Rearmed == rearm \cap Watched

CompleteStep ==
  /\ pc = "event" /\ event.kind = "trap"
  /\ pc' = "flush" /\ event' = [kind |-> "none", page |-> -1] /\ rearm' = {}
  /\ \E failed \in Failing(Rearmed) :
       protect' = [p \in Page |-> IF p \in Rearmed \ failed THEN Guard(p) ELSE protect[p]]
  /\ UNCHANGED <<records, program, reader>>

-----------------------------------------------------------------------------
(* The user, in a callback of the debug thread.                            *)

InUse(R) == \E i \in Live : gMemoryBreakpoints[i].range = R
NewBreakpoint(R, k, restore) == [range |-> R, kind |-> k, restoreOnHit |-> restore]
MayRestore == IF OneShots THEN BOOLEAN ELSE {TRUE}

\* (variant: the record of a page that is watched already is replaced)
AllOf(R) == R
\* The pages whose protection is queried and kept.
Unrecorded(R) == R \ Watched

SetMemoryBPX(R, k, restore) ==
  LET id == gNextMemoryBreakpointId  fresh == Unrecorded(R) IN
  /\ pc = "callback" /\ Unlocked /\ ~InUse(R) /\ id <= MaxId
  /\ gNextMemoryBreakpointId' = id + 1
  /\ gMemoryBreakpoints' = [i \in Live \cup {id} |->
       IF i = id THEN NewBreakpoint(R, k, restore) ELSE gMemoryBreakpoints[i]]
  /\ gMemoryBreakpointPages' = [p \in Watched \cup R |->
       IF p \in fresh THEN [originalProtect |-> protect[p], breakpointIds |-> {id}]
       ELSE IF p \in R THEN [gMemoryBreakpointPages[p] EXCEPT !.breakpointIds = @ \cup {id}]
       ELSE gMemoryBreakpointPages[p]]
  /\ protect' = [p \in Page |-> IF p \in fresh THEN [protect[p] EXCEPT !.guard = TRUE]
                                ELSE protect[p]]
  /\ UNCHANGED <<program, pc, event, rearm, reader>>

\* (variant: pages touched before the failure keep the new breakpoint's id)
IdsNotTakenBack(R, f) ==
  [p \in Watched |-> IF p \in R /\ p < f
     THEN [gMemoryBreakpointPages[p] EXCEPT !.breakpointIds = @ \cup {gNextMemoryBreakpointId}]
     ELSE gMemoryBreakpointPages[p]]
\* The id is erased from the pages touched before the failure at page f: those
\* that had a record keep it as it was, the new ones lose it.
PagesAfterRollback(R, f) == gMemoryBreakpointPages

\* A page f cannot be queried or guarded: the pages before it are let go, and
\* those on which that fails too stay guarded without a record.
SetMemoryBPXFails(R, f) ==
  LET touched == {p \in R \ Watched : p < f} IN
  /\ Faulty /\ pc = "callback" /\ Unlocked /\ ~InUse(R) /\ f \in R \ Watched
  /\ gNextMemoryBreakpointId <= MaxId
  /\ gNextMemoryBreakpointId' = gNextMemoryBreakpointId + 1
  /\ gMemoryBreakpointPages' = PagesAfterRollback(R, f)
  /\ \E failed \in Failing(touched) :
       protect' = [p \in Page |-> IF p \in failed THEN [protect[p] EXCEPT !.guard = TRUE]
                                  ELSE protect[p]]
  /\ UNCHANGED <<gMemoryBreakpoints, program, pc, event, rearm, reader>>

RemoveMemoryBPX(R) ==
  /\ pc = "callback" /\ Unlocked
  /\ \E i \in Live : gMemoryBreakpoints[i].range = R /\ RemoveById(i)
  /\ UNCHANGED <<gNextMemoryBreakpointId, program, pc, event, rearm, reader>>

\* DetachDebuggerEx in a callback: the breakpoints are removed one after the other.
\* It fails, with all of them removed, if a protection cannot be restored.
DetachDebuggerEx ==
  /\ pc = "callback" /\ Unlocked
  /\ gMemoryBreakpoints' = [i \in {} |-> {}] /\ gMemoryBreakpointPages' = [p \in {} |-> {}]
  /\ \E failed \in Failing(Watched) :
       /\ protect' = [p \in Page |-> IF p \in Watched \ failed THEN Exposure(p) ELSE protect[p]]
       /\ pc' = IF failed = {} THEN "detached" ELSE pc
  /\ UNCHANGED <<gNextMemoryBreakpointId, program, event, rearm, reader>>

\* DetachDebuggerEx while the target runs: PauseLock does not let it pass, and the
\* target goes its way with its pages guarded.  DebugLoop ends, and drops the
\* records.
DetachUnpaused ==
  /\ pc \in {"run", "raised"} /\ pc' = "abandoned"
  /\ gMemoryBreakpoints' = [i \in {} |-> {}] /\ gMemoryBreakpointPages' = [p \in {} |-> {}]
  /\ UNCHANGED <<gNextMemoryBreakpointId, program, protect, event, rearm, reader>>

CallbackReturns ==
  /\ pc = "callback" /\ pc' = "rest"
  /\ UNCHANGED <<records, program, protect, event, rearm, reader>>

-----------------------------------------------------------------------------
(* MemoryReadUnsafe, on a thread of the GUI.                               *)

\* PauseLock finds the target stopped ...
Admit ==
  /\ Reads /\ gPaused /\ ~admitted /\ Unlocked /\ admitted' = TRUE
  /\ UNCHANGED <<records, program, protect, pc, event, rearm, reading, guarding>>

\* ... and then locks gMutexPaused: DebugLoop may have resumed it in between.  The
\* guards of the watched pages are lifted.
BeginRead(R) ==
  LET lifted == R \cap Watched IN
  /\ admitted /\ Unlocked /\ admitted' = FALSE
  /\ \E failed \in Failing(lifted) :
       /\ reading' = [pages |-> lifted \ failed, active |-> TRUE]
       /\ protect' = [p \in Page |-> IF p \in lifted \ failed THEN Exposure(p) ELSE protect[p]]
  /\ UNCHANGED <<records, program, pc, event, rearm, guarding>>

\* The page is looked up in the table, where those still watched are found, ...
LookUp(p) ==
  /\ reading.active /\ guarding = NoGuarding /\ p \in reading.pages
  /\ reading' = [reading EXCEPT !.pages = @ \ {p}]
  /\ guarding' = IF p \in Watched THEN [page |-> p, protection |-> Guard(p)] ELSE NoGuarding
  /\ UNCHANGED <<records, program, protect, pc, event, rearm, admitted>>

\* ... and then guarded: a handler may have run in between.
GuardAgain ==
  /\ guarding # NoGuarding /\ guarding' = NoGuarding
  /\ protect' = [protect EXCEPT ![guarding.page] = guarding.protection]
  /\ UNCHANGED <<records, program, pc, event, rearm, admitted, reading>>

EndRead ==
  /\ reading.active /\ reading.pages = {} /\ guarding = NoGuarding
  /\ reading' = NoReader
  /\ UNCHANGED <<records, program, protect, pc, event, rearm, admitted, guarding>>

Target == Retire \/ \E p \in Page : GuardViolation(p) \/ AccessViolation(p)
Handlers == DispatchHit \/ DispatchMiss \/ PassOn \/ ExposeAndStep \/ CompleteStep
            \/ CallbackReturns
Loop == Stop \/ Resume \/ Handlers
User == \/ \E R \in Range, k \in Kind, restore \in MayRestore : SetMemoryBPX(R, k, restore)
        \/ \E R \in Range : \/ \E f \in R : SetMemoryBPXFails(R, f)
                            \/ RemoveMemoryBPX(R)
        \/ DetachDebuggerEx
Reader == \/ Admit
          \/ \E R \in Range : BeginRead(R)
          \/ \E p \in Page : LookUp(p)
          \/ GuardAgain \/ EndRead

Detached == pc \in {"detached", "abandoned"} /\ Unlocked /\ UNCHANGED vars

Next == Target \/ Loop \/ User \/ DetachUnpaused \/ Reader \/ Detached

Spec == Init /\ [][Next]_vars
FairSpec == Spec /\ WF_vars(Target) /\ WF_vars(Loop)

-----------------------------------------------------------------------------
(* Properties.                                                             *)

RecordDomain == [range : Range, kind : Kind, restoreOnHit : BOOLEAN]
PageDomain == [originalProtect : Protection, breakpointIds : SUBSET Live]
TypeOK ==
  /\ gNextMemoryBreakpointId \in Nat \ {0}
  /\ Live \subseteq 1..(gNextMemoryBreakpointId - 1)
  /\ gMemoryBreakpoints \in [Live -> RecordDomain]
  /\ Watched \subseteq Page /\ gMemoryBreakpointPages \in [Watched -> PageDomain]
  /\ own \in [Page -> Protection] /\ protect \in [Page -> Protection]
  /\ access \in Accesses /\ rearm \subseteq Page
  /\ pc \in {"run", "raised", "event", "callback", "rest", "flush", "detached", "abandoned"}
  /\ event \in [kind : EventKind, page : Page \cup {-1}]
  /\ admitted \in BOOLEAN /\ reading \in [pages : SUBSET Page, active : BOOLEAN]
  /\ guarding \in [page : Page \cup {-1}, protection : Protection]

Watchers(p) == {i \in Live : p \in gMemoryBreakpoints[i].range}

\* The two tables agree: a page is in the page table exactly as long as a
\* breakpoint covers it, with the ids of exactly those breakpoints, through
\* overlapping ranges, failed calls and breakpoints that remove themselves.
TablesAgree ==
  \A p \in Page :
    /\ p \in Watched <=> Watchers(p) # {}
    /\ p \in Watched => gMemoryBreakpointPages[p].breakpointIds = Watchers(p)

Raised(p) == pc \in {"raised", "event"} /\ event.kind = "guard" /\ event.page = p

\* A page that is not watched has the protection the program gave it, and what
\* is kept to be restored is that of the program, never one of the adapter's:
\* through every session that is not left by a detach from the running target.
ProtectionRestored ==
  pc # "abandoned" =>
    \A p \in Page :
      IF p \in Watched THEN Exposure(p) = own[p]
      ELSE protect[p] = own[p] \/ Raised(p)

\* While the target runs "register and memory operations must fail rather than
\* race" it: no read has a watched page unguarded, only the pending step.
WatchArmed == pc = "run" => \A p \in Watched : protect[p].guard \/ p \in rearm

\* The running target touches no watched page unnoticed, but in the instruction
\* that is stepped over.
NoEscape ==
  pc = "run" => \A p \in access.pages \cap Watched : protect[p].guard \/ p \in rearm

\* What an instruction faults on is dealt with: it executes, or the program's
\* own handler gets the exception, and no step stays pending.
FaultSettled == (pc = "raised") ~> (pc \in {"detached", "abandoned"} \/ (pc = "run" /\ rearm = {}))
=============================================================================
