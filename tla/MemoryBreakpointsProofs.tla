---------------------- MODULE MemoryBreakpointsProofs ----------------------
(***************************************************************************)
(* The two tables of MemoryBreakpoints agree, the protections of the       *)
(* program are restored, and watched pages are guarded while it runs, for  *)
(* any pages, ranges and number of breakpoints.                            *)
(***************************************************************************)
EXTENDS MemoryBreakpoints, TLAPS

\* The types of the tables, and those of the other variables.
TableTypes ==
  /\ gNextMemoryBreakpointId \in Nat \ {0}
  /\ Live \subseteq 1..(gNextMemoryBreakpointId - 1)
  /\ gMemoryBreakpoints \in [Live -> RecordDomain]
  /\ Watched \subseteq Page /\ gMemoryBreakpointPages \in [Watched -> PageDomain]
OtherTypes ==
  /\ own \in [Page -> Protection] /\ protect \in [Page -> Protection]
  /\ access \in Accesses /\ rearm \subseteq Page
  /\ pc \in {"run", "raised", "event", "callback", "rest", "flush", "detached", "abandoned"}
  /\ event \in [kind : EventKind, page : Page \cup {-1}]
  /\ admitted \in BOOLEAN /\ reading \in [pages : SUBSET Page, active : BOOLEAN]
  /\ guarding \in [page : Page \cup {-1}, protection : Protection]

LEMMA TypeParts == TypeOK <=> TableTypes /\ OtherTypes
  BY DEF TypeOK, TableTypes, OtherTypes

Tables == TableTypes /\ TablesAgree

\* Who leaves the tables alone keeps them in agreement.
LEMMA TablesKept ==
  ASSUME Tables, UNCHANGED records
  PROVE  Tables'
  BY DEF Tables, TableTypes, TablesAgree, records, Live, Watched, Watchers, PageDomain

\* A record has its fields.
LEMMA RecordFields ==
  ASSUME TableTypes, NEW i \in Live
  PROVE  /\ gMemoryBreakpoints[i].range \in Range
         /\ gMemoryBreakpoints[i].range \subseteq Page
         /\ gMemoryBreakpoints[i].range # {}
  BY PageAssumption DEF TableTypes, RecordDomain

LEMMA PageFields ==
  ASSUME TableTypes, NEW p \in Watched
  PROVE  /\ gMemoryBreakpointPages[p].originalProtect \in Protection
         /\ gMemoryBreakpointPages[p].breakpointIds \in SUBSET Live
         /\ Exposure(p) \in Protection /\ Guard(p) \in Protection
  BY DEF TableTypes, PageDomain, Exposure, Guard, Protection

\* Removing a breakpoint takes its id from all its pages and lets go of those
\* it was the last to watch.
LEMMA RemoveTables ==
  ASSUME Tables, NEW i \in Live, RemoveById(i), UNCHANGED gNextMemoryBreakpointId
  PROVE  /\ Tables'
         /\ Watched' = Watched \ PagesOnlyOf(i)
         /\ \A p \in Watched' : Exposure(p)' = Exposure(p)
<1> DEFINE R == gMemoryBreakpoints[i].range
<1> USE DEF Tables
<1>1. Live' = Live \ {i} /\ \A j \in Live' : gMemoryBreakpoints'[j] = gMemoryBreakpoints[j]
  BY DEF RemoveById, Without, Live
<1>2. gMemoryBreakpoints' \in [Live' -> RecordDomain]
  BY <1>1 DEF RemoveById, Without, TableTypes, Live
<1>3. Watched' = Watched \ PagesOnlyOf(i)
  BY DEF RemoveById, Watched
<1>4. \A p \in Page : Watchers(p)' = Watchers(p) \ {i}
  BY <1>1 DEF Watchers
<1>5. \A p \in Page : i \in Watchers(p) <=> p \in R
  BY DEF Watchers
<1>6. ASSUME NEW p \in Watched'
      PROVE  /\ gMemoryBreakpointPages'[p].originalProtect
                  = gMemoryBreakpointPages[p].originalProtect
             /\ gMemoryBreakpointPages'[p].breakpointIds = Watchers(p)'
             /\ gMemoryBreakpointPages'[p] \in [originalProtect : Protection,
                                                breakpointIds : SUBSET Live']
  <2>1. p \in Watched /\ p \in Page /\ p \notin PagesOnlyOf(i)
    BY <1>3 DEF TableTypes
  <2>2. gMemoryBreakpointPages[p].breakpointIds = Watchers(p)
    BY <2>1 DEF TablesAgree
  <2>3. gMemoryBreakpointPages[p] \in PageDomain
    BY <2>1 DEF TableTypes
  <2>4. Watchers(p)' \subseteq Live'
    BY <1>1 DEF Watchers
  <2>5. CASE p \in R
    <3>1. gMemoryBreakpointPages'[p]
            = [gMemoryBreakpointPages[p] EXCEPT !.breakpointIds = @ \ {i}]
      BY <2>1, <2>5 DEF RemoveById
    <3>2. QED
      BY <3>1, <2>1, <2>2, <2>3, <2>4, <1>4 DEF PageDomain
  <2>6. CASE p \notin R
    <3>1. gMemoryBreakpointPages'[p] = gMemoryBreakpointPages[p]
      BY <2>1, <2>6 DEF RemoveById
    <3>2. Watchers(p)' = Watchers(p)
      BY <2>1, <2>6, <1>4, <1>5
    <3>3. QED
      BY <3>1, <3>2, <2>1, <2>2, <2>3, <2>4 DEF PageDomain
  <2>7. QED
    BY <2>5, <2>6
<1>7. TableTypes'
  <2>1. gMemoryBreakpointPages' \in [Watched' -> PageDomain']
    <3>1. gMemoryBreakpointPages' = [p \in Watched' |-> gMemoryBreakpointPages'[p]]
      BY DEF RemoveById, Watched
    <3>2. QED
      BY <3>1, <1>6 DEF PageDomain
  <2>2. QED
    BY <1>1, <1>2, <1>3, <2>1 DEF TableTypes
<1>8. ASSUME NEW p \in Page PROVE p \in Watched' <=> Watchers(p)' # {}
  <2>1. CASE p \in Watched
    <3>1. gMemoryBreakpointPages[p].breakpointIds = Watchers(p) /\ Watchers(p) # {}
      BY <2>1 DEF TablesAgree
    <3>2. p \in PagesOnlyOf(i) <=> p \in R /\ Watchers(p) \ {i} = {}
      BY <2>1, <3>1 DEF PagesOnlyOf
    <3>3. QED
      BY <2>1, <3>1, <3>2, <1>3, <1>4, <1>5
  <2>2. CASE p \notin Watched
    BY <2>2, <1>3, <1>4 DEF TablesAgree
  <2>3. QED
    BY <2>1, <2>2
<1>9. TablesAgree'
  BY <1>6, <1>8 DEF TablesAgree
<1>10. QED
  BY <1>3, <1>6, <1>7, <1>9 DEF Exposure

\* A new breakpoint's id is new, and goes to all its pages.
LEMMA SetTables ==
  ASSUME Tables, OtherTypes, NEW R \in Range, NEW k \in Kind, NEW restore \in BOOLEAN,
         SetMemoryBPX(R, k, restore)
  PROVE  Tables'
<1> DEFINE id == gNextMemoryBreakpointId
<1> USE DEF Tables
<1>1. id \in Nat \ {0} /\ id \notin Live /\ R \subseteq Page
  BY PageAssumption DEF TableTypes
<1>2. /\ Live' = Live \cup {id} /\ id' = id + 1
      /\ gMemoryBreakpoints'[id] = NewBreakpoint(R, k, restore)
      /\ \A i \in Live : gMemoryBreakpoints'[i] = gMemoryBreakpoints[i]
  BY <1>1 DEF SetMemoryBPX, Live
<1>3. NewBreakpoint(R, k, restore) \in RecordDomain
  BY DEF NewBreakpoint, RecordDomain
<1>4. gMemoryBreakpoints' \in [Live' -> RecordDomain]
  BY <1>1, <1>2, <1>3 DEF SetMemoryBPX, TableTypes, Live
<1>5. Watched' = Watched \cup R
  BY DEF SetMemoryBPX, Watched
<1>6. ASSUME NEW p \in Page
      PROVE  Watchers(p)' = Watchers(p) \cup (IF p \in R THEN {id} ELSE {})
  <2>1. gMemoryBreakpoints'[id].range = R
    BY <1>2 DEF NewBreakpoint
  <2>2. QED
    BY <1>1, <1>2, <2>1 DEF Watchers
<1>7. ASSUME NEW p \in Watched'
      PROVE  /\ gMemoryBreakpointPages'[p].breakpointIds = Watchers(p)'
             /\ gMemoryBreakpointPages'[p] \in [originalProtect : Protection,
                                                breakpointIds : SUBSET Live']
  <2>1. p \in Page
    BY <1>1, <1>5 DEF TableTypes
  <2>2. p \notin Watched => Watchers(p) = {}
    BY <2>1 DEF TablesAgree
  <2>3. p \in Watched => /\ gMemoryBreakpointPages[p].breakpointIds = Watchers(p)
                         /\ gMemoryBreakpointPages[p] \in PageDomain
    BY <2>1 DEF TablesAgree, TableTypes
  <2>4. protect[p] \in Protection /\ Watchers(p) \subseteq Live
    BY <2>1 DEF OtherTypes, Watchers
  <2>5. CASE p \in R \ Watched
    <3>1. gMemoryBreakpointPages'[p] = [originalProtect |-> protect[p], breakpointIds |-> {id}]
      BY <2>5, <1>5 DEF SetMemoryBPX, Unrecorded
    <3>2. QED
      BY <2>1, <2>2, <2>4, <2>5, <3>1, <1>2, <1>6
  <2>6. CASE p \in R \cap Watched
    <3>1. gMemoryBreakpointPages'[p]
            = [gMemoryBreakpointPages[p] EXCEPT !.breakpointIds = @ \cup {id}]
      BY <2>6, <1>5 DEF SetMemoryBPX, Unrecorded
    <3>2. QED
      BY <2>1, <2>3, <2>4, <2>6, <3>1, <1>2, <1>6 DEF PageDomain
  <2>7. CASE p \notin R
    <3>1. gMemoryBreakpointPages'[p] = gMemoryBreakpointPages[p] /\ p \in Watched
      BY <2>7, <1>5 DEF SetMemoryBPX, Unrecorded
    <3>2. QED
      BY <2>1, <2>3, <2>4, <2>7, <3>1, <1>2, <1>6 DEF PageDomain
  <2>8. QED
    BY <2>5, <2>6, <2>7, <1>5
<1>8. TableTypes'
  <2>1. gMemoryBreakpointPages' \in [Watched' -> PageDomain']
    <3>1. gMemoryBreakpointPages' = [p \in Watched' |-> gMemoryBreakpointPages'[p]]
      BY DEF SetMemoryBPX, Watched
    <3>2. QED
      BY <3>1, <1>7 DEF PageDomain
  <2>2. QED
    BY <1>1, <1>2, <1>4, <1>5, <2>1 DEF TableTypes
<1>9. ASSUME NEW p \in Page PROVE p \in Watched' <=> Watchers(p)' # {}
  BY <1>5, <1>6 DEF TablesAgree
<1>10. QED
  BY <1>7, <1>8, <1>9 DEF TablesAgree

\* A call that fails uses up an id and leaves the tables as they were.
LEMMA FailedSetTables ==
  ASSUME Tables, NEW R \in Range, NEW f \in R, SetMemoryBPXFails(R, f)
  PROVE  Tables'
<1>1. /\ gNextMemoryBreakpointId' = gNextMemoryBreakpointId + 1
      /\ UNCHANGED <<gMemoryBreakpoints, gMemoryBreakpointPages>>
  BY DEF SetMemoryBPXFails, PagesAfterRollback
<1>2. QED
  BY <1>1 DEF Tables, TableTypes, TablesAgree, Live, Watched, Watchers, PageDomain

LEMMA UnpausedTables ==
  ASSUME Tables, DetachUnpaused
  PROVE  Tables' /\ Watched' = {} /\ Live' = {}
<1>1. Live' = {} /\ Watched' = {} /\ UNCHANGED gNextMemoryBreakpointId
  BY DEF DetachUnpaused, Live, Watched
<1>2. QED
  BY <1>1 DEF DetachUnpaused, Tables, TableTypes, TablesAgree, Watchers

LEMMA DetachTables ==
  ASSUME Tables, DetachDebuggerEx
  PROVE  Tables' /\ Watched' = {}
<1>1. Live' = {} /\ Watched' = {} /\ UNCHANGED gNextMemoryBreakpointId
  BY DEF DetachDebuggerEx, Live, Watched
<1>2. QED
  BY <1>1 DEF DetachDebuggerEx, Tables, TableTypes, TablesAgree, Watchers

-----------------------------------------------------------------------------
(* The types, and with them the tables, are preserved by every step.       *)

LEMMA GuardType == ASSUME NEW x \in Protection, NEW b \in BOOLEAN
                   PROVE  [x EXCEPT !.guard = b] \in Protection
  BY DEF Protection

\* Protections of some pages replaced by those to restore or to guard.
LEMMA ProtectType ==
  ASSUME TableTypes, OtherTypes, NEW S, NEW T, NEW U
  PROVE  [p \in Page |-> IF p \in Watched \cap S THEN Exposure(p)
                         ELSE IF p \in Watched \cap T THEN Guard(p)
                         ELSE IF p \in U THEN [protect[p] EXCEPT !.guard = TRUE]
                         ELSE protect[p]] \in [Page -> Protection]
<1> SUFFICES ASSUME NEW p \in Page
             PROVE  /\ p \in Watched => Exposure(p) \in Protection /\ Guard(p) \in Protection
                    /\ [protect[p] EXCEPT !.guard = TRUE] \in Protection
                    /\ protect[p] \in Protection
  OBVIOUS
<1>1. protect[p] \in Protection
  BY DEF OtherTypes
<1>2. QED
  BY <1>1, PageFields, GuardType

LEMMA TargetTypes ==
  ASSUME Tables, OtherTypes, Target
  PROVE  Tables' /\ OtherTypes'
<1>1. UNCHANGED records
  BY DEF Target, Retire, GuardViolation, AccessViolation
<1>2. ASSUME NEW p \in Page, GuardViolation(p) PROVE OtherTypes'
  BY <1>2 DEF GuardViolation, OtherTypes, program, reader, EventKind, Protection
<1>3. ASSUME NEW p \in Page, AccessViolation(p) PROVE OtherTypes'
  BY <1>3 DEF AccessViolation, OtherTypes, program, reader, EventKind
<1>4. CASE Retire
  <2>1. /\ event' \in {event, [kind |-> "trap", page |-> -1]} /\ pc' \in {pc, "raised"}
        /\ access' \in Accesses /\ UNCHANGED <<own, protect, rearm, admitted, reading, guarding>>
    BY <1>4 DEF Retire, reader
  <2>2. event' \in [kind : EventKind, page : Page \cup {-1}]
    BY <2>1 DEF OtherTypes, EventKind
  <2>3. QED
    BY <1>1, <2>1, <2>2, TablesKept DEF OtherTypes
<1>5. QED
  BY <1>1, <1>2, <1>3, <1>4, TablesKept DEF Target

\* Removal leaves the protections in their type.
LEMMA RemoveProtect ==
  ASSUME Tables, OtherTypes, NEW i \in Live, RemoveById(i)
  PROVE  protect' \in [Page -> Protection]
<1>1. \A p \in PagesOnlyOf(i) : p \in Watched
  BY DEF PagesOnlyOf
<1>2. \A p \in Page : protect[p] \in Protection
  BY DEF OtherTypes
<1>3. \A p \in Watched : Exposure(p) \in Protection
  BY PageFields DEF Tables
<1>4. PICK failed \in Failing(PagesOnlyOf(i)) :
        protect' = [p \in Page |-> IF p \in PagesOnlyOf(i) \ failed THEN Exposure(p)
                                   ELSE protect[p]]
  BY DEF RemoveById
<1>5. QED
  BY <1>1, <1>2, <1>3, <1>4

LEMMA HandlerTypes ==
  ASSUME Tables, OtherTypes, Handlers
  PROVE  Tables' /\ OtherTypes'
<1> USE PageAssumption
<1>0. \A p \in Watched : Exposure(p) \in Protection /\ Guard(p) \in Protection
  BY PageFields DEF Tables
<1>1. CASE DispatchHit
  <2>1. PICK i \in Matching(event.page) :
          IF gMemoryBreakpoints[i].restoreOnHit
          THEN UNCHANGED <<gMemoryBreakpoints, gMemoryBreakpointPages, protect>>
          ELSE RemoveById(i)
    BY <1>1 DEF DispatchHit
  <2>2. i \in Live
    BY DEF Matching
  <2>3. UNCHANGED gNextMemoryBreakpointId
    BY <1>1 DEF DispatchHit
  <2>4. Tables' /\ protect' \in [Page -> Protection]
    <3>1. CASE RemoveById(i)
      BY <3>1, <2>2, <2>3, RemoveTables, RemoveProtect
    <3>2. CASE UNCHANGED <<gMemoryBreakpoints, gMemoryBreakpointPages, protect>>
      BY <3>2, <2>3, TablesKept DEF OtherTypes, records
    <3>3. QED
      BY <2>1, <3>1, <3>2
  <2>5. QED
    BY <1>1, <2>4 DEF DispatchHit, OtherTypes, program, reader
<1>2. CASE DispatchMiss
  BY <1>2, TablesKept DEF DispatchMiss, OtherTypes, program, reader
<1>3. CASE PassOn
  BY <1>3, TablesKept DEF PassOn, OtherTypes, EventKind, reader
<1>4. CASE ExposeAndStep
  <2>1. Tables'
    BY <1>4, TablesKept DEF ExposeAndStep
  <2>2. protect' \in [Page -> Protection] /\ rearm' \subseteq Page
    <3>1. CASE UNCHANGED protect /\ rearm' \in {rearm, rearm \cup {event.page}}
               /\ event.page \in Watched
      BY <3>1 DEF OtherTypes, Tables, TableTypes
    <3>2. CASE event.page \in Watched /\ protect' = ExposedPage(event.page)
               /\ rearm' = rearm \cup {event.page}
      BY <3>2, <1>0 DEF ExposedPage, OtherTypes, Tables, TableTypes
    <3>3. CASE UNCHANGED <<protect, rearm>>
      BY <3>3 DEF OtherTypes
    <3>4. QED
      BY <1>4, <3>1, <3>2, <3>3 DEF ExposeAndStep
  <2>3. QED
    BY <1>4, <2>1, <2>2 DEF ExposeAndStep, OtherTypes, EventKind, program, reader
<1>5. CASE CompleteStep
  <2>1. Tables'
    BY <1>5, TablesKept DEF CompleteStep
  <2>2. PICK failed \in Failing(Rearmed) :
          protect' = [p \in Page |-> IF p \in Rearmed \ failed THEN Guard(p) ELSE protect[p]]
    BY <1>5 DEF CompleteStep
  <2>3. protect' \in [Page -> Protection]
    BY <1>0, <2>2 DEF Rearmed, OtherTypes
  <2>4. QED
    BY <1>5, <2>1, <2>3 DEF CompleteStep, OtherTypes, EventKind, program, reader
<1>6. CASE CallbackReturns
  BY <1>6, TablesKept DEF CallbackReturns, OtherTypes, program, reader
<1>7. QED
  BY <1>1, <1>2, <1>3, <1>4, <1>5, <1>6 DEF Handlers

LEMMA LoopTypes ==
  ASSUME Tables, OtherTypes, Loop
  PROVE  Tables' /\ OtherTypes'
<1>1. CASE Stop \/ Resume
  BY <1>1, TablesKept DEF Stop, Resume, OtherTypes, program, reader
<1>2. QED
  BY <1>1, HandlerTypes DEF Loop

LEMMA UserTypes ==
  ASSUME Tables, OtherTypes, User
  PROVE  Tables' /\ OtherTypes'
<1>0. \A p \in Watched : Exposure(p) \in Protection
  BY PageFields DEF Tables
<1>a. \A p \in Page : [protect[p] EXCEPT !.guard = TRUE] \in Protection
                       /\ protect[p] \in Protection
  BY GuardType DEF OtherTypes
<1>1. ASSUME NEW R \in Range, NEW k \in Kind, NEW restore \in MayRestore,
             SetMemoryBPX(R, k, restore)
      PROVE  Tables' /\ OtherTypes'
  <2>1. Tables'
    BY <1>1, SetTables DEF MayRestore
  <2>2. protect' \in [Page -> Protection]
    BY <1>1, <1>a DEF SetMemoryBPX
  <2>3. QED
    BY <1>1, <2>1, <2>2 DEF SetMemoryBPX, OtherTypes, program, reader
<1>2. ASSUME NEW R \in Range, NEW f \in R, SetMemoryBPXFails(R, f)
      PROVE  Tables' /\ OtherTypes'
  <2>1. Tables'
    BY <1>2, FailedSetTables
  <2>2. protect' \in [Page -> Protection]
    BY <1>2, <1>a DEF SetMemoryBPXFails
  <2>3. QED
    BY <1>2, <2>1, <2>2 DEF SetMemoryBPXFails, OtherTypes, program, reader
<1>3. ASSUME NEW R \in Range, RemoveMemoryBPX(R)
      PROVE  Tables' /\ OtherTypes'
  <2>1. PICK i \in Live : RemoveById(i)
    BY <1>3 DEF RemoveMemoryBPX
  <2>2. Tables' /\ protect' \in [Page -> Protection]
    BY <1>3, <2>1, RemoveTables, RemoveProtect DEF RemoveMemoryBPX
  <2>3. QED
    BY <1>3, <2>2 DEF RemoveMemoryBPX, OtherTypes, program, reader
<1>4. CASE DetachDebuggerEx
  <2>1. Tables'
    BY <1>4, DetachTables
  <2>2. protect' \in [Page -> Protection] /\ pc' \in {pc, "detached"}
    BY <1>4, <1>0, <1>a DEF DetachDebuggerEx
  <2>3. QED
    BY <1>4, <2>1, <2>2 DEF DetachDebuggerEx, OtherTypes, program, reader
<1>5. QED
  BY <1>1, <1>2, <1>3, <1>4 DEF User

LEMMA ReaderTypes ==
  ASSUME Tables, OtherTypes, Reader
  PROVE  Tables' /\ OtherTypes'
<1>0. \A p \in Watched : Exposure(p) \in Protection /\ Guard(p) \in Protection
  BY PageFields DEF Tables
<1>a. NoGuarding \in [page : Page \cup {-1}, protection : Protection]
  BY DEF NoGuarding, Protection
<1>1. Tables'
  BY TablesKept DEF Reader, Admit, BeginRead, LookUp, GuardAgain, EndRead
<1>2. ASSUME NEW R \in Range, BeginRead(R) PROVE OtherTypes'
  <2>1. PICK failed \in Failing(R \cap Watched) :
          /\ reading' = [pages |-> (R \cap Watched) \ failed, active |-> TRUE]
          /\ protect' = [p \in Page |-> IF p \in (R \cap Watched) \ failed THEN Exposure(p)
                                     ELSE protect[p]]
    BY <1>2 DEF BeginRead
  <2>2. protect' \in [Page -> Protection]
    BY <2>1, <1>0 DEF OtherTypes
  <2>3. (R \cap Watched) \ failed \subseteq Page
    BY DEF Tables, TableTypes
  <2>4. QED
    BY <1>2, <2>1, <2>2, <2>3 DEF BeginRead, OtherTypes, program
<1>3. ASSUME NEW p \in Page, LookUp(p) PROVE OtherTypes'
  <2>1. guarding' \in [page : Page \cup {-1}, protection : Protection]
    BY <1>3, <1>0, <1>a DEF LookUp
  <2>2. QED
    BY <1>3, <2>1 DEF LookUp, OtherTypes, program
<1>4. CASE GuardAgain
  <2>1. protect' \in [Page -> Protection]
    BY <1>4 DEF GuardAgain, OtherTypes
  <2>2. QED
    BY <1>1, <1>4, <1>a, <2>1 DEF GuardAgain, OtherTypes, program
<1>5. CASE EndRead
  <2>1. NoReader \in [pages : SUBSET Page, active : BOOLEAN]
    BY DEF NoReader
  <2>2. QED
    BY <1>1, <1>5, <2>1 DEF EndRead, OtherTypes, program
<1>6. CASE Admit
  BY <1>1, <1>6 DEF Admit, OtherTypes, program
<1>7. QED
  BY <1>1, <1>2, <1>3, <1>4, <1>5, <1>6 DEF Reader

LEMMA InitTypes == Init => Tables /\ OtherTypes
<1> SUFFICES ASSUME Init PROVE Tables /\ OtherTypes
  OBVIOUS
<1>1. Live = {} /\ Watched = {} /\ gNextMemoryBreakpointId = 1
  BY DEF Init, Live, Watched
<1>2. Tables
  BY <1>1 DEF Init, Tables, TableTypes, TablesAgree, Watchers
<1>3. own \in [Page -> Protection] /\ access \in Accesses
  BY AccessAssumption DEF Init, Protection
<1>4. QED
  BY <1>2, <1>3 DEF Init, OtherTypes, NoReader, NoGuarding, EventKind, Protection

LEMMA TypesNext == Tables /\ OtherTypes /\ [Next]_vars => Tables' /\ OtherTypes'
<1> SUFFICES ASSUME Tables, OtherTypes, [Next]_vars PROVE Tables' /\ OtherTypes'
  OBVIOUS
<1>1. CASE UNCHANGED vars
  BY <1>1, TablesKept DEF vars, OtherTypes, program, reader
<1>2. CASE DetachUnpaused
  <2>1. Tables'
    BY <1>2, UnpausedTables
  <2>2. QED
    BY <1>2, <2>1 DEF DetachUnpaused, OtherTypes, program, reader
<1>3. QED
  BY <1>1, <1>2, TargetTypes, LoopTypes, UserTypes, ReaderTypes DEF Next, Detached

\* A page is in the page table exactly as long as a breakpoint covers it, with
\* exactly the ids of those: for any ranges and sequence of calls, removals by
\* the handler, failures and interleaved reads.
THEOREM TablesAgreeInvariant == Spec => []TablesAgree
<1>1. Tables => TablesAgree
  BY DEF Tables
<1>2. QED
  BY <1>1, InitTypes, TypesNext, PTL DEF Spec

\* Every variable stays in its type.
THEOREM MemoryTypeInvariant == Spec => []TypeOK
<1>1. Tables /\ OtherTypes => TypeOK
  BY TypeParts DEF Tables
<1>2. QED
  BY <1>1, InitTypes, TypesNext, PTL DEF Spec
-----------------------------------------------------------------------------
(* The program's protections.  If no protection fails to be changed, and    *)
(* one-shot breakpoints are not mixed with reads by the GUI, what a lookup  *)
(* of the reader found is still in the table when it guards the page.       *)

\* A page is about to be guarded only by a reader that holds the mutex, and it
\* is watched.
GuardedIsWatched ==
  /\ admitted \/ reading.active => Reads
  /\ guarding # NoGuarding => reading.active /\ guarding.page \in Watched
\* Without one-shot breakpoints no handler removes one.
NoneRemovesItself == ~OneShots => \A i \in Live : gMemoryBreakpoints[i].restoreOnHit

Restorable == ProtectionRestored /\ GuardedIsWatched /\ NoneRemovesItself
Typed == Tables /\ OtherTypes

LEMMA TargetRestores ==
  ASSUME Typed, Restorable, Target PROVE Restorable'
<1> USE DEF Restorable, Typed
<1>1. pc = "run" /\ \A p \in Page : ~Raised(p)
  BY DEF Target, Retire, GuardViolation, AccessViolation, Raised
<1>2. UNCHANGED <<records, own, reader>> /\ Watched' = Watched /\ Live' = Live
  BY DEF Target, Retire, GuardViolation, AccessViolation, program, Watched, Live, records
<1>3. GuardedIsWatched' /\ NoneRemovesItself'
  BY <1>2 DEF GuardedIsWatched, NoneRemovesItself, reader, records
<1>4. \A p \in Page : Exposure(p)' = Exposure(p)
  BY <1>2 DEF Exposure, records
<1>5. ASSUME NEW p \in Page PROVE protect'[p] = protect[p] \/ Raised(p)'
  <2>1. CASE UNCHANGED protect
    BY <2>1
  <2>2. ASSUME NEW q \in Page, GuardViolation(q) PROVE protect'[p] = protect[p] \/ Raised(p)'
    BY <2>2 DEF GuardViolation, Raised, OtherTypes
  <2>3. QED
    BY <2>1, <2>2 DEF Target, Retire, AccessViolation
<1>6. ProtectionRestored'
  BY <1>1, <1>2, <1>4, <1>5 DEF ProtectionRestored
<1>7. QED
  BY <1>3, <1>6

\* A removed breakpoint's pages get the program's protection back.
LEMMA RemoveRestores ==
  ASSUME ~Faulty, Typed, Restorable, pc # "abandoned", NEW i \in Live, RemoveById(i),
         UNCHANGED <<gNextMemoryBreakpointId, own>>
  PROVE  /\ \A p \in Watched' : Exposure(p)' = own'[p]
         /\ \A p \in Page \ Watched' : protect'[p] = IF p \in Watched THEN own'[p] ELSE protect[p]
         /\ NoneRemovesItself'
<1> USE DEF Restorable, Typed
<1>1. Watched' = Watched \ PagesOnlyOf(i) /\ \A p \in Watched' : Exposure(p)' = Exposure(p)
  BY RemoveTables DEF Typed
<1>2. \A p \in Watched : p \in Page /\ Exposure(p) = own[p]
  BY DEF ProtectionRestored, Tables, TableTypes
<1>3. protect' = [p \in Page |-> IF p \in PagesOnlyOf(i) THEN Exposure(p) ELSE protect[p]]
  BY DEF RemoveById, Failing
<1>4. PagesOnlyOf(i) \subseteq Watched
  BY DEF PagesOnlyOf
<1>5. \A p \in Page \ Watched' : protect'[p] = IF p \in Watched THEN own'[p] ELSE protect[p]
  BY <1>1, <1>2, <1>3, <1>4
<1>6. NoneRemovesItself'
  BY DEF NoneRemovesItself, RemoveById, Without, Live
<1>7. QED
  BY <1>1, <1>2, <1>5, <1>6

LEMMA HandlersRestore ==
  ASSUME ~Faulty, ~(Reads /\ OneShots), Typed, Restorable,
         pc # "abandoned", Handlers
  PROVE  Restorable'
<1> USE DEF Restorable, Typed
<1>0. \A p \in Watched : p \in Page
  BY DEF Tables, TableTypes
<1>1. CASE DispatchHit
  <2>1. /\ event.page \in Watched /\ pc' = "callback"
        /\ UNCHANGED <<gNextMemoryBreakpointId, own, event, admitted, reading, guarding>>
    BY <1>1 DEF DispatchHit, program, reader
  <2>2. \A p \in Page \ Watched : protect[p] = own[p]
    BY <2>1 DEF ProtectionRestored, Raised
  <2>3. PICK i \in Live :
          IF gMemoryBreakpoints[i].restoreOnHit
          THEN UNCHANGED <<gMemoryBreakpoints, gMemoryBreakpointPages, protect>>
          ELSE RemoveById(i)
    BY <1>1 DEF DispatchHit, Matching
  <2>4. CASE RemoveById(i) /\ ~gMemoryBreakpoints[i].restoreOnHit
    <3>1. OneShots /\ ~reading.active
      BY <2>4, MemoryBoundAssumption DEF NoneRemovesItself, GuardedIsWatched
    <3>2. GuardedIsWatched'
      BY <2>1, <3>1 DEF GuardedIsWatched
    <3>3. NoneRemovesItself' /\ ProtectionRestored'
      BY <2>1, <2>2, <2>4, RemoveRestores DEF ProtectionRestored
    <3>4. QED
      BY <3>2, <3>3
  <2>5. CASE UNCHANGED <<gMemoryBreakpoints, gMemoryBreakpointPages, protect>>
    BY <2>1, <2>2, <2>5 DEF ProtectionRestored, GuardedIsWatched, NoneRemovesItself,
                            Exposure, Watched, Live
  <2>6. QED
    BY <2>3, <2>4, <2>5
<1>2. CASE DispatchMiss
  BY <1>2 DEF DispatchMiss, ProtectionRestored, GuardedIsWatched, NoneRemovesItself,
              Exposure, Watched, Live, Raised, records, program, reader
<1>3. CASE PassOn
  <2>1. \A p \in Page : IF p = event.page THEN own'[p] = protect[p] ELSE own'[p] = own[p]
    BY <1>3 DEF PassOn, OtherTypes
  <2>2. \A p \in Page : Raised(p) => p = event.page
    BY DEF Raised
  <2>3. /\ event.page \notin Watched
        /\ UNCHANGED <<gMemoryBreakpoints, gMemoryBreakpointPages, protect, admitted, reading,
                       guarding>>
    BY <1>3 DEF PassOn, records, reader
  <2>4. QED
    BY <2>1, <2>2, <2>3 DEF ProtectionRestored, GuardedIsWatched, NoneRemovesItself,
                            Exposure, Watched, Live
<1>4. CASE ExposeAndStep
  <2>1. /\ \A p \in Page \ Watched : protect'[p] = protect[p] /\ ~Raised(p)
        /\ UNCHANGED <<gMemoryBreakpoints, gMemoryBreakpointPages, own, admitted, reading,
                       guarding>>
    BY <1>4 DEF ExposeAndStep, ExposedPage, OtherTypes, Raised, records, program, reader
  <2>2. QED
    BY <2>1 DEF ProtectionRestored, GuardedIsWatched, NoneRemovesItself,
                Exposure, Watched, Live
<1>5. CASE CompleteStep
  <2>1. /\ \A p \in Page \ Watched : protect'[p] = protect[p] /\ ~Raised(p)
        /\ UNCHANGED <<gMemoryBreakpoints, gMemoryBreakpointPages, own, admitted, reading,
                       guarding>>
    BY <1>5 DEF CompleteStep, Rearmed, OtherTypes, Raised, records, program, reader
  <2>2. QED
    BY <2>1 DEF ProtectionRestored, GuardedIsWatched, NoneRemovesItself,
                Exposure, Watched, Live
<1>6. CASE CallbackReturns
  BY <1>6 DEF CallbackReturns, ProtectionRestored, GuardedIsWatched, NoneRemovesItself,
              Exposure, Watched, Live, Raised, records, program, reader
<1>7. QED
  BY <1>1, <1>2, <1>3, <1>4, <1>5, <1>6 DEF Handlers

LEMMA LoopRestores ==
  ASSUME ~Faulty, ~(Reads /\ OneShots), Typed, Restorable,
         pc # "abandoned", Loop
  PROVE  Restorable'
<1>1. CASE Stop \/ Resume
  BY <1>1 DEF Stop, Resume, Restorable, ProtectionRestored, GuardedIsWatched, NoneRemovesItself,
              Exposure, Watched, Live, Raised, records, program, reader
<1>2. QED
  BY <1>1, HandlersRestore DEF Loop

LEMMA UserRestores ==
  ASSUME ~Faulty, Typed, Restorable, pc # "abandoned", User PROVE Restorable'
<1> USE DEF Restorable, Typed
<1>1. ~reading.active /\ guarding = NoGuarding
  BY DEF User, SetMemoryBPX, SetMemoryBPXFails, RemoveMemoryBPX, DetachDebuggerEx, Unlocked,
         GuardedIsWatched
<1>2. UNCHANGED <<own, admitted, reading, guarding, event>>
  BY DEF User, SetMemoryBPX, SetMemoryBPXFails, RemoveMemoryBPX, DetachDebuggerEx, program, reader
<1>3. GuardedIsWatched'
  BY <1>1, <1>2 DEF GuardedIsWatched
<1>4. /\ \A p \in Watched : p \in Page /\ Exposure(p) = own[p]
      /\ \A p \in Page \ Watched : protect[p] = own[p]
  BY DEF User, SetMemoryBPX, SetMemoryBPXFails, RemoveMemoryBPX, DetachDebuggerEx,
         ProtectionRestored, Raised, Tables, TableTypes
<1>5. ASSUME NEW R \in Range, NEW k \in Kind, NEW restore \in MayRestore,
             SetMemoryBPX(R, k, restore)
      PROVE  Restorable'
  <2>1. Watched' = Watched \cup R /\ R \subseteq Page
    BY <1>5, PageAssumption DEF SetMemoryBPX, Watched
  <2>2. ASSUME NEW p \in Watched' PROVE Exposure(p)' = own'[p]
    <3>1. CASE p \in R \ Watched
      <4>1. gMemoryBreakpointPages'[p].originalProtect = protect[p]
        BY <1>5, <2>1, <3>1 DEF SetMemoryBPX, Unrecorded
      <4>2. QED
        BY <1>2, <1>4, <2>1, <3>1, <4>1 DEF Exposure
    <3>2. CASE p \in Watched
      <4>1. gMemoryBreakpointPages[p] \in PageDomain
        BY <3>2 DEF Tables, TableTypes
      <4>2. gMemoryBreakpointPages'[p].originalProtect = gMemoryBreakpointPages[p].originalProtect
        BY <1>5, <2>1, <3>2, <4>1 DEF SetMemoryBPX, Unrecorded, PageDomain
      <4>3. QED
        BY <1>2, <1>4, <3>2, <4>2 DEF Exposure
    <3>3. QED
      BY <2>1, <3>1, <3>2
  <2>3. \A p \in Page \ Watched' : protect'[p] = protect[p]
    BY <1>5, <2>1 DEF SetMemoryBPX, Unrecorded
  <2>4. NoneRemovesItself'
    BY <1>5 DEF SetMemoryBPX, NoneRemovesItself, MayRestore, NewBreakpoint, Live
  <2>5. QED
    BY <1>2, <1>3, <1>4, <2>1, <2>2, <2>3, <2>4 DEF ProtectionRestored
<1>6. ASSUME NEW R \in Range, RemoveMemoryBPX(R) PROVE Restorable'
  <2>1. PICK i \in Live : RemoveById(i)
    BY <1>6 DEF RemoveMemoryBPX
  <2>2. UNCHANGED gNextMemoryBreakpointId
    BY <1>6 DEF RemoveMemoryBPX
  <2>3. QED
    BY <1>2, <1>3, <1>4, <2>1, <2>2, RemoveRestores DEF ProtectionRestored
<1>7. CASE DetachDebuggerEx
  <2>1. /\ Watched' = {} /\ Live' = {}
        /\ protect' = [p \in Page |-> IF p \in Watched THEN Exposure(p) ELSE protect[p]]
    BY <1>7 DEF DetachDebuggerEx, Failing, Watched, Live
  <2>2. QED
    BY <1>2, <1>3, <1>4, <2>1 DEF ProtectionRestored, NoneRemovesItself
<1>8. QED
  BY <1>5, <1>6, <1>7 DEF User, SetMemoryBPXFails

LEMMA ReaderRestores ==
  ASSUME ~Faulty, Typed, Restorable, pc # "abandoned", Reader PROVE Restorable'
<1> USE DEF Restorable, Typed
<1>1. UNCHANGED <<gMemoryBreakpoints, gMemoryBreakpointPages, own, pc, event>>
  BY DEF Reader, Admit, BeginRead, LookUp, GuardAgain, EndRead, records, program
<1>2. NoneRemovesItself' /\ Watched' = Watched
  BY <1>1 DEF NoneRemovesItself, Live, Watched
<1>3. ASSUME NEW R \in Range, BeginRead(R) PROVE Restorable'
  <2>1. \A p \in Page \ Watched : protect'[p] = protect[p]
    BY <1>3 DEF BeginRead
  <2>2. Reads /\ guarding' = guarding /\ reading'.active /\ ~reading.active
    BY <1>3 DEF BeginRead, Unlocked, GuardedIsWatched
  <2>3. QED
    BY <1>1, <1>2, <2>1, <2>2 DEF ProtectionRestored, GuardedIsWatched, Exposure, Raised
<1>4. ASSUME NEW p \in Page, LookUp(p) PROVE Restorable'
  <2>1. /\ UNCHANGED protect /\ reading.active /\ reading'.active
        /\ guarding' # NoGuarding => guarding'.page \in Watched
    BY <1>4 DEF LookUp, OtherTypes
  <2>2. QED
    BY <1>1, <1>2, <2>1 DEF ProtectionRestored, GuardedIsWatched, Exposure, Raised
<1>5. CASE GuardAgain
  <2>1. /\ \A p \in Page \ Watched : protect'[p] = protect[p]
        /\ guarding' = NoGuarding /\ UNCHANGED <<admitted, reading>>
    BY <1>5 DEF GuardAgain, GuardedIsWatched, OtherTypes
  <2>2. QED
    BY <1>1, <1>2, <2>1 DEF ProtectionRestored, GuardedIsWatched, Exposure, Raised
<1>6. CASE EndRead
  <2>1. UNCHANGED <<protect, admitted, guarding>> /\ guarding = NoGuarding /\ ~reading'.active
    BY <1>6 DEF EndRead, NoReader
  <2>2. QED
    BY <1>1, <1>2, <2>1 DEF ProtectionRestored, GuardedIsWatched, Exposure, Raised
<1>7. CASE Admit
  BY <1>1, <1>2, <1>7 DEF Admit, ProtectionRestored, GuardedIsWatched, Exposure, Raised
<1>8. QED
  BY <1>3, <1>4, <1>5, <1>6, <1>7 DEF Reader

\* A target left with its guards is beyond the promise.
Left == pc = "abandoned"

\* As long as every protection can be changed, and the GUI's reads are not mixed
\* with breakpoints that remove themselves, a page that is not watched has the
\* protection the program gave it, and what is kept for a watched one is the
\* program's, until the session is left by a detach from the running target: for
\* any pages, ranges, accesses and number of breakpoints.
THEOREM ProtectionRestoredInvariant ==
  ASSUME ~Faulty, ~(Reads /\ OneShots)
  PROVE  Spec => []ProtectionRestored
<1>1. Init => Restorable
  BY DEF Init, Restorable, ProtectionRestored, GuardedIsWatched, NoneRemovesItself, NoReader,
         Watched, Live
<1>2. Typed /\ (Restorable \/ Left) /\ [Next]_vars => (Restorable \/ Left)'
  <2> SUFFICES ASSUME Typed, Restorable \/ Left, [Next]_vars PROVE Restorable' \/ Left'
    OBVIOUS
  <2>1. CASE UNCHANGED vars
    BY <2>1 DEF vars, records, program, reader, Restorable, ProtectionRestored, Left,
                GuardedIsWatched, NoneRemovesItself, Exposure, Raised, Watched, Live
  <2>2. CASE Left
    BY <2>1, <2>2 DEF Left, Next, Target, Retire, GuardViolation, AccessViolation, Loop, Stop,
       Resume, Handlers, DispatchHit, DispatchMiss, PassOn, ExposeAndStep, CompleteStep,
       CallbackReturns, User, SetMemoryBPX, SetMemoryBPXFails, RemoveMemoryBPX,
       DetachDebuggerEx, DetachUnpaused, Reader, Admit, BeginRead, LookUp, GuardAgain, EndRead,
       Detached, vars
  <2>3. CASE Restorable /\ ~Left
    BY <2>1, <2>3, TargetRestores, LoopRestores, UserRestores, ReaderRestores
       DEF Next, Detached, DetachUnpaused, Left
  <2>4. QED
    BY <2>2, <2>3
<1>3. Init => Typed
  BY InitTypes DEF Typed
<1>4. Typed /\ [Next]_vars => Typed'
  BY TypesNext DEF Typed
<1>5. Restorable \/ Left => ProtectionRestored
  BY DEF Restorable, Left, ProtectionRestored
<1>6. QED
  BY <1>1, <1>2, <1>3, <1>4, <1>5, PTL DEF Spec
-----------------------------------------------------------------------------
(* Watched pages stay armed.  The invariant says it of every phase, not     *)
(* only while the target runs: the page of the fault being handled is the  *)
(* handler's to step over.                                                 *)

\* The handler of a fault on page p has yet to decide what becomes of it.
Faulted(p) == /\ pc \in {"raised", "event", "callback", "rest"}
              /\ event.kind \in {"guard", "violation"} /\ event.page = p
Cared(p) == p \in rearm \/ Faulted(p)
Covered == \A p \in Watched : protect[p].guard \/ Cared(p)
\* Without the GUI's reads nothing is ever lifted but by a step.
NothingLifted == ~admitted /\ ~reading.active /\ guarding = NoGuarding
Armed == Covered /\ NothingLifted

LEMMA GuardGuards == ASSUME Typed, NEW p \in Watched PROVE Guard(p).guard = TRUE
<1>1. Exposure(p) \in Protection
  BY PageFields DEF Typed, Tables
<1>2. QED
  BY <1>1 DEF Guard, Protection

LEMMA TargetArms ==
  ASSUME Typed, Armed, Target PROVE Armed'
<1> USE DEF Armed, Typed
<1>1. pc = "run" /\ Watched' = Watched /\ UNCHANGED <<rearm, reader>>
  BY DEF Target, Retire, GuardViolation, AccessViolation, Watched, records, reader
<1>2. \A p \in Watched : protect[p].guard \/ p \in rearm
  BY <1>1 DEF Covered, Cared, Faulted
<1>3. ASSUME NEW p \in Watched PROVE protect'[p] = protect[p] \/ Faulted(p)'
  <2>1. CASE UNCHANGED protect
    BY <2>1
  <2>2. ASSUME NEW q \in Page, GuardViolation(q) PROVE protect'[p] = protect[p] \/ Faulted(p)'
    BY <2>2 DEF GuardViolation, Faulted, OtherTypes, Tables, TableTypes
  <2>3. QED
    BY <2>1, <2>2 DEF Target, Retire, AccessViolation
<1>4. QED
  BY <1>1, <1>2, <1>3 DEF Covered, Cared, NothingLifted, reader

\* A removal keeps the guard of the pages that stay watched.
LEMMA RemoveArms ==
  ASSUME Typed, NEW i \in Live, RemoveById(i), UNCHANGED gNextMemoryBreakpointId
  PROVE  Watched' \subseteq Watched /\ \A p \in Watched' : protect'[p] = protect[p]
<1>1. Watched' = Watched \ PagesOnlyOf(i)
  BY RemoveTables DEF Typed
<1>2. \A p \in Page \ PagesOnlyOf(i) : protect'[p] = protect[p]
  BY DEF RemoveById
<1>3. Watched \subseteq Page
  BY DEF Typed, Tables, TableTypes
<1>4. QED
  BY <1>1, <1>2, <1>3

LEMMA HandlersArm ==
  ASSUME ~Faulty, Typed, Armed, Handlers PROVE Armed'
<1> USE DEF Armed, Typed
<1>0. Watched \subseteq Page
  BY DEF Tables, TableTypes
<1>1. CASE DispatchHit
  <2>1. /\ pc' = "callback" /\ pc = "event" /\ event.kind \in {"guard", "violation"}
        /\ UNCHANGED <<gNextMemoryBreakpointId, event, rearm, reader>>
    BY <1>1 DEF DispatchHit
  <2>2. \E i \in Live : \/ UNCHANGED <<gMemoryBreakpoints, gMemoryBreakpointPages, protect>>
                        \/ RemoveById(i)
    BY <1>1 DEF DispatchHit, Matching
  <2>3. Watched' \subseteq Watched /\ \A p \in Watched' : protect'[p] = protect[p]
    BY <2>1, <2>2, RemoveArms DEF Watched
  <2>4. QED
    BY <2>1, <2>3 DEF Covered, NothingLifted, reader, Cared, Faulted
<1>2. CASE DispatchMiss
  BY <1>2 DEF DispatchMiss, Covered, NothingLifted, reader, Cared, Faulted, Watched, records,
              program
<1>3. CASE PassOn
  BY <1>3 DEF PassOn, Covered, NothingLifted, reader, Cared, Faulted, Watched, records
<1>4. CASE ExposeAndStep
  <2>1. /\ Watched' = Watched /\ UNCHANGED reader
    BY <1>4 DEF ExposeAndStep, Watched, records
  <2>2. ASSUME NEW p \in Watched, p # event.page
        PROVE  protect'[p] = protect[p] /\ (p \in rearm => p \in rearm')
    BY <1>0, <1>4, <2>2 DEF ExposeAndStep, ExposedPage, OtherTypes
  <2>3. ASSUME NEW p \in Watched, p = event.page
        PROVE  protect'[p].guard \/ Cared(p)'
    <3>1. CASE event.kind \in {"guard", "violation"}
      BY <1>4, <2>3, <3>1 DEF ExposeAndStep, Cared
    <3>2. CASE event.kind \notin {"guard", "violation"}
      BY <1>4, <2>3, <3>2, <2>1 DEF ExposeAndStep, Covered, Cared, Faulted
    <3>3. QED
      BY <3>1, <3>2
  <2>4. QED
    BY <2>1, <2>2, <2>3 DEF Covered, NothingLifted, reader, Cared, Faulted
<1>5. CASE CompleteStep
  <2>1. /\ Watched' = Watched /\ UNCHANGED reader /\ event.kind = "trap"
        /\ protect' = [p \in Page |-> IF p \in Rearmed THEN Guard(p) ELSE protect[p]]
    BY <1>5 DEF CompleteStep, Failing, Watched, records
  <2>2. ASSUME NEW p \in Watched PROVE protect'[p].guard \/ Cared(p)'
    <3>1. CASE p \in rearm
      BY <1>0, <2>1, <3>1, GuardGuards DEF Rearmed
    <3>2. CASE p \notin rearm
      BY <1>0, <2>1, <3>2 DEF Rearmed, Covered, Cared, Faulted
    <3>3. QED
      BY <3>1, <3>2
  <2>3. QED
    BY <2>1, <2>2 DEF Covered, NothingLifted, reader
<1>6. CASE CallbackReturns
  BY <1>6 DEF CallbackReturns, Covered, NothingLifted, reader, Cared, Faulted, Watched, records,
              program
<1>7. QED
  BY <1>1, <1>2, <1>3, <1>4, <1>5, <1>6 DEF Handlers

LEMMA UserArms ==
  ASSUME ~Faulty, Typed, Armed, User PROVE Armed'
<1> USE DEF Armed, Typed
<1>1. UNCHANGED <<event, rearm, reader>> /\ pc = "callback"
  BY DEF User, SetMemoryBPX, SetMemoryBPXFails, RemoveMemoryBPX, DetachDebuggerEx, program
<1>2. NothingLifted'
  BY <1>1 DEF NothingLifted, reader
<1>3. Watched \subseteq Page
  BY DEF Tables, TableTypes
<1>4. ASSUME NEW R \in Range, NEW k \in Kind, NEW restore \in MayRestore,
             SetMemoryBPX(R, k, restore)
      PROVE  Covered'
  <2>1. Watched' = Watched \cup R /\ R \subseteq Page /\ pc' = pc
    BY <1>4, PageAssumption DEF SetMemoryBPX, Watched
  <2>2. \A p \in Watched : protect'[p] = protect[p]
    BY <1>3, <1>4 DEF SetMemoryBPX, Unrecorded
  <2>3. ASSUME NEW p \in R \ Watched PROVE protect'[p].guard
    <3>1. protect'[p] = [protect[p] EXCEPT !.guard = TRUE] /\ protect[p] \in Protection
      BY <1>4, <2>1 DEF SetMemoryBPX, Unrecorded, OtherTypes
    <3>2. QED
      BY <3>1 DEF Protection
  <2>4. QED
    BY <1>1, <2>1, <2>2, <2>3 DEF Covered, Cared, Faulted
<1>5. ASSUME NEW R \in Range, RemoveMemoryBPX(R) PROVE Covered'
  <2>1. PICK i \in Live : RemoveById(i)
    BY <1>5 DEF RemoveMemoryBPX
  <2>2. UNCHANGED <<gNextMemoryBreakpointId, pc>>
    BY <1>5 DEF RemoveMemoryBPX
  <2>3. QED
    BY <1>1, <2>1, <2>2, RemoveArms DEF Covered, Cared, Faulted
<1>6. CASE DetachDebuggerEx
  <2>1. Watched' = {}
    BY <1>6 DEF DetachDebuggerEx, Watched
  <2>2. QED
    BY <2>1, <1>2 DEF Covered
<1>7. QED
  BY <1>2, <1>4, <1>5, <1>6 DEF User, SetMemoryBPXFails

LEMMA ArmedInvariant == ASSUME ~Faulty, ~Reads PROVE Spec => [](Typed /\ Armed)
<1>1. Init => Armed
  BY DEF Init, Armed, Covered, NothingLifted, NoReader, Watched
<1>2. Typed /\ Armed /\ [Next]_vars => Armed'
  <2> SUFFICES ASSUME Typed, Armed, [Next]_vars PROVE Armed'
    OBVIOUS
  <2>1. CASE UNCHANGED vars
    BY <2>1 DEF vars, records, reader, Armed, Covered, NothingLifted, Cared, Faulted, Watched
  <2>2. CASE Stop \/ Resume
    BY <2>2 DEF Stop, Resume, Armed, Covered, NothingLifted, Cared, Faulted, Watched, records,
                reader
  <2>3. CASE DetachUnpaused
    <3>1. Watched' = {}
      BY <2>3 DEF DetachUnpaused, Watched
    <3>2. QED
      BY <2>3, <3>1 DEF DetachUnpaused, Armed, Covered, NothingLifted, reader
  <2>4. ~Reader
    BY DEF Armed, NothingLifted, Reader, Admit, BeginRead, LookUp, GuardAgain, EndRead
  <2>5. QED
    BY <2>1, <2>2, <2>3, <2>4, TargetArms, HandlersArm, UserArms DEF Next, Loop, Detached
<1>3. Init => Typed
  BY InitTypes DEF Typed
<1>4. Typed /\ [Next]_vars => Typed'
  BY TypesNext DEF Typed
<1>5. QED
  BY <1>1, <1>2, <1>3, <1>4, PTL DEF Spec

\* As long as every protection can be changed and the GUI does not read watched
\* memory, a watched page of the running target is guarded, or exposed for the
\* pending step: through overlapping breakpoints, faults inside a step, and
\* breakpoints removed by themselves or the user.
THEOREM WatchArmedInvariant == ASSUME ~Faulty, ~Reads PROVE Spec => []WatchArmed
<1>1. Armed => WatchArmed
  BY DEF Armed, Covered, Cared, Faulted, WatchArmed
<1>2. QED
  BY <1>1, ArmedInvariant, PTL

\* So it touches no watched page without a guard violation, but in the instruction
\* stepped over.
THEOREM NoEscapeInvariant == ASSUME ~Faulty, ~Reads PROVE Spec => []NoEscape
<1>1. WatchArmed => NoEscape
  BY DEF WatchArmed, NoEscape
<1>2. QED
  BY <1>1, WatchArmedInvariant, PTL
=============================================================================
