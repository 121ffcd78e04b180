------------------------- MODULE NativeBreakpoints -------------------------
(***************************************************************************)
(* Code and hardware breakpoints of a live session: patches the adapter    *)
(* writes into the program with the bytes it keeps for them, and the four  *)
(* debug registers it accounts for.                                        *)
(*                                                                         *)
(* The target is one thread that executes instructions byte for byte; what *)
(* several threads do to a lifted patch is InternalStep's question.        *)
(***************************************************************************)
EXTENDS Integers, FiniteSets, Sequences

CONSTANTS Byte,      \* the bytes of the program
          Addresses, \* number of addresses
          Length,    \* the instructions: address -> length
          Image,     \* the program's bytes at first
          Sites,     \* what SetBPX is called for: [addr, patch, once]
          HardSites, \* what SetHardwareBreakPoint is called for: [addr, execute]
          Writes,    \* what the user writes: [addr, value]
          Register,  \* hardwareRegisters
          Overlap,   \* may patches share bytes, and may patched bytes be written to?
          Faulty,    \* may writing or removing fail?
          MaxId      \* bound: patches set in a session

Address == 1..Addresses
Place == DOMAIN Length
Nowhere == 0
NoId == -1

INT3 == <<"CC">>
LONG_INT3 == <<"CD", "03">>
UD2 == <<"0F", "0B">>
Patches == {INT3, LONG_INT3, UD2}
PatchByte == {"CC", "CD", "03", "0F", "0B"}
Value == Byte \cup PatchByte

ASSUME ProgramAssumption ==
  /\ Addresses \in Nat /\ Place \subseteq Address /\ Length \in [Place -> 1..2]
  /\ \A a \in Place : a + Length[a] - 1 \in Address
  /\ Byte \cap PatchByte = {} /\ Image \in [Address -> Byte \cup {"CC"}]
  /\ Sites \subseteq [addr : Place, patch : Patches, once : BOOLEAN]
  /\ \A s \in Sites : s.addr + Len(s.patch) - 1 \in Address
  /\ HardSites \subseteq [addr : Place, execute : BOOLEAN]
  /\ Writes \subseteq [addr : Address, value : Byte]
  /\ IsFiniteSet(Register)
  /\ Overlap \in BOOLEAN /\ Faulty \in BOOLEAN /\ MaxId \in Nat

VARIABLES
  memory,    \* the target's memory
  program,   \* what it would be without breakpoints
  ip,        \* the instruction pointer
  done,      \* the instruction executed last
  pc,        \* "run", "step" (an internal step), "queued" (an exception is at the
             \* debugger) or "callback" (the user's code runs)
  trap,      \* the address of that exception
  hit,       \* the breakpoint whose callback runs
  reported,  \* the address reported last, until it has been executed
  rearm,     \* the breakpoints the internal step's callback installs again
  gBreakpoints,           \* kind "software", "execute" or "data"
  gHardwareBreakpointIds, \* register -> id
  gRetiredBreakpointAddresses,
  gNextNativeBreakpointId,
  lost       \* breakpoints in gBreakpoints that a failed call has left without effect

target == <<ip, done, pc, trap, hit, reported, rearm>>
tables == <<gBreakpoints, gHardwareBreakpointIds, gRetiredBreakpointAddresses,
            gNextNativeBreakpointId, lost>>
vars == <<memory, program, target, tables>>

FirstNativeId == Cardinality(Register)   \* DbgEng's ids are smaller

-----------------------------------------------------------------------------
(* Records and patches.                                                    *)

Reach(addr, bytes) == addr..(addr + Len(bytes) - 1)
Covers(b) == Reach(b.addr, b.patch)
Native == {b \in gBreakpoints : b.kind # "data"}
WithId(id) == {b \in gBreakpoints : b.id = id}
Lowest(S) == CHOOSE b \in S : \A other \in S : b.id <= other.id
Highest(S) == CHOOSE b \in S : \A other \in S : other.id <= b.id

\* Bytes written at an address.
Written(mem, addr, bytes) ==
  [a \in Address |-> IF a \in Reach(addr, bytes) THEN bytes[a - addr + 1] ELSE mem[a]]
Installed(mem, b) == Written(mem, b.addr, b.patch)
Restored(mem, b) == Written(mem, b.addr, b.original)

\* Several are written in the order of their ids: the last one at an address stays.
AllInstalled(mem, S) ==
  [a \in Address |->
     LET over == {b \in S : a \in Reach(b.addr, b.patch)}
     IN  IF over = {} THEN mem[a] ELSE Installed(mem, Highest(over))[a]]
AllRestored(mem, S) ==
  [a \in Address |->
     LET over == {b \in S : a \in Reach(b.addr, b.original)}
     IN  IF over = {} THEN mem[a] ELSE Restored(mem, Highest(over))[a]]

ReadProcessMemory(addr, size) == [i \in 1..size |-> memory[addr + i - 1]]

\* MemoryReadSafe puts back the captured bytes of the software breakpoints.
MemoryReadSafe == AllRestored(memory, {b \in gBreakpoints : b.kind = "software"})

-----------------------------------------------------------------------------
(* The target.                                                             *)

\* Does a patch (or the program's own int3) start here?
TrapAt(a) ==
  \E patch \in Patches :
    a + Len(patch) - 1 \in Address /\ ReadProcessMemory(a, Len(patch)) = patch

Running == pc \in {"run", "step"}

\* The exception of a patch: the long int3 is reported at its second byte, and
\* the instruction pointer is after an int3 but at a ud2.
Raise ==
  /\ Running /\ TrapAt(ip) /\ pc' = "queued"
  /\ LET long == memory[ip] = "CD"
     IN  /\ trap' = IF long THEN ip + 1 ELSE ip
         /\ ip' = IF memory[ip] = "0F" THEN ip ELSE IF long THEN ip + 2 ELSE ip + 1
  /\ UNCHANGED <<memory, program, done, hit, reported, rearm, tables>>

\* Where it executes next.
Jump == ip' \in Place

Execute ==
  /\ pc = "run" /\ ip \in Place /\ ~TrapAt(ip)
  /\ done' = ip /\ reported' = Nowhere /\ Jump
  /\ UNCHANGED <<memory, program, pc, trap, hit, rearm, tables>>

\* After a suppressed exception it is where no instruction starts, or at the
\* next one.
Derail ==
  /\ Running /\ ip \notin Place /\ Jump
  /\ UNCHANGED <<memory, program, done, pc, trap, hit, reported, rearm, tables>>

-----------------------------------------------------------------------------
(* The handlers of DebugEventCallbacks.                                    *)

\* The record of an exception address.
RecordsAt(a) == {b \in Native : b.addr = a \/ (b.patch = LONG_INT3 /\ b.addr + 1 = a)}

\* A patch is lifted, the instruction pointer put back, and the callback runs;
\* a single-shot one is forgotten first.
DispatchHit ==
  /\ pc = "queued" /\ RecordsAt(trap) # {} /\ pc' = "callback"
  /\ LET b == Lowest(RecordsAt(trap))
     IN  /\ memory' = Restored(memory, b)
         /\ ip' = b.addr /\ reported' = b.addr
         /\ hit' = b.id
         /\ IF b.once
            THEN /\ gBreakpoints' = gBreakpoints \ {b} /\ lost' = lost \ {b.id}
                 /\ gRetiredBreakpointAddresses' = gRetiredBreakpointAddresses \cup {b.addr}
            ELSE UNCHANGED <<gBreakpoints, lost, gRetiredBreakpointAddresses>>
  /\ UNCHANGED <<program, done, trap, rearm, gHardwareBreakpointIds, gNextNativeBreakpointId>>

Retired(a) == {a, a - 1} \cap gRetiredBreakpointAddresses # {}
Resumed == IF rearm = {} THEN "run" ELSE "step"

\* The breakpoint has been deleted meanwhile.
SuppressStale ==
  /\ pc = "queued" /\ RecordsAt(trap) = {} /\ Retired(trap) /\ pc' = Resumed
  /\ UNCHANGED <<memory, program, ip, done, trap, hit, reported, rearm, tables>>

\* An int3 of the program's own is reported as an exception.
DispatchException ==
  /\ pc = "queued" /\ RecordsAt(trap) = {} /\ ~Retired(trap) /\ pc' = "callback"
  /\ hit' = NoId
  /\ UNCHANGED <<memory, program, ip, done, trap, reported, rearm, tables>>

\* DbgEng reports a data breakpoint, or the target stops for something else.
OtherStop ==
  /\ pc = "run" /\ pc' = "callback"
  /\ hit' \in {NoId} \cup {b.id : b \in {b \in gBreakpoints : b.kind = "data" /\ b.id \notin lost}}
  /\ UNCHANGED <<memory, program, ip, done, trap, reported, rearm, tables>>

\* (variant: the callback is taken for the end of the matter)
NoneRearmed == rearm
\* What is stepped over: a patch that is still recorded.
Rearms == rearm \cup {b.id : b \in {b \in Native : b.id = hit}}

CallbackReturns ==
  /\ pc = "callback"
  /\ rearm' = Rearms /\ hit' = NoId
  /\ pc' = IF Rearms = {} THEN "run" ELSE "step"
  /\ UNCHANGED <<memory, program, ip, done, trap, reported, tables>>

\* The internal step executes the instruction, and what is still recorded is
\* installed again; a failure is only logged.
CompleteStep ==
  /\ pc = "step" /\ ip \in Place /\ ~TrapAt(ip)
  /\ done' = ip /\ reported' = Nowhere /\ Jump
  /\ rearm' = {} /\ pc' = "run"
  /\ LET again == {b \in gBreakpoints : b.id \in rearm}
     IN  \E failed \in IF Faulty THEN SUBSET again ELSE {{}} :
           /\ memory' = AllInstalled(memory, again \ failed)
           /\ lost' = (lost \ {b.id : b \in again}) \cup {b.id : b \in failed}
  /\ UNCHANGED <<program, trap, hit, gBreakpoints, gHardwareBreakpointIds,
                 gRetiredBreakpointAddresses, gNextNativeBreakpointId>>

-----------------------------------------------------------------------------
(* The user's calls. They are made from callbacks, when the target is      *)
(* paused; but DeleteBPX takes no lock, and SetBPX goes on without one     *)
(* while there is a session, so these two may come at any time. Each is    *)
(* one step here, between two steps of the target or of a handler.         *)

Called == pc = "callback"

\* The front end keeps patches apart unless Overlap.
Apart(addr, size) == Overlap \/ \A b \in Native : Covers(b) \cap (addr..(addr + size - 1)) = {}

\* (variant: one byte is captured, whatever the size of the patch)
OneByteKept(kind, addr, patch, once) ==
  [id |-> gNextNativeBreakpointId, kind |-> kind, addr |-> addr, patch |-> patch,
   original |-> ReadProcessMemory(addr, 1), once |-> once]
\* (variant: memory is captured after the patch has been written)
PatchKept(kind, addr, patch, once) ==
  [id |-> gNextNativeBreakpointId, kind |-> kind, addr |-> addr, patch |-> patch,
   original |-> patch, once |-> once]
\* A breakpoint that keeps what is in memory where its patch goes.
NativeBreakpoint(kind, addr, patch, once) ==
  [id |-> gNextNativeBreakpointId, kind |-> kind, addr |-> addr, patch |-> patch,
   original |-> ReadProcessMemory(addr, Len(patch)), once |-> once]

SetBPX(site) ==
  /\ gNextNativeBreakpointId < FirstNativeId + MaxId
  /\ ~\E b \in gBreakpoints : b.kind = "software" /\ b.addr = site.addr
  /\ Apart(site.addr, Len(site.patch))
  /\ LET b == NativeBreakpoint("software", site.addr, site.patch, site.once)
     IN  memory' = Installed(memory, b) /\ gBreakpoints' = gBreakpoints \cup {b}
  /\ gNextNativeBreakpointId' = gNextNativeBreakpointId + 1
  /\ gRetiredBreakpointAddresses' = gRetiredBreakpointAddresses \ {site.addr}
  /\ UNCHANGED <<program, target, gHardwareBreakpointIds, lost>>

\* A call that cannot write its patch has used its id up.
SetFails ==
  /\ Faulty /\ gNextNativeBreakpointId < FirstNativeId + MaxId
  /\ gNextNativeBreakpointId' = gNextNativeBreakpointId + 1
  /\ UNCHANGED <<memory, program, target, gBreakpoints, gHardwareBreakpointIds,
                 gRetiredBreakpointAddresses, lost>>

\* The bytes go back, the address is retired and the record goes.
Removed(b) ==
  /\ memory' = Restored(memory, b)
  /\ gBreakpoints' = gBreakpoints \ {b} /\ lost' = lost \ {b.id}
  /\ gRetiredBreakpointAddresses' = gRetiredBreakpointAddresses \cup {b.addr}

DeleteBPX(a) ==
  /\ \E b \in gBreakpoints : b.kind = "software" /\ b.addr = a /\ Removed(b)
  /\ UNCHANGED <<program, target, gHardwareBreakpointIds, gNextNativeBreakpointId>>

\* (variant: GetUnusedHardwareBreakPointRegister does not look at the slots)
AnyRegister == Register
Unused == Register \ DOMAIN gHardwareBreakpointIds

Slotted(r, id) ==
  gHardwareBreakpointIds' = [s \in DOMAIN gHardwareBreakpointIds \cup {r} |->
                               IF s = r THEN id ELSE gHardwareBreakpointIds[s]]

\* DbgEng gives a data breakpoint the lowest id that is free.
DataBreakpoint(addr) ==
  LET free == {id \in 0..(FirstNativeId - 1) : WithId(id) = {}}
  IN  [id |-> CHOOSE id \in free : \A other \in free : id <= other, kind |-> "data",
       addr |-> addr, patch |-> <<>>, original |-> <<>>, once |-> FALSE]

\* An execute breakpoint is a patch, and nothing is said of its address having
\* been retired.
SetHardwareBreakPoint(r, site) ==
  /\ Called /\ r \in Unused
  /\ IF site.execute
     THEN /\ gNextNativeBreakpointId < FirstNativeId + MaxId /\ Apart(site.addr, 1)
          /\ LET b == NativeBreakpoint("execute", site.addr, INT3, FALSE)
             IN  /\ memory' = Installed(memory, b) /\ gBreakpoints' = gBreakpoints \cup {b}
                 /\ Slotted(r, b.id)
          /\ gNextNativeBreakpointId' = gNextNativeBreakpointId + 1
     ELSE /\ gBreakpoints' = gBreakpoints \cup {DataBreakpoint(site.addr)}
          /\ Slotted(r, DataBreakpoint(site.addr).id)
          /\ UNCHANGED <<memory, gNextNativeBreakpointId>>
  /\ UNCHANGED <<program, target, gRetiredBreakpointAddresses, lost>>

Without(slots, r) == [s \in DOMAIN slots \ {r} |-> slots[s]]

DeleteHardwareBreakPoint(r) ==
  /\ Called /\ r \in DOMAIN gHardwareBreakpointIds
  /\ \E b \in WithId(gHardwareBreakpointIds[r]) :
       IF b.kind = "data"
       THEN /\ gBreakpoints' = gBreakpoints \ {b} /\ lost' = lost \ {b.id}
            /\ UNCHANGED <<memory, gRetiredBreakpointAddresses>>
       ELSE Removed(b)
  /\ gHardwareBreakpointIds' = Without(gHardwareBreakpointIds, r)
  /\ UNCHANGED <<program, target, gNextNativeBreakpointId>>

RemoveAllBreakPoints ==
  /\ Called
  /\ memory' = AllRestored(memory, gBreakpoints)
  /\ gBreakpoints' = {} /\ gHardwareBreakpointIds' = <<>> /\ gRetiredBreakpointAddresses' = {}
  /\ lost' = {}
  /\ UNCHANGED <<program, target, gNextNativeBreakpointId>>

\* A failure at one of them leaves all the records, those that have been dealt
\* with included.
RemoveAllBreakPointsFails(b) ==
  /\ Called /\ Faulty
  /\ LET before == {other \in gBreakpoints : other.id < b.id}
     IN  memory' = AllRestored(memory, before) /\ lost' = lost \cup {other.id : other \in before}
  /\ UNCHANGED <<program, target, gBreakpoints, gHardwareBreakpointIds,
                 gRetiredBreakpointAddresses, gNextNativeBreakpointId>>

\* MemoryWriteSafe writes what is asked for, patched or not.
MemoryWriteSafe(a, value) ==
  /\ Called /\ Apart(a, 1)
  /\ memory' = [memory EXCEPT ![a] = value] /\ program' = [program EXCEPT ![a] = value]
  /\ UNCHANGED <<target, tables>>

-----------------------------------------------------------------------------

Init ==
  /\ memory = Image /\ program = Image
  /\ ip \in Place /\ done = Nowhere /\ pc = "callback" /\ trap = Nowhere
  /\ hit = NoId /\ reported = Nowhere /\ rearm = {}
  /\ gBreakpoints = {} /\ gHardwareBreakpointIds = <<>> /\ gRetiredBreakpointAddresses = {}
  /\ gNextNativeBreakpointId = FirstNativeId /\ lost = {}

Target == Raise \/ Execute \/ Derail \/ OtherStop
Handlers == DispatchHit \/ SuppressStale \/ DispatchException \/ CallbackReturns \/ CompleteStep

User ==
  \/ \E site \in Sites : SetBPX(site)
  \/ SetFails
  \/ \E a \in Place : DeleteBPX(a)
  \/ \E r \in Register, site \in HardSites : SetHardwareBreakPoint(r, site)
  \/ \E r \in Register : DeleteHardwareBreakPoint(r)
  \/ RemoveAllBreakPoints
  \/ \E b \in gBreakpoints : RemoveAllBreakPointsFails(b)
  \/ \E w \in Writes : MemoryWriteSafe(w.addr, w.value)

Next == Target \/ Handlers \/ User

Spec == Init /\ [][Next]_vars
-----------------------------------------------------------------------------
(* Properties.                                                             *)

Breakpoint ==
  {b \in [id : Nat, kind : {"software", "execute", "data"}, addr : Place,
          patch : Patches \cup {<<>>}, original : Seq(Value), once : BOOLEAN] :
     Len(b.original) = Len(b.patch)}

TypeOK ==
  /\ memory \in [Address -> Value] /\ program \in [Address -> Byte \cup {"CC"}]
  /\ ip \in 1..(Addresses + 1) /\ done \in Place \cup {Nowhere} /\ reported \in Place \cup {Nowhere}
  /\ pc \in {"run", "step", "queued", "callback"} /\ trap \in Address \cup {Nowhere}
  /\ gBreakpoints \subseteq Breakpoint
  /\ {hit} \cup rearm \cup lost \subseteq {NoId} \cup 0..(FirstNativeId + MaxId)
  /\ gRetiredBreakpointAddresses \subseteq Place
  /\ gNextNativeBreakpointId \in FirstNativeId..(FirstNativeId + MaxId)

\* The slots are exactly the hardware breakpoints, one register for each, and
\* ids are unique.
SlotsAgree ==
  /\ DOMAIN gHardwareBreakpointIds \subseteq Register
  /\ \A b \in gBreakpoints :
       /\ WithId(b.id) = {b}
       /\ Cardinality({r \in DOMAIN gHardwareBreakpointIds : gHardwareBreakpointIds[r] = b.id})
            = IF b.kind = "software" THEN 0 ELSE 1
  /\ \A r \in DOMAIN gHardwareBreakpointIds : WithId(gHardwareBreakpointIds[r]) # {}

\* Memory is the program's but for the patches of recorded breakpoints, whose
\* bytes are all there or all lifted; what is kept of it is the program's, and
\* that is what MemoryReadSafe shows where there is no execute breakpoint.
ProgramKept ==
  /\ \A a \in Address : memory[a] # program[a] => \E b \in Native : a \in Covers(b)
  /\ \A b \in Native : /\ memory \in {Installed(memory, b), Restored(memory, b)}
                       /\ \A a \in Covers(b) : Restored(memory, b)[a] = program[a]
  /\ \A a \in Address :
       MemoryReadSafe[a] # program[a] => \E b \in Native : b.kind = "execute" /\ b.addr = a

\* Nothing watched executes unreported, nothing is reported that is not watched,
\* and only a failed call or a failed rearm loses a breakpoint.
Watch == INSTANCE CodeWatch WITH
  watched <- {b.addr : b \in {b \in Native : b.id \notin lost}},
  stopped <- pc = "callback"
WatchedIsReported == Watch!Spec
=============================================================================
