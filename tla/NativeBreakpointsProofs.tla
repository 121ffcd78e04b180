---------------------- MODULE NativeBreakpointsProofs ----------------------
(***************************************************************************)
(* Proofs about NativeBreakpoints, for every program, every set of sites   *)
(* and every number of debug registers: types, the accounts of the debug   *)
(* registers, that the program is kept while patches lie in it, and that   *)
(* the detailed model implements CodeWatch.                                *)
(***************************************************************************)
EXTENDS NativeBreakpoints, FiniteSetTheorems, TLAPS

-----------------------------------------------------------------------------
(* The inductive invariants, each on top of the one before it.             *)

\* What the kinds of records look like, and every id is one that was given.
Recorded ==
  /\ \A b \in gBreakpoints :
       /\ b.id < gNextNativeBreakpointId
       /\ b.kind = "data" => b.id < FirstNativeId /\ b.patch = <<>>
       /\ b.kind # "data" => FirstNativeId <= b.id /\ b.patch \in Patches /\ Covers(b) \subseteq Address
       /\ b.kind = "execute" => b.patch = INT3
       /\ b.kind # "software" => ~b.once
  /\ \A id \in {hit} \cup rearm \cup lost : id < gNextNativeBreakpointId

\* The slots and the hardware breakpoints are one to one.
Slots ==
  /\ DOMAIN gHardwareBreakpointIds \subseteq Register
  /\ \A b, c \in gBreakpoints : b.id = c.id => b = c
  /\ \A r, s \in DOMAIN gHardwareBreakpointIds :
       gHardwareBreakpointIds[r] = gHardwareBreakpointIds[s] => r = s
  /\ \A r \in DOMAIN gHardwareBreakpointIds :
       \E b \in gBreakpoints : b.kind # "software" /\ b.id = gHardwareBreakpointIds[r]
  /\ \A b \in gBreakpoints :
       b.kind # "software" =>
         \E r \in DOMAIN gHardwareBreakpointIds : gHardwareBreakpointIds[r] = b.id

Typed == TypeOK /\ Recorded /\ Slots

\* A patch lies in memory, or the program's own bytes do.
Armed(b) == \A a \in Covers(b) : memory[a] = b.patch[a - b.addr + 1]
Lifted(b) == \A a \in Covers(b) : memory[a] = program[a]

Kept ==
  /\ \A b, c \in Native : b # c => Covers(b) \cap Covers(c) = {}
  /\ \A b \in Native : \A a \in Covers(b) : b.original[a - b.addr + 1] = program[a]
  /\ \A b \in Native : Armed(b) \/ Lifted(b)
  /\ \A a \in Address : (\A b \in Native : a \notin Covers(b)) => memory[a] = program[a]

\* No patch is set over an int3 of the program's own.
OffOwnTraps ==
  /\ \A s \in Sites : \A a \in Reach(s.addr, s.patch) : Image[a] \in Byte
  /\ \A s \in HardSites : s.execute => Image[s.addr] \in Byte

\* The breakpoint that has just been hit is lifted, and the program stands at it
\* until it has been stepped over; the others are in place or lost.
Over(b) == b.id = hit \/ b.id \in rearm
AtIt(b) ==
  /\ reported = b.addr /\ pc # "run"
  /\ pc \in {"step", "callback"} => ip = b.addr
  /\ pc = "queued" => trap = b.addr

Watching ==
  /\ pc # "callback" => hit = NoId
  /\ \A b \in Native : Over(b) => Lifted(b) /\ AtIt(b)
  /\ \A b \in Native : b.id \notin lost /\ ~Over(b) => Armed(b)
  /\ \A b \in Native : b.id \in lost => Lifted(b)
  /\ ~Faulty => lost = {}
  /\ \A a \in Address : Image[a] \in Byte => program[a] \in Byte
  /\ OffOwnTraps => \A b \in Native : \A a \in Covers(b) : Image[a] \in Byte
  /\ pc = "queued" => \A b \in RecordsAt(trap) : b.id \notin lost

-----------------------------------------------------------------------------
(* Records, patches and the bytes they write.                              *)

LEMMA SmallestExists ==
  ASSUME NEW S \in SUBSET Nat, S # {}
  PROVE  \E q \in S : \A s \in S : q <= s
<1> DEFINE Less == {ss \in Nat \X Nat : ss[1] < ss[2]}
<1>1. IsWellFoundedOn(Less, Nat)
  BY NatLessThanWellFounded, Zenon DEF OpToRel
<1>2. \E q \in S : \A s \in S : <<s, q>> \notin Less
  <2> HIDE DEF Less
  <2> QED
    BY <1>1, WFMin, Zenon
<1>3. \A s, q \in Nat : <<s, q>> \notin Less => q <= s
  OBVIOUS
<1>4. QED
  BY <1>2, <1>3

LEMMA LargestExists ==
  ASSUME NEW S \in SUBSET Nat, S # {}, NEW n \in Nat, \A s \in S : s <= n
  PROVE  \E q \in S : \A s \in S : s <= q
<1> DEFINE D == {n - s : s \in S}
<1>1. D \in SUBSET Nat /\ D # {}
  <2>1. \A s \in S : s \in Nat /\ n - s \in Nat
    OBVIOUS
  <2>2. \A d \in D : d \in Nat
    BY <2>1
  <2>3. PICK s \in S : TRUE
    OBVIOUS
  <2>4. n - s \in D
    OBVIOUS
  <2>5. QED
    BY <2>2, <2>4
<1>2. PICK d \in D : \A e \in D : d <= e
  BY <1>1, SmallestExists
<1>3. PICK q \in S : d = n - q
  OBVIOUS
<1>4. \A s \in S : n - q <= n - s
  BY <1>2, <1>3
<1>5. QED
  BY <1>4

LEMMA NativeIdsIs == FirstNativeId \in Nat
  BY ProgramAssumption, FS_CardinalityType DEF FirstNativeId

LEMMA PlacesAre == \A a \in Place : a \in Address /\ a \in Int /\ a \in 1..(Addresses + 1)
  BY ProgramAssumption DEF Address

LEMMA PatchIs ==
  ASSUME NEW patch \in Patches
  PROVE  /\ patch \in Seq(Value) /\ Len(patch) \in 1..2 /\ patch # <<>>
         /\ \A i \in 1..Len(patch) : patch[i] \in PatchByte
<1>1. "CC" \in Value /\ "CD" \in Value /\ "03" \in Value /\ "0F" \in Value /\ "0B" \in Value
  BY DEF Value, PatchByte
<1>2. CASE patch = INT3
  BY <1>1, <1>2 DEF INT3, PatchByte
<1>3. CASE patch = LONG_INT3
  BY <1>1, <1>3 DEF LONG_INT3, PatchByte
<1>4. CASE patch = UD2
  BY <1>1, <1>4 DEF UD2, PatchByte
<1>5. QED
  BY <1>2, <1>3, <1>4 DEF Patches

LEMMA RecordIs ==
  ASSUME TypeOK, Recorded, NEW b \in gBreakpoints
  PROVE  /\ b.id \in Nat /\ b.id < gNextNativeBreakpointId /\ b.once \in BOOLEAN
         /\ b.kind \in {"software", "execute", "data"}
         /\ b.addr \in Place /\ b.addr \in Address /\ b.addr \in Int
         /\ b.patch \in Seq(Value) /\ b.original \in Seq(Value) /\ Len(b.patch) \in 0..2
         /\ Len(b.original) = Len(b.patch)
<1>1. b \in Breakpoint
  BY DEF TypeOK
<1>2. /\ b.id \in Nat /\ b.once \in BOOLEAN
      /\ b.kind \in {"software", "execute", "data"}
      /\ b.addr \in Place /\ b.patch \in Patches \cup {<<>>} /\ b.original \in Seq(Value)
      /\ Len(b.original) = Len(b.patch)
  BY <1>1 DEF Breakpoint
<1>3. b.patch \in Seq(Value) /\ Len(b.patch) \in 0..2
  BY <1>2, PatchIs
<1>4. QED
  BY <1>2, <1>3, PlacesAre DEF Recorded

LEMMA LowestIs ==
  ASSUME TypeOK, Recorded, NEW S \in SUBSET gBreakpoints, S # {}
  PROVE  Lowest(S) \in S
<1> DEFINE I == {b.id : b \in S}
<1>1. I \in SUBSET Nat /\ I # {}
  BY RecordIs
<1>2. PICK i \in I : \A j \in I : i <= j
  BY <1>1, SmallestExists
<1>3. PICK b \in S : b.id = i
  OBVIOUS
<1>4. \A other \in S : b.id <= other.id
  BY <1>2, <1>3
<1>5. QED
  BY <1>4 DEF Lowest

LEMMA HighestIs ==
  ASSUME TypeOK, Recorded, NEW S \in SUBSET gBreakpoints, S # {}
  PROVE  Highest(S) \in S
<1> DEFINE I == {b.id : b \in S}
<1>1. I \in SUBSET Nat /\ I # {}
  BY RecordIs
<1>2. gNextNativeBreakpointId \in Nat /\ \A i \in I : i <= gNextNativeBreakpointId
  BY RecordIs, NativeIdsIs, ProgramAssumption DEF TypeOK
<1>3. PICK i \in I : \A j \in I : j <= i
  BY <1>1, <1>2, LargestExists
<1>4. PICK b \in S : b.id = i
  OBVIOUS
<1>5. \A other \in S : other.id <= b.id
  BY <1>3, <1>4
<1>6. QED
  BY <1>5 DEF Highest

LEMMA WrittenIs ==
  ASSUME NEW mem \in [Address -> Value], NEW addr \in Int, NEW bytes \in Seq(Value)
  PROVE  /\ Written(mem, addr, bytes) \in [Address -> Value]
         /\ \A a \in Address : a \in Reach(addr, bytes) =>
              Written(mem, addr, bytes)[a] = bytes[a - addr + 1]
         /\ \A a \in Address : a \notin Reach(addr, bytes) => Written(mem, addr, bytes)[a] = mem[a]
<1>1. \A a \in Address : a \in Int
  BY DEF Address
<1>2. \A a \in Address : a \in Reach(addr, bytes) => bytes[a - addr + 1] \in Value
  BY <1>1 DEF Reach
<1>3. QED
  BY <1>2 DEF Written

LEMMA InstalledIs ==
  ASSUME TypeOK, Recorded, NEW b \in gBreakpoints, NEW mem \in [Address -> Value]
  PROVE  /\ Installed(mem, b) \in [Address -> Value] /\ Restored(mem, b) \in [Address -> Value]
         /\ Reach(b.addr, b.original) = Covers(b)
         /\ \A a \in Address : a \in Covers(b) =>
              /\ Installed(mem, b)[a] = b.patch[a - b.addr + 1]
              /\ Restored(mem, b)[a] = b.original[a - b.addr + 1]
         /\ \A a \in Address : a \notin Covers(b) =>
              Installed(mem, b)[a] = mem[a] /\ Restored(mem, b)[a] = mem[a]
<1>1. b.addr \in Int /\ b.patch \in Seq(Value) /\ b.original \in Seq(Value)
      /\ Len(b.original) = Len(b.patch)
  BY RecordIs
<1>2. Reach(b.addr, b.original) = Covers(b)
  BY <1>1 DEF Covers, Reach
<1>3. /\ Installed(mem, b) \in [Address -> Value]
      /\ \A a \in Address : a \in Covers(b) => Installed(mem, b)[a] = b.patch[a - b.addr + 1]
      /\ \A a \in Address : a \notin Covers(b) => Installed(mem, b)[a] = mem[a]
  BY <1>1, WrittenIs DEF Installed, Covers
<1>4. /\ Restored(mem, b) \in [Address -> Value]
      /\ \A a \in Address : a \in Covers(b) => Restored(mem, b)[a] = b.original[a - b.addr + 1]
      /\ \A a \in Address : a \notin Covers(b) => Restored(mem, b)[a] = mem[a]
  BY <1>1, <1>2, WrittenIs DEF Restored
<1>5. QED
  BY <1>2, <1>3, <1>4

LEMMA AllTyped ==
  ASSUME TypeOK, Recorded, NEW S \in SUBSET gBreakpoints
  PROVE  /\ AllInstalled(memory, S) \in [Address -> Value]
         /\ AllRestored(memory, S) \in [Address -> Value]
<1>1. memory \in [Address -> Value]
  BY DEF TypeOK
<1>2. ASSUME NEW over \in SUBSET S, over # {}, NEW a \in Address
      PROVE  Installed(memory, Highest(over))[a] \in Value /\ Restored(memory, Highest(over))[a] \in Value
  <2>1. Highest(over) \in gBreakpoints
    BY <1>2, HighestIs
  <2>2. QED
    BY <1>1, <2>1, InstalledIs
<1>3. \A a \in Address : AllInstalled(memory, S)[a] \in Value
  BY <1>1, <1>2 DEF AllInstalled
<1>4. \A a \in Address : AllRestored(memory, S)[a] \in Value
  BY <1>1, <1>2 DEF AllRestored
<1>5. QED
  BY <1>3, <1>4 DEF AllInstalled, AllRestored

\* The record of a patch: it keeps the bytes where the patch goes.
LEMMA NativeRecordIs ==
  ASSUME TypeOK, Recorded, NEW kind \in {"software", "execute"}, NEW addr \in Place,
         NEW patch \in Patches, addr + Len(patch) - 1 \in Address, NEW once \in BOOLEAN,
         NEW b, b = NativeBreakpoint(kind, addr, patch, once)
  PROVE  /\ b \in Breakpoint /\ b.id = gNextNativeBreakpointId /\ b.kind = kind
         /\ b.addr = addr /\ b.patch = patch /\ b.once = once
         /\ Covers(b) = Reach(addr, patch) /\ Covers(b) \subseteq Address
         /\ Reach(b.addr, b.original) = Covers(b)
         /\ \A a \in Covers(b) : b.original[a - b.addr + 1] = memory[a]
         /\ Installed(memory, b) \in [Address -> Value]
         /\ \A a \in Address : a \in Covers(b) => Installed(memory, b)[a] = b.patch[a - b.addr + 1]
         /\ \A a \in Address : a \notin Covers(b) => Installed(memory, b)[a] = memory[a]
         /\ addr \in Covers(b)
<1> DEFINE n == Len(patch)
           bytes == ReadProcessMemory(addr, n)
<1>1. /\ b.id = gNextNativeBreakpointId /\ b.kind = kind /\ b.addr = addr /\ b.patch = patch
      /\ b.original = bytes /\ b.once = once
      /\ b \in [id : {gNextNativeBreakpointId}, kind : {kind}, addr : {addr}, patch : {patch},
                original : {bytes}, once : {once}]
  BY DEF NativeBreakpoint
<1>2. patch \in Seq(Value) /\ n \in 1..2
  BY PatchIs
<1>3. addr \in Int /\ addr \in Address
  BY PlacesAre
<1>4. \A a \in addr..(addr + n - 1) : a \in Address
  BY <1>2, <1>3, ProgramAssumption DEF Address
<1>5. \A i \in 1..n : addr + i - 1 \in addr..(addr + n - 1)
  BY <1>2, <1>3
<1>6. bytes = [i \in 1..n |-> memory[addr + i - 1]]
  BY DEF ReadProcessMemory
<1>7. bytes \in Seq(Value) /\ Len(bytes) = n
  <2>1. bytes \in [1..n -> Value]
    BY <1>4, <1>5, <1>6 DEF TypeOK
  <2>2. QED
    BY <1>2, <2>1
<1>8. gNextNativeBreakpointId \in Nat
  BY NativeIdsIs, ProgramAssumption DEF TypeOK
<1>9. b \in Breakpoint
  BY <1>1, <1>2, <1>7, <1>8 DEF Breakpoint
<1>10. Covers(b) = addr..(addr + n - 1) /\ Covers(b) = Reach(addr, patch)
  BY <1>1 DEF Covers, Reach
<1>11. Covers(b) \subseteq Address /\ addr \in Covers(b)
  <2>1. addr \in addr..(addr + n - 1)
    <3>1. n \in 1..2 /\ addr \in Int
      BY <1>2, <1>3
    <3> HIDE DEF n, bytes
    <3>2. QED
      BY <3>1
  <2>2. \A a \in Covers(b) : a \in Address
    BY <1>4, <1>10
  <2>3. QED
    BY <1>10, <2>1, <2>2
<1>12. Reach(b.addr, b.original) = Covers(b)
  BY <1>1, <1>7, <1>10 DEF Reach
<1>13. ASSUME NEW a \in Covers(b) PROVE b.original[a - b.addr + 1] = memory[a]
  <2>1. a - addr + 1 \in 1..n /\ addr + (a - addr + 1) - 1 = a
    BY <1>2, <1>3, <1>10
  <2>2. QED
    BY <1>1, <1>6, <2>1
<1>14. /\ Installed(memory, b) \in [Address -> Value]
       /\ \A a \in Address : a \in Covers(b) => Installed(memory, b)[a] = b.patch[a - b.addr + 1]
       /\ \A a \in Address : a \notin Covers(b) => Installed(memory, b)[a] = memory[a]
  <2>1. memory \in [Address -> Value]
    BY DEF TypeOK
  <2>2. QED
    BY <1>1, <1>2, <1>3, <2>1, WrittenIs DEF Installed, Covers
<1>15. QED
  BY <1>1, <1>9, <1>10, <1>11, <1>12, <1>13, <1>14

\* Where a register is free, so is one of the ids DbgEng gives: each id that is
\* taken has a register of its own.
LEMMA FreeIdExists ==
  ASSUME Typed, NEW r \in Unused
  PROVE  \E id \in 0..(FirstNativeId - 1) : WithId(id) = {}
<1> SUFFICES ASSUME \A id \in 0..(FirstNativeId - 1) : WithId(id) # {} PROVE FALSE
  OBVIOUS
<1> DEFINE Ids == 0..(FirstNativeId - 1)
           Rest == Register \ {r}
           slot == [id \in Ids |->
                      CHOOSE s \in DOMAIN gHardwareBreakpointIds : gHardwareBreakpointIds[s] = id]
<1>1. FirstNativeId \in Nat /\ r \in Register /\ r \notin DOMAIN gHardwareBreakpointIds
  BY NativeIdsIs DEF Unused
<1>2. ASSUME NEW id \in Ids
      PROVE  \E s \in DOMAIN gHardwareBreakpointIds : gHardwareBreakpointIds[s] = id
  <2>1. PICK b \in gBreakpoints : b.id = id
    BY DEF WithId
  <2>2. b.kind # "software" \/ b.kind = "software"
    OBVIOUS
  <2>3. b.kind = "data"
    BY <1>1, <2>1 DEF Typed, Recorded
  <2>4. QED
    BY <2>1, <2>3 DEF Typed, Slots
<1>3. \A id \in Ids : slot[id] \in DOMAIN gHardwareBreakpointIds /\ gHardwareBreakpointIds[slot[id]] = id
  BY <1>2
<1>4. \A id \in Ids : slot[id] \in Rest
  BY <1>1, <1>3 DEF Typed, Slots
<1>5. slot \in Injection(Ids, Rest)
  <2>1. slot \in [Ids -> Rest]
    BY <1>4
  <2>2. \A i, j \in Ids : slot[i] = slot[j] => i = j
    BY <1>3
  <2> HIDE DEF slot, Rest, Ids
  <2>3. QED
    BY <2>1, <2>2 DEF Injection, IsInjective
<1>6. IsFiniteSet(Rest) /\ Cardinality(Rest) = FirstNativeId - 1
  BY <1>1, FS_RemoveElement, ProgramAssumption DEF FirstNativeId
<1>7. Cardinality(Ids) = FirstNativeId
  BY <1>1, FS_Interval
<1>8. Cardinality(Ids) <= Cardinality(Rest)
  <2> HIDE DEF slot, Rest, Ids
  <2>1. QED
    BY <1>5, <1>6, FS_Injection
<1>9. QED
  BY <1>1, <1>6, <1>7, <1>8

LEMMA DataRecordIs ==
  ASSUME Typed, NEW r \in Unused, NEW addr \in Place, NEW b, b = DataBreakpoint(addr)
  PROVE  /\ b \in Breakpoint /\ b.id \in 0..(FirstNativeId - 1) /\ WithId(b.id) = {}
         /\ b.kind = "data" /\ b.patch = <<>> /\ b.once = FALSE
<1> DEFINE free == {id \in 0..(FirstNativeId - 1) : WithId(id) = {}}
           id0 == CHOOSE id \in free : \A other \in free : id <= other
<1>1. FirstNativeId \in Nat
  BY NativeIdsIs
<1>2. free \in SUBSET Nat /\ free # {}
  BY <1>1, FreeIdExists
<1>3. id0 \in free
  <2>1. \E id \in free : \A other \in free : id <= other
    <3> HIDE DEF free
    <3> QED
      BY <1>2, SmallestExists
  <2>2. QED
    BY <2>1
<1>4. b = [id |-> id0, kind |-> "data", addr |-> addr, patch |-> <<>>, original |-> <<>>,
           once |-> FALSE]
  BY DEF DataBreakpoint
<1> HIDE DEF id0
<1>5. <<>> \in Seq(Value) /\ id0 \in Nat
  BY <1>1, <1>3
<1>6. b \in Breakpoint
  BY <1>4, <1>5 DEF Breakpoint
<1>7. QED
  BY <1>3, <1>4, <1>6

-----------------------------------------------------------------------------
(* The accounts of the debug registers.                                    *)

LEMMA SlotsSame ==
  ASSUME Slots, UNCHANGED <<gBreakpoints, gHardwareBreakpointIds>>
  PROVE  Slots'
  BY DEF Slots

LEMMA SlotsAddSoftware ==
  ASSUME Typed, NEW b, gBreakpoints' = gBreakpoints \cup {b}, b.kind = "software",
         b.id = gNextNativeBreakpointId, UNCHANGED gHardwareBreakpointIds
  PROVE  Slots'
<1>1. \A c \in gBreakpoints : c.id # b.id
  BY RecordIs, NativeIdsIs, ProgramAssumption DEF Typed, TypeOK
<1>2. QED
  BY <1>1 DEF Typed, Slots

LEMMA SlotsAddHardware ==
  ASSUME Typed, NEW b, NEW r \in Unused, gBreakpoints' = gBreakpoints \cup {b},
         b.kind # "software", \A c \in gBreakpoints : c.id # b.id, Slotted(r, b.id)
  PROVE  Slots'
<1>1. /\ r \in Register /\ r \notin DOMAIN gHardwareBreakpointIds
      /\ DOMAIN gHardwareBreakpointIds' = DOMAIN gHardwareBreakpointIds \cup {r}
      /\ gHardwareBreakpointIds'[r] = b.id
      /\ \A s \in DOMAIN gHardwareBreakpointIds :
           gHardwareBreakpointIds'[s] = gHardwareBreakpointIds[s]
  BY DEF Unused, Slotted
<1>2. DOMAIN gHardwareBreakpointIds' \subseteq Register
  BY <1>1 DEF Typed, Slots
<1>3. \A c, d \in gBreakpoints' : c.id = d.id => c = d
  BY DEF Typed, Slots
<1>4. \A s, t \in DOMAIN gHardwareBreakpointIds' :
        gHardwareBreakpointIds'[s] = gHardwareBreakpointIds'[t] => s = t
  <2>1. \A s \in DOMAIN gHardwareBreakpointIds : gHardwareBreakpointIds[s] # b.id
    BY DEF Typed, Slots
  <2>2. QED
    BY <1>1, <2>1 DEF Typed, Slots
<1>5. \A s \in DOMAIN gHardwareBreakpointIds' :
        \E c \in gBreakpoints' : c.kind # "software" /\ c.id = gHardwareBreakpointIds'[s]
  BY <1>1 DEF Typed, Slots
<1>6. \A c \in gBreakpoints' :
        c.kind # "software" =>
          \E s \in DOMAIN gHardwareBreakpointIds' : gHardwareBreakpointIds'[s] = c.id
  BY <1>1 DEF Typed, Slots
<1>7. QED
  BY <1>2, <1>3, <1>4, <1>5, <1>6 DEF Slots

LEMMA SlotsRemoveSoftware ==
  ASSUME Slots, NEW b \in gBreakpoints, b.kind = "software", gBreakpoints' = gBreakpoints \ {b},
         UNCHANGED gHardwareBreakpointIds
  PROVE  Slots'
<1>1. \A r \in DOMAIN gHardwareBreakpointIds :
        \E c \in gBreakpoints' : c.kind # "software" /\ c.id = gHardwareBreakpointIds[r]
  BY DEF Slots
<1>2. QED
  BY <1>1 DEF Slots

LEMMA SlotsRemoveHardware ==
  ASSUME Slots, NEW r \in DOMAIN gHardwareBreakpointIds, NEW b \in gBreakpoints,
         b.id = gHardwareBreakpointIds[r], gBreakpoints' = gBreakpoints \ {b},
         gHardwareBreakpointIds' = Without(gHardwareBreakpointIds, r)
  PROVE  Slots'
<1>1. /\ DOMAIN gHardwareBreakpointIds' = DOMAIN gHardwareBreakpointIds \ {r}
      /\ \A s \in DOMAIN gHardwareBreakpointIds' :
           gHardwareBreakpointIds'[s] = gHardwareBreakpointIds[s]
  BY DEF Without
<1>2. \A s \in DOMAIN gHardwareBreakpointIds' :
        \E c \in gBreakpoints' : c.kind # "software" /\ c.id = gHardwareBreakpointIds'[s]
  <2>1. SUFFICES ASSUME NEW s \in DOMAIN gHardwareBreakpointIds'
                 PROVE  \E c \in gBreakpoints' :
                          c.kind # "software" /\ c.id = gHardwareBreakpointIds'[s]
    OBVIOUS
  <2>2. s \in DOMAIN gHardwareBreakpointIds /\ s # r
    BY <1>1
  <2>3. PICK c \in gBreakpoints : c.kind # "software" /\ c.id = gHardwareBreakpointIds[s]
    BY <2>2 DEF Slots
  <2>4. c # b
    BY <2>2, <2>3 DEF Slots
  <2>5. QED
    BY <1>1, <2>3, <2>4
<1>3. \A c \in gBreakpoints' :
        c.kind # "software" =>
          \E s \in DOMAIN gHardwareBreakpointIds' : gHardwareBreakpointIds'[s] = c.id
  <2>1. SUFFICES ASSUME NEW c \in gBreakpoints', c.kind # "software"
                 PROVE  \E s \in DOMAIN gHardwareBreakpointIds' : gHardwareBreakpointIds'[s] = c.id
    OBVIOUS
  <2>2. PICK s \in DOMAIN gHardwareBreakpointIds : gHardwareBreakpointIds[s] = c.id
    BY <2>1 DEF Slots
  <2>3. s # r
    BY <2>1, <2>2 DEF Slots
  <2>4. QED
    BY <1>1, <2>2, <2>3
<1>4. QED
  BY <1>1, <1>2, <1>3 DEF Slots

LEMMA SlotsCleared ==
  ASSUME gBreakpoints' = {}, gHardwareBreakpointIds' = <<>>
  PROVE  Slots'
  BY DEF Slots

-----------------------------------------------------------------------------
(* Types.                                                                  *)

Bounded(ids) == ids \subseteq {NoId} \cup 0..(FirstNativeId + MaxId)

\* Only old ids go round where no breakpoint is added.
LEMMA RecordedFewer ==
  ASSUME TypeOK, Recorded, gBreakpoints' \subseteq gBreakpoints, UNCHANGED gNextNativeBreakpointId,
         \A id \in {hit'} \cup rearm' \cup lost' :
           \/ id = NoId \/ id \in {hit} \cup rearm \cup lost
           \/ \E b \in gBreakpoints : id = b.id
  PROVE  Recorded' /\ Bounded({hit'} \cup rearm' \cup lost') /\ gBreakpoints' \subseteq Breakpoint
<1>1. gNextNativeBreakpointId \in FirstNativeId..(FirstNativeId + MaxId) /\ FirstNativeId \in Nat
      /\ MaxId \in Nat
  BY NativeIdsIs, ProgramAssumption DEF TypeOK
<1>2. \A b \in gBreakpoints : b.id \in 0..(FirstNativeId + MaxId) /\ b.id < gNextNativeBreakpointId
  BY <1>1, RecordIs
<1>3. \A id \in {hit'} \cup rearm' \cup lost' : id < gNextNativeBreakpointId
  BY <1>1, <1>2 DEF Recorded, NoId
<1>4. Bounded({hit'} \cup rearm' \cup lost')
  BY <1>2 DEF Bounded, TypeOK
<1>5. Recorded'
  BY <1>3 DEF Recorded
<1>6. QED
  BY <1>4, <1>5 DEF TypeOK

LEMMA RecordedMore ==
  ASSUME TypeOK, Recorded, NEW b \in Breakpoint, gBreakpoints' = gBreakpoints \cup {b},
         gNextNativeBreakpointId < FirstNativeId + MaxId, b.id = gNextNativeBreakpointId,
         b.kind # "data", b.patch \in Patches, Covers(b) \subseteq Address,
         b.kind = "execute" => b.patch = INT3 /\ ~b.once,
         gNextNativeBreakpointId' = gNextNativeBreakpointId + 1, UNCHANGED <<hit, rearm, lost>>
  PROVE  Recorded' /\ gNextNativeBreakpointId' \in FirstNativeId..(FirstNativeId + MaxId)
         /\ gBreakpoints' \subseteq Breakpoint
<1>1. gNextNativeBreakpointId \in FirstNativeId..(FirstNativeId + MaxId) /\ FirstNativeId \in Nat
      /\ MaxId \in Nat
  BY NativeIdsIs, ProgramAssumption DEF TypeOK
<1>2. \A c \in gBreakpoints : c.id \in Nat /\ c.id < gNextNativeBreakpointId'
  BY <1>1, RecordIs
<1>3. \A id \in {hit'} \cup rearm' \cup lost' : id < gNextNativeBreakpointId'
  <2>1. \A id \in {hit} \cup rearm \cup lost : id \in Int
    BY <1>1 DEF TypeOK, NoId
  <2>2. QED
    BY <1>1, <2>1 DEF Recorded
<1>4. b.id < gNextNativeBreakpointId' /\ FirstNativeId <= b.id
      /\ b.kind \in {"software", "execute", "data"}
  BY <1>1 DEF Breakpoint
<1>5. Recorded'
  BY <1>2, <1>3, <1>4 DEF Recorded
<1>6. QED
  BY <1>1, <1>5 DEF TypeOK

\* An exception comes from a patch that lies in memory.
LEMMA TrapIs ==
  ASSUME TypeOK, TrapAt(ip)
  PROVE  /\ ip \in Address /\ memory[ip] \in PatchByte
         /\ memory[ip] \in {"CC", "CD", "0F"}
         /\ memory[ip] = "CD" => ip + 1 \in Address /\ memory[ip + 1] = "03"
<1>1. PICK patch \in Patches :
        ip + Len(patch) - 1 \in Address /\ ReadProcessMemory(ip, Len(patch)) = patch
  BY DEF TrapAt
<1>2. ip \in Int /\ 1 <= ip /\ Addresses \in Nat
  BY ProgramAssumption DEF TypeOK
<1>3. CASE patch = INT3
  <2>1. Len(patch) = 1 /\ patch[1] = "CC" /\ ReadProcessMemory(ip, 1)[1] = memory[ip + 1 - 1]
    BY <1>3 DEF INT3, ReadProcessMemory
  <2>2. ip \in Address /\ memory[ip] = "CC"
    BY <1>1, <1>2, <2>1 DEF Address
  <2>3. QED
    BY <2>2 DEF PatchByte
<1>4. CASE patch = LONG_INT3 \/ patch = UD2
  <2>1. Len(patch) = 2 /\ patch[1] \in {"CD", "0F"}
        /\ (patch[1] = "CD" => patch[2] = "03")
        /\ ReadProcessMemory(ip, 2)[1] = memory[ip + 1 - 1]
        /\ ReadProcessMemory(ip, 2)[2] = memory[ip + 2 - 1]
    BY <1>4 DEF LONG_INT3, UD2, ReadProcessMemory
  <2>2. ip \in Address /\ ip + 1 \in Address
    BY <1>1, <1>2, <2>1 DEF Address
  <2>3. memory[ip] = patch[1] /\ memory[ip + 1] = patch[2]
    BY <1>1, <1>2, <2>1
  <2>4. QED
    BY <2>1, <2>2, <2>3 DEF PatchByte
<1>5. QED
  BY <1>1, <1>3, <1>4 DEF Patches

LEMMA TypedSame ==
  ASSUME Typed, UNCHANGED <<memory, program, gBreakpoints, gHardwareBreakpointIds,
                            gRetiredBreakpointAddresses, gNextNativeBreakpointId>>,
         ip' \in 1..(Addresses + 1), done' \in Place \cup {Nowhere},
         reported' \in Place \cup {Nowhere}, pc' \in {"run", "step", "queued", "callback"},
         trap' \in Address \cup {Nowhere},
         \A id \in {hit'} \cup rearm' \cup lost' :
           \/ id = NoId \/ id \in {hit} \cup rearm \cup lost
           \/ \E b \in gBreakpoints : id = b.id
  PROVE  Typed'
<1>1. Recorded' /\ Bounded({hit'} \cup rearm' \cup lost')
  BY RecordedFewer DEF Typed
<1>2. TypeOK'
  BY <1>1 DEF Typed, TypeOK, Bounded
<1>3. QED
  BY <1>1, <1>2, SlotsSame DEF Typed

LEMMA TargetTyped ==
  ASSUME Typed, Target
  PROVE  Typed'
<1>0. /\ ip \in 1..(Addresses + 1) /\ done \in Place \cup {Nowhere}
      /\ reported \in Place \cup {Nowhere} /\ pc \in {"run", "step", "queued", "callback"}
      /\ trap \in Address \cup {Nowhere}
  BY DEF Typed, TypeOK
<1>1. CASE Raise
  <2>1. ip \in Address /\ (memory[ip] = "CD" => ip + 1 \in Address)
    BY <1>1, TrapIs DEF Raise, Typed
  <2>2. trap' \in Address /\ ip' \in 1..(Addresses + 1)
    BY <1>1, <2>1, ProgramAssumption DEF Raise, Address
  <2>3. QED
    BY <1>0, <1>1, <2>2, TypedSame DEF Raise, tables
<1>2. CASE Execute
  BY <1>0, <1>2, PlacesAre, TypedSame DEF Execute, Jump, tables
<1>3. CASE Derail
  BY <1>0, <1>3, PlacesAre, TypedSame DEF Derail, Jump, tables
<1>4. CASE OtherStop
  <2>1. hit' = NoId \/ \E b \in gBreakpoints : hit' = b.id
    BY <1>4 DEF OtherStop
  <2>2. QED
    BY <1>0, <1>4, <2>1, TypedSame DEF OtherStop, tables
<1>5. QED
  BY <1>1, <1>2, <1>3, <1>4 DEF Target

LEMMA RecordsAtAre ==
  ASSUME Typed, RecordsAt(trap) # {}, NEW b, b = Lowest(RecordsAt(trap))
  PROVE  b \in RecordsAt(trap) /\ b \in gBreakpoints /\ b.kind # "data"
  BY LowestIs DEF Typed, RecordsAt, Native

LEMMA HandlersTyped ==
  ASSUME Typed, Handlers
  PROVE  Typed'
<1>0. /\ ip \in 1..(Addresses + 1) /\ done \in Place \cup {Nowhere}
      /\ reported \in Place \cup {Nowhere} /\ pc \in {"run", "step", "queued", "callback"}
      /\ trap \in Address \cup {Nowhere} /\ memory \in [Address -> Value]
  BY DEF Typed, TypeOK
<1>1. CASE DispatchHit
  <2> DEFINE b == Lowest(RecordsAt(trap))
  <2>1. b \in gBreakpoints /\ b.kind # "data"
    BY <1>1, RecordsAtAre DEF DispatchHit
  <2> HIDE DEF b
  <2>2. /\ memory' = Restored(memory, b) /\ ip' = b.addr /\ reported' = b.addr /\ hit' = b.id
        /\ pc' = "callback" /\ UNCHANGED <<program, done, trap, rearm, gHardwareBreakpointIds,
                                           gNextNativeBreakpointId>>
        /\ IF b.once
           THEN /\ gBreakpoints' = gBreakpoints \ {b} /\ lost' = lost \ {b.id}
                /\ gRetiredBreakpointAddresses' = gRetiredBreakpointAddresses \cup {b.addr}
           ELSE UNCHANGED <<gBreakpoints, lost, gRetiredBreakpointAddresses>>
    BY <1>1 DEF DispatchHit, b
  <2>3. b.addr \in Place /\ b.addr \in 1..(Addresses + 1) /\ memory' \in [Address -> Value]
    BY <1>0, <2>1, <2>2, RecordIs, InstalledIs, PlacesAre DEF Typed
  <2>4. gBreakpoints' \subseteq gBreakpoints /\ lost' \subseteq lost
        /\ gRetiredBreakpointAddresses' \subseteq Place
    BY <2>2, <2>3 DEF Typed, TypeOK
  <2>5. Recorded' /\ Bounded({hit'} \cup rearm' \cup lost') /\ gBreakpoints' \subseteq Breakpoint
    BY <2>1, <2>2, <2>4, RecordedFewer DEF Typed
  <2>6. TypeOK'
    BY <2>2, <2>3, <2>4, <2>5 DEF Typed, TypeOK, Bounded
  <2>7. Slots'
    <3>1. b.once => b.kind = "software"
      BY <2>1 DEF Typed, Recorded
    <3>2. QED
      BY <2>1, <2>2, <3>1, SlotsSame, SlotsRemoveSoftware DEF Typed
  <2>8. QED
    BY <2>5, <2>6, <2>7 DEF Typed
<1>2. CASE SuppressStale
  BY <1>0, <1>2, TypedSame DEF SuppressStale, Resumed, tables
<1>3. CASE DispatchException
  BY <1>0, <1>3, TypedSame DEF DispatchException, tables
<1>4. CASE CallbackReturns
  <2>1. \A id \in rearm' : id \in rearm \/ \E b \in gBreakpoints : id = b.id
    BY <1>4 DEF CallbackReturns, Rearms, Native
  <2>2. QED
    BY <1>0, <1>4, <2>1, TypedSame DEF CallbackReturns, tables
<1>5. CASE CompleteStep
  <2> DEFINE again == {b \in gBreakpoints : b.id \in rearm}
  <2>1. PICK failed \in SUBSET again :
          /\ memory' = AllInstalled(memory, again \ failed)
          /\ lost' = (lost \ {b.id : b \in again}) \cup {b.id : b \in failed}
    BY <1>5 DEF CompleteStep
  <2>2. memory' \in [Address -> Value]
    BY <2>1, AllTyped DEF Typed
  <2>3. /\ done' \in Place \cup {Nowhere} /\ reported' = Nowhere /\ ip' \in 1..(Addresses + 1)
        /\ rearm' = {} /\ pc' = "run"
        /\ UNCHANGED <<program, trap, hit, gBreakpoints, gHardwareBreakpointIds,
                       gRetiredBreakpointAddresses, gNextNativeBreakpointId>>
    BY <1>5, PlacesAre DEF CompleteStep, Jump
  <2>4. \A id \in {hit'} \cup rearm' \cup lost' :
          id \in {hit} \cup rearm \cup lost \/ \E b \in gBreakpoints : id = b.id
    BY <2>1, <2>3
  <2>5. Recorded' /\ Bounded({hit'} \cup rearm' \cup lost')
    BY <2>3, <2>4, RecordedFewer DEF Typed
  <2>6. TypeOK'
    BY <1>0, <2>2, <2>3, <2>5 DEF Typed, TypeOK, Bounded
  <2>7. QED
    BY <2>3, <2>5, <2>6, SlotsSame DEF Typed
<1>6. QED
  BY <1>1, <1>2, <1>3, <1>4, <1>5 DEF Handlers

LEMMA RemovedTyped ==
  ASSUME Typed, NEW b \in gBreakpoints, Removed(b),
         UNCHANGED <<program, target, gNextNativeBreakpointId>>, Slots'
  PROVE  Typed'
<1>1. /\ memory' = Restored(memory, b) /\ gBreakpoints' = gBreakpoints \ {b}
      /\ lost' = lost \ {b.id}
      /\ gRetiredBreakpointAddresses' = gRetiredBreakpointAddresses \cup {b.addr}
  BY DEF Removed
<1>2. memory' \in [Address -> Value] /\ b.addr \in Place
  BY <1>1, RecordIs, InstalledIs DEF Typed, TypeOK
<1>3. UNCHANGED <<ip, done, pc, trap, hit, reported, rearm>>
  BY DEF target
<1>4. Recorded' /\ Bounded({hit'} \cup rearm' \cup lost')
  BY <1>1, <1>3, RecordedFewer DEF Typed
<1>5. TypeOK'
  BY <1>1, <1>2, <1>3, <1>4 DEF Typed, TypeOK, Bounded
<1>6. QED
  BY <1>4, <1>5 DEF Typed

\* A breakpoint that is set, as software or in a debug register.
LEMMA SetTyped ==
  ASSUME Typed, NEW kind \in {"software", "execute"}, NEW addr \in Place,
         NEW patch \in Patches, addr + Len(patch) - 1 \in Address, NEW once \in BOOLEAN,
         NEW b, b = NativeBreakpoint(kind, addr, patch, once),
         kind = "execute" => patch = INT3 /\ ~once,
         gNextNativeBreakpointId < FirstNativeId + MaxId,
         memory' = Installed(memory, b), gBreakpoints' = gBreakpoints \cup {b},
         gNextNativeBreakpointId' = gNextNativeBreakpointId + 1,
         gRetiredBreakpointAddresses' \subseteq gRetiredBreakpointAddresses,
         UNCHANGED <<program, target, lost>>, Slots'
  PROVE  Typed'
<1>1. /\ b \in Breakpoint /\ b.id = gNextNativeBreakpointId /\ b.kind = kind /\ b.patch = patch
      /\ b.once = once /\ Covers(b) \subseteq Address /\ Installed(memory, b) \in [Address -> Value]
  BY NativeRecordIs DEF Typed
<1>2. UNCHANGED <<ip, done, pc, trap, hit, reported, rearm>>
  BY DEF target
<1>3. /\ Recorded' /\ gNextNativeBreakpointId' \in FirstNativeId..(FirstNativeId + MaxId)
      /\ gBreakpoints' \subseteq Breakpoint
  BY <1>1, <1>2, RecordedMore DEF Typed
<1>4. TypeOK'
  BY <1>1, <1>2, <1>3 DEF Typed, TypeOK
<1>5. QED
  BY <1>3, <1>4 DEF Typed

LEMMA SitesAre ==
  /\ \A s \in Sites : /\ s.addr \in Place /\ s.patch \in Patches /\ s.once \in BOOLEAN
                      /\ s.addr + Len(s.patch) - 1 \in Address
  /\ \A s \in HardSites : s.addr \in Place /\ s.addr + Len(INT3) - 1 \in Address
  /\ \A w \in Writes : w.addr \in Address /\ w.value \in Byte
  /\ INT3 \in Patches
<1>1. \A s \in HardSites : s.addr \in Place
  BY ProgramAssumption
<1>2. Len(INT3) = 1
  BY DEF INT3
<1>3. QED
  BY <1>1, <1>2, PlacesAre, ProgramAssumption DEF Patches

LEMMA UserTyped ==
  ASSUME Typed, User
  PROVE  Typed'
<1>0. Slots /\ TypeOK /\ Recorded
  BY DEF Typed
<1>1. ASSUME NEW site \in Sites, SetBPX(site) PROVE Typed'
  <2> DEFINE b == NativeBreakpoint("software", site.addr, site.patch, site.once)
  <2>1. b.kind = "software" /\ b.id = gNextNativeBreakpointId
    BY SitesAre DEF NativeBreakpoint
  <2>2. /\ memory' = Installed(memory, b) /\ gBreakpoints' = gBreakpoints \cup {b}
        /\ gNextNativeBreakpointId' = gNextNativeBreakpointId + 1
        /\ gNextNativeBreakpointId < FirstNativeId + MaxId
        /\ gRetiredBreakpointAddresses' \subseteq gRetiredBreakpointAddresses
        /\ UNCHANGED <<program, target, lost, gHardwareBreakpointIds>>
    BY <1>1 DEF SetBPX
  <2> HIDE DEF b
  <2>3. Slots'
    BY <2>1, <2>2, SlotsAddSoftware
  <2>4. QED
    BY <2>2, <2>3, SitesAre, SetTyped DEF b
<1>2. CASE SetFails
  <2>1. UNCHANGED <<ip, done, pc, trap, hit, reported, rearm>>
    BY <1>2 DEF SetFails, target
  <2>2. FirstNativeId \in Nat /\ MaxId \in Nat
        /\ gNextNativeBreakpointId \in FirstNativeId..(FirstNativeId + MaxId)
    BY NativeIdsIs, ProgramAssumption DEF Typed, TypeOK
  <2>3. /\ gNextNativeBreakpointId' = gNextNativeBreakpointId + 1
        /\ gNextNativeBreakpointId' \in FirstNativeId..(FirstNativeId + MaxId)
        /\ UNCHANGED <<gBreakpoints, lost>>
    BY <1>2, <2>2 DEF SetFails
  <2>4. TypeOK'
    BY <1>2, <2>1, <2>3 DEF SetFails, Typed, TypeOK
  <2>5. Recorded'
    <3>1. \A b \in gBreakpoints : b.id \in Nat /\ b.id < gNextNativeBreakpointId'
      BY <2>2, <2>3, RecordIs DEF Typed
    <3>2. \A id \in {hit} \cup rearm \cup lost : id \in Int /\ id < gNextNativeBreakpointId
      BY <2>2 DEF Typed, TypeOK, NoId, Recorded
    <3>3. \A id \in {hit'} \cup rearm' \cup lost' : id < gNextNativeBreakpointId'
      BY <2>1, <2>2, <2>3, <3>2
    <3>4. QED
      BY <2>3, <3>1, <3>3 DEF Typed, Recorded
  <2>6. QED
    BY <1>0, <1>2, <2>4, <2>5, SlotsSame DEF SetFails, Typed
<1>3. ASSUME NEW a \in Place, DeleteBPX(a) PROVE Typed'
  <2>1. PICK b \in gBreakpoints : b.kind = "software" /\ Removed(b)
    BY <1>3 DEF DeleteBPX
  <2>2. Slots'
    BY <1>0, <1>3, <2>1, SlotsRemoveSoftware DEF DeleteBPX, Removed
  <2>3. QED
    BY <1>3, <2>1, <2>2, RemovedTyped DEF DeleteBPX
<1>4. ASSUME NEW r \in Register, NEW site \in HardSites, SetHardwareBreakPoint(r, site) PROVE Typed'
  <2>1. CASE site.execute
    <3> DEFINE b == NativeBreakpoint("execute", site.addr, INT3, FALSE)
    <3>1. /\ memory' = Installed(memory, b) /\ gBreakpoints' = gBreakpoints \cup {b}
          /\ Slotted(r, b.id) /\ r \in Unused
          /\ gNextNativeBreakpointId' = gNextNativeBreakpointId + 1
          /\ gNextNativeBreakpointId < FirstNativeId + MaxId
          /\ gRetiredBreakpointAddresses' \subseteq gRetiredBreakpointAddresses
          /\ UNCHANGED <<program, target, lost>>
      BY <1>4, <2>1 DEF SetHardwareBreakPoint
    <3>2. b.kind = "execute" /\ b.id = gNextNativeBreakpointId
      BY DEF NativeBreakpoint
    <3> HIDE DEF b
    <3>3. \A c \in gBreakpoints : c.id # b.id
      BY <1>0, <3>2, RecordIs, NativeIdsIs, ProgramAssumption DEF TypeOK
    <3>4. Slots'
      BY <3>1, <3>2, <3>3, SlotsAddHardware
    <3>5. QED
      BY <3>1, <3>4, SitesAre, SetTyped DEF b
  <2>2. CASE ~site.execute
    <3> DEFINE b == DataBreakpoint(site.addr)
    <3>1. /\ gBreakpoints' = gBreakpoints \cup {b} /\ Slotted(r, b.id) /\ r \in Unused
          /\ UNCHANGED <<memory, program, target, gRetiredBreakpointAddresses,
                         gNextNativeBreakpointId, lost>>
      BY <1>4, <2>2 DEF SetHardwareBreakPoint
    <3>2. /\ b \in Breakpoint /\ b.id \in 0..(FirstNativeId - 1) /\ WithId(b.id) = {}
          /\ b.kind = "data" /\ b.patch = <<>> /\ b.once = FALSE
      BY <3>1, SitesAre, DataRecordIs
    <3> HIDE DEF b
    <3>3. \A c \in gBreakpoints : c.id # b.id
      BY <3>2 DEF WithId
    <3>4. Slots'
      BY <3>1, <3>2, <3>3, SlotsAddHardware
    <3>5. UNCHANGED <<ip, done, pc, trap, hit, reported, rearm>>
      BY <3>1 DEF target
    <3>6. TypeOK'
      BY <3>1, <3>2, <3>5 DEF Typed, TypeOK
    <3>7. b.id < gNextNativeBreakpointId /\ b.id < FirstNativeId
      BY <3>2, NativeIdsIs, ProgramAssumption DEF Typed, TypeOK
    <3>8. Recorded'
      BY <3>1, <3>2, <3>5, <3>7 DEF Typed, Recorded
    <3>9. QED
      BY <3>4, <3>6, <3>8 DEF Typed
  <2>3. QED
    BY <2>1, <2>2
<1>5. ASSUME NEW r \in Register, DeleteHardwareBreakPoint(r) PROVE Typed'
  <2>1. PICK b \in WithId(gHardwareBreakpointIds[r]) :
          IF b.kind = "data"
          THEN /\ gBreakpoints' = gBreakpoints \ {b} /\ lost' = lost \ {b.id}
               /\ UNCHANGED <<memory, gRetiredBreakpointAddresses>>
          ELSE Removed(b)
    BY <1>5 DEF DeleteHardwareBreakPoint
  <2>2. /\ b \in gBreakpoints /\ b.id = gHardwareBreakpointIds[r]
        /\ r \in DOMAIN gHardwareBreakpointIds
        /\ gHardwareBreakpointIds' = Without(gHardwareBreakpointIds, r)
        /\ UNCHANGED <<program, target, gNextNativeBreakpointId>>
    BY <1>5 DEF DeleteHardwareBreakPoint, WithId
  <2>3. Slots'
    BY <1>0, <2>1, <2>2, SlotsRemoveHardware DEF Removed
  <2>4. CASE b.kind # "data"
    BY <2>1, <2>2, <2>3, <2>4, RemovedTyped
  <2>5. CASE b.kind = "data"
    <3>1. gBreakpoints' = gBreakpoints \ {b} /\ lost' = lost \ {b.id}
          /\ UNCHANGED <<memory, gRetiredBreakpointAddresses>>
      BY <2>1, <2>5
    <3>2. UNCHANGED <<ip, done, pc, trap, hit, reported, rearm>>
      BY <2>2 DEF target
    <3>3. Recorded' /\ Bounded({hit'} \cup rearm' \cup lost')
      BY <1>0, <2>2, <3>1, <3>2, RecordedFewer
    <3>4. TypeOK'
      BY <2>2, <3>1, <3>2, <3>3 DEF Typed, TypeOK, Bounded
    <3>5. QED
      BY <2>3, <3>3, <3>4 DEF Typed
  <2>6. QED
    BY <2>4, <2>5
<1>6. CASE RemoveAllBreakPoints
  <2>1. UNCHANGED <<ip, done, pc, trap, hit, reported, rearm>>
    BY <1>6 DEF RemoveAllBreakPoints, target
  <2>2. memory' \in [Address -> Value]
    BY <1>0, <1>6, AllTyped DEF RemoveAllBreakPoints
  <2>3. Recorded' /\ Bounded({hit'} \cup rearm' \cup lost')
    BY <1>0, <1>6, <2>1, RecordedFewer DEF RemoveAllBreakPoints
  <2>4. TypeOK'
    BY <1>6, <2>1, <2>2, <2>3 DEF RemoveAllBreakPoints, Typed, TypeOK, Bounded
  <2>5. QED
    BY <1>6, <2>3, <2>4, SlotsCleared DEF RemoveAllBreakPoints, Typed
<1>7. ASSUME NEW b \in gBreakpoints, RemoveAllBreakPointsFails(b) PROVE Typed'
  <2> DEFINE before == {other \in gBreakpoints : other.id < b.id}
  <2>1. /\ memory' = AllRestored(memory, before)
        /\ lost' = lost \cup {other.id : other \in before}
        /\ UNCHANGED <<program, target, gBreakpoints, gHardwareBreakpointIds,
                       gRetiredBreakpointAddresses, gNextNativeBreakpointId>>
    BY <1>7 DEF RemoveAllBreakPointsFails
  <2>2. UNCHANGED <<ip, done, pc, trap, hit, reported, rearm>>
    BY <2>1 DEF target
  <2>3. memory' \in [Address -> Value]
    BY <1>0, <2>1, AllTyped
  <2>4. \A id \in lost' : id \in lost \/ \E c \in gBreakpoints : id = c.id
    BY <2>1
  <2>5. Recorded' /\ Bounded({hit'} \cup rearm' \cup lost')
    BY <1>0, <2>1, <2>2, <2>4, RecordedFewer
  <2>6. TypeOK'
    BY <2>1, <2>2, <2>3, <2>5 DEF Typed, TypeOK, Bounded
  <2>7. QED
    BY <1>0, <2>1, <2>5, <2>6, SlotsSame DEF Typed
<1>8. ASSUME NEW w \in Writes, MemoryWriteSafe(w.addr, w.value) PROVE Typed'
  <2>1. UNCHANGED <<ip, done, pc, trap, hit, reported, rearm, gBreakpoints,
                    gHardwareBreakpointIds, gRetiredBreakpointAddresses,
                    gNextNativeBreakpointId, lost>>
    BY <1>8 DEF MemoryWriteSafe, target, tables
  <2>2. memory' \in [Address -> Value] /\ program' \in [Address -> Byte \cup {"CC"}]
    BY <1>0, <1>8, SitesAre DEF MemoryWriteSafe, TypeOK, Value
  <2>3. TypeOK' /\ Recorded'
    BY <1>0, <2>1, <2>2 DEF TypeOK, Recorded
  <2>4. QED
    BY <1>0, <2>1, <2>3, SlotsSame DEF Typed
<1>9. QED
  BY <1>1, <1>2, <1>3, <1>4, <1>5, <1>6, <1>7, <1>8 DEF User

LEMMA TypedNext ==
  ASSUME Typed, [Next]_vars
  PROVE  Typed'
<1>1. CASE UNCHANGED vars
  BY <1>1 DEF vars, target, tables, Typed, TypeOK, Recorded, Slots
<1>2. QED
  BY <1>1, TargetTyped, HandlersTyped, UserTyped DEF Next

LEMMA TypedInit ==
  ASSUME Init
  PROVE  Typed
<1>1. FirstNativeId \in Nat /\ MaxId \in Nat /\ FirstNativeId \in FirstNativeId..(FirstNativeId + MaxId)
  BY NativeIdsIs, ProgramAssumption
<1>2. Image \in [Address -> Byte \cup {"CC"}] /\ Image \in [Address -> Value]
  BY ProgramAssumption DEF Value, PatchByte
<1>3. TypeOK
  BY <1>1, <1>2, PlacesAre DEF Init, TypeOK
<1>4. Recorded
  BY <1>1 DEF Init, Recorded, NoId
<1>5. Slots
  BY DEF Init, Slots
<1>6. QED
  BY <1>3, <1>4, <1>5 DEF Typed

LEMMA TypedInvariant == Spec => []Typed
<1>1. Init => Typed
  BY TypedInit
<1>2. Typed /\ [Next]_vars => Typed'
  BY TypedNext
<1>3. QED
  BY <1>1, <1>2, PTL DEF Spec

\* Every record, id and byte keeps its type under any calls and exceptions; the
\* ids DbgEng gives to data breakpoints stay below those of the patches.
THEOREM NativeTypeInvariant == Spec => []TypeOK
  BY TypedInvariant, PTL DEF Typed

\* The table of SetHardwareBreakPoint and DeleteHardwareBreakPoint never leaks a
\* debug register or gives one away twice, in any order of calls on any number
\* of registers, failed calls and single-shot hits included.
THEOREM SlotsAgreeInvariant == Spec => []SlotsAgree
<1>1. ASSUME Typed PROVE SlotsAgree
  <2>1. \A b \in gBreakpoints : WithId(b.id) = {b}
    BY <1>1 DEF Typed, Slots, WithId
  <2>2. ASSUME NEW b \in gBreakpoints
        PROVE  Cardinality({r \in DOMAIN gHardwareBreakpointIds : gHardwareBreakpointIds[r] = b.id})
                 = IF b.kind = "software" THEN 0 ELSE 1
    <3> DEFINE own == {r \in DOMAIN gHardwareBreakpointIds : gHardwareBreakpointIds[r] = b.id}
    <3>1. CASE b.kind = "software"
      <4>1. own = {}
        BY <1>1, <3>1 DEF Typed, Slots
      <4>2. QED
        BY <3>1, <4>1, FS_EmptySet
    <3>2. CASE b.kind # "software"
      <4>1. PICK r \in DOMAIN gHardwareBreakpointIds : gHardwareBreakpointIds[r] = b.id
        BY <1>1, <3>2 DEF Typed, Slots
      <4>2. own = {r}
        BY <1>1, <4>1 DEF Typed, Slots
      <4>3. QED
        BY <3>2, <4>2, FS_Singleton
    <3>3. QED
      BY <3>1, <3>2
  <2>3. \A r \in DOMAIN gHardwareBreakpointIds : WithId(gHardwareBreakpointIds[r]) # {}
    BY <1>1 DEF Typed, Slots, WithId
  <2>4. QED
    BY <1>1, <2>1, <2>2, <2>3 DEF SlotsAgree, Typed, Slots
<1>2. QED
  BY <1>1, TypedInvariant, PTL

-----------------------------------------------------------------------------
(* What single writes do to memory and to the other patches.               *)

\* Where patches are apart, at most one of them covers an address.
LEMMA OverIs ==
  ASSUME Kept, Recorded, TypeOK, NEW S \in SUBSET gBreakpoints, NEW b \in S, b \in Native,
         NEW a \in Covers(b)
  PROVE  /\ {c \in S : a \in Reach(c.addr, c.patch)} = {b}
         /\ {c \in S : a \in Reach(c.addr, c.original)} = {b}
         /\ Highest({b}) = b
<1>1. \A c \in S : a \in Reach(c.addr, c.patch) => c \in Native
  <2>1. \A c \in S : c.kind = "data" => Len(c.patch) = 0 /\ c.addr \in Int
    BY RecordIs DEF Recorded
  <2>2. \A c \in S : c.kind = "data" => Reach(c.addr, c.patch) = {}
    BY <2>1 DEF Reach
  <2>3. QED
    BY <2>2 DEF Native
<1>2. \A c \in S : Reach(c.addr, c.original) = Reach(c.addr, c.patch)
  BY RecordIs DEF Reach
<1>3. \A c \in S : a \in Reach(c.addr, c.patch) => c = b
  BY <1>1 DEF Kept, Covers
<1>4. b.id <= b.id
  BY RecordIs
<1>5. Highest({b}) = b
  BY <1>4 DEF Highest
<1>6. QED
  BY <1>2, <1>3, <1>5 DEF Covers

\* What is uncovered by S is left alone, what is covered is written.
LEMMA AllAre ==
  ASSUME Kept, Recorded, TypeOK, NEW S \in SUBSET gBreakpoints, NEW a \in Address
  PROVE  /\ \A b \in S : b \in Native /\ a \in Covers(b) =>
              /\ AllInstalled(memory, S)[a] = b.patch[a - b.addr + 1]
              /\ AllRestored(memory, S)[a] = program[a]
         /\ (\A b \in S : a \notin Covers(b)) =>
              AllInstalled(memory, S)[a] = memory[a] /\ AllRestored(memory, S)[a] = memory[a]
<1>1. ASSUME NEW b \in S, b \in Native, a \in Covers(b)
      PROVE  /\ AllInstalled(memory, S)[a] = b.patch[a - b.addr + 1]
             /\ AllRestored(memory, S)[a] = program[a]
  <2>1. /\ {c \in S : a \in Reach(c.addr, c.patch)} = {b}
        /\ {c \in S : a \in Reach(c.addr, c.original)} = {b}
        /\ Highest({b}) = b
    BY <1>1, OverIs
  <2>2. AllInstalled(memory, S)[a] = Installed(memory, b)[a]
        /\ AllRestored(memory, S)[a] = Restored(memory, b)[a]
    BY <2>1 DEF AllInstalled, AllRestored
  <2>3. memory \in [Address -> Value]
    BY DEF TypeOK
  <2>4. QED
    BY <1>1, <2>2, <2>3, InstalledIs DEF Kept
<1>2. ASSUME \A b \in S : a \notin Covers(b)
      PROVE  AllInstalled(memory, S)[a] = memory[a] /\ AllRestored(memory, S)[a] = memory[a]
  <2>1. \A c \in S : Reach(c.addr, c.original) = Reach(c.addr, c.patch)
    BY RecordIs DEF Reach
  <2>2. {c \in S : a \in Reach(c.addr, c.patch)} = {}
        /\ {c \in S : a \in Reach(c.addr, c.original)} = {}
    BY <1>2, <2>1 DEF Covers
  <2>3. QED
    BY <2>2 DEF AllInstalled, AllRestored
<1>3. QED
  BY <1>1, <1>2

\* A step lifts the patches L, puts the patches A in place, leaves the others as
\* they are, and memory that no patch covers is the program's.
Effect(L, A) ==
  /\ \A b \in Native :
       /\ b \in L => Lifted(b)'
       /\ b \in A => Armed(b)'
       /\ b \notin L \cup A => (Armed(b)' <=> Armed(b)) /\ (Lifted(b)' <=> Lifted(b))
       /\ \A a \in Covers(b) : program'[a] = program[a]
  /\ \A a \in Address : (\A b \in Native : a \notin Covers(b)) => memory'[a] = program'[a]

LEMMA SameBytes ==
  ASSUME NEW b, \A a \in Covers(b) : memory'[a] = memory[a] /\ program'[a] = program[a]
  PROVE  /\ (Armed(b)' <=> Armed(b)) /\ (Lifted(b)' <=> Lifted(b))
         /\ \A a \in Covers(b) : program'[a] = program[a]
<1>1. Armed(b)' <=> Armed(b)
  BY DEF Armed
<1>2. Lifted(b)' <=> Lifted(b)
  BY DEF Lifted
<1>3. QED
  BY <1>1, <1>2

LEMMA NativeIs ==
  ASSUME Typed, NEW b \in Native
  PROVE  /\ b \in gBreakpoints /\ Covers(b) \subseteq Address /\ b.addr \in Covers(b)
         /\ b.patch \in Patches /\ FirstNativeId <= b.id
<1>1. b \in gBreakpoints /\ b.kind # "data"
  BY DEF Native
<1>2. Covers(b) \subseteq Address /\ b.patch \in Patches /\ FirstNativeId <= b.id
  BY <1>1 DEF Typed, Recorded
<1>3. b.addr \in Int /\ Len(b.patch) \in 1..2
  BY <1>1, <1>2, PatchIs, RecordIs DEF Typed
<1>4. b.addr \in Covers(b)
  <2>1. \A x \in Int, n \in 1..2 : x \in x..(x + n - 1)
    OBVIOUS
  <2>2. QED
    BY <1>3, <2>1 DEF Covers, Reach
<1>5. QED
  BY <1>1, <1>2, <1>4

LEMMA NothingWritten ==
  ASSUME Typed, Kept, UNCHANGED <<memory, program>>
  PROVE  Effect({}, {})
<1>1. \A b \in Native : \A a \in Covers(b) : memory'[a] = memory[a] /\ program'[a] = program[a]
  OBVIOUS
<1>2. QED
  BY <1>1, SameBytes DEF Effect, Kept

LEMMA OneRestored ==
  ASSUME Typed, Kept, NEW b \in Native, memory' = Restored(memory, b), UNCHANGED program
  PROVE  Effect({b}, {})
<1>1. memory \in [Address -> Value] /\ b \in gBreakpoints /\ Covers(b) \subseteq Address
  BY NativeIs DEF Typed, TypeOK
<1>2. \A a \in Address : a \in Covers(b) => memory'[a] = program[a]
  BY <1>1, InstalledIs DEF Typed, Kept
<1>3. \A a \in Address : a \notin Covers(b) => memory'[a] = memory[a]
  BY <1>1, InstalledIs DEF Typed
<1>4. Lifted(b)'
  BY <1>1, <1>2 DEF Lifted
<1>5. ASSUME NEW c \in Native, c # b, NEW a \in Covers(c) PROVE memory'[a] = memory[a]
  <2>1. a \in Address /\ a \notin Covers(b)
    BY <1>5, NativeIs DEF Kept
  <2>2. QED
    BY <1>3, <2>1
<1>6. \A c \in Native : c # b => /\ (Armed(c)' <=> Armed(c)) /\ (Lifted(c)' <=> Lifted(c))
  BY <1>5, SameBytes
<1>7. \A a \in Address : (\A c \in Native : a \notin Covers(c)) => memory'[a] = program'[a]
  BY <1>3 DEF Kept
<1>8. QED
  BY <1>4, <1>6, <1>7 DEF Effect

LEMMA SomeRestored ==
  ASSUME Typed, Kept, NEW S \in SUBSET gBreakpoints, memory' = AllRestored(memory, S),
         UNCHANGED program
  PROVE  Effect(S, {})
<1>0. TypeOK /\ Recorded
  BY DEF Typed
<1>1. ASSUME NEW b \in Native, b \in S PROVE Lifted(b)'
  <2>1. \A a \in Covers(b) : a \in Address /\ memory'[a] = program[a]
    BY <1>0, <1>1, NativeIs, AllAre
  <2>2. QED
    BY <2>1 DEF Lifted
<1>2. ASSUME NEW a \in Address, \A c \in S : a \notin Covers(c) PROVE memory'[a] = memory[a]
  BY <1>0, <1>2, AllAre
<1>3. \A c \in S : c \in Native \/ Covers(c) = {}
  <2>1. \A c \in S : c.kind = "data" => Len(c.patch) = 0 /\ c.addr \in Int
    BY <1>0, RecordIs DEF Recorded
  <2>2. QED
    BY <2>1 DEF Native, Covers, Reach
<1>4. ASSUME NEW b \in Native, b \notin S, NEW a \in Covers(b) PROVE memory'[a] = memory[a]
  <2>1. a \in Address
    BY <1>4, NativeIs
  <2>2. \A c \in S : a \notin Covers(c)
    BY <1>3, <1>4 DEF Kept
  <2>3. QED
    BY <1>2, <2>1, <2>2
<1>5. \A b \in Native : b \notin S => (Armed(b)' <=> Armed(b)) /\ (Lifted(b)' <=> Lifted(b))
  BY <1>4, SameBytes
<1>6. ASSUME NEW a \in Address, \A c \in Native : a \notin Covers(c) PROVE memory'[a] = program'[a]
  <2>1. \A c \in S : a \notin Covers(c)
    BY <1>3, <1>6
  <2>2. QED
    BY <1>2, <1>6, <2>1 DEF Kept
<1>7. QED
  BY <1>1, <1>5, <1>6 DEF Effect

LEMMA SomeInstalled ==
  ASSUME Typed, Kept, NEW S \in SUBSET gBreakpoints, memory' = AllInstalled(memory, S),
         UNCHANGED program
  PROVE  Effect({}, S)
<1>0. TypeOK /\ Recorded
  BY DEF Typed
<1>1. ASSUME NEW b \in Native, b \in S PROVE Armed(b)'
  <2>1. \A a \in Covers(b) : a \in Address /\ memory'[a] = b.patch[a - b.addr + 1]
    BY <1>0, <1>1, NativeIs, AllAre
  <2>2. QED
    BY <2>1 DEF Armed
<1>2. ASSUME NEW a \in Address, \A c \in S : a \notin Covers(c) PROVE memory'[a] = memory[a]
  BY <1>0, <1>2, AllAre
<1>3. \A c \in S : c \in Native \/ Covers(c) = {}
  <2>1. \A c \in S : c.kind = "data" => Len(c.patch) = 0 /\ c.addr \in Int
    BY <1>0, RecordIs DEF Recorded
  <2>2. QED
    BY <2>1 DEF Native, Covers, Reach
<1>4. ASSUME NEW b \in Native, b \notin S, NEW a \in Covers(b) PROVE memory'[a] = memory[a]
  <2>1. a \in Address
    BY <1>4, NativeIs
  <2>2. \A c \in S : a \notin Covers(c)
    BY <1>3, <1>4 DEF Kept
  <2>3. QED
    BY <1>2, <2>1, <2>2
<1>5. \A b \in Native : b \notin S => (Armed(b)' <=> Armed(b)) /\ (Lifted(b)' <=> Lifted(b))
  BY <1>4, SameBytes
<1>6. ASSUME NEW a \in Address, \A c \in Native : a \notin Covers(c) PROVE memory'[a] = program'[a]
  <2>1. \A c \in S : a \notin Covers(c)
    BY <1>3, <1>6
  <2>2. QED
    BY <1>2, <1>6, <2>1 DEF Kept
<1>7. QED
  BY <1>1, <1>5, <1>6 DEF Effect

\* The user writes where no patch is.
LEMMA UserWrites ==
  ASSUME Typed, Kept, ~Overlap, NEW w \in Writes, MemoryWriteSafe(w.addr, w.value)
  PROVE  Effect({}, {})
<1>1. w.addr \in Address /\ w.addr \in Int
  BY SitesAre DEF Address
<1>2. w.addr \in w.addr..(w.addr + 1 - 1)
  BY <1>1
<1>3. \A b \in Native : w.addr \notin Covers(b)
  BY <1>2 DEF MemoryWriteSafe, Apart
<1>4. /\ memory' = [memory EXCEPT ![w.addr] = w.value]
      /\ program' = [program EXCEPT ![w.addr] = w.value]
      /\ memory \in [Address -> Value] /\ program \in [Address -> Byte \cup {"CC"}]
  BY DEF MemoryWriteSafe, Typed, TypeOK
<1>5. \A a \in Address : a # w.addr => memory'[a] = memory[a] /\ program'[a] = program[a]
  BY <1>4
<1>6. ASSUME NEW b \in Native, NEW a \in Covers(b)
      PROVE  memory'[a] = memory[a] /\ program'[a] = program[a]
  BY <1>3, <1>5, NativeIs
<1>7. ASSUME NEW a \in Address, \A b \in Native : a \notin Covers(b) PROVE memory'[a] = program'[a]
  BY <1>1, <1>4, <1>7 DEF Kept
<1>8. QED
  BY <1>6, <1>7, SameBytes DEF Effect

\* Where no breakpoint is added, and only one that is lifted goes, the program
\* stays kept.
LEMMA KeptFewer ==
  ASSUME Typed, Kept, Native' \subseteq Native, NEW L, NEW A, Effect(L, A),
         \A b \in Native : b \notin Native' => b \in L
  PROVE  Kept'
<1>1. \A b, c \in Native' : b # c => Covers(b) \cap Covers(c) = {}
  BY DEF Kept
<1>2. ASSUME NEW b \in Native', NEW a \in Covers(b) PROVE b.original[a - b.addr + 1] = program'[a]
  BY DEF Kept, Effect
<1>3. ASSUME NEW b \in Native' PROVE Armed(b)' \/ Lifted(b)'
  BY DEF Kept, Effect
<1>4. ASSUME NEW a \in Address, \A b \in Native' : a \notin Covers(b) PROVE memory'[a] = program'[a]
  <2>1. CASE \E b \in Native : a \in Covers(b)
    <3>1. PICK b \in Native : a \in Covers(b)
      BY <2>1
    <3>2. b \in L
      BY <1>4, <3>1
    <3>3. Lifted(b)'
      BY <3>2 DEF Effect
    <3>4. QED
      BY <3>1, <3>3 DEF Lifted
  <2>2. CASE ~\E b \in Native : a \in Covers(b)
    BY <2>2 DEF Effect
  <2>3. QED
    BY <2>1, <2>2
<1>5. QED
  BY <1>1, <1>2, <1>3, <1>4 DEF Kept

\* A patch that is set apart from the others: it keeps the program's bytes.
LEMMA PatchSet ==
  ASSUME Typed, Kept, ~Overlap, NEW kind \in {"software", "execute"}, NEW addr \in Place,
         NEW patch \in Patches, addr + Len(patch) - 1 \in Address, NEW once \in BOOLEAN,
         Apart(addr, Len(patch)), NEW b, b = NativeBreakpoint(kind, addr, patch, once),
         memory' = Installed(memory, b), gBreakpoints' = gBreakpoints \cup {b},
         UNCHANGED program
  PROVE  /\ Kept' /\ Native' = Native \cup {b} /\ Armed(b)' /\ b.addr \in Place
         /\ Covers(b) = Reach(addr, patch) /\ b.id = gNextNativeBreakpointId
         /\ \A c \in Native : /\ (Armed(c)' <=> Armed(c)) /\ (Lifted(c)' <=> Lifted(c))
                              /\ \A a \in Covers(c) : program'[a] = program[a]
<1>1. /\ b.id = gNextNativeBreakpointId /\ b.kind = kind /\ b.addr = addr
      /\ Covers(b) = Reach(addr, patch) /\ Covers(b) \subseteq Address
      /\ \A a \in Covers(b) : b.original[a - b.addr + 1] = memory[a]
      /\ \A a \in Address : a \in Covers(b) => memory'[a] = b.patch[a - b.addr + 1]
      /\ \A a \in Address : a \notin Covers(b) => memory'[a] = memory[a]
  BY NativeRecordIs DEF Typed
<1>2. Native' = Native \cup {b}
  BY <1>1 DEF Native
<1>3. \A c \in Native : Covers(c) \cap Covers(b) = {}
  BY <1>1 DEF Apart, Reach
<1>4. \A c \in Native : \A a \in Covers(c) : a \in Address /\ memory'[a] = memory[a]
  BY <1>1, <1>3, NativeIs
<1>5. \A c \in Native : /\ (Armed(c)' <=> Armed(c)) /\ (Lifted(c)' <=> Lifted(c))
                        /\ \A a \in Covers(c) : program'[a] = program[a]
  BY <1>4, SameBytes
<1>6. Armed(b)'
  BY <1>1 DEF Armed
<1>7. Kept'
  <2>1. \A c, d \in Native' : c # d => Covers(c) \cap Covers(d) = {}
    BY <1>2, <1>3 DEF Kept
  <2>2. ASSUME NEW a \in Covers(b) PROVE b.original[a - b.addr + 1] = program'[a]
    <3>1. memory[a] = program[a]
      BY <1>1, <1>3 DEF Kept
    <3>2. QED
      BY <1>1, <3>1
  <2>3. \A c \in Native' : \A a \in Covers(c) : c.original[a - c.addr + 1] = program'[a]
    BY <1>2, <2>2 DEF Kept
  <2>4. \A c \in Native' : Armed(c)' \/ Lifted(c)'
    BY <1>2, <1>5, <1>6 DEF Kept
  <2>5. \A a \in Address : (\A c \in Native' : a \notin Covers(c)) => memory'[a] = program'[a]
    BY <1>1, <1>2 DEF Kept
  <2>6. QED
    BY <2>1, <2>3, <2>4, <2>5 DEF Kept
<1>8. QED
  BY <1>1, <1>2, <1>5, <1>6, <1>7

-----------------------------------------------------------------------------
(* What each action does to the patches.                                   *)

LEMMA HitEffect ==
  ASSUME Typed, Kept, DispatchHit, NEW b, b = Lowest(RecordsAt(trap))
  PROVE  /\ b \in Native /\ b \in RecordsAt(trap) /\ Effect({b}, {})
         /\ Native' = IF b.once THEN Native \ {b} ELSE Native
<1>1. b \in RecordsAt(trap) /\ b \in Native
  BY RecordsAtAre DEF DispatchHit, Native
<1>2. memory' = Restored(memory, b) /\ UNCHANGED program
  BY DEF DispatchHit
<1>3. Native' = IF b.once THEN Native \ {b} ELSE Native
  BY DEF DispatchHit, Native
<1>4. QED
  BY <1>1, <1>2, <1>3, OneRestored

LEMMA RemovedEffect ==
  ASSUME Typed, Kept, NEW b \in Native, Removed(b), UNCHANGED program
  PROVE  Effect({b}, {}) /\ Native' = Native \ {b}
<1>1. Native' = Native \ {b}
  BY DEF Removed, Native
<1>2. QED
  BY <1>1, OneRestored DEF Removed

LEMMA DataRemoved ==
  ASSUME Typed, Kept, NEW b \in gBreakpoints, b.kind = "data", gBreakpoints' = gBreakpoints \ {b},
         UNCHANGED <<memory, program>>
  PROVE  Effect({}, {}) /\ Native' = Native
<1>1. Native' = Native
  BY DEF Native
<1>2. QED
  BY <1>1, NothingWritten

LEMMA DataAdded ==
  ASSUME Typed, Kept, NEW r \in Unused, NEW addr \in Place,
         gBreakpoints' = gBreakpoints \cup {DataBreakpoint(addr)}, UNCHANGED <<memory, program>>
  PROVE  Effect({}, {}) /\ Native' = Native
<1>1. DataBreakpoint(addr).kind = "data"
  BY DataRecordIs
<1>2. Native' = Native
  BY <1>1 DEF Native
<1>3. QED
  BY <1>2, NothingWritten

LEMMA SetHardwareSets ==
  ASSUME Typed, Kept, ~Overlap, NEW r \in Register, NEW site \in HardSites, site.execute,
         SetHardwareBreakPoint(r, site),
         NEW b, b = NativeBreakpoint("execute", site.addr, INT3, FALSE)
  PROVE  /\ Kept' /\ Native' = Native \cup {b} /\ Armed(b)' /\ b.addr \in Place
         /\ Covers(b) = Reach(site.addr, INT3) /\ b.id = gNextNativeBreakpointId
         /\ \A c \in Native : /\ (Armed(c)' <=> Armed(c)) /\ (Lifted(c)' <=> Lifted(c))
                              /\ \A a \in Covers(c) : program'[a] = program[a]
<1>1. site.addr \in Place /\ site.addr + Len(INT3) - 1 \in Address /\ INT3 \in Patches
  BY SitesAre
<1>2. Len(INT3) = 1
  BY DEF INT3
<1>3. Apart(site.addr, Len(INT3)) /\ memory' = Installed(memory, b)
      /\ gBreakpoints' = gBreakpoints \cup {b} /\ UNCHANGED program
  BY <1>2 DEF SetHardwareBreakPoint
<1>4. PICK kind \in {"software", "execute"}, once \in BOOLEAN :
        b = NativeBreakpoint(kind, site.addr, INT3, once)
  BY Zenon
<1>5. QED
  BY <1>1, <1>3, <1>4, PatchSet

LEMMA SetBPXSets ==
  ASSUME Typed, Kept, ~Overlap, NEW site \in Sites, SetBPX(site),
         NEW b, b = NativeBreakpoint("software", site.addr, site.patch, site.once)
  PROVE  /\ Kept' /\ Native' = Native \cup {b} /\ Armed(b)' /\ b.addr \in Place
         /\ Covers(b) = Reach(site.addr, site.patch) /\ b.id = gNextNativeBreakpointId
         /\ \A c \in Native : /\ (Armed(c)' <=> Armed(c)) /\ (Lifted(c)' <=> Lifted(c))
                              /\ \A a \in Covers(c) : program'[a] = program[a]
<1>1. site.addr \in Place /\ site.patch \in Patches /\ site.once \in BOOLEAN
      /\ site.addr + Len(site.patch) - 1 \in Address
  BY SitesAre
<1>2. Apart(site.addr, Len(site.patch)) /\ memory' = Installed(memory, b)
      /\ gBreakpoints' = gBreakpoints \cup {b} /\ UNCHANGED program
  BY DEF SetBPX
<1>3. QED
  BY <1>1, <1>2, PatchSet

-----------------------------------------------------------------------------
(* The program is kept.                                                    *)

LEMMA KeptNext ==
  ASSUME Typed, Kept, ~Overlap, [Next]_vars
  PROVE  Kept'
<1>0. ASSUME UNCHANGED <<memory, program, gBreakpoints>> PROVE Kept'
  <2>1. Native' = Native
    BY <1>0 DEF Native
  <2>2. QED
    BY <1>0, <2>1, NothingWritten, KeptFewer
<1>1. CASE UNCHANGED vars
  BY <1>0, <1>1 DEF vars, tables
<1>2. CASE Target \/ SuppressStale \/ DispatchException \/ CallbackReturns \/ SetFails
  BY <1>0, <1>2 DEF Target, Raise, Execute, Derail, OtherStop, SuppressStale, DispatchException,
     CallbackReturns, SetFails, tables
<1>3. CASE DispatchHit
  <2> DEFINE b == Lowest(RecordsAt(trap))
  <2>1. b \in Native /\ Effect({b}, {}) /\ Native' = IF b.once THEN Native \ {b} ELSE Native
    BY <1>3, HitEffect
  <2> HIDE DEF b
  <2>2. Native' \subseteq Native /\ \A c \in Native : c \notin Native' => c \in {b}
    BY <2>1
  <2>3. QED
    BY <2>1, <2>2, KeptFewer
<1>4. CASE CompleteStep
  <2>1. PICK S \in SUBSET gBreakpoints : memory' = AllInstalled(memory, S)
    BY <1>4 DEF CompleteStep
  <2>2. UNCHANGED <<program, gBreakpoints>>
    BY <1>4 DEF CompleteStep
  <2>3. Native' = Native
    BY <2>2 DEF Native
  <2>4. QED
    BY <2>1, <2>2, <2>3, SomeInstalled, KeptFewer
<1>5. ASSUME NEW site \in Sites, SetBPX(site) PROVE Kept'
  BY <1>5, SetBPXSets
<1>6. ASSUME NEW a \in Place, DeleteBPX(a) PROVE Kept'
  <2>1. PICK b \in gBreakpoints : b.kind = "software" /\ Removed(b)
    BY <1>6 DEF DeleteBPX
  <2>2. b \in Native /\ UNCHANGED program
    BY <1>6, <2>1 DEF Native, DeleteBPX
  <2>3. Effect({b}, {}) /\ Native' = Native \ {b}
    BY <2>1, <2>2, RemovedEffect
  <2>4. Native' \subseteq Native /\ \A c \in Native : c \notin Native' => c \in {b}
    BY <2>3
  <2>5. QED
    BY <2>3, <2>4, KeptFewer
<1>7. ASSUME NEW r \in Register, NEW site \in HardSites, SetHardwareBreakPoint(r, site) PROVE Kept'
  <2>1. CASE site.execute
    BY <1>7, <2>1, SetHardwareSets
  <2>2. CASE ~site.execute
    <3>1. /\ r \in Unused /\ gBreakpoints' = gBreakpoints \cup {DataBreakpoint(site.addr)}
          /\ UNCHANGED <<memory, program>>
      BY <1>7, <2>2 DEF SetHardwareBreakPoint
    <3>2. Effect({}, {}) /\ Native' = Native
      BY <3>1, SitesAre, DataAdded
    <3>3. QED
      BY <3>2, KeptFewer
  <2>3. QED
    BY <2>1, <2>2
<1>8. ASSUME NEW r \in Register, DeleteHardwareBreakPoint(r) PROVE Kept'
  <2>1. PICK b \in WithId(gHardwareBreakpointIds[r]) :
          IF b.kind = "data"
          THEN gBreakpoints' = gBreakpoints \ {b} /\ UNCHANGED memory
          ELSE Removed(b)
    BY <1>8 DEF DeleteHardwareBreakPoint
  <2>2. b \in gBreakpoints /\ UNCHANGED program
    BY <1>8 DEF WithId, DeleteHardwareBreakPoint
  <2>3. CASE b.kind = "data"
    <3>1. Effect({}, {}) /\ Native' = Native
      BY <2>1, <2>2, <2>3, DataRemoved
    <3>2. QED
      BY <3>1, KeptFewer
  <2>4. CASE b.kind # "data"
    <3>1. b \in Native
      BY <2>2, <2>4 DEF Native
    <3>2. Effect({b}, {}) /\ Native' = Native \ {b}
      BY <2>1, <2>2, <2>4, <3>1, RemovedEffect
    <3>3. Native' \subseteq Native /\ \A c \in Native : c \notin Native' => c \in {b}
      BY <3>2
    <3>4. QED
      BY <3>2, <3>3, KeptFewer
  <2>5. QED
    BY <2>3, <2>4
<1>9. CASE RemoveAllBreakPoints
  <2>1. Effect(gBreakpoints, {})
    BY <1>9, SomeRestored DEF RemoveAllBreakPoints
  <2>2. Native' \subseteq Native /\ \A c \in Native : c \notin Native' => c \in gBreakpoints
    BY <1>9 DEF RemoveAllBreakPoints, Native
  <2>3. QED
    BY <2>1, <2>2, KeptFewer
<1>10. ASSUME NEW b \in gBreakpoints, RemoveAllBreakPointsFails(b) PROVE Kept'
  <2>1. PICK S \in SUBSET gBreakpoints : memory' = AllRestored(memory, S)
    BY <1>10 DEF RemoveAllBreakPointsFails
  <2>2. UNCHANGED <<program, gBreakpoints>>
    BY <1>10 DEF RemoveAllBreakPointsFails
  <2>3. Native' = Native
    BY <2>2 DEF Native
  <2>4. QED
    BY <2>1, <2>2, <2>3, SomeRestored, KeptFewer
<1>11. ASSUME NEW w \in Writes, MemoryWriteSafe(w.addr, w.value) PROVE Kept'
  <2>1. Native' = Native
    BY <1>11 DEF MemoryWriteSafe, tables, Native
  <2>2. QED
    BY <1>11, <2>1, UserWrites, KeptFewer
<1>12. QED
  BY <1>1, <1>2, <1>3, <1>4, <1>5, <1>6, <1>7, <1>8, <1>9, <1>10, <1>11
     DEF Next, Handlers, User

LEMMA KeptInit ==
  ASSUME Init
  PROVE  Kept
  BY DEF Init, Kept, Native

LEMMA KeptInvariant ==
  ASSUME ~Overlap
  PROVE  Spec => [](Typed /\ Kept)
<1>1. Init => Typed /\ Kept
  BY TypedInit, KeptInit
<1>2. Typed /\ Kept /\ [Next]_vars => Typed' /\ Kept'
  BY TypedNext, KeptNext
<1>3. QED
  BY <1>1, <1>2, PTL DEF Spec

\* Where patches are kept apart and the user writes none of their bytes, memory
\* differs from the program by whole patches of recorded breakpoints only, each
\* record keeps the program's own bytes, and MemoryReadSafe shows them but for
\* execute breakpoints: in any order of calls, hits, rearms and failures.
THEOREM ProgramKeptInvariant ==
  ASSUME ~Overlap
  PROVE  Spec => []ProgramKept
<1>1. ASSUME Typed, Kept PROVE ProgramKept
  <2>0. memory \in [Address -> Value] /\ TypeOK /\ Recorded
    BY <1>1 DEF Typed, TypeOK
  <2>1. \A a \in Address : memory[a] # program[a] => \E b \in Native : a \in Covers(b)
    BY <1>1 DEF Kept
  <2>2. ASSUME NEW b \in Native
        PROVE  /\ memory \in {Installed(memory, b), Restored(memory, b)}
               /\ \A a \in Covers(b) : Restored(memory, b)[a] = program[a]
    <3>1. b \in gBreakpoints /\ Covers(b) \subseteq Address
      BY <1>1, NativeIs
    <3>2. \A a \in Covers(b) : Restored(memory, b)[a] = program[a]
      BY <1>1, <2>0, <3>1, InstalledIs DEF Kept
    <3>3. CASE Armed(b)
      <4>1. \A a \in Address : Installed(memory, b)[a] = memory[a]
        BY <2>0, <3>1, <3>3, InstalledIs DEF Armed
      <4>2. Installed(memory, b) \in [Address -> Value]
        BY <2>0, <3>1, InstalledIs
      <4>3. Installed(memory, b) = memory
        BY <2>0, <4>1, <4>2
      <4>4. QED
        BY <3>2, <4>3
    <3>4. CASE Lifted(b)
      <4>1. \A a \in Address : Restored(memory, b)[a] = memory[a]
        BY <2>0, <3>1, <3>2, <3>4, InstalledIs DEF Lifted
      <4>2. Restored(memory, b) \in [Address -> Value]
        BY <2>0, <3>1, InstalledIs
      <4>3. Restored(memory, b) = memory
        BY <2>0, <4>1, <4>2
      <4>4. QED
        BY <3>2, <4>3
    <3>5. QED
      BY <1>1, <3>3, <3>4 DEF Kept
  <2>3. ASSUME NEW a \in Address, MemoryReadSafe[a] # program[a]
        PROVE  \E b \in Native : b.kind = "execute" /\ b.addr = a
    <3> DEFINE S == {b \in gBreakpoints : b.kind = "software"}
    <3>0. MemoryReadSafe = AllRestored(memory, S)
      BY DEF MemoryReadSafe
    <3>1. \A b \in S : b \in Native /\ a \notin Covers(b)
      <4>1. \A b \in S : b \in Native
        BY DEF Native
      <4>2. \A b \in S : a \in Covers(b) => AllRestored(memory, S)[a] = program[a]
        BY <1>1, <2>0, <4>1, AllAre
      <4>3. QED
        BY <2>3, <3>0, <4>1, <4>2
    <3>2. AllRestored(memory, S)[a] = memory[a]
      BY <1>1, <2>0, <3>1, AllAre
    <3>3. PICK b \in Native : a \in Covers(b)
      BY <2>1, <2>3, <3>0, <3>2
    <3>4. b \in gBreakpoints /\ b.kind # "software" /\ b.kind # "data"
      BY <3>1, <3>3 DEF Native
    <3>5. b.kind = "execute" /\ b.addr \in Int
      BY <2>0, <3>4, RecordIs
    <3>6. b.patch = INT3
      BY <2>0, <3>4, <3>5 DEF Recorded
    <3>7. Len(b.patch) = 1
      BY <3>6 DEF INT3
    <3>8. b.addr = a
      BY <3>3, <3>5, <3>7 DEF Covers, Reach
    <3>9. QED
      BY <3>5, <3>8
  <2>4. QED
    BY <2>1, <2>2, <2>3 DEF ProgramKept
<1>2. QED
  BY <1>1, KeptInvariant, PTL

-----------------------------------------------------------------------------
(* What is watched is in place, lost, or has just been reported.           *)

LEMMA WatchingInit ==
  ASSUME Init
  PROVE  Watching
<1>1. Native = {} /\ program = Image /\ lost = {} /\ pc = "callback"
  BY DEF Init, Native
<1>2. QED
  BY <1>1 DEF Watching

\* A step that leaves records, memory and the hit alone.
LEMMA WatchingSame ==
  ASSUME Typed, Kept, Watching,
         UNCHANGED <<memory, program, gBreakpoints, lost>>,
         pc' # "callback" => hit' = NoId,
         \A b \in Native : (Over(b)' <=> Over(b)) /\ (Over(b) => AtIt(b)'),
         pc' = "queued" => \A b \in RecordsAt(trap)' : b.id \notin lost
  PROVE  Watching'
<1>1. Native' = Native
  BY DEF Native
<1>2. \A b \in Native : /\ (Armed(b)' <=> Armed(b)) /\ (Lifted(b)' <=> Lifted(b))
                        /\ \A a \in Covers(b) : program'[a] = program[a]
  BY SameBytes
<1>3. \A b \in Native' : Over(b)' => Lifted(b)' /\ AtIt(b)'
  BY <1>1, <1>2 DEF Watching
<1>4. \A b \in Native' : b.id \notin lost' /\ ~Over(b)' => Armed(b)'
  BY <1>1, <1>2 DEF Watching
<1>5. \A b \in Native' : b.id \in lost' => Lifted(b)'
  BY <1>1, <1>2 DEF Watching
<1>6. /\ \A a \in Address : Image[a] \in Byte => program'[a] \in Byte
      /\ OffOwnTraps => \A b \in Native' : \A a \in Covers(b) : Image[a] \in Byte
  BY <1>1 DEF Watching
<1>7. QED
  BY <1>3, <1>4, <1>5, <1>6 DEF Watching

LEMMA RecordCovers ==
  ASSUME Typed, NEW a \in Int, NEW b \in RecordsAt(a)
  PROVE  b \in Native /\ a \in Covers(b)
<1>1. b \in Native /\ (b.addr = a \/ (b.patch = LONG_INT3 /\ b.addr + 1 = a))
  BY DEF RecordsAt
<1>2. b.addr \in Covers(b) /\ b \in gBreakpoints
  BY <1>1, NativeIs
<1>3. CASE b.patch = LONG_INT3 /\ b.addr + 1 = a
  <2>1. Len(b.patch) = 2 /\ b.addr \in Int
    BY <1>2, <1>3, RecordIs DEF LONG_INT3, Typed
  <2>2. QED
    BY <1>1, <1>3, <2>1 DEF Covers, Reach
<1>4. QED
  BY <1>1, <1>2, <1>3

\* An exception of the target comes from a breakpoint that is not lost, and from
\* the one that is being stepped over only if the program's int3 is under it.
LEMMA RaiseWatching ==
  ASSUME Typed, Kept, Watching, Faulty => OffOwnTraps, Raise
  PROVE  Watching'
<1>0. /\ TypeOK /\ ip \in Address /\ ip \in Int /\ memory[ip] \in PatchByte
      /\ memory[ip] = "CD" => ip + 1 \in Address /\ memory[ip + 1] = "03"
  BY TrapIs DEF Raise, Typed, Address
<1>1. /\ pc \in {"run", "step"} /\ pc' = "queued" /\ TrapAt(ip)
      /\ trap' = IF memory[ip] = "CD" THEN ip + 1 ELSE ip
      /\ UNCHANGED <<memory, program, hit, reported, rearm, gBreakpoints, lost>>
  BY DEF Raise, Running, tables
<1>2. hit' = NoId
  BY <1>1 DEF Watching
<1>3. \A a \in Address : program[a] \in Byte \/ program[a] = "CC"
  BY <1>0 DEF TypeOK
<1>4. ASSUME NEW b \in Native PROVE (Over(b)' <=> Over(b)) /\ (Over(b) => AtIt(b)')
  <2>1. Over(b)' <=> Over(b)
    BY <1>1 DEF Over
  <2>2. ASSUME Over(b) PROVE AtIt(b)'
    <3>1. Lifted(b) /\ reported = b.addr /\ pc # "run" /\ (pc = "step" => ip = b.addr)
      BY <2>2 DEF Watching, AtIt
    <3>2. ip = b.addr
      BY <1>1, <3>1
    <3>3. memory[ip] = program[ip]
      BY <3>1, <3>2, NativeIs DEF Lifted
    <3>4. "CD" \notin Byte
      BY ProgramAssumption DEF PatchByte
    <3>5. memory[ip] # "CD"
      BY <1>0, <1>3, <3>3, <3>4
    <3>6. trap' = b.addr
      BY <1>1, <3>2, <3>5
    <3>7. QED
      BY <1>1, <3>1, <3>6 DEF AtIt
  <2>3. QED
    BY <2>1, <2>2
<1>5. ASSUME NEW b \in RecordsAt(trap)' PROVE b.id \notin lost
  <2>1. trap' \in Address /\ trap' \in Int /\ memory[trap'] \in PatchByte
    BY <1>0, <1>1 DEF PatchByte
  <2>2. Native' = Native
    BY <1>1 DEF Native
  <2>3. b \in RecordsAt(trap')
    BY <2>2 DEF RecordsAt
  <2>4. b \in Native /\ trap' \in Covers(b)
    BY <2>1, <2>3, RecordCovers
  <2>5. SUFFICES ASSUME b.id \in lost PROVE FALSE
    OBVIOUS
  <2>6. Lifted(b) /\ OffOwnTraps
    BY <2>4, <2>5 DEF Watching
  <2>7. memory[trap'] = program[trap'] /\ program[trap'] \in Byte
    BY <2>1, <2>4, <2>6 DEF Lifted, Watching
  <2>8. QED
    BY <2>1, <2>7, ProgramAssumption
<1>6. QED
  BY <1>1, <1>2, <1>4, <1>5, WatchingSame

\* While the program runs free nothing is being stepped over.
LEMMA NoneOver ==
  ASSUME Typed, Watching, NEW b \in Native
  PROVE  /\ pc = "run" => ~Over(b)
         /\ pc = "queued" /\ RecordsAt(trap) = {} => ~Over(b)
         /\ pc = "step" /\ ip \notin Place => ~Over(b)
<1>1. Over(b) => AtIt(b)
  BY DEF Watching
<1>2. pc = "run" => ~Over(b)
  BY <1>1 DEF AtIt
<1>3. pc = "queued" /\ RecordsAt(trap) = {} => ~Over(b)
  BY <1>1 DEF AtIt, RecordsAt
<1>4. pc = "step" /\ ip \notin Place => ~Over(b)
  <2>1. b.addr \in Place
    BY NativeIs, RecordIs DEF Typed
  <2>2. QED
    BY <1>1, <2>1 DEF AtIt
<1>5. QED
  BY <1>2, <1>3, <1>4

LEMMA NativeIdsApart ==
  ASSUME Typed, NEW b \in Native
  PROVE  b.id # NoId /\ \A c \in gBreakpoints : c.kind = "data" => c.id # b.id
<1>1. FirstNativeId <= b.id /\ b \in gBreakpoints
  BY NativeIs
<1>2. b.id \in Nat /\ FirstNativeId \in Nat
  BY <1>1, RecordIs, NativeIdsIs DEF Typed
<1>3. \A c \in gBreakpoints : c.kind = "data" => c.id \in Nat /\ c.id < FirstNativeId
  BY RecordIs DEF Typed, Recorded
<1>4. QED
  BY <1>1, <1>2, <1>3 DEF NoId

LEMMA TargetWatching ==
  ASSUME Typed, Kept, Watching, Faulty => OffOwnTraps, Target
  PROVE  Watching'
<1>1. CASE Raise
  BY <1>1, RaiseWatching
<1>2. CASE Execute
  <2>1. /\ pc = "run" /\ UNCHANGED <<memory, program, pc, trap, hit, rearm, gBreakpoints, lost>>
    BY <1>2 DEF Execute, tables
  <2>2. \A b \in Native : (Over(b)' <=> Over(b)) /\ ~Over(b)
    BY <2>1, NoneOver DEF Over
  <2>3. pc' # "callback" => hit' = NoId
    BY <2>1 DEF Watching
  <2>4. QED
    BY <2>1, <2>2, <2>3, WatchingSame
<1>3. CASE Derail
  <2>1. /\ pc \in {"run", "step"} /\ ip \notin Place
        /\ UNCHANGED <<memory, program, pc, trap, hit, rearm, gBreakpoints, lost>>
    BY <1>3 DEF Derail, Running, tables
  <2>2. \A b \in Native : (Over(b)' <=> Over(b)) /\ ~Over(b)
    BY <2>1, NoneOver DEF Over
  <2>3. pc' # "callback" => hit' = NoId
    BY <2>1 DEF Watching
  <2>4. QED
    BY <2>1, <2>2, <2>3, WatchingSame
<1>4. CASE OtherStop
  <2>1. /\ pc = "run" /\ pc' = "callback"
        /\ hit' = NoId \/ \E c \in gBreakpoints : c.kind = "data" /\ hit' = c.id
        /\ UNCHANGED <<memory, program, trap, rearm, gBreakpoints, lost>>
    BY <1>4 DEF OtherStop, tables
  <2>2. ASSUME NEW b \in Native PROVE (Over(b)' <=> Over(b)) /\ ~Over(b)
    <3>1. ~Over(b)
      BY <2>1, NoneOver
    <3>2. b.id # hit'
      BY <2>1, NativeIdsApart
    <3>3. QED
      BY <2>1, <3>1, <3>2 DEF Over
  <2>3. QED
    BY <2>1, <2>2, WatchingSame
<1>5. QED
  BY <1>1, <1>2, <1>3, <1>4 DEF Target

\* The breakpoint that is reported is the one that is stepped over next.
LEMMA HitWatching ==
  ASSUME Typed, Kept, Watching, DispatchHit
  PROVE  Watching'
<1>0. PICK b : b = Lowest(RecordsAt(trap))
  OBVIOUS
<1>1. /\ b \in Native /\ b \in RecordsAt(trap) /\ Effect({b}, {})
      /\ Native' = IF b.once THEN Native \ {b} ELSE Native
  BY <1>0, HitEffect
<1>2. /\ pc = "queued" /\ pc' = "callback" /\ hit' = b.id /\ ip' = b.addr /\ reported' = b.addr
      /\ UNCHANGED <<program, rearm>>
      /\ lost' = IF b.once THEN lost \ {b.id} ELSE lost
  BY <1>0 DEF DispatchHit
<1>3. trap \in Int
  BY DEF Typed, TypeOK, Address, Nowhere
<1>4. \A c, d \in Native : c.id = d.id => c = d
  BY DEF Typed, Slots, Native
<1>5. ASSUME NEW c \in Native, Over(c)' PROVE c = b
  <2>1. CASE c.id = b.id
    BY <1>1, <1>4, <2>1
  <2>2. CASE c.id # b.id
    <3>1. Over(c)
      BY <1>2, <1>5, <2>2 DEF Over
    <3>2. trap = c.addr
      BY <1>2, <3>1 DEF Watching, AtIt
    <3>3. c \in RecordsAt(trap)
      BY <3>2 DEF RecordsAt
    <3>4. trap \in Covers(c) /\ trap \in Covers(b)
      BY <1>1, <1>3, <3>3, RecordCovers
    <3>5. QED
      BY <1>1, <3>4 DEF Kept
  <2>3. QED
    BY <2>1, <2>2
<1>6. Over(b)' /\ AtIt(b)' /\ Lifted(b)'
  BY <1>1, <1>2 DEF Over, AtIt, Effect
<1>7. Native' \subseteq Native
  BY <1>1
<1>8. ASSUME NEW c \in Native, c.id \notin lost', ~Over(c)' PROVE Armed(c)'
  <2>1. c # b /\ c.id # b.id
    BY <1>1, <1>4, <1>6, <1>8
  <2>2. c.id \notin lost /\ c.id \notin rearm
    BY <1>2, <1>8, <2>1 DEF Over
  <2>3. ~Over(c)
    BY <1>2, <2>2, NativeIdsApart DEF Over, Watching
  <2>4. QED
    BY <1>1, <2>1, <2>2, <2>3 DEF Watching, Effect
<1>9. ASSUME NEW c \in Native, c.id \in lost' PROVE Lifted(c)'
  BY <1>1, <1>2, <1>6, <1>9 DEF Watching, Effect
<1>10. ~Faulty => lost' = {}
  BY <1>2 DEF Watching
<1>11. QED
  BY <1>2, <1>5, <1>6, <1>7, <1>8, <1>9, <1>10 DEF Watching

LEMMA StepWatching ==
  ASSUME Typed, Kept, Watching, CompleteStep
  PROVE  Watching'
<1> DEFINE again == {b \in gBreakpoints : b.id \in rearm}
<1>1. PICK failed \in SUBSET again :
        /\ memory' = AllInstalled(memory, again \ failed)
        /\ lost' = (lost \ {b.id : b \in again}) \cup {b.id : b \in failed}
        /\ ~Faulty => failed = {}
  BY DEF CompleteStep
<1>2. /\ pc = "step" /\ pc' = "run" /\ rearm' = {}
      /\ UNCHANGED <<program, hit, gBreakpoints>>
  BY DEF CompleteStep
<1>3. Native' = Native /\ hit = NoId /\ Effect({}, again \ failed)
  BY <1>1, <1>2, SomeInstalled DEF Native, Watching
<1>4. \A c, d \in gBreakpoints : c.id = d.id => c = d
  BY DEF Typed, Slots
<1>5. \A b \in Native : b \in gBreakpoints /\ ~Over(b)'
  BY <1>2, <1>3, NativeIdsApart, NativeIs DEF Over
<1>6. \A b \in gBreakpoints : /\ b \in again <=> b.id \in {c.id : c \in again}
                              /\ b \in failed <=> b.id \in {c.id : c \in failed}
  BY <1>4
<1>7. ASSUME NEW b \in Native, b.id \notin lost' PROVE Armed(b)'
  <2>1. CASE b \in again
    <3>1. b \notin failed
      BY <1>1, <1>5, <1>6, <1>7
    <3>2. QED
      BY <1>3, <2>1, <3>1 DEF Effect
  <2>2. CASE b \notin again
    <3>1. b.id \notin lost /\ b.id \notin rearm
      BY <1>1, <1>5, <1>6, <1>7, <2>2
    <3>2. Armed(b)
      BY <1>3, <3>1, NativeIdsApart DEF Over, Watching
    <3> HIDE DEF again
    <3>3. QED
      BY <1>3, <2>2, <3>2 DEF Effect
  <2>3. QED
    BY <2>1, <2>2
<1>8. ASSUME NEW b \in Native, b.id \in lost' PROVE Lifted(b)'
  <2>1. b \notin again \ failed
    BY <1>1, <1>5, <1>6, <1>8
  <2>2. Lifted(b)
    <3>1. CASE b \in failed
      <4>1. Over(b)
        BY <3>1 DEF Over
      <4>2. QED
        BY <4>1 DEF Watching
    <3>2. CASE b \notin failed
      <4>1. b.id \in lost
        BY <1>1, <1>5, <1>6, <1>8, <3>2
      <4>2. QED
        BY <4>1 DEF Watching
    <3>3. QED
      BY <3>1, <3>2
  <2> HIDE DEF again
  <2>3. QED
    BY <1>3, <2>1, <2>2 DEF Effect
<1>9. ~Faulty => lost' = {}
  <2> HIDE DEF again
  <2>1. QED
    BY <1>1 DEF Watching
<1>10. QED
  BY <1>2, <1>3, <1>5, <1>7, <1>8, <1>9 DEF Watching

LEMMA HandlersWatching ==
  ASSUME Typed, Kept, Watching, Handlers
  PROVE  Watching'
<1>1. CASE SuppressStale
  <2>1. /\ pc = "queued" /\ RecordsAt(trap) = {} /\ pc' \in {"run", "step"}
        /\ UNCHANGED <<memory, program, hit, rearm, gBreakpoints, lost>>
    BY <1>1 DEF SuppressStale, Resumed, tables
  <2>2. \A b \in Native : (Over(b)' <=> Over(b)) /\ ~Over(b)
    BY <2>1, NoneOver DEF Over
  <2>3. hit' = NoId
    BY <2>1 DEF Watching
  <2>4. QED
    BY <2>1, <2>2, <2>3, WatchingSame
<1>2. CASE DispatchException
  <2>1. /\ pc = "queued" /\ RecordsAt(trap) = {} /\ pc' = "callback" /\ hit' = NoId
        /\ UNCHANGED <<memory, program, rearm, gBreakpoints, lost>>
    BY <1>2 DEF DispatchException, tables
  <2>2. hit = NoId
    BY <2>1 DEF Watching
  <2>3. \A b \in Native : (Over(b)' <=> Over(b)) /\ ~Over(b)
    BY <2>1, <2>2, NoneOver DEF Over
  <2>4. QED
    BY <2>1, <2>3, WatchingSame
<1>3. CASE CallbackReturns
  <2>1. /\ pc = "callback" /\ pc' = (IF Rearms = {} THEN "run" ELSE "step")
        /\ rearm' = Rearms /\ hit' = NoId
        /\ UNCHANGED <<memory, program, ip, trap, reported, gBreakpoints, lost>>
    BY <1>3 DEF CallbackReturns, tables
  <2>2. Rearms = rearm \cup {b.id : b \in {b \in Native : b.id = hit}}
    BY DEF Rearms
  <2>3. ASSUME NEW b \in Native PROVE Over(b)' <=> Over(b)
    <3>1. b.id # hit'
      BY <2>1, NativeIdsApart
    <3>2. b.id \in rearm' <=> b.id = hit \/ b.id \in rearm
      BY <2>1, <2>2
    <3>3. QED
      BY <3>1, <3>2 DEF Over
  <2>4. ASSUME NEW b \in Native, Over(b) PROVE AtIt(b)'
    <3>1. ip = b.addr /\ reported = b.addr
      BY <2>1, <2>4 DEF Watching, AtIt
    <3>2. Rearms # {}
      BY <2>2, <2>4 DEF Over
    <3>3. QED
      BY <2>1, <3>1, <3>2 DEF AtIt
  <2>5. QED
    BY <2>1, <2>3, <2>4, WatchingSame
<1>4. QED
  BY <1>1, <1>2, <1>3, HitWatching, StepWatching DEF Handlers

\* A call that adds no patch, and counts the ones it lifts and keeps as lost.
LEMMA WatchingFewer ==
  ASSUME Typed, Kept, Watching, UNCHANGED target, NEW L, Effect(L, {}), Native' \subseteq Native,
         \A a \in Address : Image[a] \in Byte => program'[a] \in Byte,
         \A b \in Native' : b.id \in lost' <=> (b.id \in lost \/ b \in L),
         ~Faulty => lost' = {}, pc = "queued" => lost' \subseteq lost
  PROVE  Watching'
<1>1. UNCHANGED <<ip, pc, trap, hit, reported, rearm>>
  BY DEF target
<1>2. \A b \in Native : (Over(b)' <=> Over(b)) /\ (AtIt(b)' <=> AtIt(b))
  BY <1>1 DEF Over, AtIt
<1>3. \A b \in Native' : Over(b)' => Lifted(b)' /\ AtIt(b)'
  BY <1>2 DEF Watching, Effect
<1>4. \A b \in Native' : b.id \notin lost' /\ ~Over(b)' => Armed(b)'
  BY <1>2 DEF Watching, Effect
<1>5. \A b \in Native' : b.id \in lost' => Lifted(b)'
  BY DEF Watching, Effect
<1>6. pc' = "queued" => \A b \in RecordsAt(trap)' : b.id \notin lost'
  <2>1. \A b \in RecordsAt(trap)' : b \in RecordsAt(trap)
    BY <1>1 DEF RecordsAt
  <2>2. QED
    BY <1>1, <2>1 DEF Watching
<1>7. OffOwnTraps => \A b \in Native' : \A a \in Covers(b) : Image[a] \in Byte
  BY DEF Watching
<1>8. QED
  BY <1>1, <1>3, <1>4, <1>5, <1>6, <1>7 DEF Watching

\* A new patch is in place, and its id is not among those of a hit or a rearm.
LEMMA WatchingMore ==
  ASSUME Typed, Kept, Watching, UNCHANGED <<program, target, lost>>,
         NEW b, Native' = Native \cup {b}, Armed(b)', b.id = gNextNativeBreakpointId,
         \A c \in Native : /\ (Armed(c)' <=> Armed(c)) /\ (Lifted(c)' <=> Lifted(c))
                           /\ \A a \in Covers(c) : program'[a] = program[a],
         OffOwnTraps => \A a \in Covers(b) : Image[a] \in Byte
  PROVE  Watching'
<1>1. UNCHANGED <<ip, pc, trap, hit, reported, rearm>>
  BY DEF target
<1>2. \A c : (Over(c)' <=> Over(c)) /\ (AtIt(c)' <=> AtIt(c))
  BY <1>1 DEF Over, AtIt
<1>3. ~Over(b) /\ b.id \notin lost
  <2>1. gNextNativeBreakpointId \in Int
    BY NativeIdsIs, ProgramAssumption DEF Typed, TypeOK
  <2>2. \A id \in {hit} \cup rearm \cup lost : id < gNextNativeBreakpointId
    BY DEF Typed, Recorded
  <2>3. QED
    BY <2>1, <2>2 DEF Over
<1>4. \A c \in Native' : Over(c)' => Lifted(c)' /\ AtIt(c)'
  BY <1>2, <1>3 DEF Watching
<1>5. \A c \in Native' : c.id \notin lost' /\ ~Over(c)' => Armed(c)'
  BY <1>2 DEF Watching
<1>6. \A c \in Native' : c.id \in lost' => Lifted(c)'
  BY <1>3 DEF Watching
<1>7. OffOwnTraps => \A c \in Native' : \A a \in Covers(c) : Image[a] \in Byte
  BY DEF Watching
<1>9. pc' = "queued" => \A c \in RecordsAt(trap)' : c.id \notin lost'
  <2>1. \A c \in RecordsAt(trap)' : c = b \/ c \in RecordsAt(trap)
    BY <1>1 DEF RecordsAt
  <2>2. QED
    BY <1>1, <1>3, <2>1 DEF Watching
<1>10. (pc' # "callback" => hit' = NoId) /\ (~Faulty => lost' = {})
       /\ \A a \in Address : Image[a] \in Byte => program'[a] \in Byte
  BY <1>1 DEF Watching
<1>8. QED
  BY <1>4, <1>5, <1>6, <1>7, <1>9, <1>10 DEF Watching

LEMMA UserWatching ==
  ASSUME Typed, Kept, Watching, ~Overlap, User
  PROVE  Watching'
<1>0. /\ \A c, d \in gBreakpoints : c.id = d.id => c = d
      /\ \A c \in Native : c \in gBreakpoints
      /\ \A a \in Address : Image[a] \in Byte => program[a] \in Byte
  BY DEF Typed, Slots, Native, Watching
<1>1. ASSUME NEW site \in Sites, SetBPX(site) PROVE Watching'
  <2>1. PICK b : b = NativeBreakpoint("software", site.addr, site.patch, site.once)
    OBVIOUS
  <2>2. /\ Native' = Native \cup {b} /\ Armed(b)' /\ b.id = gNextNativeBreakpointId
        /\ Covers(b) = Reach(site.addr, site.patch)
        /\ \A c \in Native : /\ (Armed(c)' <=> Armed(c)) /\ (Lifted(c)' <=> Lifted(c))
                             /\ \A a \in Covers(c) : program'[a] = program[a]
    BY <1>1, <2>1, SetBPXSets
  <2>3. UNCHANGED <<program, target, lost>>
    BY <1>1 DEF SetBPX
  <2>4. OffOwnTraps => \A a \in Covers(b) : Image[a] \in Byte
    BY <2>2 DEF OffOwnTraps
  <2>5. QED
    BY <2>2, <2>3, <2>4, WatchingMore
<1>2. CASE SetFails
  <2>1. UNCHANGED <<memory, program, target, gBreakpoints, lost>>
    BY <1>2 DEF SetFails
  <2>2. Native' = Native /\ Effect({}, {})
    BY <2>1, NothingWritten DEF Native
  <2>3. ~Faulty => lost' = {}
    BY <2>1 DEF Watching
  <2>4. QED
    BY <1>0, <2>1, <2>2, <2>3, WatchingFewer
<1>3. ASSUME NEW b \in Native, Removed(b), UNCHANGED <<program, target>> PROVE Watching'
  <2>1. Effect({b}, {}) /\ Native' = Native \ {b} /\ lost' = lost \ {b.id}
    BY <1>3, RemovedEffect DEF Removed
  <2>2. \A c \in Native' : c.id # b.id /\ c \notin {b}
    BY <1>0, <2>1
  <2>3. \A c \in Native' : c.id \in lost' <=> (c.id \in lost \/ c \in {b})
    BY <2>1, <2>2
  <2>4. Native' \subseteq Native /\ lost' \subseteq lost /\ (~Faulty => lost' = {})
    BY <2>1 DEF Watching
  <2>5. \A a \in Address : Image[a] \in Byte => program'[a] \in Byte
    BY <1>0, <1>3
  <2>6. QED
    BY <1>3, <2>1, <2>3, <2>4, <2>5, WatchingFewer
<1>4. ASSUME NEW a \in Place, DeleteBPX(a) PROVE Watching'
  <2>1. PICK b \in gBreakpoints : b.kind = "software" /\ Removed(b)
    BY <1>4 DEF DeleteBPX
  <2>2. b \in Native
    BY <2>1 DEF Native
  <2>3. QED
    BY <1>3, <1>4, <2>1, <2>2 DEF DeleteBPX
<1>5. ASSUME NEW r \in Register, NEW site \in HardSites, SetHardwareBreakPoint(r, site)
      PROVE  Watching'
  <2>0. UNCHANGED <<program, target, lost>> /\ pc = "callback"
    BY <1>5 DEF SetHardwareBreakPoint, Called
  <2>1. CASE site.execute
    <3>1. PICK b : b = NativeBreakpoint("execute", site.addr, INT3, FALSE)
      OBVIOUS
    <3>2. /\ Native' = Native \cup {b} /\ Armed(b)' /\ b.id = gNextNativeBreakpointId
          /\ Covers(b) = Reach(site.addr, INT3)
          /\ \A c \in Native : /\ (Armed(c)' <=> Armed(c)) /\ (Lifted(c)' <=> Lifted(c))
                               /\ \A a \in Covers(c) : program'[a] = program[a]
      BY <1>5, <2>1, <3>1, SetHardwareSets
    <3>3. Covers(b) = {site.addr}
      <4>1. site.addr \in Int /\ Len(INT3) = 1
        BY SitesAre, PlacesAre DEF INT3
      <4>2. QED
        BY <3>2, <4>1 DEF Reach
    <3>4. OffOwnTraps => \A a \in Covers(b) : Image[a] \in Byte
      BY <2>1, <3>3 DEF OffOwnTraps
    <3>5. QED
      BY <2>0, <3>2, <3>4, WatchingMore
  <2>2. CASE ~site.execute
    <3>1. /\ r \in Unused /\ gBreakpoints' = gBreakpoints \cup {DataBreakpoint(site.addr)}
          /\ UNCHANGED <<memory, program>>
      BY <1>5, <2>2 DEF SetHardwareBreakPoint
    <3>2. Effect({}, {}) /\ Native' = Native
      BY <3>1, SitesAre, DataAdded
    <3>3. ~Faulty => lost' = {}
      BY <2>0 DEF Watching
    <3>4. QED
      BY <1>0, <2>0, <3>1, <3>2, <3>3, WatchingFewer
  <2>3. QED
    BY <2>1, <2>2
<1>6. ASSUME NEW r \in Register, DeleteHardwareBreakPoint(r) PROVE Watching'
  <2>1. PICK b \in WithId(gHardwareBreakpointIds[r]) :
          IF b.kind = "data"
          THEN /\ gBreakpoints' = gBreakpoints \ {b} /\ lost' = lost \ {b.id}
               /\ UNCHANGED <<memory, gRetiredBreakpointAddresses>>
          ELSE Removed(b)
    BY <1>6 DEF DeleteHardwareBreakPoint
  <2>2. b \in gBreakpoints /\ UNCHANGED <<program, target>>
    BY <1>6 DEF WithId, DeleteHardwareBreakPoint
  <2>3. CASE b.kind = "data"
    <3>1. Effect({}, {}) /\ Native' = Native /\ lost' = lost \ {b.id}
      BY <2>1, <2>2, <2>3, DataRemoved
    <3>2. \A c \in Native : c.id # b.id
      BY <2>2, <2>3, NativeIdsApart
    <3>3. \A c \in Native' : c.id \in lost' <=> (c.id \in lost \/ c \in {})
      BY <3>1, <3>2
    <3>4. (~Faulty => lost' = {}) /\ lost' \subseteq lost
      BY <3>1 DEF Watching
    <3>5. QED
      BY <1>0, <2>2, <3>1, <3>3, <3>4, WatchingFewer
  <2>4. CASE b.kind # "data"
    <3>1. b \in Native
      BY <2>2, <2>4 DEF Native
    <3>2. QED
      BY <1>3, <2>1, <2>2, <2>4, <3>1
  <2>5. QED
    BY <2>3, <2>4
<1>7. CASE RemoveAllBreakPoints
  <2>1. /\ Effect(gBreakpoints, {}) /\ lost' = {} /\ UNCHANGED <<program, target>>
        /\ gBreakpoints' = {}
    BY <1>7, SomeRestored DEF RemoveAllBreakPoints
  <2>2. Native' = {}
    BY <2>1 DEF Native
  <2>3. QED
    BY <1>0, <2>1, <2>2, WatchingFewer
<1>8. ASSUME NEW b \in gBreakpoints, RemoveAllBreakPointsFails(b) PROVE Watching'
  <2>1. PICK S \in SUBSET gBreakpoints :
          memory' = AllRestored(memory, S) /\ lost' = lost \cup {c.id : c \in S}
    BY <1>8 DEF RemoveAllBreakPointsFails
  <2>2. /\ Faulty /\ pc = "callback" /\ UNCHANGED <<program, target, gBreakpoints>>
    BY <1>8 DEF RemoveAllBreakPointsFails, Called
  <2>3. Native' = Native /\ Effect(S, {})
    BY <2>1, <2>2, SomeRestored DEF Native
  <2>4. \A c \in Native' : c.id \in lost' <=> (c.id \in lost \/ c \in S)
    BY <1>0, <2>1, <2>3
  <2>5. QED
    BY <1>0, <2>2, <2>3, <2>4, WatchingFewer
<1>9. ASSUME NEW w \in Writes, MemoryWriteSafe(w.addr, w.value) PROVE Watching'
  <2>1. UNCHANGED <<target, gBreakpoints, lost>> /\ pc = "callback"
    BY <1>9 DEF MemoryWriteSafe, tables, Called
  <2>2. Native' = Native /\ Effect({}, {})
    BY <1>9, <2>1, UserWrites DEF Native
  <2>3. \A a \in Address : Image[a] \in Byte => program'[a] \in Byte
    BY <1>0, <1>9, SitesAre DEF MemoryWriteSafe, Typed, TypeOK
  <2>4. ~Faulty => lost' = {}
    BY <2>1 DEF Watching
  <2>5. QED
    BY <2>1, <2>2, <2>3, <2>4, WatchingFewer
<1>10. QED
  BY <1>1, <1>2, <1>4, <1>5, <1>6, <1>7, <1>8, <1>9 DEF User

LEMMA WatchingNext ==
  ASSUME Typed, Kept, Watching, ~Overlap, Faulty => OffOwnTraps, [Next]_vars
  PROVE  Watching'
<1>1. CASE UNCHANGED vars
  <2>1. UNCHANGED <<memory, program, gBreakpoints, lost, hit, rearm, pc, ip, trap, reported>>
    BY <1>1 DEF vars, target, tables
  <2>2. \A b \in Native : (Over(b)' <=> Over(b)) /\ (AtIt(b)' <=> AtIt(b))
    BY <2>1 DEF Over, AtIt
  <2>3. RecordsAt(trap)' = RecordsAt(trap)
    BY <2>1 DEF RecordsAt, Native
  <2>4. QED
    BY <2>1, <2>2, <2>3, WatchingSame DEF Watching
<1>2. QED
  BY <1>1, TargetWatching, HandlersWatching, UserWatching DEF Next

LEMMA WatchingInvariant ==
  ASSUME ~Overlap, Faulty => OffOwnTraps
  PROVE  Spec => [](Typed /\ Kept /\ Watching)
<1>1. Init => Typed /\ Kept /\ Watching
  BY TypedInit, KeptInit, WatchingInit
<1>2. Typed /\ Kept /\ Watching /\ [Next]_vars => Typed' /\ Kept' /\ Watching'
  BY TypedNext, KeptNext, WatchingNext
<1>3. QED
  BY <1>1, <1>2, PTL DEF Spec

-----------------------------------------------------------------------------
(* Refinement of CodeWatch.                                                *)

WatchedPlaces == {b.addr : b \in {b \in Native : b.id \notin lost}}

LEMMA ArmedTraps ==
  ASSUME Typed, NEW b \in Native, Armed(b)
  PROVE  TrapAt(b.addr)
<1> DEFINE n == Len(b.patch)
           bytes == ReadProcessMemory(b.addr, n)
<1>1. b \in gBreakpoints /\ b.patch \in Patches /\ Covers(b) \subseteq Address
  BY NativeIs
<1>2. b.addr \in Int /\ n \in 1..2 /\ b.patch \in Seq(Value)
  BY <1>1, RecordIs, PatchIs DEF Typed
<1>3. Covers(b) = b.addr..(b.addr + n - 1)
  BY DEF Covers, Reach
<1>4. ASSUME NEW i \in 1..n PROVE memory[b.addr + i - 1] = b.patch[i]
  <2>1. b.addr + i - 1 \in Covers(b) /\ (b.addr + i - 1) - b.addr + 1 = i
    <3>1. \A x \in Int, m \in 1..2 : \A j \in 1..m :
            x + j - 1 \in x..(x + m - 1) /\ (x + j - 1) - x + 1 = j
      OBVIOUS
    <3> HIDE DEF n
    <3>2. QED
      BY <1>2, <1>3, <3>1
  <2>2. QED
    BY <2>1 DEF Armed
<1>5. bytes = [i \in 1..n |-> memory[b.addr + i - 1]]
  BY DEF ReadProcessMemory
<1>6. bytes = b.patch
  <2>1. b.patch = [i \in 1..n |-> b.patch[i]]
    BY <1>2
  <2>2. QED
    BY <1>4, <1>5, <2>1
<1>7. b.addr + n - 1 \in Address
  <2>1. \A x \in Int, m \in 1..2 : x + m - 1 \in x..(x + m - 1)
    OBVIOUS
  <2> HIDE DEF n
  <2>2. QED
    BY <1>1, <1>2, <1>3, <2>1
<1>8. QED
  BY <1>1, <1>6, <1>7 DEF TrapAt

\* What executes without a trap is not watched, unless it is being stepped over.
LEMMA ExecutedIs ==
  ASSUME Typed, Watching, ip \in Place, ~TrapAt(ip), pc \in {"run", "step"}
  PROVE  ip \notin WatchedPlaces \/ (ip = reported /\ pc = "step")
<1>1. SUFFICES ASSUME NEW b \in Native, b.id \notin lost, b.addr = ip
               PROVE  ip = reported /\ pc = "step"
  BY DEF WatchedPlaces
<1>2. ~Armed(b)
  BY <1>1, ArmedTraps
<1>3. Over(b)
  BY <1>1, <1>2 DEF Watching
<1>4. QED
  BY <1>1, <1>3 DEF Watching, AtIt

LEMMA AddressesApart ==
  ASSUME Typed, Kept, NEW b \in Native, NEW c \in Native, b.addr = c.addr
  PROVE  b = c
  BY NativeIs DEF Kept

LEMMA WatchedSame ==
  ASSUME UNCHANGED <<gBreakpoints, lost>>
  PROVE  WatchedPlaces' = WatchedPlaces
  BY DEF WatchedPlaces, Native

LEMMA WatchedTyped ==
  ASSUME Typed
  PROVE  WatchedPlaces \subseteq Place
<1>1. \A b \in Native : b.addr \in Place
  BY NativeIs, RecordIs DEF Typed
<1>2. QED
  BY <1>1 DEF WatchedPlaces

LEMMA WatchStep ==
  ASSUME Typed, Kept, Watching, Typed', [Next]_vars
  PROVE  [Watch!Next]_(Watch!watch)
<1> DEFINE W == WatchedPlaces
<1>0. W \subseteq Place /\ W' \subseteq Place
  <2>1. WatchedPlaces' \subseteq Place
    BY DEF Typed, TypeOK, Breakpoint, WatchedPlaces, Native
  <2>2. QED
    BY <2>1, WatchedTyped
<1>1. CASE UNCHANGED vars
  <2>1. UNCHANGED <<gBreakpoints, lost, pc, reported, done>>
    BY <1>1 DEF vars, target, tables
  <2>2. QED
    BY <2>1, WatchedSame DEF Watch!watch, WatchedPlaces
<1>2. CASE Raise \/ Derail \/ SuppressStale
  <2>1. /\ pc # "callback" /\ pc' # "callback" /\ UNCHANGED <<gBreakpoints, lost, reported, done>>
    BY <1>2 DEF Raise, Derail, SuppressStale, Running, Resumed, tables
  <2>2. QED
    BY <2>1, WatchedSame DEF Watch!watch, WatchedPlaces
<1>3. CASE Execute
  <2>1. /\ pc = "run" /\ pc' = "run" /\ ip \in Place /\ ~TrapAt(ip) /\ done' = ip
        /\ reported' = Nowhere /\ UNCHANGED <<gBreakpoints, lost>>
    BY <1>3 DEF Execute, tables
  <2>2. ip \notin W /\ W' = W
    BY <2>1, ExecutedIs, WatchedSame
  <2>3. PICK a \in Place : a = ip
    BY <2>1
  <2>4. Watch!Execute(a)
    BY <2>1, <2>2, <2>3 DEF Watch!Execute, WatchedPlaces
  <2>5. QED
    BY <2>4 DEF Watch!Next
<1>4. CASE OtherStop \/ DispatchException
  <2>1. /\ pc # "callback" /\ pc' = "callback" /\ UNCHANGED <<gBreakpoints, lost, reported, done>>
    BY <1>4 DEF OtherStop, DispatchException, tables
  <2>2. Watch!Stop
    BY <2>1, WatchedSame DEF Watch!Stop, WatchedPlaces
  <2>3. QED
    BY <2>2 DEF Watch!Next
<1>5. CASE DispatchHit
  <2>1. PICK b : b = Lowest(RecordsAt(trap))
    OBVIOUS
  <2>2. /\ b \in Native /\ b \in RecordsAt(trap)
        /\ Native' = IF b.once THEN Native \ {b} ELSE Native
    BY <1>5, <2>1, HitEffect
  <2>3. /\ pc = "queued" /\ pc' = "callback" /\ reported' = b.addr /\ UNCHANGED done
        /\ lost' = IF b.once THEN lost \ {b.id} ELSE lost
    BY <1>5, <2>1 DEF DispatchHit
  <2>4. b.id \notin lost /\ b.addr \in W /\ b.addr \in Place
    BY <1>0, <2>2, <2>3 DEF Watching, WatchedPlaces
  <2>5. \A c \in Native : c # b => c.id # b.id /\ c.addr # b.addr
    BY <2>2, AddressesApart DEF Typed, Slots, Native
  <2>6. W' = IF b.once THEN W \ {b.addr} ELSE W
    BY <2>2, <2>3, <2>5 DEF WatchedPlaces
  <2>7. Watch!Report(b.addr)
    BY <2>3, <2>4, <2>6 DEF Watch!Report, WatchedPlaces
  <2>8. QED
    BY <2>4, <2>7 DEF Watch!Next
<1>6. CASE CallbackReturns
  <2>1. /\ pc = "callback" /\ pc' # "callback" /\ UNCHANGED <<gBreakpoints, lost, reported, done>>
    BY <1>6 DEF CallbackReturns, tables
  <2>2. Watch!Go
    BY <2>1, WatchedSame DEF Watch!Go, WatchedPlaces
  <2>3. QED
    BY <2>2 DEF Watch!Next
<1>7. CASE CompleteStep
  <2>1. /\ pc = "step" /\ pc' = "run" /\ ip \in Place /\ ~TrapAt(ip) /\ done' = ip
        /\ reported' = Nowhere /\ UNCHANGED gBreakpoints
        /\ \A id \in lost : id \in lost' \/ id \in rearm
    BY <1>7 DEF CompleteStep
  <2>2. ip \notin W \/ ip = reported
    BY <2>1, ExecutedIs
  <2>3. W' \subseteq W \cup ({ip} \cap {reported})
    <3>1. SUFFICES ASSUME NEW b \in Native, b.id \notin lost', b.addr \notin W
                   PROVE  b.addr = ip /\ b.addr = reported
      BY <2>1 DEF WatchedPlaces, Native
    <3>2. b.id \in lost
      BY <3>1 DEF WatchedPlaces
    <3>3. b.id \in rearm
      BY <2>1, <3>1, <3>2
    <3>4. QED
      BY <2>1, <3>3 DEF Watching, Over, AtIt
  <2>4. PICK a \in Place : a = ip
    BY <2>1
  <2>5. Watch!Execute(a)
    BY <2>1, <2>2, <2>3, <2>4 DEF Watch!Execute, WatchedPlaces
  <2>6. QED
    BY <2>5 DEF Watch!Next
<1>8. CASE User
  <2>1. UNCHANGED <<pc, reported, done>>
    BY <1>8 DEF User, SetBPX, SetFails, DeleteBPX, SetHardwareBreakPoint, DeleteHardwareBreakPoint,
       RemoveAllBreakPoints, RemoveAllBreakPointsFails, MemoryWriteSafe, target
  <2>2. Watch!Edit
    BY <1>0, <2>1 DEF Watch!Edit, WatchedPlaces
  <2>3. QED
    BY <2>2 DEF Watch!Next
<1>9. QED
  BY <1>1, <1>2, <1>3, <1>4, <1>5, <1>6, <1>7, <1>8 DEF Next, Target, Handlers

\* Where patches are apart, and no call can fail on a patch that lies over an
\* int3 of the program's own, the breakpoints do what CodeWatch promises: no
\* watched instruction executes unreported, and only a failed call loses one.
THEOREM WatchedIsReportedTheorem ==
  ASSUME ~Overlap, Faulty => OffOwnTraps
  PROVE  Spec => WatchedIsReported
<1>1. Init => Watch!Init
  BY DEF Init, Watch!Init, Native
<1>2. Typed /\ Kept /\ Watching /\ Typed' /\ [Next]_vars => [Watch!Next]_(Watch!watch)
  BY WatchStep
<1>3. QED
  BY <1>1, <1>2, WatchingInvariant, PTL DEF Spec, WatchedIsReported, Watch!Spec

=============================================================================
