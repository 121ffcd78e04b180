-------------------------- MODULE TtdReplayProofs --------------------------
(***************************************************************************)
(* Theorems about TtdReplay, for any finite recording and any callers.     *)
(***************************************************************************)
EXTENDS TtdReplay, FiniteSetTheorems, SequenceTheorems, TLAPS

-----------------------------------------------------------------------------
(* The nearest of some positions exists.                                   *)

LEMMA SmallestExists ==
  ASSUME NEW S \in SUBSET Nat, S # {}
  PROVE  \E q \in S : \A s \in S : q <= s
<1> DEFINE Less == {ss \in Nat \X Nat : ss[1] < ss[2]}
<1>1. IsWellFoundedOn(Less, Nat)
  BY NatLessThanWellFounded, Zenon DEF OpToRel
<1>2. \E q \in S : \A s \in S : <<s, q>> \notin Less
  <2> HIDE DEF Less
  <2> QED
    BY <1>1, WFMin, Zenon
<1>3. \A s, q \in Nat : <<s, q>> \notin Less => q <= s
  OBVIOUS
<1>4. QED
  BY <1>2, <1>3

LEMMA LargestExists ==
  ASSUME NEW S \in SUBSET Nat, S # {}, NEW n \in Nat, \A s \in S : s <= n
  PROVE  \E q \in S : \A s \in S : s <= q
<1> DEFINE D == {n - s : s \in S}
<1>1. D \in SUBSET Nat /\ D # {}
  <2>1. \A s \in S : s \in Nat /\ n - s \in Nat
    OBVIOUS
  <2>2. \A d \in D : d \in Nat
    BY <2>1
  <2>3. PICK s \in S : TRUE
    OBVIOUS
  <2>4. n - s \in D
    OBVIOUS
  <2>5. QED
    BY <2>2, <2>4
<1>2. PICK d \in D : \A e \in D : d <= e
  BY <1>1, SmallestExists
<1>3. PICK q \in S : d = n - q
  OBVIOUS
<1>4. \A s \in S : n - q <= n - s
  BY <1>2, <1>3
<1>5. QED
  BY <1>4

LEMMA NearestIs ==
  ASSUME NEW back \in BOOLEAN, NEW S \in SUBSET Position, S # {}
  PROVE  /\ Nearest(back, S) \in S
         /\ \A s \in S : IF back THEN s <= Nearest(back, S) ELSE Nearest(back, S) <= s
<1>1. S \in SUBSET Nat /\ LastPosition \in Nat /\ \A s \in S : s <= LastPosition
  BY RecordingAssumption DEF Position
<1>2. CASE back
  <2>1. \E q \in S : \A s \in S : s <= q
    BY <1>1, LargestExists
  <2>2. QED
    BY <2>1, <1>2 DEF Nearest
<1>3. CASE ~back
  <2>1. \E q \in S : \A s \in S : q <= s
    BY <1>1, SmallestExists
  <2>2. QED
    BY <2>1, <1>3 DEF Nearest
<1>4. QED
  BY <1>2, <1>3

-----------------------------------------------------------------------------
(* Sequences of callbacks.                                                 *)

LEMMA SetToSeqIs ==
  ASSUME NEW S, IsFiniteSet(S)
  PROVE  /\ SetToSeq(S) \in Seq(S)
         /\ \A x \in S : \E i \in 1..Len(SetToSeq(S)) : SetToSeq(S)[i] = x
<1> DEFINE n == Cardinality(S)
           f == SetToSeq(S)
<1>1. n \in Nat /\ ExistsBijection(1..n, S)
  BY FS_CardinalityType
<1>2. \E g \in [1..n -> S] : IsInjective(g)
  BY <1>1 DEF ExistsBijection, Bijection, Injection
<1>3. f \in [1..n -> S] /\ IsInjective(f)
  BY <1>2 DEF SetToSeq
<1>4. Cardinality(1..n) = n
  BY <1>1, FS_Interval
<1> HIDE DEF n, f
<1>5. f \in Injection(1..n, S)
  BY <1>3 DEF Injection
<1>6. f \in Surjection(1..n, S)
  BY <1>5, <1>4, FS_Injection DEF n
<1>7. f \in Seq(S) /\ Len(f) = n
  BY <1>1, <1>3
<1>8. \A x \in S : \E i \in 1..Len(f) : f[i] = x
  BY <1>6, <1>7 DEF Surjection
<1>9. QED
  BY <1>7, <1>8 DEF f

Has(q, what, id) == \E i \in 1..Len(q) : q[i] = Work(what, id)

LEMMA EventsForIs ==
  ASSUME NEW what, NEW S, IsFiniteSet(S)
  PROVE  /\ EventsFor(what, S) \in Seq([what : {what}, id : S])
         /\ \A w, id : Has(EventsFor(what, S), w, id) <=> w = what /\ id \in S
<1> DEFINE items == SetToSeq(S)
           e == EventsFor(what, S)
<1>1. /\ items \in Seq(S)
      /\ \A x \in S : \E i \in 1..Len(items) : items[i] = x
  BY SetToSeqIs
<1> HIDE DEF items
<1>2. e = [i \in 1..Len(items) |-> Work(what, items[i])]
  BY DEF EventsFor, items
<1> HIDE DEF e
<1>3. e \in Seq([what : {what}, id : S]) /\ Len(e) = Len(items)
  BY <1>1, <1>2 DEF Work
<1>4. ASSUME NEW w, NEW id
      PROVE  Has(e, w, id) <=> w = what /\ id \in S
  <2>1. ASSUME NEW i \in 1..Len(items)
        PROVE  e[i] = Work(what, items[i]) /\ items[i] \in S
    BY <1>1, <1>2
  <2>2. Has(e, w, id) => w = what /\ id \in S
    BY <2>1, <1>3 DEF Has, Work
  <2>3. ASSUME w = what, id \in S PROVE Has(e, w, id)
    BY <2>1, <2>3, <1>1, <1>3 DEF Has
  <2>4. QED
    BY <2>2, <2>3
<1>5. QED
  BY <1>3, <1>4 DEF e

\* Once the callbacks in q are handled the front end has id in a list, known now:
\* one of them, or else the list it has, says so, and no later one takes it back.
Announced(q, here, gone, known, id) ==
  \E i \in 0..Len(q) :
    /\ IF i = 0 THEN id \in known ELSE q[i] = Work(here, id)
    /\ \A j \in (i + 1)..Len(q) : q[j] # Work(gone, id)

LEMMA HasConcat ==
  ASSUME NEW S, NEW q \in Seq(S), NEW e \in Seq(S), NEW w, NEW id
  PROVE  Has(q \o e, w, id) <=> Has(q, w, id) \/ Has(e, w, id)
<1>1. /\ Len(q) \in Nat /\ Len(e) \in Nat /\ Len(q \o e) = Len(q) + Len(e)
      /\ \A i \in 1..Len(q) : (q \o e)[i] = q[i]
      /\ \A i \in 1..Len(e) : (q \o e)[Len(q) + i] = e[i]
  OBVIOUS
<1>2. \A i \in 1..Len(q) + Len(e) : i \in 1..Len(q) \/ i - Len(q) \in 1..Len(e)
  BY <1>1
<1>3. Has(q, w, id) => Has(q \o e, w, id)
  BY <1>1 DEF Has
<1>4. Has(e, w, id) => Has(q \o e, w, id)
  <2> SUFFICES ASSUME NEW i \in 1..Len(e), e[i] = Work(w, id)
               PROVE  Has(q \o e, w, id)
    BY DEF Has
  <2>1. Len(q) + i \in 1..Len(q \o e) /\ (q \o e)[Len(q) + i] = Work(w, id)
    BY <1>1
  <2>2. QED
    BY <2>1 DEF Has
<1>5. ASSUME NEW i \in 1..Len(q \o e), (q \o e)[i] = Work(w, id)
      PROVE  Has(q, w, id) \/ Has(e, w, id)
  <2>1. CASE i \in 1..Len(q)
    BY <1>5, <1>1, <2>1 DEF Has
  <2>2. CASE i - Len(q) \in 1..Len(e)
    <3>1. e[i - Len(q)] = (q \o e)[Len(q) + (i - Len(q))] /\ Len(q) + (i - Len(q)) = i
      BY <1>1, <2>2
    <3>2. QED
      BY <1>5, <2>2, <3>1 DEF Has
  <2>3. QED
    BY <1>1, <1>2, <2>1, <2>2
<1>6. QED
  BY <1>3, <1>4, <1>5 DEF Has

\* Callbacks that do not say both things of id decide about it, if they say one.
LEMMA AnnouncedConcat ==
  ASSUME NEW S, NEW q \in Seq(S), NEW e \in Seq(S), NEW here, NEW gone, NEW known, NEW id,
         ~(Has(e, here, id) /\ Has(e, gone, id))
  PROVE  Announced(q \o e, here, gone, known, id)
           <=> Has(e, here, id) \/ (Announced(q, here, gone, known, id) /\ ~Has(e, gone, id))
<1> DEFINE n == Len(q)
           c == q \o e
<1>1. /\ n \in Nat /\ Len(e) \in Nat /\ Len(c) = n + Len(e)
      /\ \A i \in 1..n : c[i] = q[i]
      /\ \A i \in 1..Len(e) : c[n + i] = e[i]
  OBVIOUS
<1> HIDE DEF n, c
<1>2. ASSUME NEW i \in Int, i > n, i <= Len(c)
      PROVE  i - n \in 1..Len(e) /\ c[i] = e[i - n]
  <2>1. i - n \in 1..Len(e) /\ n + (i - n) = i
    BY <1>1, <1>2
  <2>2. QED
    BY <2>1, <1>1
<1>3. ASSUME Has(e, here, id)
      PROVE  Announced(c, here, gone, known, id)
  <2>1. PICK i \in 1..Len(e) : e[i] = Work(here, id)
    BY <1>3 DEF Has
  <2>2. n + i \in 0..Len(c) /\ n + i # 0 /\ c[n + i] = Work(here, id)
    BY <1>1, <2>1
  <2>3. \A j \in (n + i + 1)..Len(c) : c[j] # Work(gone, id)
    <3> SUFFICES ASSUME NEW j \in (n + i + 1)..Len(c) PROVE c[j] # Work(gone, id)
      OBVIOUS
    <3>1. j - n \in 1..Len(e) /\ c[j] = e[j - n]
      BY <1>1, <1>2
    <3>2. QED
      BY <3>1, <1>3 DEF Has
  <2>4. QED
    BY <2>2, <2>3 DEF Announced
<1>4. ASSUME Announced(q, here, gone, known, id), ~Has(e, gone, id)
      PROVE  Announced(c, here, gone, known, id)
  <2>1. PICK i \in 0..n : /\ IF i = 0 THEN id \in known ELSE q[i] = Work(here, id)
                          /\ \A j \in (i + 1)..n : q[j] # Work(gone, id)
    BY <1>4 DEF Announced, n
  <2>2. i \in 0..Len(c) /\ IF i = 0 THEN id \in known ELSE c[i] = Work(here, id)
    BY <1>1, <2>1
  <2>3. ASSUME NEW j \in (i + 1)..Len(c) PROVE c[j] # Work(gone, id)
    <3>1. CASE j <= n
      BY <3>1, <1>1, <2>1
    <3>2. CASE j > n
      <4>1. j - n \in 1..Len(e) /\ c[j] = e[j - n]
        BY <3>2, <1>1, <1>2
      <4>2. QED
        BY <4>1, <1>4 DEF Has
    <3>3. QED
      BY <3>1, <3>2, <1>1
  <2>4. QED
    BY <2>2, <2>3 DEF Announced
<1>5. ASSUME Announced(c, here, gone, known, id), ~Has(e, here, id)
      PROVE  Announced(q, here, gone, known, id) /\ ~Has(e, gone, id)
  <2>1. PICK i \in 0..Len(c) : /\ IF i = 0 THEN id \in known ELSE c[i] = Work(here, id)
                               /\ \A j \in (i + 1)..Len(c) : c[j] # Work(gone, id)
    BY <1>5 DEF Announced
  <2>2. i <= n
    <3> SUFFICES ASSUME i > n PROVE FALSE
      BY <1>1
    <3>1. i - n \in 1..Len(e) /\ c[i] = e[i - n]
      BY <1>2
    <3>2. QED
      BY <3>1, <1>1, <2>1, <1>5 DEF Has
  <2>3. i \in 0..n /\ IF i = 0 THEN id \in known ELSE q[i] = Work(here, id)
    BY <1>1, <2>1, <2>2
  <2>4. \A j \in (i + 1)..n : q[j] # Work(gone, id)
    BY <1>1, <2>1, <2>2
  <2>5. ASSUME NEW k \in 1..Len(e) PROVE e[k] # Work(gone, id)
    BY <1>1, <2>1, <2>2
  <2>6. QED
    BY <2>3, <2>4, <2>5 DEF Announced, Has, n
<1>6. QED
  BY <1>3, <1>4, <1>5 DEF c

\* A callback that is handled does what it announced.
LEMMA AnnouncedTail ==
  ASSUME NEW S, NEW q \in Seq(S), q # <<>>, NEW here, NEW gone, here # gone,
         NEW known, NEW learnt, NEW id,
         id \in learnt <=> \/ Head(q) = Work(here, id)
                           \/ id \in known /\ Head(q) # Work(gone, id)
  PROVE  Announced(Tail(q), here, gone, learnt, id) <=> Announced(q, here, gone, known, id)
<1> DEFINE n == Len(q)
           r == Tail(q)
<1>1. /\ n \in Nat \ {0} /\ Len(r) = n - 1 /\ Head(q) = q[1]
      /\ \A i \in 1..(n - 1) : r[i] = q[i + 1]
  BY HeadTailProperties
<1> HIDE DEF n, r
<1>2. Work(here, id) # Work(gone, id)
  BY DEF Work
<1>3. ASSUME Announced(q, here, gone, known, id)
      PROVE  Announced(r, here, gone, learnt, id)
  <2>1. PICK i \in 0..n : /\ IF i = 0 THEN id \in known ELSE q[i] = Work(here, id)
                          /\ \A j \in (i + 1)..n : q[j] # Work(gone, id)
    BY <1>3 DEF Announced, n
  <2>2. CASE i \in {0, 1}
    <3>1. id \in learnt
      BY <2>1, <2>2, <1>1, <1>2
    <3>2. 0 \in 0..Len(r) /\ \A j \in (0 + 1)..Len(r) : r[j] # Work(gone, id)
      BY <2>1, <2>2, <1>1
    <3>3. QED
      BY <3>1, <3>2, <1>1 DEF Announced
  <2>3. CASE i > 1
    <3>1. i - 1 \in 0..Len(r) /\ i - 1 # 0 /\ r[i - 1] = Work(here, id)
      BY <2>1, <2>3, <1>1
    <3>2. \A j \in ((i - 1) + 1)..Len(r) : r[j] # Work(gone, id)
      BY <2>1, <2>3, <1>1
    <3>3. QED
      BY <3>1, <3>2 DEF Announced
  <2>4. QED
    BY <2>2, <2>3
<1>4. ASSUME Announced(r, here, gone, learnt, id)
      PROVE  Announced(q, here, gone, known, id)
  <2>1. PICK i \in 0..(n - 1) : /\ IF i = 0 THEN id \in learnt ELSE r[i] = Work(here, id)
                                /\ \A j \in (i + 1)..(n - 1) : r[j] # Work(gone, id)
    BY <1>4, <1>1 DEF Announced
  <2>2. \A j \in (i + 2)..n : q[j] # Work(gone, id)
    <3> SUFFICES ASSUME NEW j \in (i + 2)..n PROVE q[j] # Work(gone, id)
      OBVIOUS
    <3>1. j - 1 \in 1..(n - 1) /\ j - 1 \in (i + 1)..(n - 1) /\ (j - 1) + 1 = j
      BY <1>1, <2>1
    <3>2. QED
      BY <3>1, <2>1, <1>1
  <2>3. CASE i # 0 \/ Head(q) = Work(here, id)
    <3>1. i + 1 \in 0..n /\ i + 1 # 0 /\ q[i + 1] = Work(here, id)
      BY <2>1, <2>3, <1>1
    <3>2. \A j \in ((i + 1) + 1)..n : q[j] # Work(gone, id)
      BY <2>2
    <3>3. QED
      BY <3>1, <3>2 DEF Announced, n
  <2>4. CASE i = 0 /\ Head(q) # Work(here, id)
    <3>1. id \in known /\ q[1] # Work(gone, id)
      BY <2>1, <2>4, <1>1
    <3>2. \A j \in 1..n : q[j] # Work(gone, id)
      BY <2>2, <2>4, <3>1
    <3>3. QED
      BY <3>1, <3>2, <1>1 DEF Announced, n
  <2>5. QED
    BY <2>3, <2>4
<1>5. QED
  BY <1>3, <1>4 DEF r

\* What is known now matters only if id is not taken back later.
LEMMA AnnouncedFrom ==
  ASSUME NEW q, Len(q) \in Nat, NEW here, NEW gone, NEW known, NEW learnt, NEW id
  PROVE  /\ (id \in known => id \in learnt)
              => (Announced(q, here, gone, known, id) => Announced(q, here, gone, learnt, id))
         /\ Has(q, gone, id)
              => (Announced(q, here, gone, known, id) => Announced(q, here, gone, learnt, id))
<1> SUFFICES ASSUME Announced(q, here, gone, known, id),
                    (id \in known => id \in learnt) \/ Has(q, gone, id)
             PROVE  Announced(q, here, gone, learnt, id)
  OBVIOUS
<1>1. PICK i \in 0..Len(q) : /\ IF i = 0 THEN id \in known ELSE q[i] = Work(here, id)
                             /\ \A j \in (i + 1)..Len(q) : q[j] # Work(gone, id)
  BY DEF Announced
<1>2. Has(q, gone, id) => i # 0
  BY <1>1 DEF Has
<1>3. IF i = 0 THEN id \in learnt ELSE q[i] = Work(here, id)
  BY <1>1, <1>2
<1>4. QED
  BY <1>1, <1>3 DEF Announced

LEMMA NewAmongIs ==
  ASSUME IdsUnique, NEW S \in SUBSET Module, NEW T \in SUBSET Module
  PROVE  NewAmong(S, T) = S \ T
BY DEF NewAmong, IdsUnique

\* What refreshTtdTimeline queues.
LEMMA TimelineEventsAre ==
  ASSUME threads \subseteq Thread, modules \subseteq Module, NEW p \in Position
  PROVE  /\ TimelineEvents(p) \in Seq(WorkItems)
         /\ \A w, id : Has(TimelineEvents(p), w, id) <=>
              \/ w = "thread" /\ id \in Alive[p] \ threads
              \/ w = "exitthread" /\ id \in threads \ Alive[p]
              \/ w = "module" /\ id \in NewAmong(Mapped[p], modules)
              \/ w = "unload" /\ id \in NewAmong(modules, Mapped[p])
<1> DEFINE a == EventsFor("thread", Alive[p] \ threads)
           b == EventsFor("exitthread", threads \ Alive[p])
           c == EventsFor("module", NewAmong(Mapped[p], modules))
           d == EventsFor("unload", NewAmong(modules, Mapped[p]))
<1>1. /\ Alive[p] \subseteq Thread /\ Mapped[p] \subseteq Module
      /\ IsFiniteSet(Thread) /\ IsFiniteSet(Module)
      /\ NewAmong(Mapped[p], modules) \subseteq Mapped[p]
      /\ NewAmong(modules, Mapped[p]) \subseteq modules
  BY RecordingAssumption DEF NewAmong
<1>2. /\ IsFiniteSet(Alive[p] \ threads) /\ IsFiniteSet(threads \ Alive[p])
      /\ IsFiniteSet(NewAmong(Mapped[p], modules)) /\ IsFiniteSet(NewAmong(modules, Mapped[p]))
  BY <1>1, FS_Subset
<1>3. /\ a \in Seq([what : {"thread"}, id : Alive[p] \ threads])
      /\ b \in Seq([what : {"exitthread"}, id : threads \ Alive[p]])
      /\ c \in Seq([what : {"module"}, id : NewAmong(Mapped[p], modules)])
      /\ d \in Seq([what : {"unload"}, id : NewAmong(modules, Mapped[p])])
  BY <1>2, EventsForIs
<1>4. /\ [what : {"thread"}, id : Alive[p] \ threads] \subseteq WorkItems
      /\ [what : {"exitthread"}, id : threads \ Alive[p]] \subseteq WorkItems
      /\ [what : {"module"}, id : NewAmong(Mapped[p], modules)] \subseteq WorkItems
      /\ [what : {"unload"}, id : NewAmong(modules, Mapped[p])] \subseteq WorkItems
  BY <1>1 DEF WorkItems
<1>5. /\ \A w, id : Has(a, w, id) <=> w = "thread" /\ id \in Alive[p] \ threads
      /\ \A w, id : Has(b, w, id) <=> w = "exitthread" /\ id \in threads \ Alive[p]
      /\ \A w, id : Has(c, w, id) <=> w = "module" /\ id \in NewAmong(Mapped[p], modules)
      /\ \A w, id : Has(d, w, id) <=> w = "unload" /\ id \in NewAmong(modules, Mapped[p])
  BY <1>2, EventsForIs
<1> HIDE DEF a, b, c, d
<1>6. a \in Seq(WorkItems) /\ b \in Seq(WorkItems) /\ c \in Seq(WorkItems) /\ d \in Seq(WorkItems)
  BY <1>3, <1>4, SeqMonotonic
<1>7. a \o b \in Seq(WorkItems) /\ (a \o b) \o c \in Seq(WorkItems)
      /\ ((a \o b) \o c) \o d \in Seq(WorkItems)
  BY <1>6, ConcatProperties
<1>8. TimelineEvents(p) = ((a \o b) \o c) \o d
  BY DEF TimelineEvents, a, b, c, d
<1>9. \A w, id : Has(((a \o b) \o c) \o d, w, id)
                   <=> Has(a, w, id) \/ Has(b, w, id) \/ Has(c, w, id) \/ Has(d, w, id)
  <2> SUFFICES ASSUME NEW w, NEW id
               PROVE  Has(((a \o b) \o c) \o d, w, id)
                        <=> Has(a, w, id) \/ Has(b, w, id) \/ Has(c, w, id) \/ Has(d, w, id)
    OBVIOUS
  <2> DEFINE ab == a \o b
             abc == ab \o c
  <2>1. Has(ab, w, id) <=> Has(a, w, id) \/ Has(b, w, id)
    BY <1>6, HasConcat
  <2>2. ab \in Seq(WorkItems) /\ abc \in Seq(WorkItems)
    BY <1>7
  <2> HIDE DEF ab
  <2>3. Has(abc, w, id) <=> Has(ab, w, id) \/ Has(c, w, id)
    BY <1>6, <2>2, HasConcat
  <2> HIDE DEF abc
  <2>4. Has(abc \o d, w, id) <=> Has(abc, w, id) \/ Has(d, w, id)
    BY <1>6, <2>2, HasConcat
  <2>5. QED
    BY <2>1, <2>3, <2>4 DEF ab, abc
<1>10. QED
  BY <1>5, <1>7, <1>8, <1>9

-----------------------------------------------------------------------------
(* The replay engine.                                                      *)

PointTypes == code \subseteq Breakpoint /\ data \subseteq [addr : Address, once : BOOLEAN]

LEMMA HitTypes ==
  ASSUME NEW p \in Position, NEW hit \in ttdMemoryWatchpointCallback(p)
  PROVE  hit \in Hits /\ hit # NoHit /\ hit.at = p
<1>1. Touch[p] \in Address \cup {NoAddress} /\ At[p] \in Address /\ p # NoPosition
  BY RecordingAssumption DEF Position, NoPosition
<1>2. QED
  BY <1>1 DEF ttdMemoryWatchpointCallback, Watched, Hits, NoHit

\* Where a step may end.
LEMMA EngineStepIs ==
  ASSUME NEW back \in BOOLEAN, NEW p \in Position, NEW out \in EngineStep(back, p)
  PROVE  /\ out.at \in Position /\ out.moved \in BOOLEAN /\ out.hit \in Hits \cup {NoHit}
         /\ out.at \in {p, IF back THEN p - 1 ELSE p + 1}
<1> DEFINE to == IF back THEN p - 1 ELSE p + 1
<1>1. CASE to \notin Position
  <2>1. out = Outcome(p, NoHit, FALSE)
    BY <1>1 DEF EngineStep
  <2>2. QED
    BY <2>1 DEF Outcome
<1>2. CASE to \in Position
  <2>1. \/ \E hit \in ttdMemoryWatchpointCallback(to) \cup {NoHit} : out = Outcome(to, hit, TRUE)
        \/ out = Outcome(p, NoHit, FALSE)
    BY <1>2 DEF EngineStep
  <2>2. ttdMemoryWatchpointCallback(to) \subseteq Hits
    BY <1>2, HitTypes
  <2>3. p \in Position /\ to \in Position
    BY <1>2
  <2> HIDE DEF to
  <2>4. CASE \E hit \in ttdMemoryWatchpointCallback(to) \cup {NoHit} : out = Outcome(to, hit, TRUE)
    <3>1. PICK hit \in ttdMemoryWatchpointCallback(to) \cup {NoHit} : out = Outcome(to, hit, TRUE)
      BY <2>4
    <3>2. out.at = to /\ out.moved = TRUE /\ out.hit = hit
      BY <3>1 DEF Outcome
    <3>3. QED
      BY <2>2, <2>3, <3>2 DEF to
  <2>5. CASE out = Outcome(p, NoHit, FALSE)
    BY <2>5 DEF Outcome
  <2>6. QED
    BY <2>1, <2>4, <2>5
<1>3. QED
  BY <1>1, <1>2

\* Where a replay may end: ahead, no further than the limit, and only past
\* positions it is not bound to stop at; at the limit, unless it is cut short or
\* reports a hit.
LEMMA EngineRunIs ==
  ASSUME NEW back \in BOOLEAN, NEW p \in Position, NEW limit \in Position,
         IF back THEN limit <= p ELSE limit >= p,
         NEW short \in BOOLEAN, NEW out \in EngineRun(back, p, limit, short)
  PROVE  /\ out.at \in Position /\ out.moved \in BOOLEAN /\ out.hit \in Hits \cup {NoHit}
         /\ IF back THEN limit <= out.at /\ out.at <= p ELSE p <= out.at /\ out.at <= limit
         /\ out.moved /\ out.hit = NoHit => out.at # p
         /\ out.hit = NoHit /\ ~short => out.at = limit
         /\ \A q \in Position :
              (IF back THEN out.at < q /\ q < p ELSE p < q /\ q < out.at)
                => q \notin Stops
<1> DEFINE path == {q \in Ahead(back, p) : IF back THEN q >= limit ELSE q <= limit}
           hits == path \cap Stops
           stop == Nearest(back, hits \cup {limit})
           upto == path \ Ahead(back, stop)
<1>1. hits \cup {limit} \in SUBSET Position
  BY DEF Ahead
<1>2. /\ stop \in hits \cup {limit}
      /\ \A q \in hits \cup {limit} : IF back THEN q <= stop ELSE stop <= q
  BY <1>1, NearestIs
<1>3. /\ stop \in Position
      /\ IF back THEN limit <= stop /\ stop <= p ELSE p <= stop /\ stop <= limit
  BY <1>1, <1>2 DEF Ahead, Position
<1>4. \A q \in Position :
        (IF back THEN stop < q /\ q < p ELSE p < q /\ q < stop) => q \notin Stops
  <2> SUFFICES ASSUME NEW q \in Position, IF back THEN stop < q /\ q < p ELSE p < q /\ q < stop,
                      q \in Stops
               PROVE  FALSE
    OBVIOUS
  <2>1. q \in hits
    BY <1>3 DEF Ahead, Position
  <2>2. IF back THEN q <= stop ELSE stop <= q
    BY <2>1, <1>2
  <2> HIDE DEF hits, stop
  <2>3. QED
    BY <2>2, <1>3 DEF Position
<1>5. \/ \E q \in upto : \E hit \in ttdMemoryWatchpointCallback(q) : out = Outcome(q, hit, TRUE)
      \/ \E q \in IF short THEN {p} \cup upto ELSE {stop} \cap {limit} : out = Outcome(q, NoHit, q # p)
      \/ out \in Stale(p)
  <2> DEFINE S == IF short THEN {p} \cup upto ELSE {stop} \cap {limit}
  <2>1. EngineRun(back, p, limit, short) = HitsAt(upto) \cup Stale(p) \cup QuietAt(p, S)
    BY Zenon DEF EngineRun
  <2>2. out \in HitsAt(upto) \/ out \in Stale(p) \/ out \in QuietAt(p, S)
    BY <2>1
  <2>3. CASE out \in HitsAt(upto)
    <3> HIDE DEF upto, stop
    <3>1. QED
      BY <2>3, Zenon DEF HitsAt
  <2>4. CASE out \in QuietAt(p, S)
    <3>1. \E q \in S : out = Outcome(q, NoHit, q # p)
      <4> HIDE DEF S
      <4>1. QED
        BY <2>4 DEF QuietAt
    <3>2. QED
      BY <3>1
  <2>5. QED
    BY <2>2, <2>3, <2>4
<1>11. ASSUME NEW q \in upto
       PROVE  /\ q \in Position /\ IF back THEN stop <= q /\ q <= p ELSE p <= q /\ q <= stop
              /\ IF back THEN limit <= q ELSE q <= limit
              /\ \A r \in Position :
                   (IF back THEN q < r /\ r < p ELSE p < r /\ r < q) => r \notin Stops
  <2>1. q \in Position /\ IF back THEN stop <= q /\ q <= p ELSE p <= q /\ q <= stop
    BY <1>3 DEF Ahead, Position
  <2>2. IF back THEN limit <= q ELSE q <= limit
    OBVIOUS
  <2> HIDE DEF hits, stop, upto
  <2>3. QED
    BY <2>1, <2>2, <1>3, <1>4 DEF Position
<1>12. ASSUME NEW q \in Position, q = p \/ (q = limit /\ stop = limit)
       PROVE  \A r \in Position :
                (IF back THEN q < r /\ r < p ELSE p < r /\ r < q) => r \notin Stops
  <2> HIDE DEF hits, stop, upto
  <2>1. QED
    BY <1>12, <1>4 DEF Position
<1> HIDE DEF hits, stop, upto
<1>6. CASE \E q \in upto : \E hit \in ttdMemoryWatchpointCallback(q) : out = Outcome(q, hit, TRUE)
  <2>1. PICK q \in upto : \E hit \in ttdMemoryWatchpointCallback(q) : out = Outcome(q, hit, TRUE)
    BY <1>6
  <2>2. PICK hit \in ttdMemoryWatchpointCallback(q) : out = Outcome(q, hit, TRUE)
    BY <2>1
  <2>3. hit \in Hits /\ hit # NoHit
    BY <1>11, HitTypes
  <2>4. out.at = q /\ out.hit = hit /\ out.moved = TRUE
    BY <2>2 DEF Outcome
  <2>5. QED
    BY <2>3, <2>4, <1>3, <1>11
<1>7. CASE \E q \in IF short THEN {p} \cup upto ELSE {stop} \cap {limit} : out = Outcome(q, NoHit,
     q # p)
  <2>1. PICK q \in IF short THEN {p} \cup upto ELSE {stop} \cap {limit} : out = Outcome(q, NoHit,
         q # p)
    BY <1>7
  <2>2. out.at = q /\ out.hit = NoHit /\ out.moved = (q # p)
    BY <2>1 DEF Outcome
  <2>3. CASE short /\ q \in upto
    <3>1. (out.moved /\ out.hit = NoHit => out.at # p) /\ (out.hit = NoHit /\ ~short => out.at = limit)
      BY <2>2, <2>3, Zenon
    <3>2. out.moved \in BOOLEAN
      BY <2>2
    <3>3. QED
      BY <2>2, <2>3, <3>1, <3>2, <1>11
  <2>4. CASE short /\ q = p
    <3>1. (out.moved /\ out.hit = NoHit => out.at # p) /\ (out.hit = NoHit /\ ~short => out.at = limit)
      BY <2>2, <2>4, Zenon
    <3>2. out.moved \in BOOLEAN /\ out.at = p /\ out.hit = NoHit
      BY <2>2, <2>4
    <3>3. p \in Int /\ limit \in Int
      BY DEF Position
    <3>4. IF back THEN limit <= out.at /\ out.at <= p ELSE p <= out.at /\ out.at <= limit
      BY <3>2, <3>3
    <3>5. \A r \in Position :
            (IF back THEN out.at < r /\ r < p ELSE p < r /\ r < out.at) => r \notin Stops
      BY <3>2, <1>12
    <3>6. QED
      BY <3>1, <3>2, <3>4, <3>5
  <2>5. CASE ~short /\ q = stop /\ stop = limit
    BY <2>2, <2>5, <1>3, <1>12
  <2>6. QED
    BY <2>1, <2>3, <2>4, <2>5
<1>9. CASE out \in Stale(p)
  <2>1. PICK hit \in ttdMemoryWatchpointCallback(p) : out = Outcome(p, hit, FALSE)
    BY <1>9 DEF Stale
  <2>2. hit \in Hits /\ hit # NoHit
    BY HitTypes
  <2>3. QED
    BY <2>1, <2>2 DEF Outcome, Position
<1>10. QED
  BY <1>5, <1>6, <1>7, <1>9

\* The limit of a run is ahead, and no exception event lies before it.
LEMMA LimitIs ==
  ASSUME NEW back \in BOOLEAN, NEW p \in Position
  PROVE  /\ MovementLimit(back, p) \in Position
         /\ IF back THEN MovementLimit(back, p) <= p ELSE MovementLimit(back, p) >= p
         /\ \A q \in Exceptions : ~(IF back THEN MovementLimit(back, p) < q /\ q < p
                                    ELSE p < q /\ q < MovementLimit(back, p))
         /\ NextException(back, p) = {} =>
              MovementLimit(back, p) = IF back THEN 0 ELSE LastPosition
<1> DEFINE end == IF back THEN 0 ELSE LastPosition
           limit == MovementLimit(back, p)
<1>1. /\ LastPosition \in Nat /\ Exceptions \subseteq Position /\ end \in Position
      /\ IF back THEN end <= p ELSE p <= end
  BY RecordingAssumption DEF Position
<1>2. /\ NextException(back, p) \cup {end} \in SUBSET Position
      /\ NextException(back, p) = (Exceptions \cap Ahead(back, p)) \ {end}
  BY <1>1 DEF NextException
<1>3. limit = Nearest(back, NextException(back, p) \cup {end})
  BY DEF MovementLimit
<1> HIDE DEF end, limit
<1>4. /\ limit \in NextException(back, p) \cup {end}
      /\ \A q \in NextException(back, p) \cup {end} : IF back THEN q <= limit ELSE limit <= q
  BY <1>2, <1>3, NearestIs
<1>5. limit \in Position /\ IF back THEN limit <= p ELSE limit >= p
  BY <1>1, <1>2, <1>4 DEF Ahead, Position
<1>6. ASSUME NEW q \in Exceptions, IF back THEN limit < q /\ q < p ELSE p < q /\ q < limit
      PROVE  FALSE
  <2>1. q \in Position /\ q \in Ahead(back, p)
    BY <1>1, <1>6 DEF Ahead
  <2>2. q # end
    BY <2>1, <1>1, <1>5, <1>6 DEF end, Position
  <2>3. q \in NextException(back, p)
    BY <2>1, <2>2, <1>2
  <2>4. IF back THEN q <= limit ELSE limit <= q
    BY <2>3, <1>4
  <2>5. QED
    BY <2>1, <2>4, <1>5, <1>6 DEF Position
<1>7. NextException(back, p) = {} => limit = end
  BY <1>4
<1>8. QED
  BY <1>5, <1>6, <1>7 DEF end, limit

-----------------------------------------------------------------------------
(* Types.                                                                  *)

\* A run in progress began at the cursor, and breakpoints are new to no other.
Underway ==
  /\ loop = "moving" => /\ gPaused = FALSE
                        /\ run.limit = MovementLimit(run.back, cursor)
                        /\ run.exception <=> NextException(run.back, cursor) # {}
  /\ loop # "moving" => run.fresh = {}
Typed == TypeOK /\ Underway

\* A hit that is still accepted is queued as a callback.
LEMMA HitQueued ==
  ASSUME PointTypes, queue \in Seq(WorkItems), NEW hit \in Hits \cup {NoHit},
         Reportable(hit), queueTtdWatchpointHit(hit)
  PROVE  /\ queue' \in Seq(WorkItems) /\ PointTypes'
         /\ code' \subseteq code /\ data' \subseteq data
         /\ \E item \in WorkItems :
              /\ queue' = Append(queue, item)
              /\ \/ item.what = "data"
                 \/ item.what = "code" /\ item.id.owner \in {User, Runs[item.id.at]}
<1>1. hit \in Hits
  BY DEF Reportable
<1>2. CASE SoftwareAt(hit) # {}
  <2>1. PICK b \in SoftwareAt(hit) :
          /\ queue' = Append(queue, Work("code", [at |-> hit.at, owner |-> b.owner]))
          /\ code' = IF b.once THEN code \ {b} ELSE code
          /\ UNCHANGED data
    BY <1>2 DEF queueTtdWatchpointHit
  <2>2. b.owner \in Thread \cup {User} /\ b.owner \in {User, Runs[hit.at]}
    BY DEF SoftwareAt, PointTypes, Breakpoint
  <2> DEFINE item == Work("code", [at |-> hit.at, owner |-> b.owner])
  <2>3. item \in WorkItems /\ item.what = "code" /\ item.id.owner \in {User, Runs[item.id.at]}
    BY <1>1, <2>2 DEF WorkItems, Work, Hits
  <2>4. code' \subseteq code /\ data' \subseteq data
    BY <2>1
  <2> HIDE DEF item
  <2>5. queue' = Append(queue, item)
    BY <2>1 DEF item
  <2>6. QED
    BY <2>3, <2>4, <2>5 DEF PointTypes
<1>3. CASE SoftwareAt(hit) = {}
  <2>1. PICK d \in MemoryAt(hit) :
          /\ queue' = Append(queue, Work("data", hit.at))
          /\ data' = IF d.once THEN data \ {d} ELSE data
          /\ UNCHANGED code
    BY <1>3 DEF queueTtdWatchpointHit
  <2> DEFINE item == Work("data", hit.at)
  <2>2. item \in WorkItems /\ item.what = "data"
    BY <1>1 DEF WorkItems, Work, Hits
  <2>3. code' \subseteq code /\ data' \subseteq data
    BY <2>1
  <2> HIDE DEF item
  <2>4. queue' = Append(queue, item)
    BY <2>1 DEF item
  <2>5. QED
    BY <2>2, <2>3, <2>4 DEF PointTypes
<1>4. QED
  BY <1>2, <1>3

LEMMA InitTyped == Init => Typed
<1> SUFFICES ASSUME Init PROVE Typed
  OBVIOUS
<1>1. /\ 0 \in Position /\ Alive[0] \subseteq Thread /\ Mapped[0] \subseteq Module
      /\ IsFiniteSet(Alive[0]) /\ IsFiniteSet(Mapped[0])
  BY RecordingAssumption, FS_Subset DEF Position
<1> DEFINE a == EventsFor("thread", Alive[0])
           c == EventsFor("module", Mapped[0])
           d == <<Work("break", 0)>>
<1>2. /\ a \in Seq([what : {"thread"}, id : Alive[0]])
      /\ c \in Seq([what : {"module"}, id : Mapped[0]])
  BY <1>1, EventsForIs
<1>3. /\ [what : {"thread"}, id : Alive[0]] \subseteq WorkItems
      /\ [what : {"module"}, id : Mapped[0]] \subseteq WorkItems
      /\ Work("break", 0) \in WorkItems
  BY <1>1 DEF WorkItems, Work
<1> HIDE DEF a, c
<1>4. a \in Seq(WorkItems) /\ c \in Seq(WorkItems) /\ d \in Seq(WorkItems)
  <2>1. a \in Seq(WorkItems)
    BY <1>2, <1>3, SeqMonotonic
  <2>2. c \in Seq(WorkItems)
    BY <1>2, <1>3, SeqMonotonic
  <2>3. QED
    BY <1>3, <2>1, <2>2
<1> HIDE DEF d
<1>5. (a \o c) \o d \in Seq(WorkItems)
  BY <1>4
<1>6. queue \in Seq(WorkItems)
  BY <1>5 DEF Init, a, c, d
<1>7. /\ run \in [back : BOOLEAN, limit : Position, exception : BOOLEAN, at : Position,
                  hit : Hits \cup {NoHit}, cut : BOOLEAN, fresh : SUBSET Breakpoint]
      /\ call \in [Caller -> [op : Movements \cup {"idle", "RequestPause"},
                              phase : {"begin", "lock", "queue", "flag", "interrupt"},
                              hit : Hits \cup {NoHit}]]
  BY <1>1 DEF Init, NoRun, Idle
<1>8. shown \in [threads : SUBSET {SystemId[t] : t \in Thread}, modules : SUBSET Module]
      /\ run.fresh = {}
  BY DEF Init, NoRun
<1>9. QED
  BY <1>1, <1>6, <1>7, <1>8 DEF Init, Typed, TypeOK, Underway

LEMMA TypedCallback ==
  ASSUME Typed, InvokeCallback \/ CallbackReturns
  PROVE  Typed'
<1>1. CASE InvokeCallback
  <2>1. Head(queue) \in WorkItems /\ Tail(queue) \in Seq(WorkItems)
    BY <1>1, HeadTailProperties DEF InvokeCallback, Typed, TypeOK
  <2>2. Learn(shown, Head(queue), Tail(queue))
          \in [threads : SUBSET {SystemId[t] : t \in Thread}, modules : SUBSET Module]
    <3> DEFINE Ids == {SystemId[t] : t \in Thread}
               item == Head(queue)
    <3>1. item.what \in {"thread", "exitthread"} => item.id \in Thread
      BY <2>1 DEF WorkItems
    <3>2. item.what \in {"module", "unload"} => item.id \in Module
      BY <2>1 DEF WorkItems
    <3>3. shown \in [threads : SUBSET Ids, modules : SUBSET Module] /\ Runs[cursor] \in Thread
      BY RecordingAssumption DEF Typed, TypeOK
    <3>4. item.what = "thread" => CreatedId(item.id, Tail(queue)) \in Ids
      BY <3>1, <3>3 DEF CreatedId
    <3>5. NewAmong(shown.modules, {item.id}) \subseteq Module
      BY <3>3 DEF NewAmong
    <3> HIDE DEF Ids, item
    <3>6. QED
      BY <3>2, <3>3, <3>4, <3>5 DEF Learn, Ids, item
  <2>3. QED
    BY <1>1, <2>1, <2>2 DEF InvokeCallback, Typed, TypeOK, Underway, points, timeline, flags
<1>2. CASE CallbackReturns
  BY <1>2 DEF CallbackReturns, Typed, TypeOK, Underway, points, timeline, flags
<1>3. QED
  BY <1>1, <1>2

LEMMA TypedBegin ==
  ASSUME Typed, BeginRun
  PROVE  Typed'
<1>1. gTtdNextRunReverse \in BOOLEAN /\ cursor \in Position
  BY DEF Typed, TypeOK
<1>2. MovementLimit(gTtdNextRunReverse, cursor) \in Position
  BY <1>1, LimitIs
<1>3. run' \in [back : BOOLEAN, limit : Position, exception : BOOLEAN, at : Position,
                hit : Hits \cup {NoHit}, cut : BOOLEAN, fresh : SUBSET Breakpoint]
  BY <1>1, <1>2 DEF BeginRun
<1>4. Underway'
  BY DEF BeginRun, Underway, MovementLimit, NextException
<1>5. QED
  BY <1>3, <1>4 DEF BeginRun, Typed, TypeOK, points, timeline, flags

\* Where the end of a run leaves the cursor.
LEMMA MoveIs ==
  ASSUME Typed, Move
  PROVE  \E out \in EngineRun(run.back, cursor, run.limit, Interruptible) :
           \E back \in {0, 1} :
             /\ back = 1 => AtExit(out) /\ out.at - 1 \in Position
             /\ cursor' = out.at - back /\ cursor' \in Position
             /\ gTtdProcessExitBoundary' =
                  IF back = 1 THEN cursor' ELSE gTtdProcessExitBoundary
             /\ run' = [run EXCEPT !.at = cursor', !.hit = out.hit, !.cut = cut, !.fresh = {},
                                   !.exception = @ /\ out.at = run.limit]
             /\ refreshTtdTimeline(cursor') /\ queue' = queue \o TimelineEvents(cursor')
<1>0. PICK out \in EngineRun(run.back, cursor, run.limit, Interruptible) :
        \E back \in Parking(out) :
          LET to == out.at - back
          IN  /\ cursor' = to
              /\ gTtdProcessExitBoundary' = IF back = 1 THEN to ELSE gTtdProcessExitBoundary
              /\ run' = [run EXCEPT !.at = to, !.hit = out.hit, !.cut = cut, !.fresh = {},
                                    !.exception = @ /\ out.at = run.limit]
              /\ refreshTtdTimeline(to) /\ queue' = queue \o TimelineEvents(to)
  BY DEF Move
<1>1. PICK back \in Parking(out) :
        LET to == out.at - back
        IN  /\ cursor' = to
            /\ gTtdProcessExitBoundary' = IF back = 1 THEN to ELSE gTtdProcessExitBoundary
            /\ run' = [run EXCEPT !.at = to, !.hit = out.hit, !.cut = cut, !.fresh = {},
                                  !.exception = @ /\ out.at = run.limit]
            /\ refreshTtdTimeline(to) /\ queue' = queue \o TimelineEvents(to)
  BY <1>0
<1>2. out.at \in Position
  BY EngineRunIs, LimitIs DEF Typed, TypeOK, Underway, Move, Interruptible
<1>3. /\ back \in {0, 1} /\ out.at - back \in Position
      /\ back = 1 => AtExit(out) /\ out.at - 1 \in Position
  <2>1. CASE AtExit(out)
    <3>1. PICK o \in EngineStep(TRUE, out.at) : back = out.at - o.at
      BY <2>1, <1>1 DEF Parking
    <3>2. o.at \in Position /\ o.at \in {out.at, out.at - 1}
      BY <1>2, <3>1, EngineStepIs
    <3>3. QED
      BY <2>1, <3>1, <3>2, <1>2 DEF Position
  <2>2. CASE ~AtExit(out)
    BY <2>2, <1>1, <1>2 DEF Parking, Position
  <2>3. QED
    BY <2>1, <2>2
<1>4. QED
  BY <1>1, <1>3

LEMMA TypedMove ==
  ASSUME Typed, Move
  PROVE  Typed'
<1>1. PICK out \in EngineRun(run.back, cursor, run.limit, Interruptible), back \in {0, 1} :
        /\ cursor' = out.at - back /\ cursor' \in Position
        /\ gTtdProcessExitBoundary' = IF back = 1 THEN cursor' ELSE gTtdProcessExitBoundary
        /\ run' = [run EXCEPT !.at = cursor', !.hit = out.hit, !.cut = cut, !.fresh = {},
                              !.exception = @ /\ out.at = run.limit]
        /\ refreshTtdTimeline(cursor') /\ queue' = queue \o TimelineEvents(cursor')
  BY MoveIs
<1>2. out.hit \in Hits \cup {NoHit}
  BY EngineRunIs, LimitIs DEF Typed, TypeOK, Underway, Move, Interruptible
<1>3. run' \in [back : BOOLEAN, limit : Position, exception : BOOLEAN, at : Position,
                hit : Hits \cup {NoHit}, cut : BOOLEAN, fresh : SUBSET Breakpoint]
  BY <1>1, <1>2 DEF Typed, TypeOK
<1>4. queue' \in Seq(WorkItems)
  BY <1>1, TimelineEventsAre DEF Typed, TypeOK
<1>5. threads' \subseteq Thread /\ modules' \subseteq Module
  BY <1>1, RecordingAssumption DEF refreshTtdTimeline
<1>6. gTtdProcessExitBoundary' \in Position \cup {NoPosition}
  BY <1>1 DEF Typed, TypeOK
<1>7. QED
  BY <1>1, <1>3, <1>4, <1>5, <1>6 DEF Move, Typed, TypeOK, Underway, points, flags

LEMMA TypedReport ==
  ASSUME Typed, Report
  PROVE  Typed'
<1>1. NoRun \in [back : BOOLEAN, limit : Position, exception : BOOLEAN, at : Position,
                 hit : Hits \cup {NoHit}, cut : BOOLEAN, fresh : SUBSET Breakpoint]
  BY RecordingAssumption DEF NoRun, Position
<1>2. queue' \in Seq(WorkItems) /\ PointTypes'
  <2>1. CASE gTtdStopRequested
    BY <2>1 DEF Report, LeaveStop, points, PointTypes, Typed, TypeOK
  <2>2. CASE ~gTtdStopRequested /\ gTtdInterruptRequested
    <3>1. \A what \in {"pause", "break"} : Work(what, run.at) \in WorkItems
      BY DEF Typed, TypeOK, Work, WorkItems
    <3>2. QED
      BY <2>2, <3>1 DEF Report, points, PointTypes, Typed, TypeOK
  <2>3. CASE ~gTtdStopRequested /\ ~gTtdInterruptRequested /\ Reportable(run.hit)
    BY <2>3, HitQueued DEF Report, PointTypes, Typed, TypeOK
  <2>4. CASE ~gTtdStopRequested /\ ~gTtdInterruptRequested /\ ~Reportable(run.hit)
    <3>1. \A what \in {"exception", "break", "exit"} : Work(what, run.at) \in WorkItems
      BY DEF Typed, TypeOK, Work, WorkItems
    <3>2. QED
      BY <2>4, <3>1 DEF Report, points, PointTypes, Typed, TypeOK
  <2>5. QED
    BY <2>1, <2>2, <2>3, <2>4
<1>3. {gTtdStopRequested', gTtdInterruptRequested', gPauseCallback', stopping'} \subseteq BOOLEAN
  BY DEF Report, LeaveStop, flags, Typed, TypeOK
<1>4. run' = NoRun /\ run'.fresh = {} /\ loop' # "moving"
  BY DEF Report, NoRun
<1>5. QED
  BY <1>1, <1>2, <1>3, <1>4 DEF Report, PointTypes, Typed, TypeOK, Underway, timeline

LEMMA TypedEnd ==
  ASSUME Typed, EndSession
  PROVE  Typed'
BY DEF EndSession, Typed, TypeOK, Underway, NoPosition

\* A movement that is in progress ends with its call, or is about to be reported.
CallTypes == call \in [Caller -> [op : Movements \cup {"idle", "RequestPause"},
                                  phase : {"begin", "lock", "queue", "flag", "interrupt"},
                                  hit : Hits \cup {NoHit}]]

LEMMA CallKept ==
  ASSUME CallTypes, NEW c \in Caller
  PROVE  /\ Finished(c) => CallTypes'
         /\ \A op \in Movements \cup {"RequestPause"}, phase \in {"lock", "flag"} :
              call' = [call EXCEPT ![c] = [op |-> op, phase |-> phase, hit |-> NoHit]] => CallTypes'
         /\ \A hit \in Hits \cup {NoHit} :
              call' = [call EXCEPT ![c].phase = "queue", ![c].hit = hit] => CallTypes'
         /\ call' = [call EXCEPT ![c].phase = "interrupt"] => CallTypes'
<1>1. Finished(c) => CallTypes'
  BY DEF Finished, CallTypes, Idle
<1>2. ASSUME NEW op \in Movements \cup {"RequestPause"}, NEW phase \in {"lock", "flag"},
             call' = [call EXCEPT ![c] = [op |-> op, phase |-> phase, hit |-> NoHit]]
      PROVE  CallTypes'
  BY <1>2 DEF CallTypes
<1>3. ASSUME NEW hit \in Hits \cup {NoHit},
             call' = [call EXCEPT ![c].phase = "queue", ![c].hit = hit]
      PROVE  CallTypes'
  BY <1>3 DEF CallTypes
<1>4. call' = [call EXCEPT ![c].phase = "interrupt"] => CallTypes'
  BY DEF CallTypes
<1>5. QED
  BY <1>1, <1>2, <1>3, <1>4

\* What a step does to the cursor, the queue and the breakpoints.
LEMMA StepIs ==
  ASSUME Typed, NEW c \in Caller, replayStep(c)
  PROVE  \E back \in BOOLEAN : \E out \in Steps(back) :
           /\ out.at \in Position /\ out.moved \in BOOLEAN /\ out.hit \in Hits \cup {NoHit}
           /\ cursor' = out.at
           /\ IF out.moved
              THEN refreshTtdTimeline(out.at) /\ queue' = queue \o TimelineEvents(out.at)
              ELSE out.at = cursor /\ UNCHANGED <<timeline, queue>>
           /\ code' = code \/ (code' = code \cup ReturnBreakpoint /\ Call[cursor] # NoAddress)
           /\ CallTypes'
<1> DEFINE back == call[c].op = "ReplayStepBack"
<1>1. PICK out \in Steps(back) :
        LET over == call[c].op = "StepOver" /\ out.moved /\ out.hit = NoHit
                    /\ Call[cursor] # NoAddress
        IN  /\ cursor' = out.at
            /\ IF out.moved
               THEN refreshTtdTimeline(out.at) /\ queue' = queue \o TimelineEvents(out.at)
               ELSE UNCHANGED <<timeline, queue>>
            /\ code' = IF over THEN code \cup ReturnBreakpoint ELSE code
            /\ gTtdNextRunReverse' = (gTtdNextRunReverse /\ ~over)
            /\ IF over \/ (~out.moved /\ call[c].op = "ReplayStepBack") THEN Finished(c)
               ELSE call' = [call EXCEPT ![c].phase = "queue", ![c].hit = out.hit]
  BY DEF replayStep
<1>2. back \in BOOLEAN /\ cursor \in Position /\ CallTypes
  BY DEF Typed, TypeOK, CallTypes
<1> HIDE DEF back
<1>3. /\ out.at \in Position /\ out.moved \in BOOLEAN /\ out.hit \in Hits \cup {NoHit}
      /\ ~out.moved => out.at = cursor
  <2>1. CASE ~back /\ cursor = gTtdProcessExitBoundary
    <3>1. out = Outcome(cursor, NoHit, FALSE)
      BY <1>1, <2>1 DEF Steps
    <3>2. QED
      BY <3>1, <1>2 DEF Outcome
  <2>2. CASE out \in EngineStep(back, cursor)
    <3>1. ~out.moved => out.at = cursor
      BY <2>2 DEF EngineStep, Outcome
    <3>2. QED
      BY <2>2, <3>1, <1>2, EngineStepIs
  <2>3. QED
    BY <1>1, <2>1, <2>2 DEF Steps
<1>4. CallTypes'
  BY <1>1, <1>2, <1>3, CallKept
<1>5. code' = code \/ (code' = code \cup ReturnBreakpoint /\ Call[cursor] # NoAddress)
  <2> DEFINE over == call[c].op = "StepOver" /\ out.moved /\ out.hit = NoHit
                     /\ Call[cursor] # NoAddress
  <2>1. code' = IF over THEN code \cup ReturnBreakpoint ELSE code
    BY <1>1
  <2>2. QED
    BY <2>1
<1>6. IF out.moved THEN refreshTtdTimeline(out.at) /\ queue' = queue \o TimelineEvents(out.at)
      ELSE out.at = cursor /\ UNCHANGED <<timeline, queue>>
  BY <1>1, <1>3
<1>7. out \in Steps(back) /\ back \in BOOLEAN /\ cursor' = out.at
  BY <1>1, <1>2
<1>8. QED
  BY <1>3, <1>4, <1>5, <1>6, <1>7

LEMMA TypedMovement ==
  ASSUME Typed, NEW c \in Caller, ReplaySetPosition(c) \/ replayStep(c)
  PROVE  Typed'
<1>1. CASE ReplaySetPosition(c)
  <2>1. PICK p \in Position :
          cursor' = p /\ refreshTtdTimeline(p) /\ queue' = queue \o TimelineEvents(p)
    BY <1>1 DEF ReplaySetPosition
  <2>2. queue' \in Seq(WorkItems) /\ threads' \subseteq Thread /\ modules' \subseteq Module
    BY <2>1, TimelineEventsAre, RecordingAssumption DEF Typed, TypeOK, refreshTtdTimeline
  <2>3. CallTypes'
    BY <1>1, CallKept DEF ReplaySetPosition, Typed, TypeOK, CallTypes
  <2>4. QED
    BY <1>1, <2>1, <2>2, <2>3
    DEF ReplaySetPosition, Locks, Typed, TypeOK, CallTypes, Underway, points, flags
<1>2. CASE replayStep(c)
  <2>1. PICK back \in BOOLEAN : \E out \in Steps(back) :
           /\ out.at \in Position /\ out.moved \in BOOLEAN /\ out.hit \in Hits \cup {NoHit}
           /\ cursor' = out.at
           /\ IF out.moved
              THEN refreshTtdTimeline(out.at) /\ queue' = queue \o TimelineEvents(out.at)
              ELSE out.at = cursor /\ UNCHANGED <<timeline, queue>>
           /\ code' = code \/ (code' = code \cup ReturnBreakpoint /\ Call[cursor] # NoAddress)
           /\ CallTypes'
    BY <1>2, StepIs
  <2>2. /\ cursor' \in Position
        /\ \/ refreshTtdTimeline(cursor') /\ queue' = queue \o TimelineEvents(cursor')
           \/ UNCHANGED <<timeline, queue>>
    BY <2>1
  <2>7. queue' \in Seq(WorkItems) /\ threads' \subseteq Thread /\ modules' \subseteq Module
    <3>1. CASE UNCHANGED <<timeline, queue>>
      BY <3>1 DEF Typed, TypeOK, timeline
    <3>2. CASE refreshTtdTimeline(cursor') /\ queue' = queue \o TimelineEvents(cursor')
      BY <2>2, <3>2, TimelineEventsAre, RecordingAssumption DEF Typed, TypeOK, refreshTtdTimeline
    <3>3. QED
      BY <2>2, <3>1, <3>2
  <2>3. Call[cursor] # NoAddress => ReturnBreakpoint \subseteq Breakpoint
    <3>1. /\ cursor \in Position /\ Runs[cursor] \in Thread
          /\ Call[cursor] \in Address \cup {NoAddress}
      BY RecordingAssumption DEF Typed, TypeOK
    <3> SUFFICES ASSUME Call[cursor] # NoAddress, NEW b \in ReturnBreakpoint
                 PROVE  b \in Breakpoint
      OBVIOUS
    <3>2. b = [addr |-> Call[cursor], once |-> TRUE, owner |-> Runs[cursor]]
      BY DEF ReturnBreakpoint
    <3>3. QED
      BY <3>1, <3>2 DEF Breakpoint
  <2>4. code' \subseteq Breakpoint
    BY <2>1, <2>3 DEF Typed, TypeOK
  <2>5. gTtdNextRunReverse' \in BOOLEAN
    BY <1>2, Zenon DEF replayStep
  <2>6. QED
    BY <1>2, <2>1, <2>2, <2>7, <2>4, <2>5
    DEF replayStep, Locks, Typed, TypeOK, CallTypes, Underway, flags
<1>3. QED
  BY <1>1, <1>2

LEMMA TypedCalls ==
  ASSUME Typed, Calls
  PROVE  Typed'
<1>0. CallTypes
  BY DEF Typed, TypeOK, CallTypes
<1>1. ASSUME NEW c \in Caller, NEW op \in Movements, BeginMovement(c, op)
      PROVE  Typed'
  <2>1. CallTypes'
    BY <1>0, <1>1, CallKept DEF BeginMovement
  <2>2. QED
    BY <1>1, <2>1 DEF BeginMovement, CallTypes, Typed, TypeOK, Underway, points, timeline, flags
<1>2. ASSUME NEW c \in Caller, ReplaySetPosition(c) \/ replayStep(c)
      PROVE  Typed'
  BY <1>2, TypedMovement
<1>3. ASSUME NEW c \in Caller, ReplayRunBack(c)
      PROVE  Typed'
  <2>1. CallTypes'
    BY <1>0, <1>3, CallKept DEF ReplayRunBack
  <2>2. QED
    BY <1>3, <2>1 DEF ReplayRunBack, CallTypes, Typed, TypeOK, Underway, points, timeline, flags
<1>4. ASSUME NEW c \in Caller, QueueStep(c)
      PROVE  Typed'
  <2>1. CallTypes'
    BY <1>0, <1>4, CallKept DEF QueueStep
  <2>2. queue' \in Seq(WorkItems) /\ PointTypes'
    <3>1. CASE Reportable(call[c].hit)
      BY <1>4, <3>1, HitQueued DEF QueueStep, Typed, TypeOK, PointTypes
    <3>2. CASE ~Reportable(call[c].hit)
      <4>1. Work("step", cursor) \in WorkItems
        BY DEF Typed, TypeOK, Work, WorkItems
      <4>2. QED
        BY <1>4, <3>2, <4>1 DEF QueueStep, Typed, TypeOK, PointTypes, points
    <3>3. QED
      BY <3>1, <3>2
  <2>3. QED
    BY <1>4, <2>1, <2>2
    DEF QueueStep, CallTypes, PointTypes, Typed, TypeOK, Underway, timeline, flags
<1>5. ASSUME NEW c \in Caller, SetInterruptFlag(c) \/ InterruptReplay(c) \/ RequestPause(c)
      PROVE  Typed'
  <2>1. CallTypes'
    BY <1>0, <1>5, CallKept DEF SetInterruptFlag, InterruptReplay, RequestPause
  <2>2. cut' \in BOOLEAN
    BY <1>5, Zenon DEF SetInterruptFlag, InterruptReplay, RequestPause, Typed, TypeOK
  <2>3. CASE SetInterruptFlag(c)
    BY <2>1, <2>2, <2>3
    DEF SetInterruptFlag, InterruptNext, CallTypes, Typed, TypeOK, Underway, points, timeline
  <2>4. CASE InterruptReplay(c)
    BY <2>1, <2>2, <2>4
    DEF InterruptReplay, CallTypes, Typed, TypeOK, Underway, points, timeline, flags
  <2>5. CASE RequestPause(c)
    BY <2>1, <2>2, <2>5
    DEF RequestPause, CallTypes, Typed, TypeOK, Underway, points, timeline
  <2>6. QED
    BY <1>5, <2>3, <2>4, <2>5
<1>9. ASSUME NEW c \in Caller, CursorGone(c)
      PROVE  Typed'
  BY <1>9 DEF CursorGone, Typed, TypeOK, Underway, points, timeline, flags
<1>6. ASSUME \/ \E b \in UserCode : SetBPX(b)
             \/ \E a \in Address : DeleteBPX(a)
             \/ \E d \in UserData : SetMemoryBPXEx(d) \/ RemoveMemoryBPX(d)
      PROVE  Typed'
  <2>1. PointTypes'
    BY <1>6, RecordingAssumption
    DEF SetBPX, DeleteBPX, SetMemoryBPXEx, RemoveMemoryBPX, Typed, TypeOK, PointTypes, Breakpoint
  <2>2. Edited
    BY <1>6 DEF SetBPX, DeleteBPX, SetMemoryBPXEx, RemoveMemoryBPX
  <2>3. run' = run \/ \E b \in UserCode : run' = [run EXCEPT !.fresh = @ \cup {b}]
    BY <1>6 DEF SetBPX, DeleteBPX, SetMemoryBPXEx, RemoveMemoryBPX
  <2>4. UserCode \subseteq Breakpoint
    BY RecordingAssumption DEF Breakpoint
  <2>5. /\ run' \in [back : BOOLEAN, limit : Position, exception : BOOLEAN, at : Position,
                     hit : Hits \cup {NoHit}, cut : BOOLEAN, fresh : SUBSET Breakpoint]
        /\ run'.back = run.back /\ run'.limit = run.limit /\ run'.exception = run.exception
    BY <2>3, <2>4 DEF Typed, TypeOK
  <2>8. loop # "moving" => run' = run
    BY <1>6 DEF SetBPX, DeleteBPX, SetMemoryBPXEx, RemoveMemoryBPX
  <2>6. Underway'
    BY <2>2, <2>5, <2>8 DEF Edited, Typed, Underway, MovementLimit, NextException
  <2>7. QED
    BY <2>1, <2>2, <2>5, <2>6 DEF Edited, PointTypes, Typed, TypeOK, timeline, flags
<1>7. ASSUME StopDebug \/ StopInterrupts
      PROVE  Typed'
  <2>1. cut' \in BOOLEAN
    BY <1>7, Zenon DEF StopDebug, StopInterrupts, Typed, TypeOK
  <2>2. QED
    BY <1>7, <2>1 DEF StopDebug, StopInterrupts, Typed, TypeOK, Underway, points, timeline
<1>8. QED
  BY <1>1, <1>2, <1>3, <1>4, <1>5, <1>6, <1>7, <1>9 DEF Calls, Carry

LEMMA TypedNext == Typed /\ [Next]_vars => Typed'
<1> SUFFICES ASSUME Typed, [Next]_vars PROVE Typed'
  OBVIOUS
<1>1. CASE UNCHANGED vars
  BY <1>1 DEF vars, points, timeline, flags, Typed, TypeOK, Underway
<1>2. QED
  BY <1>1, TypedCallback, TypedBegin, TypedMove, TypedReport, TypedEnd, TypedCalls
  DEF Next, DebugLoop

\* Every variable stays in its type: the cursor, the limit of a run and the place
\* a run is parked at are positions of the recording, and the queue holds
\* callbacks for threads and modules that exist in it.
THEOREM ReplayTypeInvariant == Spec => []TypeOK
<1>1. Typed => TypeOK
  BY DEF Typed
<1>2. QED
  BY <1>1, InitTyped, TypedNext, PTL DEF Spec

LEMMA TypedInvariant == Spec => []Typed
BY InitTyped, TypedNext, PTL DEF Spec

-----------------------------------------------------------------------------
(* What is reported.                                                       *)

Own(item) == item.what = "code" /\ item.id.owner # User => Runs[item.id.at] = item.id.owner

\* The ways in which queue, cursor and tables change: nothing, or the front end
\* handles a callback, one that is no news of threads and modules is queued, or
\* the cursor is moved.
Quiet == UNCHANGED <<queue, shown, cursor, threads, modules>>
Handled == /\ queue # <<>> /\ queue' = Tail(queue)
           /\ shown' = Learn(shown, Head(queue), Tail(queue))
           /\ UNCHANGED <<cursor, threads, modules>>
Queued == \E item \in WorkItems :
            /\ queue' = Append(queue, item) /\ item.what \notin Told /\ Own(item)
            /\ UNCHANGED <<shown, cursor, threads, modules>>
Moved == /\ cursor' \in Position /\ refreshTtdTimeline(cursor')
         /\ queue' = queue \o TimelineEvents(cursor') /\ UNCHANGED shown
Ends == loop' = "ended" /\ UNCHANGED queue

LEMMA HitIsNoNews ==
  ASSUME Typed, NEW hit \in Hits \cup {NoHit}, Reportable(hit), queueTtdWatchpointHit(hit),
         UNCHANGED <<shown, cursor, threads, modules>>
  PROVE  Queued
<1>1. PICK item \in WorkItems :
        /\ queue' = Append(queue, item)
        /\ \/ item.what = "data"
           \/ item.what = "code" /\ item.id.owner \in {User, Runs[item.id.at]}
  BY HitQueued DEF Typed, TypeOK, PointTypes
<1>2. QED
  BY <1>1 DEF Queued, Own, Told

LEMMA PositionIsNoNews ==
  ASSUME NEW p \in Position, NEW what \in {"exception", "exit", "break", "pause", "step"},
         queue' = Append(queue, Work(what, p)), UNCHANGED <<shown, cursor, threads, modules>>
  PROVE  Queued
<1>1. Work(what, p) \in WorkItems /\ Work(what, p).what \notin Told /\ Own(Work(what, p))
  BY DEF Work, WorkItems, Told, Own
<1>2. QED
  BY <1>1 DEF Queued

\* Calls leave the loop where it is, or crash after its end, and of a run they
\* change at most what has been set while it moves.
LEMMA CallsLeave ==
  ASSUME Calls
  PROVE  /\ loop' = loop \/ (loop = "ended" /\ loop' = "crashed")
         /\ run' = run \/ (loop = "moving" /\ \E b : run' = [run EXCEPT !.fresh = @ \cup {b}])
<1>1. ASSUME NEW c \in Caller, Carry(c) \/ RequestPause(c)
                               \/ \E op \in Movements : BeginMovement(c, op)
      PROVE  (loop' = loop \/ (loop = "ended" /\ loop' = "crashed")) /\ run' = run
  BY <1>1 DEF Carry, RequestPause, BeginMovement, ReplaySetPosition, ReplayRunBack, replayStep,
     QueueStep, SetInterruptFlag, InterruptReplay, CursorGone
<1>2. ASSUME \/ \E a \in Address : DeleteBPX(a)
             \/ \E d \in UserData : SetMemoryBPXEx(d) \/ RemoveMemoryBPX(d)
             \/ StopDebug \/ StopInterrupts
      PROVE  loop' = loop /\ run' = run
  BY <1>2 DEF DeleteBPX, SetMemoryBPXEx, RemoveMemoryBPX, StopDebug, StopInterrupts, Edited
<1>3. ASSUME NEW b \in UserCode, SetBPX(b)
      PROVE  /\ loop' = loop
             /\ run' = run \/ (loop = "moving" /\ run' = [run EXCEPT !.fresh = @ \cup {b}])
  BY <1>3 DEF SetBPX, Edited
<1>4. QED
  BY <1>1, <1>2, <1>3 DEF Calls

LEMMA QueueChanges ==
  ASSUME Typed, Next
  PROVE  /\ Over => Over'
         /\ Quiet \/ Handled \/ Queued \/ Moved \/ Ends
<1>0. Over => Over'
  <2>1. DebugLoop => ~Over
    BY DEF DebugLoop, InvokeCallback, CallbackReturns, BeginRun, Move, Report, EndSession, Over
  <2>2. QED
    BY <2>1, CallsLeave DEF Over, Next
<1>1. CASE InvokeCallback
  BY <1>0, <1>1 DEF InvokeCallback, Handled, timeline
<1>2. CASE CallbackReturns \/ BeginRun
  BY <1>0, <1>2 DEF CallbackReturns, BeginRun, Quiet, timeline
<1>3. CASE Move
  BY <1>0, <1>3, MoveIs DEF Move, Moved
<1>4. CASE Report
  <2>1. /\ run.hit \in Hits \cup {NoHit} /\ run.at \in Position
        /\ UNCHANGED <<shown, cursor, threads, modules>>
    BY <1>4 DEF Report, timeline, Typed, TypeOK
  <2>2. CASE UNCHANGED queue
    BY <1>0, <2>1, <2>2 DEF Quiet
  <2>3. CASE Reportable(run.hit) /\ queueTtdWatchpointHit(run.hit)
    BY <1>0, <2>1, <2>3, HitIsNoNews
  <2>4. CASE \E what \in {"exception", "exit", "break", "pause"} :
               queue' = Append(queue, Work(what, run.at))
    BY <1>0, <2>1, <2>4, PositionIsNoNews
  <2>5. QED
    BY <1>4, <2>1, <2>2, <2>3, <2>4 DEF Report, LeaveStop
<1>5. CASE EndSession
  BY <1>0, <1>5 DEF EndSession, Ends
<1>6. ASSUME NEW c \in Caller, ReplaySetPosition(c)
      PROVE  Moved
  BY <1>6 DEF ReplaySetPosition, Moved, Locks
<1>7. ASSUME NEW c \in Caller, replayStep(c)
      PROVE  (Moved \/ Quiet)
  BY <1>7, StepIs DEF replayStep, Moved, Quiet, timeline, Locks
<1>8. ASSUME NEW c \in Caller, QueueStep(c)
      PROVE  Queued
  <2>1. /\ call[c].hit \in Hits \cup {NoHit} /\ cursor \in Position
        /\ UNCHANGED <<shown, cursor, threads, modules>>
    BY <1>8 DEF QueueStep, timeline, Typed, TypeOK
  <2>2. CASE Reportable(call[c].hit)
    BY <1>8, <2>1, <2>2, HitIsNoNews DEF QueueStep
  <2>3. CASE ~Reportable(call[c].hit)
    BY <1>8, <2>1, <2>3, PositionIsNoNews DEF QueueStep
  <2>4. QED
    BY <2>1, <2>2, <2>3
<1>9. ASSUME NEW c \in Caller,
             \/ ReplayRunBack(c) \/ SetInterruptFlag(c) \/ InterruptReplay(c) \/ RequestPause(c)
             \/ CursorGone(c)
             \/ \E op \in Movements : BeginMovement(c, op)
      PROVE  Quiet
  BY <1>9 DEF ReplayRunBack, SetInterruptFlag, InterruptReplay, RequestPause, BeginMovement,
     CursorGone, Quiet, timeline
<1>10. ASSUME \/ \E b \in UserCode : SetBPX(b)
              \/ \E a \in Address : DeleteBPX(a)
              \/ \E d \in UserData : SetMemoryBPXEx(d) \/ RemoveMemoryBPX(d)
       PROVE  Quiet
  <2>1. Edited
    BY <1>10 DEF SetBPX, DeleteBPX, SetMemoryBPXEx, RemoveMemoryBPX
  <2>2. QED
    BY <2>1 DEF Edited, Quiet, timeline
<1>11. CASE StopDebug \/ StopInterrupts
  BY <1>0, <1>11 DEF StopDebug, StopInterrupts, Quiet, timeline
<1>12. QED
  BY <1>0, <1>1, <1>2, <1>3, <1>4, <1>5, <1>6, <1>7, <1>8, <1>9, <1>10, <1>11
  DEF Next, DebugLoop, Calls, Carry

LEMMA OwnKept ==
  ASSUME Typed, StepOnOwnThread, Quiet \/ Handled \/ Queued \/ Moved \/ Ends
  PROVE  StepOnOwnThread'
<1> DEFINE Good(q) == \A i \in 1..Len(q) : Own(q[i])
<1>1. queue \in Seq(WorkItems) /\ \A q \in Seq(WorkItems) : DOMAIN q = 1..Len(q)
  BY DEF Typed, TypeOK
<1>2. Good(queue)
  BY <1>1 DEF StepOnOwnThread, Own
<1>3. ASSUME queue' \in Seq(WorkItems), Good(queue') PROVE StepOnOwnThread'
  BY <1>1, <1>3 DEF StepOnOwnThread, Own
<1>4. CASE Quiet \/ Ends
  BY <1>1, <1>2, <1>3, <1>4 DEF Quiet, Ends
<1>5. CASE Handled
  <2>1. queue # <<>> /\ queue' = Tail(queue)
    BY <1>5 DEF Handled
  <2>2. /\ queue' \in Seq(WorkItems) /\ Len(queue') = Len(queue) - 1
        /\ \A i \in 1..Len(queue') : queue'[i] = queue[i + 1]
    BY <1>1, <2>1, HeadTailProperties
  <2>3. QED
    BY <1>1, <1>2, <1>3, <2>2
<1>6. CASE Queued
  <2>1. PICK item \in WorkItems : queue' = Append(queue, item) /\ Own(item)
    BY <1>6 DEF Queued
  <2>2. /\ queue' \in Seq(WorkItems) /\ Len(queue') = Len(queue) + 1
        /\ \A i \in 1..Len(queue') : queue'[i] = IF i = Len(queue) + 1 THEN item ELSE queue[i]
    BY <1>1, <2>1
  <2>3. QED
    BY <1>1, <1>2, <1>3, <2>1, <2>2
<1>7. CASE Moved
  <2> DEFINE e == TimelineEvents(cursor')
  <2>1. /\ e \in Seq(WorkItems) /\ queue' = queue \o e
        /\ \A id : ~Has(e, "code", id)
    <3>1. cursor' \in Position /\ threads \subseteq Thread /\ modules \subseteq Module
      BY <1>7 DEF Moved, Typed, TypeOK
    <3>2. e \in Seq(WorkItems)
      BY <3>1, TimelineEventsAre
    <3>3. ASSUME NEW id PROVE ~Has(e, "code", id)
      BY <3>1, TimelineEventsAre
    <3>4. QED
      BY <1>7, <3>2, <3>3 DEF Moved
  <2> HIDE DEF e
  <2>2. ASSUME NEW i \in 1..Len(e) PROVE Own(e[i])
    <3>1. e[i] \in WorkItems
      BY <2>1
    <3>2. e[i].what = "code" => e[i] = Work("code", e[i].id)
      BY <3>1 DEF WorkItems, Work
    <3>3. QED
      BY <2>1, <3>2 DEF Own, Has
  <2>3. /\ queue' \in Seq(WorkItems) /\ Len(queue') = Len(queue) + Len(e)
        /\ \A i \in 1..Len(queue') :
             queue'[i] = IF i <= Len(queue) THEN queue[i] ELSE e[i - Len(queue)]
    BY <1>1, <2>1, ConcatProperties
  <2>4. Len(queue) \in Nat /\ Len(e) \in Nat
    BY <1>1, <2>1
  <2>5. ASSUME NEW i \in 1..Len(queue') PROVE Own(queue'[i])
    <3>1. CASE i <= Len(queue)
      BY <3>1, <1>2, <2>3, <2>4
    <3>2. CASE i > Len(queue)
      <4>1. i - Len(queue) \in 1..Len(e) /\ queue'[i] = e[i - Len(queue)]
        BY <3>2, <2>3, <2>4
      <4>2. QED
        BY <4>1, <2>2
    <3>3. QED
      BY <3>1, <3>2, <2>4
  <2>6. QED
    BY <1>3, <2>3, <2>5
<1>8. QED
  BY <1>4, <1>5, <1>6, <1>7

\* A temporary breakpoint's callback in the queue is for the thread that stepped,
\* on any recording, however runs, steps, deletions and seeks are interleaved
\* between the hit and its report.
THEOREM StepOnOwnThreadInvariant == Spec => []StepOnOwnThread
<1>1. Init => StepOnOwnThread
  <2> SUFFICES ASSUME Init PROVE StepOnOwnThread
    OBVIOUS
  <2> DEFINE a == EventsFor("thread", Alive[0])
             c == EventsFor("module", Mapped[0])
             d == <<Work("break", 0)>>
  <2>1. /\ 0 \in Position /\ Alive[0] \subseteq Thread /\ Mapped[0] \subseteq Module
        /\ IsFiniteSet(Alive[0]) /\ IsFiniteSet(Mapped[0])
    BY RecordingAssumption, FS_Subset DEF Position
  <2>2. /\ a \in Seq([what : {"thread"}, id : Alive[0]])
        /\ c \in Seq([what : {"module"}, id : Mapped[0]])
    BY <2>1, EventsForIs
  <2> DEFINE Others == [what : {"thread"}, id : Alive[0]] \cup [what : {"module"}, id : Mapped[0]]
                       \cup [what : {"break"}, id : {0}]
  <2>3. a \in Seq(Others)
    <3>1. [what : {"thread"}, id : Alive[0]] \subseteq Others
      OBVIOUS
    <3> HIDE DEF a, Others
    <3>2. QED
      BY <2>2, <3>1, SeqMonotonic
  <2>4. c \in Seq(Others)
    <3>1. [what : {"module"}, id : Mapped[0]] \subseteq Others
      OBVIOUS
    <3> HIDE DEF c, Others
    <3>2. QED
      BY <2>2, <3>1, SeqMonotonic
  <2>5. d \in Seq(Others)
    BY DEF Work
  <2> HIDE DEF a, c, d
  <2>6. (a \o c) \o d \in Seq(Others)
    BY <2>3, <2>4, <2>5 DEF Others
  <2>7. queue \in Seq(Others)
    BY <2>6 DEF Init, a, c, d
  <2>8. \A item \in Others : item.what # "code"
    OBVIOUS
  <2> HIDE DEF Others
  <2>9. \A i \in DOMAIN queue : queue[i] \in Others
    BY <2>7
  <2>10. QED
    BY <2>8, <2>9 DEF StepOnOwnThread
<1>2. Typed /\ StepOnOwnThread /\ [Next]_vars => StepOnOwnThread'
  <2>1. CASE UNCHANGED vars
    BY <2>1 DEF vars, StepOnOwnThread
  <2>2. QED
    BY <2>1, QueueChanges, OwnKept
<1>3. QED
  BY <1>1, <1>2, TypedInvariant, PTL DEF Spec

-----------------------------------------------------------------------------
(* The timeline.                                                           *)

\* What the front end will know of the threads, and of the modules.
Threads(q, known) == {t \in Thread : Announced(q, "thread", "exitthread", known, t)}
Modules(q, known) == {m \in Module : Announced(q, "module", "unload", known, m)}
\* The threads the front end has been told of, by their system ids.
Known == {t \in Thread : SystemId[t] \in shown.threads}
WillKnow == threads = Threads(queue, Known) /\ modules = Modules(queue, shown.modules)
Informed == ~Over => threads = Alive[cursor] /\ modules = Mapped[cursor] /\ WillKnow

LEMMA ToldInit == Init => Informed
<1> SUFFICES ASSUME Init PROVE Informed
  OBVIOUS
<1> DEFINE a == EventsFor("thread", Alive[0])
           c == EventsFor("module", Mapped[0])
           d == <<Work("break", 0)>>
<1>1. /\ 0 \in Position /\ Alive[0] \subseteq Thread /\ Mapped[0] \subseteq Module
      /\ IsFiniteSet(Alive[0]) /\ IsFiniteSet(Mapped[0])
  BY RecordingAssumption, FS_Subset DEF Position
<1>2. /\ a \in Seq([what : {"thread"}, id : Alive[0]])
      /\ c \in Seq([what : {"module"}, id : Mapped[0]])
      /\ \A w, id : Has(a, w, id) <=> w = "thread" /\ id \in Alive[0]
      /\ \A w, id : Has(c, w, id) <=> w = "module" /\ id \in Mapped[0]
  BY <1>1, EventsForIs
<1>3. \A w, id : Has(d, w, id) <=> w = "break" /\ id = 0
  BY DEF Has, Work
<1> HIDE DEF a, c
<1>4. /\ [what : {"thread"}, id : Alive[0]] \subseteq WorkItems
      /\ [what : {"module"}, id : Mapped[0]] \subseteq WorkItems
      /\ Work("break", 0) \in WorkItems
  BY <1>1 DEF WorkItems, Work
<1>5. d \in Seq(WorkItems)
  BY <1>4
<1>6. a \in Seq(WorkItems)
  BY <1>2, <1>4, SeqMonotonic
<1>7. c \in Seq(WorkItems)
  BY <1>2, <1>4, SeqMonotonic
<1> DEFINE ac == a \o c
<1>8. queue = ac \o d
  BY DEF Init, a, c, d
<1>9. ac \in Seq(WorkItems) /\ \A w, id : Has(ac, w, id) <=> Has(a, w, id) \/ Has(c, w, id)
  BY <1>6, <1>7, HasConcat
<1> HIDE DEF ac, d
<1>10. queue \in Seq(WorkItems) /\ \A w, id : Has(queue, w, id) <=> Has(ac, w, id) \/ Has(d, w, id)
  BY <1>5, <1>8, <1>9, HasConcat
<1>11. \A w, id : Has(queue, w, id) <=> \/ w = "thread" /\ id \in Alive[0]
                                        \/ w = "module" /\ id \in Mapped[0]
                                        \/ w = "break" /\ id = 0
  BY <1>2, <1>3, <1>9, <1>10
<1>12. <<>> \o queue = queue /\ <<>> \in Seq(WorkItems)
  BY <1>10, ConcatEmptySeq
<1>13. ASSUME NEW id
       PROVE  /\ Announced(queue, "thread", "exitthread", {}, id) <=> id \in Alive[0]
              /\ Announced(queue, "module", "unload", {}, id) <=> id \in Mapped[0]
  <2> DEFINE none == <<>>
  <2>1. /\ ~Announced(none, "thread", "exitthread", {}, id)
        /\ ~Announced(none, "module", "unload", {}, id)
    BY DEF Announced
  <2>2. none \in Seq(WorkItems) /\ none \o queue = queue
    BY <1>12
  <2> HIDE DEF none
  <2>3. Has(queue, "thread", id) <=> id \in Alive[0]
    BY <1>11
  <2>4. Has(queue, "module", id) <=> id \in Mapped[0]
    BY <1>11
  <2>5. ~Has(queue, "exitthread", id) /\ ~Has(queue, "unload", id)
    BY <1>11
  <2>6. Announced(none \o queue, "thread", "exitthread", {}, id) <=> Has(queue, "thread", id)
    BY <1>10, <2>1, <2>2, <2>5, AnnouncedConcat
  <2>7. Announced(none \o queue, "module", "unload", {}, id) <=> Has(queue, "module", id)
    BY <1>10, <2>1, <2>2, <2>5, AnnouncedConcat
  <2>8. QED
    BY <2>2, <2>3, <2>4, <2>6, <2>7
<1>14. threads = Alive[0] /\ modules = Mapped[0] /\ cursor = 0
       /\ Known = {} /\ shown.modules = {}
  BY DEF Init, Known
<1>15. QED
  BY <1>1, <1>13, <1>14 DEF Informed, WillKnow, Threads, Modules

\* The front end learns from a callback what Announced counts on, but for a new
\* thread whose end is queued: then it hears of the thread at the cursor.
LEMMA LearnIs ==
  ASSUME IdsUnique, Typed, NEW item \in WorkItems, NEW rest,
         shown' = Learn(shown, item, rest)
  PROVE  /\ \A t \in Thread : t \in Known' <=>
              \/ /\ item.what = "thread"
                 /\ t = IF \E i \in DOMAIN rest : rest[i] = Work("exitthread", item.id)
                        THEN Runs[cursor] ELSE item.id
              \/ t \in Known /\ item # Work("exitthread", t)
         /\ \A m \in Module : m \in shown'.modules <=>
              \/ item = Work("module", m)
              \/ m \in shown.modules /\ item # Work("unload", m)
<1>1. /\ \A what, id : item = Work(what, id) <=> item.what = what /\ item.id = id
      /\ item.what \in {"thread", "exitthread"} => item.id \in Thread
      /\ item.what \in {"module", "unload"} => item.id \in Module
  BY DEF WorkItems, Work
<1>2. /\ shown \in [threads : SUBSET {SystemId[t] : t \in Thread}, modules : SUBSET Module]
      /\ Runs[cursor] \in Thread
  BY RecordingAssumption DEF Typed, TypeOK
<1>3. CASE item.what = "thread"
  <2> DEFINE u == IF \E i \in DOMAIN rest : rest[i] = Work("exitthread", item.id)
                  THEN Runs[cursor] ELSE item.id
  <2>1. u \in Thread /\ CreatedId(item.id, rest) = SystemId[u]
    BY <1>1, <1>2, <1>3 DEF CreatedId
  <2> HIDE DEF u
  <2>2. shown' = [shown EXCEPT !.threads = @ \cup {SystemId[u]}]
    BY <1>3, <2>1 DEF Learn
  <2>3. \A t \in Thread : SystemId[t] = SystemId[u] => t = u
    BY <2>1 DEF IdsUnique
  <2>4. \A t \in Thread : t \in Known' <=> t = u \/ t \in Known
    BY <1>2, <2>2, <2>3 DEF Known
  <2>5. shown'.modules = shown.modules
    BY <1>2, <2>2
  <2>6. QED
    BY <1>1, <1>3, <2>4, <2>5 DEF u
<1>4. CASE item.what = "exitthread"
  <2>1. shown' = [shown EXCEPT !.threads = @ \ {SystemId[item.id]}]
    BY <1>4 DEF Learn
  <2>2. \A t \in Thread : SystemId[t] = SystemId[item.id] => t = item.id
    BY <1>1, <1>4 DEF IdsUnique
  <2>3. \A t \in Thread : t \in Known' <=> t \in Known /\ t # item.id
    BY <1>2, <2>1, <2>2 DEF Known
  <2>4. QED
    BY <1>1, <1>2, <1>4, <2>1, <2>3
<1>5. CASE item.what \in {"module", "unload"}
  <2>1. NewAmong(shown.modules, {item.id}) = shown.modules \ {item.id}
    BY <1>1, <1>2, <1>5, NewAmongIs
  <2>2. shown' = [shown EXCEPT !.modules = IF item.what = "module" THEN @ \cup {item.id}
                                           ELSE @ \ {item.id}]
    BY <1>2, <1>5, <2>1 DEF Learn
  <2>3. Known' = Known
    BY <1>2, <2>2 DEF Known
  <2>4. QED
    BY <1>1, <1>2, <1>5, <2>2, <2>3
<1>6. CASE item.what \notin Told
  <2>1. shown' = shown
    BY <1>6 DEF Learn, Told
  <2>2. QED
    BY <1>1, <1>6, <2>1 DEF Known, Told
<1>7. QED
  BY <1>3, <1>4, <1>5, <1>6 DEF Told

\* So what it will know of threads stays the same.
LEMMA HandledKnown ==
  ASSUME IdsUnique, Typed, Handled, WillKnow, threads = Alive[cursor], NEW t \in Thread
  PROVE  Announced(queue', "thread", "exitthread", Known', t)
           <=> Announced(queue, "thread", "exitthread", Known, t)
<1> DEFINE q == queue
           r == queue'
           item == Head(queue)
           learnt == {x \in Thread : \/ item = Work("thread", x)
                                     \/ x \in Known /\ item # Work("exitthread", x)}
           late == item.what = "thread" /\ Has(r, "exitthread", item.id)
<1>1. /\ q \in Seq(WorkItems) /\ q # <<>> /\ item \in WorkItems /\ r = Tail(q)
      /\ r \in Seq(WorkItems) /\ shown' = Learn(shown, item, r)
  BY HeadTailProperties DEF Handled, Typed, TypeOK
<1>2. /\ Len(r) \in Nat /\ DOMAIN r = 1..Len(r)
      /\ \A what, id : item = Work(what, id) <=> item.what = what /\ item.id = id
  BY <1>1 DEF WorkItems, Work
<1>3. t \in Known' <=> \/ item.what = "thread" /\ t = IF late THEN Runs[cursor] ELSE item.id
                       \/ t \in Known /\ item # Work("exitthread", t)
  <2>1. t \in Known' <=>
          \/ /\ item.what = "thread"
             /\ t = IF \E i \in DOMAIN r : r[i] = Work("exitthread", item.id)
                    THEN Runs[cursor] ELSE item.id
          \/ t \in Known /\ item # Work("exitthread", t)
    <3>1. PICK new \in WorkItems : new = item
      BY <1>1
    <3>2. PICK rest : rest = r
      OBVIOUS
    <3>3. shown' = Learn(shown, new, rest)
      BY <1>1, <3>1, <3>2
    <3>4. t \in Known' <=>
            \/ /\ new.what = "thread"
               /\ t = IF \E i \in DOMAIN rest : rest[i] = Work("exitthread", new.id)
                      THEN Runs[cursor] ELSE new.id
            \/ t \in Known /\ new # Work("exitthread", t)
      BY <3>3, LearnIs
    <3> HIDE DEF item, r
    <3>5. QED
      BY <3>1, <3>2, <3>4
  <2>2. Has(r, "exitthread", item.id) <=> \E i \in DOMAIN r : r[i] = Work("exitthread", item.id)
    BY <1>2 DEF Has
  <2>3. QED
    BY <2>1, <2>2
<1>4. t \in learnt <=> item = Work("thread", t) \/ (t \in Known /\ item # Work("exitthread", t))
  OBVIOUS
<1>5. Runs[cursor] \in threads
  BY RecordingAssumption DEF Typed, TypeOK
<1>6. \A x \in Thread : x \in threads => Announced(q, "thread", "exitthread", Known, x)
  BY DEF WillKnow, Threads
<1>7. Announced(r, "thread", "exitthread", learnt, t) <=> Announced(q, "thread", "exitthread",
     Known, t)
  <2> HIDE DEF q, r, learnt
  <2>1. t \in learnt <=> \/ Head(q) = Work("thread", t)
                         \/ t \in Known /\ Head(q) # Work("exitthread", t)
    BY <1>4 DEF q
  <2>2. QED
    BY <1>1, <2>1, AnnouncedTail
<1> HIDE DEF q, r, item, learnt, late
<1>8. CASE t \in Known' <=> t \in learnt
  BY <1>2, <1>7, <1>8, AnnouncedFrom DEF q, r
<1>9. CASE t \in learnt /\ t \notin Known'
  <2>1. Has(r, "exitthread", t)
    BY <1>2, <1>3, <1>4, <1>9 DEF late
  <2>2. QED
    BY <1>2, <1>7, <2>1, AnnouncedFrom DEF q, r
<1>10. CASE t \in Known' /\ t \notin learnt
  <2>1. t = Runs[cursor]
    BY <1>2, <1>3, <1>4, <1>10
  <2>2. Announced(q, "thread", "exitthread", Known, t)
    BY <1>5, <1>6, <2>1
  <2>3. Announced(r, "thread", "exitthread", Known', t)
    BY <1>2, <1>7, <1>10, <2>2, AnnouncedFrom
  <2>4. QED
    BY <2>2, <2>3 DEF q, r
<1>11. QED
  BY <1>8, <1>9, <1>10

\* Whatever changes the queue or the tables, the queue tells of it.
LEMMA ToldKept ==
  ASSUME IdsUnique, Typed, WillKnow, threads = Alive[cursor], Quiet \/ Handled \/ Queued \/ Moved
  PROVE  WillKnow'
<1>1. queue \in Seq(WorkItems) /\ threads \subseteq Thread /\ modules \subseteq Module
      /\ shown \in [threads : SUBSET {SystemId[t] : t \in Thread}, modules : SUBSET Module]
  BY DEF Typed, TypeOK
<1>2. /\ \A t \in Thread : t \in threads <=> Announced(queue, "thread", "exitthread", Known, t)
      /\ \A m \in Module : m \in modules <=> Announced(queue, "module", "unload", shown.modules, m)
  BY DEF WillKnow, Threads, Modules
<1>3. ASSUME threads' \subseteq Thread, modules' \subseteq Module,
             \A t \in Thread :
               t \in threads' <=> Announced(queue', "thread", "exitthread", Known', t),
             \A m \in Module :
               m \in modules' <=> Announced(queue', "module", "unload", shown'.modules, m)
      PROVE  WillKnow'
  BY <1>3 DEF WillKnow, Threads, Modules
<1>4. CASE Quiet
  BY <1>4 DEF Quiet, WillKnow, Known
<1>5. CASE Handled
  <2>1. /\ queue # <<>> /\ Head(queue) \in WorkItems /\ queue' = Tail(queue)
        /\ shown' = Learn(shown, Head(queue), Tail(queue)) /\ UNCHANGED <<threads, modules>>
    BY <1>1, <1>5, HeadTailProperties DEF Handled
  <2>2. ASSUME NEW m \in Module
        PROVE  Announced(queue', "module", "unload", shown'.modules, m)
                 <=> Announced(queue, "module", "unload", shown.modules, m)
    <3>1. m \in shown'.modules <=> \/ Head(queue) = Work("module", m)
                                   \/ m \in shown.modules /\ Head(queue) # Work("unload", m)
      BY <2>1, LearnIs
    <3>2. QED
      BY <1>1, <2>1, <3>1, AnnouncedTail
  <2>3. QED
    BY <1>1, <1>2, <1>3, <1>5, <2>1, <2>2, HandledKnown
<1>6. CASE Queued
  <2>1. PICK item \in WorkItems : /\ queue' = Append(queue, item) /\ item.what \notin Told
                                  /\ UNCHANGED <<shown, threads, modules>> /\ Known' = Known
    BY <1>6 DEF Queued, Known
  <2> DEFINE e == <<item>>
  <2>2. e \in Seq(WorkItems) /\ queue' = queue \o e
    BY <1>1, <2>1
  <2>3. \A w \in Told : \A id : ~Has(e, w, id)
    BY <2>1 DEF Has, Work
  <2> HIDE DEF e
  <2>4. ASSUME NEW t \in Thread
        PROVE  Announced(queue', "thread", "exitthread", Known', t)
                 <=> Announced(queue, "thread", "exitthread", Known, t)
    <3>1. ~Has(e, "thread", t) /\ ~Has(e, "exitthread", t)
      BY <2>3 DEF Told
    <3>2. QED
      BY <1>1, <2>1, <2>2, <3>1, AnnouncedConcat
  <2>5. ASSUME NEW m \in Module
        PROVE  Announced(queue', "module", "unload", shown'.modules, m)
                 <=> Announced(queue, "module", "unload", shown.modules, m)
    <3>1. ~Has(e, "module", m) /\ ~Has(e, "unload", m)
      BY <2>3 DEF Told
    <3>2. QED
      BY <1>1, <2>1, <2>2, <3>1, AnnouncedConcat
  <2>6. QED
    BY <1>1, <1>2, <1>3, <2>1, <2>4, <2>5
<1>7. CASE Moved
  <2> DEFINE e == TimelineEvents(cursor')
  <2>1. /\ cursor' \in Position /\ threads' = Alive[cursor'] /\ modules' = Mapped[cursor']
        /\ queue' = queue \o e /\ shown' = shown /\ Known' = Known
    BY <1>7 DEF Moved, refreshTtdTimeline, Known
  <2>2. threads' \subseteq Thread /\ modules' \subseteq Module
    BY <2>1, RecordingAssumption
  <2>3. e \in Seq(WorkItems)
    BY <1>1, <2>1, TimelineEventsAre
  <2>4. ASSUME NEW id
        PROVE  /\ Has(e, "thread", id) <=> id \in threads' \ threads
               /\ Has(e, "exitthread", id) <=> id \in threads \ threads'
               /\ Has(e, "module", id) <=> id \in modules' \ modules
               /\ Has(e, "unload", id) <=> id \in modules \ modules'
    <3>1. NewAmong(modules', modules) = modules' \ modules /\ NewAmong(modules,
           modules') = modules \ modules'
      BY <1>1, <2>2, NewAmongIs
    <3>2. /\ Has(e, "thread", id) <=> id \in Alive[cursor'] \ threads
          /\ Has(e, "exitthread", id) <=> id \in threads \ Alive[cursor']
          /\ Has(e, "module", id) <=> id \in NewAmong(Mapped[cursor'], modules)
          /\ Has(e, "unload", id) <=> id \in NewAmong(modules, Mapped[cursor'])
      BY <1>1, <2>1, TimelineEventsAre
    <3> HIDE DEF e
    <3>3. QED
      BY <2>1, <3>1, <3>2
  <2> HIDE DEF e
  <2>5. ASSUME NEW t \in Thread
        PROVE  t \in threads' <=> Announced(queue', "thread", "exitthread", Known', t)
    <3>1. Announced(queue \o e, "thread", "exitthread", Known, t) <=>
            \/ Has(e, "thread", t)
            \/ Announced(queue, "thread", "exitthread", Known, t) /\ ~Has(e, "exitthread", t)
      BY <1>1, <2>3, <2>4, AnnouncedConcat
    <3>2. QED
      BY <1>2, <2>1, <2>4, <3>1
  <2>6. ASSUME NEW m \in Module
        PROVE  m \in modules' <=> Announced(queue', "module", "unload", shown'.modules, m)
    <3>1. Announced(queue \o e, "module", "unload", shown.modules, m) <=>
            \/ Has(e, "module", m)
            \/ Announced(queue, "module", "unload", shown.modules, m) /\ ~Has(e, "unload", m)
      BY <1>1, <2>3, <2>4, AnnouncedConcat
    <3>2. QED
      BY <1>2, <2>1, <2>4, <3>1
  <2>7. QED
    BY <1>3, <2>2, <2>5, <2>6
<1>8. QED
  BY <1>4, <1>5, <1>6, <1>7

\* The front end's lists of threads and modules come out right once it has
\* handled the queued callbacks, on any recording that uses no id twice and for any
\* sequence of runs, seeks and steps, with the callbacks of earlier ones still queued
\* and threads announced after they have ended.
THEOREM TimelineReportedInvariant == Spec => []TimelineReported
<1>1. ASSUME IdsUnique, Typed, Informed, [Next]_vars
      PROVE  Informed'
  <2> SUFFICES ASSUME ~Over'
               PROVE  Informed'
    BY DEF Informed
  <2>1. CASE UNCHANGED vars
    BY <1>1, <2>1 DEF vars, timeline, Informed, WillKnow, Known, Over
  <2>2. CASE Next
    <3>1. ~Over /\ (Quiet \/ Handled \/ Queued \/ Moved)
      BY <1>1, <2>2, QueueChanges DEF Ends, Over
    <3>2. WillKnow /\ threads = Alive[cursor] /\ modules = Mapped[cursor]
      BY <1>1, <3>1 DEF Informed
    <3>3. threads' = Alive[cursor'] /\ modules' = Mapped[cursor']
      BY <3>1, <3>2 DEF Quiet, Handled, Queued, Moved, refreshTtdTimeline
    <3>4. WillKnow'
      BY <1>1, <3>1, <3>2, ToldKept
    <3>5. QED
      BY <3>3, <3>4 DEF Informed
  <2>3. QED
    BY <1>1, <2>1, <2>2
<1>2. ASSUME IdsUnique => Informed, Typed
      PROVE  TimelineReported
  <2> SUFFICES ASSUME IdsUnique, ~Over
               PROVE  /\ threads = Alive[cursor] /\ modules = Mapped[cursor]
                      /\ queue = <<>> =>
                           shown = [threads |-> {SystemId[t] : t \in threads}, modules |-> modules]
    BY DEF TimelineReported
  <2>1. WillKnow /\ threads = Alive[cursor] /\ modules = Mapped[cursor]
    BY <1>2 DEF Informed
  <2>2. ASSUME queue = <<>>
        PROVE  shown = [threads |-> {SystemId[t] : t \in threads}, modules |-> modules]
    <3>1. shown \in [threads : SUBSET {SystemId[t] : t \in Thread}, modules : SUBSET Module]
      BY <1>2 DEF Typed, TypeOK
    <3>2. \A here, gone, known, id : Announced(queue, here, gone, known, id) <=> id \in known
      BY <2>2 DEF Announced
    <3>3. threads = Known /\ modules = shown.modules
      BY <2>1, <3>1, <3>2 DEF WillKnow, Threads, Modules, Known
    <3>4. shown.threads = {SystemId[t] : t \in threads}
      BY <3>1, <3>3 DEF Known
    <3>5. QED
      BY <3>1, <3>3, <3>4
  <2>3. QED
    BY <2>1, <2>2
<1>4. Typed /\ (IdsUnique => Informed) /\ [Next]_vars => (IdsUnique => Informed)'
  BY <1>1 DEF IdsUnique
<1>5. (IdsUnique => Informed) /\ Typed => TimelineReported
  BY <1>2
<1>6. Init => (IdsUnique => Informed)
  BY ToldInit
<1>7. QED
  BY <1>4, <1>5, <1>6, TypedInvariant, PTL DEF Spec

-----------------------------------------------------------------------------
(* The exit.                                                               *)

\* A forward run that was not interrupted and has found nothing is at the end.
Arrived ==
  loop = "report" /\ ~run.back /\ ~run.cut /\ run.hit = NoHit /\ ~run.exception
    => run.at >= LastPosition - 1

\* Where a replay that was not cut short and has found nothing ends.
LEMMA UncutIs ==
  ASSUME Typed, loop = "moving", ~cut, ~run.back,
         NEW out \in EngineRun(run.back, cursor, run.limit, Interruptible), out.hit = NoHit
  PROVE  /\ out.at = run.limit
         /\ ~run.exception => out.at = LastPosition
<1>1. run.back \in BOOLEAN /\ cursor \in Position /\ Interruptible \in BOOLEAN
  BY DEF Typed, TypeOK, Interruptible
<1>2. run.limit = MovementLimit(run.back, cursor)
      /\ (~run.exception => NextException(run.back, cursor) = {})
  BY DEF Typed, Underway
<1>3. ~Interruptible
  BY DEF Interruptible
<1>4. out.at = run.limit
  BY <1>1, <1>2, <1>3, LimitIs, EngineRunIs
<1>5. QED
  BY <1>1, <1>2, <1>4, LimitIs

LEMMA ArrivedByMove ==
  ASSUME Typed, Move
  PROVE  /\ Arrived'
         /\ ~cut /\ gTtdProcessExitBoundary' # gTtdProcessExitBoundary
              => gTtdProcessExitBoundary' = LastPosition - 1
<1>1. PICK out \in EngineRun(run.back, cursor, run.limit, Interruptible), back \in {0, 1} :
        /\ back = 1 => AtExit(out) /\ out.at - 1 \in Position
        /\ cursor' = out.at - back /\ cursor' \in Position
        /\ gTtdProcessExitBoundary' = IF back = 1 THEN cursor' ELSE gTtdProcessExitBoundary
        /\ run' = [run EXCEPT !.at = cursor', !.hit = out.hit, !.cut = cut, !.fresh = {},
                              !.exception = @ /\ out.at = run.limit]
  BY MoveIs
<1>2. loop = "moving" /\ LastPosition \in Nat
  BY RecordingAssumption DEF Move
<1>3. Arrived'
  <2> SUFFICES ASSUME ~run'.back, ~run'.cut, run'.hit = NoHit, ~run'.exception
               PROVE  run'.at >= LastPosition - 1
    BY DEF Arrived
  <2>1. /\ run'.back = run.back /\ run'.cut = cut /\ run'.hit = out.hit /\ run'.at = cursor'
        /\ run'.exception = (run.exception /\ out.at = run.limit)
    BY <1>1 DEF Typed, TypeOK
  <2>2. out.at = run.limit /\ (~run.exception => out.at = LastPosition)
    BY <1>2, <2>1, UncutIs
  <2>3. out.at = LastPosition
    BY <2>1, <2>2
  <2>4. QED
    BY <1>1, <1>2, <2>1, <2>3
<1>4. ASSUME ~cut, gTtdProcessExitBoundary' # gTtdProcessExitBoundary
      PROVE  gTtdProcessExitBoundary' = LastPosition - 1
  <2>1. back = 1 /\ AtExit(out) /\ gTtdProcessExitBoundary' = out.at - 1
    BY <1>1, <1>4
  <2>2. ~run.back /\ out.hit = NoHit /\ ~(run.exception /\ out.at = run.limit)
    BY <2>1 DEF AtExit
  <2>3. out.at = LastPosition
    BY <1>2, <1>4, <2>2, UncutIs
  <2>4. QED
    BY <2>1, <2>3
<1>5. QED
  BY <1>3, <1>4

LEMMA ArrivedKept ==
  ASSUME Typed, Arrived, Next
  PROVE  Arrived'
<1>1. CASE Move
  BY <1>1, ArrivedByMove
<1>2. CASE InvokeCallback \/ CallbackReturns \/ BeginRun \/ Report \/ EndSession
  BY <1>2 DEF InvokeCallback, CallbackReturns, BeginRun, Report, EndSession, Arrived
<1>3. CASE Calls
  <2>1. CASE loop = "report"
    BY <1>3, <2>1, CallsLeave DEF Arrived
  <2>2. CASE loop # "report"
    BY <1>3, <2>2, CallsLeave DEF Arrived
  <2>3. QED
    BY <2>1, <2>2
<1>4. QED
  BY <1>1, <1>2, <1>3 DEF Next, DebugLoop

ExitStep ==
  /\ Move /\ ~cut /\ gTtdProcessExitBoundary' # gTtdProcessExitBoundary
       => gTtdProcessExitBoundary' = LastPosition - 1
  /\ Report /\ ~run.cut /\ run.hit = NoHit /\ queue' # queue /\ Last(queue').what = "exit"
       => run.at >= LastPosition - 1

LEMMA ExitReported ==
  ASSUME Typed, Arrived, Report, ~run.cut, run.hit = NoHit, queue' # queue,
         Last(queue').what = "exit"
  PROVE  run.at >= LastPosition - 1
<1>1. ~gTtdStopRequested
  BY DEF Report, LeaveStop
<1>2. ~Reportable(run.hit) /\ queue \in Seq(WorkItems) /\ loop = "report"
  BY DEF Reportable, Report, Typed, TypeOK
<1>3. \A item : Last(Append(queue, item)) = item
  BY <1>2 DEF Last
<1>4. ~gTtdInterruptRequested
  <2> SUFFICES ASSUME gTtdInterruptRequested PROVE FALSE
    OBVIOUS
  <2>1. \E what \in {"pause", "break"} : queue' = Append(queue, Work(what, run.at))
    BY <1>1 DEF Report
  <2>2. QED
    BY <1>3, <2>1 DEF Work
<1>5. queue' = Append(queue, Work(IF run.exception THEN "exception"
                                  ELSE IF run.back THEN "break" ELSE "exit", run.at))
  BY <1>1, <1>2, <1>4 DEF Report
<1>6. ~run.exception /\ ~run.back
  BY <1>3, <1>5 DEF Work
<1>7. QED
  BY <1>2, <1>6 DEF Arrived

\* The exit boundary stands at the end of the recording, for any recording and any
\* exception events in it, unless InterruptReplay has cut the replay short; and so
\* does the process exit that such a run reports if it has hit nothing (after a hit
\* whose breakpoint is deleted before the report the exit is false).
THEOREM ExitAtEndTheorem == Spec => ExitAtEnd
<1>1. Init => Arrived
  BY DEF Init, Arrived
<1>2. Typed /\ Arrived /\ [Next]_vars => Arrived'
  <2>1. Arrived /\ UNCHANGED vars => Arrived'
    BY DEF vars, Arrived
  <2>2. QED
    BY <2>1, ArrivedKept
<1>3. Typed /\ Arrived /\ [Next]_vars => [ExitStep]_vars
  BY ArrivedByMove, ExitReported DEF ExitStep
<1>4. ExitAtEnd <=> [][ExitStep]_vars
  BY DEF ExitAtEnd, ExitStep
<1>5. QED
  BY <1>1, <1>2, <1>3, <1>4, TypedInvariant, PTL DEF Spec

BoundaryStep ==
  \A c \in Caller : replayStep(c) =>
    (cursor <= gTtdProcessExitBoundary => cursor' <= gTtdProcessExitBoundary)

\* No sequence of seeks and steps after a run to the end steps over the boundary
\* that run has published, forward or backward.
THEOREM StepKeepsBoundaryTheorem == Spec => StepKeepsBoundary
<1>1. Typed /\ [Next]_vars => [BoundaryStep]_vars
  <2> SUFFICES ASSUME Typed, NEW c \in Caller, replayStep(c), cursor <= gTtdProcessExitBoundary
               PROVE  cursor' <= gTtdProcessExitBoundary
    BY DEF BoundaryStep
  <2>1. PICK back \in BOOLEAN : \E out \in Steps(back) : cursor' = out.at
    BY StepIs
  <2>2. PICK out \in Steps(back) : cursor' = out.at
    BY <2>1
  <2>3. cursor \in Position /\ cursor \in Int /\ gTtdProcessExitBoundary \in Int
    BY DEF Typed, TypeOK, Position, NoPosition
  <2>4. CASE ~back /\ cursor = gTtdProcessExitBoundary
    <3>1. out = Outcome(cursor, NoHit, FALSE)
      BY <2>2, <2>4 DEF Steps
    <3>2. QED
      BY <2>2, <2>4, <3>1 DEF Outcome
  <2>5. CASE back \/ cursor < gTtdProcessExitBoundary
    <3>1. ~(~back /\ cursor = gTtdProcessExitBoundary)
      BY <2>3, <2>5
    <3>2. out \in EngineStep(back, cursor)
      BY <2>2, <3>1 DEF Steps
    <3>3. out.at \in {cursor, IF back THEN cursor - 1 ELSE cursor + 1}
      BY <2>3, <3>2, EngineStepIs
    <3>4. QED
      BY <2>2, <2>3, <2>5, <3>3
  <2>6. QED
    BY <2>3, <2>4, <2>5
<1>2. StepKeepsBoundary <=> [][BoundaryStep]_vars
  BY DEF StepKeepsBoundary, BoundaryStep
<1>3. QED
  BY <1>1, <1>2, TypedInvariant, PTL DEF Spec

-----------------------------------------------------------------------------
(* The walk.                                                               *)

WalkStops == Stops \cup Exceptions

\* A breakpoint that is removed stops no run, nor does one set while it moves.
LEMMA StopsLifted ==
  ASSUME code' \ run'.fresh \subseteq code \ run.fresh, data' \subseteq data
  PROVE  Stops' \subseteq Stops
<1> SUFFICES ASSUME NEW p \in Position, NEW hit \in ttdMemoryWatchpointCallback(p)', Bound(hit)'
             PROVE  p \in Stops
  BY DEF Stops
<1>1. /\ SoftwareAt(hit)' \ run'.fresh \subseteq SoftwareAt(hit) \ run.fresh
      /\ MemoryAt(hit)' \subseteq MemoryAt(hit)
  BY DEF SoftwareAt, MemoryAt
<1>2. Bound(hit)
  BY <1>1 DEF Bound
<1>3. hit \in Watched(p)
  <2>1. \/ hit = [at |-> p, addr |-> At[p]]
        \/ hit = [at |-> p, addr |-> Touch[p]] /\ \E d \in data' : d.addr = Touch[p]
    BY DEF ttdMemoryWatchpointCallback, Watched
  <2>2. CASE hit = [at |-> p, addr |-> Touch[p]] /\ \E d \in data' : d.addr = Touch[p]
    BY <2>2 DEF Watched
  <2>3. CASE hit = [at |-> p, addr |-> At[p]] /\ SoftwareAt(hit) # {}
    <3>1. \E b \in code : b.addr = At[p]
      BY <2>3 DEF SoftwareAt
    <3>2. QED
      BY <2>3, <3>1 DEF Watched
  <2>4. CASE hit = [at |-> p, addr |-> At[p]] /\ MemoryAt(hit) # {}
    <3>1. At[p] = Touch[p] /\ \E d \in data : d.addr = Touch[p]
      BY <2>4 DEF MemoryAt
    <3>2. QED
      BY <2>4, <3>1 DEF Watched
  <2>5. QED
    BY <1>2, <2>1, <2>2, <2>3, <2>4 DEF Bound
<1>4. QED
  BY <1>2, <1>3 DEF Stops, ttdMemoryWatchpointCallback, Bound

\* Those set while a run moved stop the next ones.
LEMMA StopsFreed ==
  ASSUME UNCHANGED points, run'.fresh = {}
  PROVE  Stops \subseteq Stops'
<1> SUFFICES ASSUME NEW p \in Position, NEW hit \in ttdMemoryWatchpointCallback(p), Bound(hit)
             PROVE  p \in Stops'
  BY DEF Stops
<1>1. SoftwareAt(hit)' = SoftwareAt(hit) /\ MemoryAt(hit)' = MemoryAt(hit)
  BY DEF SoftwareAt, MemoryAt, points
<1>2. Bound(hit)'
  BY <1>1 DEF Bound
<1>3. hit \in ttdMemoryWatchpointCallback(p)'
  BY <1>1 DEF ttdMemoryWatchpointCallback, Watched, points
<1>4. QED
  BY <1>2, <1>3 DEF Stops

\* While a run is in progress breakpoints are removed, and those that are set do
\* not bind it.
LEMMA UnderwayKept ==
  ASSUME Typed, loop = "moving", Next, ~Move
  PROVE  /\ UNCHANGED <<loop, cursor>> /\ run'.back = run.back
         /\ code' \ run'.fresh \subseteq code \ run.fresh /\ data' \subseteq data
<1>1. Calls
  BY DEF Next, DebugLoop, InvokeCallback, CallbackReturns, BeginRun, Report, EndSession
<1>0. run \in [back : BOOLEAN, limit : Position, exception : BOOLEAN, at : Position,
               hit : Hits \cup {NoHit}, cut : BOOLEAN, fresh : SUBSET Breakpoint]
  BY DEF Typed, TypeOK
<1> DEFINE Kept == /\ UNCHANGED <<loop, cursor>> /\ run'.back = run.back
                  /\ code' \ run'.fresh \subseteq code \ run.fresh /\ data' \subseteq data
<1>2. ASSUME NEW c \in Caller, QueueStep(c)
      PROVE  Kept
  <2>1. UNCHANGED <<loop, cursor, run>> /\ call[c].hit \in Hits \cup {NoHit}
    BY <1>2 DEF QueueStep, Typed, TypeOK
  <2>2. CASE Reportable(call[c].hit)
    <3>1. code' \subseteq code /\ data' \subseteq data
      BY <1>2, <2>1, <2>2, HitQueued DEF QueueStep, Typed, TypeOK, PointTypes
    <3>2. QED
      BY <2>1, <3>1
  <2>3. CASE ~Reportable(call[c].hit)
    BY <1>2, <2>1, <2>3 DEF QueueStep, points
  <2>4. QED
    BY <2>2, <2>3
<1>3. ASSUME NEW c \in Caller, ReplaySetPosition(c) \/ replayStep(c) \/ CursorGone(c)
      PROVE  FALSE
  BY <1>3 DEF ReplaySetPosition, replayStep, Locks, CursorGone
<1>4. ASSUME NEW c \in Caller,
             \/ ReplayRunBack(c) \/ SetInterruptFlag(c) \/ InterruptReplay(c) \/ RequestPause(c)
             \/ \E op \in Movements : BeginMovement(c, op)
      PROVE  UNCHANGED <<loop, cursor, run, points>>
  BY <1>4 DEF ReplayRunBack, SetInterruptFlag, InterruptReplay, RequestPause, BeginMovement
<1>5. ASSUME NEW d \in UserData, SetMemoryBPXEx(d) \/ RemoveMemoryBPX(d)
      PROVE  FALSE
  BY <1>5 DEF SetMemoryBPXEx, RemoveMemoryBPX, Typed, Underway
<1>6. ASSUME NEW a \in Address, DeleteBPX(a)
      PROVE  UNCHANGED <<loop, cursor, run, data>> /\ code' \subseteq code
  BY <1>6 DEF DeleteBPX, Edited
<1>9. ASSUME NEW b \in UserCode, SetBPX(b)
      PROVE  Kept
  <2>1. /\ UNCHANGED <<loop, cursor, data>> /\ code' = code \cup {b}
        /\ run' = [run EXCEPT !.fresh = @ \cup {b}]
    BY <1>9 DEF SetBPX, Edited
  <2>2. run'.fresh = run.fresh \cup {b} /\ run'.back = run.back
    BY <1>0, <2>1
  <2>3. QED
    BY <2>1, <2>2
<1>7. StopDebug \/ StopInterrupts => UNCHANGED <<loop, cursor, run, points>>
  BY DEF StopDebug, StopInterrupts
<1>8. QED
  BY <1>1, <1>2, <1>3, <1>4, <1>5, <1>6, <1>7, <1>9 DEF Calls, Carry, points

\* Between runs only BeginRun starts one.
LEMMA AtRest ==
  ASSUME Typed, loop # "moving", Next, ~BeginRun
  PROVE  loop' # "moving"
<1>1. Calls => loop' # "moving"
  BY CallsLeave
<1>2. InvokeCallback \/ CallbackReturns \/ Move \/ Report \/ EndSession => loop' # "moving"
  BY DEF InvokeCallback, CallbackReturns, Move, Report, EndSession
<1>3. QED
  BY <1>1, <1>2 DEF Next, DebugLoop

\* The end of a run arrives without having passed over a stop.
LEMMA MoveArrives ==
  ASSUME Typed, Move
  PROVE  /\ cursor' \in Position
         /\ IF run.back THEN cursor' <= cursor ELSE cursor' >= cursor
         /\ Walk!Strictly(cursor, cursor') \cap WalkStops = {}
<1>1. PICK out \in EngineRun(run.back, cursor, run.limit, Interruptible), back \in {0, 1} :
        /\ back = 1 => AtExit(out) /\ out.at - 1 \in Position
        /\ cursor' = out.at - back /\ cursor' \in Position
  BY MoveIs
<1>2. /\ run.back \in BOOLEAN /\ cursor \in Position /\ Interruptible \in BOOLEAN
      /\ run.limit = MovementLimit(run.back, cursor)
  BY DEF Typed, TypeOK, Underway, Move, Interruptible
<1>3. /\ run.limit \in Position
      /\ IF run.back THEN run.limit <= cursor ELSE run.limit >= cursor
      /\ \A q \in Exceptions : ~(IF run.back THEN run.limit < q /\ q < cursor
                                 ELSE cursor < q /\ q < run.limit)
  BY <1>2, LimitIs
<1>4. /\ out.at \in Position
      /\ IF run.back THEN run.limit <= out.at /\ out.at <= cursor
         ELSE cursor <= out.at /\ out.at <= run.limit
      /\ out.moved /\ out.hit = NoHit => out.at # cursor
      /\ \A q \in Position :
           (IF run.back THEN out.at < q /\ q < cursor ELSE cursor < q /\ q < out.at)
             => q \notin Stops
  BY <1>2, <1>3, EngineRunIs
<1>5. \A q \in Position : q \in Int
  BY DEF Position
<1>6. CASE run.back
  <2>1. cursor' = out.at
    <3>1. back = 0
      BY <1>1, <1>6 DEF AtExit
    <3>2. cursor' = out.at - 0 /\ out.at \in Int
      BY <1>1, <1>4, <1>5, <3>1
    <3>3. QED
      BY <3>2
  <2>2. ASSUME NEW q \in Walk!Strictly(cursor, cursor') PROVE q \notin WalkStops
    <3>1. q \in Position /\ cursor' < q /\ q < cursor
      BY <1>2, <1>4, <1>5, <1>6, <2>1, <2>2 DEF Walk!Strictly, Position
    <3>2. q \notin Stops
      BY <1>4, <1>6, <2>1, <3>1
    <3>3. q \notin Exceptions
      BY <1>3, <1>4, <1>5, <1>6, <2>1, <3>1
    <3>4. QED
      BY <3>2, <3>3 DEF WalkStops
  <2>3. QED
    BY <1>1, <1>4, <1>6, <2>1, <2>2
<1>7. CASE ~run.back
  <2>1. out.at \in Int /\ cursor \in Int /\ run.limit \in Int /\ cursor <= out.at /\ out.at <= run.limit
    BY <1>2, <1>3, <1>4, <1>5, <1>7
  <2>4. cursor' \in Int /\ cursor' <= out.at /\ cursor' >= cursor
    <3>1. CASE back = 0
      BY <1>1, <2>1, <3>1
    <3>2. CASE back = 1
      <4>1. out.at # cursor
        BY <1>1, <1>4, <3>2 DEF AtExit
      <4>2. cursor' = out.at - 1
        BY <1>1, <3>2
      <4>3. QED
        BY <2>1, <4>1, <4>2
    <3>3. QED
      BY <3>1, <3>2
  <2>2. ASSUME NEW q \in Walk!Strictly(cursor, cursor') PROVE q \notin WalkStops
    <3>1. q \in Position /\ cursor < q /\ q < cursor'
      BY <1>1, <1>2, <1>5, <2>4, <2>2 DEF Walk!Strictly, Position
    <3>2. q < out.at /\ q < run.limit
      BY <1>5, <2>1, <2>4, <3>1
    <3>3. q \notin Stops
      BY <1>4, <1>7, <3>1, <3>2
    <3>4. q \notin Exceptions
      BY <1>3, <1>7, <3>1, <3>2
    <3>5. QED
      BY <3>3, <3>4 DEF WalkStops
  <2>3. QED
    BY <1>1, <1>7, <2>4, <2>2
<1>8. QED
  BY <1>6, <1>7 DEF Typed, TypeOK

\* Every step of a replay is one of the walk's or none.
LEMMA WalkStep ==
  ASSUME Typed, [Next]_vars
  PROVE  [Walk!Next]_(Walk!walk)
<1>1. WalkStops \subseteq Position /\ WalkStops' \subseteq Position /\ Position = 0..LastPosition
  BY RecordingAssumption DEF WalkStops, Stops, Position
<1>2. cursor' \in Position
  BY TypedNext DEF Typed, TypeOK
<1>3. CASE UNCHANGED vars
  BY <1>3 DEF vars, Walk!walk, points, Stops, Bound, ttdMemoryWatchpointCallback, Watched,
     SoftwareAt, MemoryAt
<1>4. CASE Move
  <2>1. loop = "moving" /\ loop' = "report" /\ UNCHANGED points /\ run.back \in BOOLEAN
    BY <1>4 DEF Move, Typed, TypeOK
  <2>2. run'.fresh = {}
    BY <1>4, MoveIs DEF Typed, TypeOK
  <2>3. WalkStops \subseteq WalkStops'
    BY <2>1, <2>2, StopsFreed DEF WalkStops
  <2>4. Walk!Arrive
    BY <1>1, <1>4, <2>1, <2>3, MoveArrives DEF Walk!Arrive, WalkStops
  <2>5. QED
    BY <1>1, <2>4 DEF Walk!Next, WalkStops
<1>5. CASE BeginRun
  <2>1. loop # "moving" /\ loop' = "moving" /\ UNCHANGED <<cursor, points>>
        /\ run'.back \in BOOLEAN
    BY <1>5 DEF BeginRun, Typed, TypeOK
  <2>2. run.fresh = {} /\ run'.fresh = {} /\ code' = code /\ data' = data
    BY <1>5 DEF BeginRun, Typed, Underway, points
  <2>3. WalkStops' = WalkStops
    BY <2>1, <2>2, StopsLifted, StopsFreed DEF WalkStops
  <2>4. Walk!Start
    BY <2>1, <2>3 DEF Walk!Start, WalkStops
  <2>5. QED
    BY <1>1, <2>4 DEF Walk!Next, WalkStops
<1>6. CASE loop = "moving" /\ Next /\ ~Move
  <2>1. UNCHANGED <<loop, cursor>> /\ run'.back = run.back /\ WalkStops' \subseteq WalkStops
    BY <1>6, UnderwayKept, StopsLifted DEF WalkStops
  <2>2. Walk!Lift
    BY <1>6, <2>1 DEF Walk!Lift, WalkStops
  <2>3. QED
    BY <1>1, <2>2 DEF Walk!Next, WalkStops
<1>7. CASE loop # "moving" /\ Next /\ ~BeginRun
  <2>1. loop' # "moving"
    BY <1>7, AtRest
  <2>2. Walk!Seek
    BY <1>1, <1>2, <1>7, <2>1 DEF Walk!Seek
  <2>3. QED
    BY <1>1, <2>2 DEF Walk!Next, WalkStops
<1>8. QED
  BY <1>3, <1>4, <1>5, <1>6, <1>7

\* Runs over any recording, with any breakpoints, implement the walk: no run
\* passes over an exception event or an accepted watchpoint whose breakpoint was
\* there when it began and stays, forward or backward, cut short or not, while
\* breakpoints are set and removed under it.
THEOREM NothingSkippedTheorem == Spec => NothingSkipped
<1>1. Init => Walk!Init
  <2>1. WalkStops \subseteq Position
    BY RecordingAssumption DEF WalkStops, Stops
  <2>2. Init => cursor = 0 /\ loop = "drain" /\ 0 \in 0..LastPosition
    BY RecordingAssumption DEF Init
  <2>3. QED
    BY <2>1, <2>2 DEF Walk!Init, WalkStops, Position
<1>2. Typed /\ [Next]_vars => [Walk!Next]_(Walk!walk)
  BY WalkStep
<1>3. QED
  BY <1>1, <1>2, TypedInvariant, PTL DEF Spec, NothingSkipped, Walk!Spec

=============================================================================
