----------------------------- MODULE CodeWatch -----------------------------
(***************************************************************************)
(* What code breakpoints promise: the program executes no instruction that *)
(* is watched unless it has just been reported, it changes nowhere but     *)
(* where the user writes it, and a report leaves it where it was.          *)
(***************************************************************************)
CONSTANTS Place,   \* the addresses of instructions
          Nowhere  \* no address

VARIABLES watched,   \* the addresses that are watched
          stopped,   \* is the program stopped in a callback?
          reported,  \* the instruction that has been reported and may execute
          done       \* the instruction executed last

watch == <<watched, stopped, reported, done>>

Init == watched = {} /\ stopped = TRUE /\ reported = Nowhere /\ done = Nowhere

\* The user watches what they like, whether the program is stopped or runs.
Edit == watched' \subseteq Place /\ UNCHANGED <<stopped, reported, done>>

Go == stopped /\ stopped' = FALSE /\ UNCHANGED <<watched, reported, done>>

\* Another event, without an instruction to let through.
Stop == ~stopped /\ stopped' = TRUE /\ UNCHANGED <<watched, reported, done>>

\* A breakpoint that is reported may be one that removes itself.
Report(a) ==
  /\ ~stopped /\ a \in watched
  /\ stopped' = TRUE /\ reported' = a
  /\ watched' \in {watched, watched \ {a}}
  /\ UNCHANGED done

Execute(a) ==
  /\ ~stopped /\ (a \notin watched \/ a = reported)
  /\ done' = a /\ reported' = Nowhere
  /\ watched' \subseteq watched \cup ({a} \cap {reported})   \* it is watched again, or lost
  /\ UNCHANGED stopped

Next == Edit \/ Go \/ Stop \/ \E a \in Place : Report(a) \/ Execute(a)

Spec == Init /\ [][Next]_watch
=============================================================================
