---------------------------- MODULE ReplayWalk -----------------------------
(***************************************************************************)
(* What a front end relies on when it moves through a recording: between   *)
(* runs it may seek anywhere and change where runs have to stop, and a run *)
(* comes to rest without having passed over such a position.               *)
(***************************************************************************)
EXTENDS Integers

CONSTANT LastPosition   \* the positions are 0..LastPosition

VARIABLES pos,      \* where the cursor is
          running,  \* is a run in progress?
          back,     \* its direction
          stops     \* the positions a run has to stop at

walk == <<pos, running, back, stops>>

Strictly(p, q) == {s \in 0..LastPosition : (p < s /\ s < q) \/ (q < s /\ s < p)}

Init == pos \in 0..LastPosition /\ running = FALSE /\ back = FALSE /\ stops \subseteq 0..LastPosition

\* Between runs the cursor goes anywhere; stops may come and go.
Seek == ~running /\ pos' \in 0..LastPosition /\ UNCHANGED <<running, back>>

\* During a run they may only go: one that is asked for meanwhile binds the next.
Lift == running /\ stops' \subseteq stops /\ UNCHANGED <<pos, running, back>>

Start ==
  ~running /\ running' = TRUE /\ back' \in BOOLEAN /\ UNCHANGED <<pos, stops>>

Arrive ==
  /\ running /\ running' = FALSE /\ back' = FALSE
  /\ pos' \in 0..LastPosition /\ IF back THEN pos' <= pos ELSE pos' >= pos
  /\ Strictly(pos, pos') \cap stops = {}
  /\ stops \subseteq stops'

Next == (Seek \/ Lift \/ Start \/ Arrive) /\ stops' \subseteq 0..LastPosition

Spec == Init /\ [][Next]_walk
=============================================================================
