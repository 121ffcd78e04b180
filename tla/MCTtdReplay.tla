---------------------------- MODULE MCTtdReplay ----------------------------
(* TtdReplay on a recording of four positions: thread t1 calls a function   *)
(* whose return address is x, thread t2 starts, executes x and ends, and a *)
(* module is mapped for a while.                                           *)
EXTENDS TtdReplay

CONSTANTS t1, t2, x, y, exe, dll

ByPosition(s) == [p \in Position |-> s[p + 1]]

MCSystemId == [t \in Thread |-> IF t = t1 THEN 1 ELSE 2]
MCBase == [m \in Module |-> IF m = exe THEN 1 ELSE 2]
MCRuns == ByPosition(<<t1, t2, t1, t1>>)
MCAt == ByPosition(<<y, x, x, y>>)
MCTouch == ByPosition(<<NoAddress, NoAddress, x, NoAddress>>)
MCCall == ByPosition(<<x, NoAddress, NoAddress, NoAddress>>)
MCAlive == ByPosition(<<{t1}, {t1, t2}, {t1}, {t1}>>)
MCMapped == ByPosition(<<{exe}, {exe}, {exe, dll}, {exe}>>)

MCUserCode == {[addr |-> y, once |-> FALSE, owner |-> User]}
MCUserData == {[addr |-> x, once |-> TRUE]}
=============================================================================
