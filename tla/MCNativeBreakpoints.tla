------------------------ MODULE MCNativeBreakpoints ------------------------
(* NativeBreakpoints on a program of four bytes: an instruction of two,    *)
(* one of one, and an int3 of its own.                                     *)
EXTENDS NativeBreakpoints, TLC

MCLength == [a \in {1, 3, 4} |-> IF a = 1 THEN 2 ELSE 1]
MCImage == <<"op", "arg", "op", "CC">>

Site(addr, patch, once) == [addr |-> addr, patch |-> patch, once |-> once]
MCSites ==
  {Site(1, LONG_INT3, FALSE), Site(1, UD2, TRUE), Site(3, INT3, FALSE), Site(3, INT3, TRUE)}
MCHardSites == {[addr |-> 3, execute |-> TRUE], [addr |-> 1, execute |-> FALSE]}
MCWrites == {[addr |-> 3, value |-> "arg"]}

CONSTANTS r1, r2
Registers == Permutations({r1, r2})
=============================================================================
