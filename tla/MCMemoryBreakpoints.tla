------------------------ MODULE MCMemoryBreakpoints ------------------------
(* MemoryBreakpoints on two adjacent pages.                                *)
EXTENDS MemoryBreakpoints

Pages == {1, 2}
Ranges == {{1}, {2}, {1, 2}}                 \* the last crosses the page boundary
Kinds == {"UE_MEMORY_READ", "UE_MEMORY_WRITE"}
\* An instruction touches no page, one, or crosses the boundary.
SomeAccesses == [pages : {{}, {1}, {1, 2}}, kind : Kinds]

ReadWrite == [rights |-> Kinds, guard |-> FALSE]
ReadOnly == [rights |-> {"UE_MEMORY_READ"}, guard |-> FALSE]
Writable == {ReadWrite}
Protections == {ReadWrite, ReadOnly}
=============================================================================
