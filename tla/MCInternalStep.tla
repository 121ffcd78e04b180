--------------------------- MODULE MCInternalStep ---------------------------
(* InternalStep on one watched page and one patched address.               *)
EXTENDS InternalStep

CONSTANTS page, patch

\* Every instruction touches one location, which may not carry a breakpoint (any more).
Always == {{page}, {patch}}
OneOf == {{}, {page}, {patch}}       \* an instruction touches one location
CrossPage == {{}, {page, patch}}     \* or is itself patched and touches the page
=============================================================================
