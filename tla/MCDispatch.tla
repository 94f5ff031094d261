----------------------------- MODULE MCDispatch -----------------------------
(***************************************************************************)
(* Model values for Dispatch: two lifted functions and one the scan        *)
(* missed, the first and the last on one page; an import of every kind     *)
(* with and without a derived purge.                                       *)
(***************************************************************************)
EXTENDS Dispatch

CONSTANTS forwarded, unknown, wrapping, written, bare, unwinding, leaving, absent,
          initterm, initterm_e, method

MCPops == [f \in Function |->
             IF f \in {2, forwarded, unknown, written, unwinding, method} THEN 1 ELSE 0]
MCPurge == [i \in Import |-> IF i \in {unknown, bare, unwinding} THEN -1 ELSE MCPops[i]]
MCHandler == [i \in Import |->
    CASE i \in {forwarded, unknown} -> "native"
      [] i = wrapping -> "wraps"
      [] i \in {written, bare} -> "written"
      [] i = unwinding -> "unwinds"
      [] i = leaving -> "leaves"
      [] i = absent -> "none"
      [] i = initterm -> "initterm"
      [] i = initterm_e -> "initterm_e"]
MCInitTable == <<1, 3>>
MCPage == [f \in Guest |-> f % 2]
=============================================================================
