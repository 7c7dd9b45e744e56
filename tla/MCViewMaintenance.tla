------------------------- MODULE MCViewMaintenance --------------------------
(***************************************************************************)
(* ViewMaintenance for TLC: three rows' worth of primary keys, two values *)
(* of each field, so that a row can leave one instance for the other and *)
(* two instances are cached side by side.                                 *)
(***************************************************************************)
EXTENDS ViewMaintenance

MCPks == 1 .. 3
====
