--------------------------- MODULE MCTapRecorder ---------------------------
(***************************************************************************)
(* Halves of 5 bytes, a byte of 3 values, a microsecond of 2 ticks and a   *)
(* timer of 81 ticks: an overflow makes a pulse of 4 bytes, two the same 4. *)
(***************************************************************************)
EXTENDS TapRecorder

MCCounts == {22}
============================================================================
