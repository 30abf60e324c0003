---------------------------- MODULE MCLogWindow -----------------------------
(***************************************************************************)
(* Instances of LogWindow for TLC: a window that overflows, answers that   *)
(* are cut to less than the window, and one handler that sets the level.   *)
(***************************************************************************)
EXTENDS LogWindow
=============================================================================
