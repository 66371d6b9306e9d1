----------------------------- MODULE MCLumaCalendar -----------------------------
(* Small instances of a node's Luma calendar for TLC. *)
EXTENDS LumaProperties, TLC

Symmetry ==
  Permutations(Editors) \cup Permutations(Timers) \cup Permutations(Events)
=============================================================================
