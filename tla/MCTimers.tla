------------------------------ MODULE MCTimers ------------------------------
(***************************************************************************)
(* Instances of Timers for TLC.                                            *)
(***************************************************************************)
EXTENDS Timers, TLC

Every     == AllTypes
OneShots  == {"oneShot"}
ReArmed == {"oneShot", "precise", "canSkip"}
Delaying  == {"setDelay"}
Stopping  == {"shutdown", "setDelay"}
Symmetric == Permutations(Timers)
=============================================================================
