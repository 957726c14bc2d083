---------------------------- MODULE MCThreadPool ----------------------------
(***************************************************************************)
(* Instances of ThreadPool for TLC.                                        *)
(***************************************************************************)
EXTENDS ThreadPool, TLC

TwoCallers == {"c1", "c2"}
Stops      == {"shutdown"}
StopsWaits == {"shutdown", "sync"}
Anything   == EnvKinds
NoLimits   == {}
OnlyZero   == {0}
OnlyOne    == {1}
Symmetric  == Permutations(Threads) \cup Permutations(Events)
=============================================================================
