----------------------- MODULE MCTransactionManager -----------------------
(***************************************************************************)
(* Instances of TransactionManager for TLC: the kinds of behaviour of the  *)
(* clients and listeners, and the bounds.                                  *)
(***************************************************************************)
EXTENDS TransactionManager

AnyFault == EnvKinds \ {"reenter"}
Flaky    == {"undoFail", "flaky"}
Quiet    == {}
MCCounts == {-2, 0, 1, 2}
=============================================================================
