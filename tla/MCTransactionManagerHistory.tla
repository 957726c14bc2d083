-------------------- MODULE MCTransactionManagerHistory --------------------
(***************************************************************************)
(* Instances of TransactionManagerHistory for TLC.                         *)
(***************************************************************************)
EXTENDS TransactionManagerHistory

Failing  == {"doFail", "undoFail", "redoFail", "merge", "veto"}
MCCounts == {-2, 0, 1, 2}
=============================================================================
