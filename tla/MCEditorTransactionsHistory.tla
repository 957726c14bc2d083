-------------------- MODULE MCEditorTransactionsHistory --------------------
(***************************************************************************)
(* Instances of EditorTransactionsHistory for TLC.                         *)
(***************************************************************************)
EXTENDS EditorTransactionsHistory

Everyone == EnvKinds
=============================================================================
