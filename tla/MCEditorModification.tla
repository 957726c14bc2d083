------------------------ MODULE MCEditorModification ------------------------
(***************************************************************************)
(* Instances of EditorModification for TLC.                                *)
(***************************************************************************)
EXTENDS EditorModification

Everyone  == {"placeholder", "batch", "direct", "disable"}
EditsOnly == {}
=============================================================================
