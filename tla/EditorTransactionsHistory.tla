--------------------- MODULE EditorTransactionsHistory ---------------------
(***************************************************************************)
(* The editor's use of the transaction manager implements UndoHistory too: *)
(* placeholders do not show.                                               *)
(***************************************************************************)
EXTENDS EditorTransactions

\* A placeholder whose only transaction has failed stays in the history as a
\* unit without effects, and undoing it undoes nothing.
EffectsOf(units) ==
    FlattenSeq([k \in 1 .. Len(units) |->
        IF units[k].effects = <<>> THEN <<>> ELSE <<units[k].effects>>])

History == INSTANCE UndoHistory
           WITH doc <- doc, past <- EffectsOf(hist.past),
                future <- EffectsOf(hist.future), open <- Effects(hist.open),
                Steps <- Counts

\* Every operation of the editor is one step of the history of a document whose
\* units are undone and redone in order: an edit adds to a unit at the end of
\* the past or begins one, and clears the future.
EditorImplementsHistory == History!Spec
=============================================================================
