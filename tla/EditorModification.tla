------------------------- MODULE EditorModification -------------------------
(***************************************************************************)
(* The count of modifications the editor keeps (mModCount), which is what  *)
(* BlueGriffon asks whether a document must be saved before it is closed.  *)
(* It follows the transactions, not the document.                          *)
(***************************************************************************)
EXTENDS EditorTransactions

VARIABLES
    modCount,   \* mModCount
    saved       \* history variable: the document when
                \* resetModificationCount() was last called, and whether all
                \* that was done since is OneByOne

allVars == <<vars, modCount, saved>>

InitCounted ==
    Init /\ modCount = 0 /\ saved = [doc |-> <<>>, plain |-> TRUE]

\* IncrementModificationCount(n).
Increment(n) == modCount' = modCount + n

\* A step that makes a unit of one transaction, in a document that has in it all
\* that was saved.
OneByOne ==
    /\ made' = made
    /\ \/ doc' = doc
       \/ /\ IsPrefix(saved.doc, doc)
          /\ hist.on => hist.open = <<>> /\ Len(hist'.past) = Len(hist.past) + 1

Noted(counted) == saved' = [saved EXCEPT !.plain = @ /\ counted /\ OneByOne]

DoAfterDoTransactionMutant == Increment(Len(doc') - Len(doc) - 1)

\* Called for each transaction the editor has done: the placeholder it has made
\* and the transaction it was given.
DoAfterDoTransaction ==
    Increment((made' - made) + (Len(doc') - Len(doc)))

\* Called in each round of the loop.
DoAfterUndoTransaction(n) == Increment(-n)

DoAfterRedoTransaction(n) == Increment(n)

\* The document has been written to its file.
ResetModificationCount ==
    /\ saved' = [doc |-> doc, plain |-> TRUE] /\ modCount' = 0
    /\ UNCHANGED vars

NextCounted ==
    \/ (Edit \/ ScriptEdit) /\ DoAfterDoTransaction /\ Noted(TRUE)
    \/ DirectEdit /\ Increment(0) /\ Noted(FALSE)
    \/ DirectEdit /\ Increment(1) /\ Noted(TRUE)   \* the script counts it
    \/ /\ \E n \in Counts :
             \/ Undo(n) /\ DoAfterUndoTransaction(n)
             \/ Redo(n) /\ DoAfterRedoTransaction(n)
       /\ UNCHANGED saved
    \/ /\ \/ BeginTransaction \/ EndTransaction
          \/ BeginPlaceHolderTransaction \/ EndPlaceHolderTransaction
          \/ ObserversNotified \/ CommitComposition
          \/ EnableUndo \/ MoveCaret
       /\ UNCHANGED <<modCount, saved>>
    \/ ResetModificationCount

SpecCounted == InitCounted /\ [][NextCounted]_allVars

----------------------------------------------------------------------------
\* "Zero means unchanged" (nsIEditor.getModificationCount).  The code does not
\* keep to it when a count below zero is counted up again, and CountIsExact says
\* when it does.
ZeroMeansUnchanged == modCount = 0 => doc = saved.doc

\* While everything done since the document was saved was done one transaction
\* at a time, and with nothing of what was saved undone, the count is 0 exactly
\* when the document is as saved: after any undos and redos, beyond the save
\* too, where one undo may take back many transactions.
CountIsExact == saved.plain => (modCount = 0 <=> doc = saved.doc)
=============================================================================
