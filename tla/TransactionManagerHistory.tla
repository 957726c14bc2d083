--------------------- MODULE TransactionManagerHistory ---------------------
(***************************************************************************)
(* TransactionManager implements UndoHistory: what its clients see when no *)
(* call is in progress is a behaviour of the abstract history.             *)
(***************************************************************************)
EXTENDS TransactionManager

VARIABLE shown    \* history variable: what was to be seen after the last
                  \* call, as long as RollbackWorks

\* The effects of item i and of all its children, in the order they were done.
\* Children have higher numbers than their parent.
Whole[i \in Item] ==
    LET Of(s) == FlattenSeq([k \in 1 .. Len(s) |-> Whole[s[k]]])
    IN (IF i \in batch THEN <<>> ELSE own[i])
       \o Of(stack[<<"undo", i>>]) \o Of(Reverse(stack[<<"redo", i>>]))

Wholes(s) == [k \in 1 .. Len(stack[s]) |-> Whole[stack[s][k]]]

View == [doc |-> doc, past |-> Wholes(<<"undo", 0>>),
         future |-> Wholes(<<"redo", 0>>),
         open |-> FlattenSeq(Wholes(DoStack))]

InitHistory == Init /\ shown = View
NextHistory ==
    /\ Next
    /\ shown' = IF calls' = <<>> /\ RollbackWorks' THEN View' ELSE shown
SpecHistory == InitHistory /\ [][NextHistory]_<<vars, shown>>

History == INSTANCE UndoHistory
           WITH doc <- shown.doc, past <- shown.past,
                future <- shown.future, open <- shown.open, Steps <- {1}

\* Every call of the manager takes effect as one step of the history, or not at
\* all, however many nested calls it makes and whatever of them fails.
ImplementsHistory == History!Spec
=============================================================================
