---------------------------- MODULE UndoHistory ----------------------------
(***************************************************************************)
(* What the transaction manager promises its clients, as they see it       *)
(* between their calls (nsITransactionManager.idl): a document, the units  *)
(* that can be undone and redone, and the work of a batch that is open.    *)
(* Every call takes effect at once or not at all.                          *)
(***************************************************************************)
EXTENDS Integers, Sequences, SequencesExt

CONSTANT Steps     \* how many units one call undoes or redoes

VARIABLES
    doc,       \* the effects in force
    past,      \* the units that can be undone, oldest first
    future,    \* the units that can be redone, the next one last
    open       \* the effects done since the outermost beginBatch()

vars == <<doc, past, future, open>>

Init == doc = <<>> /\ past = <<>> /\ future = <<>> /\ open = <<>>

\* Units are forgotten at the far ends only: the oldest ones of the past, the
\* ones furthest ahead of the future.
Forgetting ==
    /\ past' \in Suffixes(past)
    /\ future' \in Suffixes(future)

Forget == UNCHANGED <<doc, open>> /\ Forgetting

\* Effects es are added in an open batch.
Work(es) ==
    /\ doc' = doc \o es /\ open' = open \o es
    /\ Forgetting

\* Undo is disabled: the effects are not recorded, and no history is left that
\* would be out of date.
WorkUnrecorded(es) ==
    /\ doc' = doc \o es
    /\ past' = <<>> /\ future' = <<>> /\ UNCHANGED open

\* Effects es complete a unit, a new one or one merged into the last one.  What
\* could be redone no longer can.
Commit(es) ==
    /\ doc' = doc \o es
    /\ open \o es # <<>>
    /\ \/ /\ past' # <<>> /\ Last(past') = open \o es
          /\ Front(past') \in Suffixes(past)
       \/ /\ past # <<>>
          /\ past' = Append(Front(past), Last(past) \o es)
    /\ future' = <<>> /\ open' = <<>>

\* As many units as asked for, or as there are.
Some(n, units) == IF n < Len(units) THEN n ELSE Len(units)

Undo(n) ==
    LET left == Len(past) - Some(n, past)
        undone == SubSeq(past, left + 1, Len(past))
    IN
    /\ past # <<>> /\ open = <<>>
    /\ doc = doc' \o FlattenSeq(undone)
    /\ past' = SubSeq(past, 1, left)
    /\ future' = future \o Reverse(undone)
    /\ UNCHANGED open

Redo(n) ==
    LET left == Len(future) - Some(n, future)
        redone == Reverse(SubSeq(future, left + 1, Len(future)))
    IN
    /\ future # <<>> /\ open = <<>>
    /\ doc' = doc \o FlattenSeq(redone)
    /\ past' = past \o redone
    /\ future' = SubSeq(future, 1, left)
    /\ UNCHANGED open

\* The effects by which a longer document differs from a shorter one.
Added == SubSeq(doc', Len(doc) + 1, Len(doc'))

Next ==
    \/ Forget \/ \E n \in Steps : Undo(n) \/ Redo(n)
    \/ Work(Added) \/ WorkUnrecorded(Added) \/ Commit(Added)

Spec == Init /\ [][Next]_vars
=============================================================================
