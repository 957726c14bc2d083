------------------------- MODULE EditorTransactions -------------------------
(***************************************************************************)
(* How the editor uses its transaction manager (nsEditor.cpp,              *)
(* PlaceholderTxn.cpp): the transactions of one operation of the user are  *)
(* gathered into a placeholder, which later operations may continue.       *)
(*                                                                         *)
(* The calls of the transaction manager take effect at once here: that is  *)
(* what TransactionManagerHistory shows of it.  A unit of the history is   *)
(* what one undo takes back.  A transaction is known by its effect on the  *)
(* document, a number; placeholders are numbered too.                      *)
(***************************************************************************)
EXTENDS Integers, Sequences, SequencesExt

CONSTANTS
    MaxEffects,        \* bound: transactions done in a behaviour
    MaxPlaceholders,   \* bound: PlaceholderTxns created
    MaxNesting,        \* bound: batches of the manager open within each other
    MaxDepth,          \* bound: placeholder batches open within each other
    Places,            \* the collapsed selections; another one is Stretch
    Env                \* what the clients do, see EnvKinds

EnvKinds ==
    { "placeholder",   \* edits are made in placeholder batches
      "batch",         \* beginTransaction() and endTransaction() are called
      "script",        \* a transaction is not of the editor's own classes
      "direct",        \* one is given to the transactionManager directly
      "editFails",     \* a transaction's doTransaction() fails
      "disable",       \* enableUndo() is called
      "undoMany" }     \* undo and redo are called with a count of 2

ASSUME EditorAssumption ==
    /\ MaxEffects \in Nat /\ MaxPlaceholders \in Nat /\ MaxNesting \in Nat
    /\ MaxDepth \in Nat /\ Env \subseteq EnvKinds

Effect == 1 .. MaxEffects
Placeholder == 1 .. MaxPlaceholders
Stretch == "stretch"               \* a selection that is not collapsed
Selection == Places \cup {Stretch}
Nothing == "nothing"               \* a null pointer

\* Placeholders named typing, IME or deletion merge; the others do not.
Name == {"typing", "other"}

PlcState ==
    [absorb : BOOLEAN, committed : BOOLEAN, name : Name,
     start : Selection \cup {Nothing}, end : Selection]

Unit ==
    [kind : {"edit", "script", "placeholder", "batch"},
     effects : Seq(Effect),
     plcs : SUBSET Placeholder,    \* itself, or those in the batch
     state : PlcState]             \* of a placeholder

VARIABLES
    doc,       \* the effects in force, oldest first
    done,      \* effects 1 .. done have been tried
    hist,      \* the transaction manager: past and future units, the batches
               \* open, and whether it records
    made,      \* placeholders 1 .. made exist or have existed
    ed,        \* mPlaceHolderBatch, mPlaceHolderTxn, mPlaceHolderName,
               \* mSelState, and whether the observers are being notified
    sel,       \* the selection
    session    \* history variable about the placeholder batch that is open:
               \* the length of the document when it was opened, and whether
               \* nothing else has interfered

vars == <<doc, done, hist, made, ed, sel, session>>

NoSession == [mark |-> 0, alone |-> FALSE]

Init ==
    /\ doc = <<>> /\ done = 0 /\ made = 0
    /\ hist = [past |-> <<>>, future |-> <<>>, open |-> <<>>, on |-> TRUE]
    /\ ed = [depth |-> 0, ref |-> 0, name |-> "other", selState |-> Nothing,
             notifying |-> FALSE]
    /\ sel = Stretch
    /\ session = NoSession

\* A placeholder's state when it is made.
NewState(name, start) ==
    [absorb |-> TRUE, committed |-> FALSE, name |-> name, start |-> start,
     end |-> Stretch]

MkUnit(kind, effects, plcs) ==
    [kind |-> kind, effects |-> effects, plcs |-> plcs,
     state |-> NewState("other", Stretch)]

IsPlaceholder(u) == u.kind = "placeholder"
Plc(u) == CHOOSE p \in u.plcs : TRUE     \* of a placeholder's unit
TopIsPlaceholder(h) == h.past # <<>> /\ IsPlaceholder(Last(h.past))

----------------------------------------------------------------------------
(***************************************************************************)
(* What the manager makes of a completed unit, and PlaceholderTxn::Merge.  *)
(***************************************************************************)
\* StartSelectionEquals: only collapsed selections are compared.
SameCaret(at1, at2) == at1 \in Places /\ at2 \in Places /\ at1 = at2

AbsorbsMutant(top, u) == top.state.absorb /\ IsPlaceholder(u)

\* The placeholder on top takes in unit u while it absorbs.
Absorbs(top, u) == top.state.absorb /\ u.kind \in {"edit", "placeholder"}

\* It starts again to absorb, for a new placeholder u that continues it.
Resumes(top, u) ==
    /\ IsPlaceholder(u) /\ ~top.state.absorb
    /\ top.state.name = "typing" /\ u.state.name = top.state.name
    /\ ~top.state.committed
    /\ SameCaret(u.state.start, top.state.end)

\* Push onto the undo stack, or merge with what is on top of it.
PushOrMerge(h, u) ==
    LET n == Len(h.past) IN
    IF TopIsPlaceholder(h) /\ Absorbs(Last(h.past), u)
    THEN [h EXCEPT !.past[n].effects = @ \o u.effects]
    ELSE IF TopIsPlaceholder(h) /\ Resumes(Last(h.past), u)
    THEN [h EXCEPT !.past[n].state.absorb = TRUE, !.past[n].state.end = sel]
    ELSE [h EXCEPT !.past = Append(@, u)]

JoinedMutant(batch, u) ==
    MkUnit("batch", u.effects \o batch.effects, batch.plcs \cup u.plcs)

\* A unit joins the batch that is open around it.
Joined(batch, u) ==
    MkUnit("batch", batch.effects \o u.effects, batch.plcs \cup u.plcs)

Record(h, u) ==
    IF ~h.on THEN h
    ELSE IF h.open # <<>>
    THEN [h EXCEPT !.open = Append(Front(@), Joined(Last(@), u))]
    ELSE PushOrMerge([h EXCEPT !.future = <<>>], u)

----------------------------------------------------------------------------
(***************************************************************************)
(* nsEditor::DoTransaction.                                                *)
(***************************************************************************)
NeedsPlaceholder == ed.depth > 0 /\ ed.ref = 0

\* The history once placeholder p has been made and done.
WithPlaceholder(p) ==
    Record(hist, [MkUnit("placeholder", <<>>, {p}) EXCEPT
                     !.state = NewState(ed.name, ed.selState)])

RememberedMutant(h, p) == p

\* The placeholder the editor remembers: the one on top of the undo stack.
Remembered(h, p) == IF TopIsPlaceholder(h) THEN Plc(Last(h.past)) ELSE p

CanEdit == done < MaxEffects

\* The effect of a transaction that is done now.
NewEffect == done + 1

DoTransaction(kind) ==
    LET made1 == IF NeedsPlaceholder THEN made + 1 ELSE made
        h == IF NeedsPlaceholder THEN WithPlaceholder(made1) ELSE hist
    IN
    /\ CanEdit /\ made1 <= MaxPlaceholders
    /\ made' = made1
    /\ ed' = IF NeedsPlaceholder
             THEN [ed EXCEPT !.ref = Remembered(h, made1),
                             !.selState = Nothing]
             ELSE ed
    /\ session' = [session EXCEPT !.alone = @ /\ kind = "edit"]
    /\ done' = NewEffect
    /\ \/ /\ hist' = Record(h, MkUnit(kind, <<NewEffect>>, {}))
          /\ doc' = Append(doc, NewEffect)
       \/ "editFails" \in Env /\ hist' = h /\ UNCHANGED doc
    /\ UNCHANGED sel

Edit == DoTransaction("edit")
ScriptEdit == "script" \in Env /\ DoTransaction("script")

\* A script gives a transaction to the editor's transactionManager itself.
DirectEdit ==
    /\ "direct" \in Env /\ CanEdit
    /\ hist' = Record(hist, MkUnit("script", <<NewEffect>>, {}))
    /\ doc' = Append(doc, NewEffect) /\ done' = NewEffect
    /\ session' = [session EXCEPT !.alone = FALSE]
    /\ UNCHANGED <<made, ed, sel>>

----------------------------------------------------------------------------
(***************************************************************************)
(* Batches.                                                                *)
(***************************************************************************)
BeginTransaction ==
    /\ "batch" \in Env /\ Len(hist.open) < MaxNesting
    /\ hist' = [hist EXCEPT !.open = Append(@, MkUnit("batch", <<>>, {}))]
    /\ session' = [session EXCEPT !.alone = FALSE]
    /\ UNCHANGED <<doc, done, made, ed, sel>>

\* A batch in which nothing was done is dropped.
EndTransaction ==
    LET batch == Last(hist.open)
        rest == [hist EXCEPT !.open = Front(@)]
    IN
    /\ hist.open # <<>>
    /\ hist' = IF batch.effects = <<>> /\ batch.plcs = {} THEN rest
               ELSE Record(rest, batch)
    /\ UNCHANGED <<doc, done, made, ed, sel, session>>

BeginPlaceHolderTransaction ==
    /\ "placeholder" \in Env /\ ed.depth < MaxDepth
    /\ \/ /\ ed.depth = 0
          /\ \E name \in Name :
                ed' = [ed EXCEPT !.depth = 1, !.ref = 0, !.name = name,
                                 !.selState = sel]
          /\ session' = [mark |-> Len(doc), alone |-> hist.open = <<>>]
       \/ /\ ed.depth > 0
          /\ ed' = [ed EXCEPT !.depth = @ + 1] /\ UNCHANGED session
    /\ UNCHANGED <<doc, done, hist, made, sel>>

\* PlaceholderTxn::EndPlaceHolderBatch.
Closed(u) == [u EXCEPT !.state.absorb = FALSE, !.state.end = sel]

\* The same for placeholder p, wherever it is.  In a batch its state does not
\* matter any more.
Close(units, p) ==
    [k \in 1 .. Len(units) |->
        IF IsPlaceholder(units[k]) /\ Plc(units[k]) = p THEN Closed(units[k])
        ELSE units[k]]

\* The last level ends: the placeholder is closed and the observers are told
\* while mPlaceHolderBatch is still 1.
EndPlaceHolderTransaction ==
    \/ /\ ed.depth > 1
       /\ ed' = [ed EXCEPT !.depth = @ - 1]
       /\ UNCHANGED <<doc, done, hist, made, sel, session>>
    \/ /\ ed.depth = 1 /\ ~ed.notifying
       /\ hist' = [hist EXCEPT !.past = Close(@, ed.ref),
                               !.future = Close(@, ed.ref)]
       /\ ed' = [ed EXCEPT !.selState = Nothing, !.notifying = ed.ref # 0,
                           !.depth = IF ed.ref # 0 THEN 1 ELSE 0]
       /\ session' = NoSession
       /\ UNCHANGED <<doc, done, made, sel>>

ObserversNotifiedMutant ==
    /\ ed.notifying
    /\ ed' = [ed EXCEPT !.depth = @ - 1]
    /\ UNCHANGED <<doc, done, hist, made, sel, session>>

\* The observers have returned.
ObserversNotified ==
    /\ ed.notifying /\ ed.depth = 1
    /\ ed' = [ed EXCEPT !.depth = 0, !.notifying = FALSE]
    /\ UNCHANGED <<doc, done, hist, made, sel, session>>

\* EndIMEComposition commits the placeholder on top of the undo stack.
CommitComposition ==
    /\ TopIsPlaceholder(hist)
    /\ hist' = [hist EXCEPT !.past[Len(hist.past)].state.committed = TRUE]
    /\ UNCHANGED <<doc, done, made, ed, sel, session>>

----------------------------------------------------------------------------
(***************************************************************************)
(* Undo, redo, and the rest of nsEditor's interface to the manager.        *)
(***************************************************************************)
Effects(units) ==
    FlattenSeq([k \in 1 .. Len(units) |-> units[k].effects])

\* The selection after unit u is undone or redone.
Restored(u, end) ==
    IF IsPlaceholder(u)
    THEN {IF end THEN u.state.end ELSE u.state.start}
    ELSE {sel}

Counts == IF "undoMany" \in Env THEN {1, 2} ELSE {1}

AtMost(n, s) == IF n < Len(s) THEN n ELSE Len(s)

\* The loop goes on when the stack is empty.
Undo(n) ==
    /\ hist.past # <<>> /\ hist.open = <<>>
    /\ LET left == Len(hist.past) - AtMost(n, hist.past)
           undone == SubSeq(hist.past, left + 1, Len(hist.past))
       IN
       /\ hist' = [hist EXCEPT !.past = SubSeq(@, 1, left),
                               !.future = @ \o Reverse(undone)]
       /\ doc' = SubSeq(doc, 1, Len(doc) - Len(Effects(undone)))
       /\ sel' \in Restored(Head(undone), FALSE)
    /\ session' = [session EXCEPT !.alone = FALSE]
    /\ UNCHANGED <<done, made, ed>>

Redo(n) ==
    /\ hist.future # <<>> /\ hist.open = <<>>
    /\ LET left == Len(hist.future) - AtMost(n, hist.future)
           redone == Reverse(SubSeq(hist.future, left + 1, Len(hist.future)))
       IN
       /\ hist' = [hist EXCEPT !.future = SubSeq(@, 1, left),
                               !.past = @ \o redone]
       /\ doc' = doc \o Effects(redone)
       /\ sel' \in Restored(Last(redone), TRUE)
    /\ session' = [session EXCEPT !.alone = FALSE]
    /\ UNCHANGED <<done, made, ed>>

\* In an open batch the manager clears its stacks but refuses to be turned off
\* or on.
EnableUndo ==
    /\ "disable" \in Env
    /\ \E on \in BOOLEAN :
          hist' = [hist EXCEPT
                      !.on = IF hist.open = <<>> THEN on ELSE @,
                      !.past = IF on THEN @ ELSE <<>>,
                      !.future = IF on THEN @ ELSE <<>>]
    /\ session' = [session EXCEPT !.alone = FALSE]
    /\ UNCHANGED <<doc, done, made, ed, sel>>

MoveCaret ==
    /\ sel' \in Selection
    /\ UNCHANGED <<doc, done, hist, made, ed, session>>

Next ==
    \/ Edit \/ ScriptEdit \/ DirectEdit
    \/ BeginTransaction \/ EndTransaction
    \/ BeginPlaceHolderTransaction \/ EndPlaceHolderTransaction
    \/ ObserversNotified \/ CommitComposition
    \/ EnableUndo
    \/ \E n \in Counts : Undo(n) \/ Redo(n)
    \/ MoveCaret

Spec == Init /\ [][Next]_vars

----------------------------------------------------------------------------
TypeOK ==
    /\ doc \in Seq(Effect) /\ done \in 0 .. MaxEffects
    /\ hist \in [past : Seq(Unit), future : Seq(Unit), open : Seq(Unit),
                 on : BOOLEAN]
    /\ made \in 0 .. MaxPlaceholders
    /\ ed \in [depth : 0 .. MaxDepth, ref : 0 .. made, name : Name,
               selState : Selection \cup {Nothing}, notifying : BOOLEAN]
    /\ sel \in Selection
    /\ session \in [mark : Nat, alone : BOOLEAN]

\* What a placeholder batch has done so far is undone by one undo, together
\* with the batches it continues: unless something else has been done with the
\* manager meanwhile.
OneUndoPerBatch ==
    ed.depth > 0 /\ session.alone /\ ~ed.notifying /\ hist.on
    /\ Len(doc) > session.mark
    => /\ hist.past # <<>>
       /\ IsSuffix(SubSeq(doc, session.mark + 1, Len(doc)),
                   Last(hist.past).effects)

\* Between placeholder batches no placeholder that can be undone or redone
\* absorbs: an edit that belongs to no batch, or to a later one, is not
\* swallowed by an earlier one.
AbsorbersClosed ==
    ed.depth = 0 \/ ed.notifying =>
        \A u \in Range(hist.past) \cup Range(hist.future) :
            IsPlaceholder(u) => ~u.state.absorb
=============================================================================
