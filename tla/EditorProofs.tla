---------------------------- MODULE EditorProofs ----------------------------
(***************************************************************************)
(* Theorems about EditorTransactions and EditorModification, for any       *)
(* number of transactions, placeholders and levels of batches, and         *)
(* whatever the clients do.                                                *)
(***************************************************************************)
EXTENDS EditorModification, EditorTransactionsHistory, SequenceFacts

\* What can be undone and redone in history h.
Units(h) == Range(h.past) \cup Range(h.future)

\* Histories in which only batches are open.
Batch == {u \in Unit : u.kind = "batch"}
Hist == [past : Seq(Unit), future : Seq(Unit), open : Seq(Batch), on : BOOLEAN]

\* A unit of a placeholder holds one of placeholders 1 .. m, and the selection that
\* was saved for it.
Numbered(h, m) ==
    \A u \in Units(h) : IsPlaceholder(u) =>
        (\E p \in 1 .. m : u.plcs = {p}) /\ u.state.start \in Selection

\* No placeholder but r absorbs.
Only(h, r) ==
    \A u \in Units(h) : IsPlaceholder(u) /\ u.state.absorb => u.plcs = {r}

\* The observers are notified inside the batch and after its placeholder is closed;
\* until a batch has a placeholder it has its selection.
BatchState ==
    /\ ed.notifying => ed.depth > 0 /\ ed.ref # 0
    /\ ed.depth > 0 /\ ed.ref = 0 => ed.selState \in Selection

\* Only the placeholder the editor remembers absorbs, and only in its batch.
InBatch == ed.depth > 0 /\ ~ed.notifying
AbsorberIsOpen == Only(hist, IF InBatch THEN ed.ref ELSE 0)

\* What document d has after its first m effects is the end of these effects.
Ends(d, m, effects) ==
    /\ Len(d) - m <= Len(effects)
    /\ \A k \in 0 .. Len(d) - m - 1 : d[Len(d) - k] = effects[Len(effects) - k]

Absorbing(h) == TopIsPlaceholder(h) /\ Last(h.past).state.absorb

\* Unless something else was done, the batch's placeholder is on top and still
\* absorbs.
SessionIsOnTop ==
    session.alone /\ InBatch /\ hist.on =>
        /\ hist.open = <<>> /\ session.mark <= Len(doc)
        /\ ed.ref = 0 => Len(doc) = session.mark
        /\ ed.ref # 0 => /\ Absorbing(hist)
                         /\ Ends(doc, session.mark, Last(hist.past).effects)

EditorInv ==
    /\ TypeOK /\ hist \in Hist
    /\ Numbered(hist, made) /\ BatchState /\ AbsorberIsOpen /\ SessionIsOnTop

----------------------------------------------------------------------------
(***************************************************************************)
(* Units and the history.                                                  *)
(***************************************************************************)

\* MkUnit makes a unit.
LEMMA MadeUnit ==
    ASSUME NEW kind \in {"edit", "script", "placeholder", "batch"},
           NEW effects \in Seq(Effect), NEW plcs \in SUBSET Placeholder
    PROVE  /\ MkUnit(kind, effects, plcs) \in Unit
           /\ MkUnit(kind, effects, plcs).kind = kind
           /\ MkUnit(kind, effects, plcs).effects = effects
           /\ MkUnit(kind, effects, plcs).plcs = plcs
BY DEF MkUnit, NewState, Unit, PlcState, Name, Selection

\* A history in which only batches are open has the type of TypeOK.
LEMMA HistType ==
    ASSUME NEW h \in Hist
    PROVE  h \in [past : Seq(Unit), future : Seq(Unit), open : Seq(Unit), on : BOOLEAN]
<1>1. Batch \subseteq Unit /\ h.open \in Seq(Batch)
  BY DEF Batch, Hist
<1>2. h.open \in Seq(Unit)
  BY <1>1, SeqMonotonic
<1> QED BY <1>2 DEF Hist

\* The unit a history has on top.
LEMMA OnTop ==
    ASSUME NEW h \in Hist, h.past # <<>>
    PROVE  Last(h.past) \in Units(h) /\ Last(h.past) \in Unit
<1>1. h.past \in Seq(Unit)
  BY DEF Hist
<1> QED BY <1>1, Elements DEF Units

\* A placeholder's unit has one placeholder.
LEMMA ItsPlaceholder ==
    ASSUME NEW u, NEW p, u.plcs = {p}
    PROVE  Plc(u) = p
BY DEF Plc

\* What a unit pushed or merged becomes: the old top with more effects, the old top
\* absorbing again, or the new unit on top.
Grown(top, old, u) == top = [old EXCEPT !.effects = @ \o u.effects]

\* PushOrMerge, by its three cases.
LEMMA Pushed ==
    ASSUME NEW h \in Hist, NEW u \in Unit, sel \in Selection
    PROVE  LET h2 == PushOrMerge(h, u)
               old == Last(h.past)
               top == Last(h2.past)
           IN /\ h2 \in Hist /\ h2.past # <<>> /\ top \in Unit
              /\ h2.open = h.open /\ h2.on = h.on /\ h2.future = h.future
              /\ Units(h2) \subseteq Units(h) \cup {top}
              /\ \/ /\ TopIsPlaceholder(h) /\ Absorbs(old, u) /\ Grown(top, old, u)
                    /\ h2.past = [h.past EXCEPT ![Len(h.past)] = top]
                 \/ /\ TopIsPlaceholder(h) /\ ~Absorbs(old, u) /\ Resumes(old, u)
                    /\ h2.past = [h.past EXCEPT ![Len(h.past)] = top]
                    /\ top.kind = old.kind /\ top.plcs = old.plcs
                    /\ top.effects = old.effects
                    /\ top.state.start = old.state.start /\ top.state.absorb
                 \/ /\ ~(TopIsPlaceholder(h) /\ Absorbs(old, u))
                    /\ top = u /\ h2.past = Append(h.past, u)
<1> DEFINE h2 == PushOrMerge(h, u)
           old == Last(h.past)
           top == Last(h2.past)
           n == Len(h.past)
<1>0. h.past \in Seq(Unit) /\ h.future \in Seq(Unit) /\ h.open \in Seq(Batch)
      /\ h.on \in BOOLEAN
  BY DEF Hist
<1>1. CASE TopIsPlaceholder(h) /\ Absorbs(old, u)
  <2> DEFINE x == [old EXCEPT !.effects = @ \o u.effects]
  <2>1. old \in Unit /\ h.past # <<>> /\ old = h.past[n]
    BY <1>1, OnTop DEF TopIsPlaceholder, Last
  <2>2. old.effects \o u.effects \in Seq(Effect)
    BY <2>1, ConcatProperties DEF Unit
  <2>3. x \in Unit
    BY <2>1, <2>2 DEF Unit
  <2>4. h2 = [h EXCEPT !.past = [h.past EXCEPT ![n] = x]]
    BY <1>1, <2>1 DEF PushOrMerge
  <2> HIDE DEF x
  <2> DEFINE t == [h.past EXCEPT ![n] = x]
  <2>5. t \in Seq(Unit) /\ t # <<>> /\ Last(t) = x /\ Range(t) \subseteq Range(h.past) \cup {x}
    BY <1>0, <2>1, <2>3, Replaced
  <2>6. /\ h2 \in Hist /\ h2.past = t /\ h2.open = h.open /\ h2.on = h.on
        /\ h2.future = h.future
    <3> HIDE DEF t
    <3> QED BY <1>0, <2>4, <2>5 DEF Hist, t
  <2> QED BY <1>1, <2>3, <2>5, <2>6 DEF Units, Grown, x
<1>2. CASE TopIsPlaceholder(h) /\ ~Absorbs(old, u) /\ Resumes(old, u)
  <2> DEFINE x == [old EXCEPT !.state = [@ EXCEPT !.absorb = TRUE, !.end = sel]]
  <2>1. old \in Unit /\ h.past # <<>> /\ old = h.past[n]
    BY <1>2, OnTop DEF TopIsPlaceholder, Last
  <2>3. /\ x \in Unit /\ x.kind = old.kind /\ x.plcs = old.plcs
        /\ x.effects = old.effects
        /\ x.state.start = old.state.start /\ x.state.absorb
    BY <2>1 DEF Unit, PlcState
  <2>4. h2 = [h EXCEPT !.past = [h.past EXCEPT ![n] = x]]
    <3> DEFINE y == [old EXCEPT !.state = [@ EXCEPT !.absorb = TRUE]]
               r == [h.past EXCEPT ![n] = y]
               h3 == [h EXCEPT !.past = r]
    <3>1. n \in 1 .. n /\ h.past \in [1 .. n -> Unit]
      BY <1>0, <2>1, Elements, LenProperties
    <3>2. h2 = [h EXCEPT !.past[n].state.absorb = TRUE, !.past[n].state.end = sel]
      BY <1>2 DEF PushOrMerge
    <3>3. [h EXCEPT !.past[n].state.absorb = TRUE] = h3
      BY <2>1
    <3>4. h2 = [h3 EXCEPT !.past[n].state.end = sel]
      BY <3>2, <3>3
    <3>5. h3.past = r /\ r[n] = y
      BY <1>0, <3>1 DEF Hist
    <3>6. x = [y EXCEPT !.state = [@ EXCEPT !.end = sel]]
      BY <2>1 DEF Unit, PlcState
    <3>7. h2 = [h3 EXCEPT !.past = [r EXCEPT ![n] = x]]
      <4> HIDE DEF x, y, r, h3
      <4> QED BY <3>4, <3>5, <3>6
    <3>8. [r EXCEPT ![n] = x] = [h.past EXCEPT ![n] = x]
      <4> HIDE DEF x, y
      <4> QED BY <3>1
    <3>9. [h3 EXCEPT !.past = [h.past EXCEPT ![n] = x]]
          = [h EXCEPT !.past = [h.past EXCEPT ![n] = x]]
      <4> HIDE DEF x, r
      <4> QED BY DEF Hist
    <3> QED BY <3>7, <3>8, <3>9
  <2> HIDE DEF x
  <2> DEFINE t == [h.past EXCEPT ![n] = x]
  <2>5. t \in Seq(Unit) /\ t # <<>> /\ Last(t) = x /\ Range(t) \subseteq Range(h.past) \cup {x}
    BY <1>0, <2>1, <2>3, Replaced
  <2>6. /\ h2 \in Hist /\ h2.past = t /\ h2.open = h.open /\ h2.on = h.on
        /\ h2.future = h.future
    <3> HIDE DEF t
    <3> QED BY <1>0, <2>4, <2>5 DEF Hist, t
  <2> QED BY <1>2, <2>3, <2>5, <2>6 DEF Units
<1>3. CASE /\ ~(TopIsPlaceholder(h) /\ Absorbs(old, u))
           /\ ~(TopIsPlaceholder(h) /\ Resumes(old, u))
  <2> DEFINE t == Append(h.past, u)
  <2>1. h2 = [h EXCEPT !.past = t]
    BY <1>3 DEF PushOrMerge
  <2>2. t \in Seq(Unit) /\ t # <<>> /\ Last(t) = u /\ Range(t) \subseteq Range(h.past) \cup {u}
    BY <1>0, Appended
  <2>3. /\ h2 \in Hist /\ h2.past = t /\ h2.open = h.open /\ h2.on = h.on
        /\ h2.future = h.future
    <3> HIDE DEF t
    <3> QED BY <1>0, <2>1, <2>2 DEF Hist
  <2> QED BY <1>3, <2>2, <2>3 DEF Units
<1> QED BY <1>1, <1>2, <1>3

\* Units that were in the history before have the properties they had.
LEMMA FewerUnits ==
    ASSUME NEW h, NEW h2, Units(h2) \subseteq Units(h), NEW m, NEW r
    PROVE  /\ Numbered(h, m) => Numbered(h2, m)
           /\ Only(h, r) => Only(h2, r)
BY DEF Numbered, Only

\* Placeholders made later do not matter to what is numbered.
LEMMA MoreNumbers ==
    ASSUME NEW h, NEW m \in Nat, NEW n \in Nat, m <= n, Numbered(h, m)
    PROVE  Numbered(h, n)
BY DEF Numbered

\* The manager drops what can be redone when something is done.
LEMMA FutureDropped ==
    ASSUME NEW h \in Hist
    PROVE  LET h2 == [h EXCEPT !.future = <<>>]
           IN /\ h2 \in Hist /\ h2.past = h.past /\ h2.open = h.open /\ h2.on = h.on
              /\ Units(h2) \subseteq Units(h)
<1>0. <<>> \in Seq(Unit) /\ Len(<<>>) = 0
  BY EmptySeq
<1>1. Range(<<>>) = {} /\ <<>> \in Seq(Unit)
  <2>1. Range(<<>>) = {<<>>[k] : k \in 1 .. Len(<<>>)}
    BY <1>0, RangeEquality
  <2> QED BY <1>0, <2>1
<1>2. [h EXCEPT !.future = <<>>].future = <<>>
  BY DEF Hist
<1> QED BY <1>1, <1>2 DEF Hist, Units

\* What the manager makes of a unit: nothing when it is off, a part of the batch that
\* is open, or a unit on the stack.
LEMMA RecordCases ==
    ASSUME NEW h \in Hist, NEW u \in Unit
    PROVE  LET h2 == Record(h, u)
               h0 == [h EXCEPT !.future = <<>>]
           IN \/ ~h.on /\ h2 = h
              \/ /\ h.on /\ h.open # <<>>
                 /\ h2 \in Hist /\ h2.on = h.on /\ h2.past = h.past
                 /\ h2.open # <<>> /\ Units(h2) = Units(h) /\ h2.future = h.future
                 /\ h2.open = Append(Front(h.open), Joined(Last(h.open), u))
                 /\ Front(h.open) \in Seq(Batch) /\ Joined(Last(h.open), u) \in Batch
              \/ h.on /\ h.open = <<>> /\ h2 = PushOrMerge(h0, u)
<1>1. CASE h.on /\ h.open # <<>>
  <2> DEFINE batch == Last(h.open)
             n == Len(h.open)
             front == Front(h.open)
             j == Joined(batch, u)
             open == Append(front, j)
  <2>1. h.open \in Seq(Batch) /\ batch \in Unit /\ n \in Nat \ {0}
    BY <1>1, Elements DEF Hist, Batch
  <2>2. /\ batch.effects \o u.effects \in Seq(Effect)
        /\ batch.plcs \cup u.plcs \in SUBSET Placeholder
    BY <2>1, ConcatProperties DEF Unit
  <2>3. j \in Batch
    <3> DEFINE effects == batch.effects \o u.effects
               plcs == batch.plcs \cup u.plcs
    <3>1. j = MkUnit("batch", effects, plcs)
      BY DEF Joined
    <3> HIDE DEF j, effects, plcs
    <3>2. /\ effects \in Seq(Effect) /\ plcs \in SUBSET Placeholder
          /\ "batch" \in {"edit", "script", "placeholder", "batch"}
      BY <2>2 DEF effects, plcs
    <3>3. /\ MkUnit("batch", effects, plcs) \in Unit
          /\ MkUnit("batch", effects, plcs).kind = "batch"
      BY <3>2, MadeUnit
    <3> QED BY <3>1, <3>3 DEF Batch
  <2>4. front \in Seq(Batch)
    BY <2>1, PartOf DEF Front
  <2> HIDE DEF front, j
  <2>5. open \in Seq(Batch) /\ open # <<>>
    BY <2>3, <2>4, Appended
  <2>6. Record(h, u) = [h EXCEPT !.open = open]
    BY <1>1 DEF Record, front, j
  <2> HIDE DEF open
  <2>7. LET h2 == Record(h, u)
        IN h2 \in Hist /\ h2.on = h.on /\ h2.past = h.past /\ h2.open = open
           /\ h2.future = h.future
    BY <2>5, <2>6 DEF Hist
  <2> QED BY <1>1, <2>3, <2>4, <2>5, <2>7 DEF Units, open, front, j
<1>2. CASE h.on /\ h.open = <<>>
  BY <1>2 DEF Record
<1>3. CASE ~h.on
  BY <1>3 DEF Record
<1> QED BY <1>1, <1>2, <1>3

\* A transaction or a batch is recorded: nothing begins to absorb, and the
\* placeholder on top that absorbs takes in an edit.
LEMMA RecordKeeps ==
    ASSUME NEW h \in Hist, NEW u \in Unit, ~IsPlaceholder(u), sel \in Selection,
           NEW m, NEW r, Numbered(h, m), Only(h, r)
    PROVE  LET h2 == Record(h, u)
           IN /\ h2 \in Hist /\ h2.on = h.on /\ (h2.open = <<>> <=> h.open = <<>>)
              /\ Numbered(h2, m) /\ Only(h2, r)
              /\ h.on /\ h.open = <<>> /\ Absorbing(h) /\ u.kind = "edit" =>
                    /\ Absorbing(h2)
                    /\ Last(h2.past).effects = Last(h.past).effects \o u.effects
<1> DEFINE h2 == Record(h, u)
           h0 == [h EXCEPT !.future = <<>>]
<1>1. CASE ~h.on /\ h2 = h
  BY <1>1
<1>2. CASE /\ h.on /\ h.open # <<>> /\ h2 \in Hist /\ h2.on = h.on
           /\ h2.past = h.past /\ h2.open # <<>> /\ Units(h2) = Units(h)
  BY <1>2, FewerUnits
<1>3. CASE h.on /\ h.open = <<>> /\ h2 = PushOrMerge(h0, u)
  <2> DEFINE old == Last(h.past)
             top == Last(h2.past)
  <2>1. /\ h0 \in Hist /\ h0.past = h.past /\ h0.open = h.open /\ h0.on = h.on
        /\ Units(h0) \subseteq Units(h)
    BY FutureDropped
  <2>2. TopIsPlaceholder(h0) <=> TopIsPlaceholder(h)
    BY <2>1 DEF TopIsPlaceholder
  <2> HIDE DEF h0, h2
  <2>6. ~Resumes(old, u)
    BY DEF Resumes
  <2>7. /\ h2 \in Hist /\ h2.past # <<>> /\ top \in Unit
        /\ h2.open = h0.open /\ h2.on = h0.on
        /\ Units(h2) \subseteq Units(h0) \cup {top}
        /\ \/ TopIsPlaceholder(h0) /\ Absorbs(Last(h0.past), u)
              /\ Grown(top, Last(h0.past), u)
           \/ Resumes(Last(h0.past), u)
           \/ ~(TopIsPlaceholder(h0) /\ Absorbs(Last(h0.past), u)) /\ top = u
    BY <1>3, <2>1, Pushed
  <2>3. /\ h2 \in Hist /\ h2.past # <<>> /\ top \in Unit
        /\ h2.open = h.open /\ h2.on = h.on
        /\ Units(h2) \subseteq Units(h) \cup {top}
        /\ \/ TopIsPlaceholder(h) /\ Absorbs(old, u) /\ Grown(top, old, u)
           \/ ~(TopIsPlaceholder(h) /\ Absorbs(old, u)) /\ top = u
    BY <2>1, <2>2, <2>6, <2>7
  <2>4. CASE TopIsPlaceholder(h) /\ Absorbs(old, u) /\ Grown(top, old, u)
    <3>1. old \in Units(h) /\ old \in Unit /\ IsPlaceholder(old) /\ old.state.absorb
      BY <2>4, OnTop DEF TopIsPlaceholder, Absorbs
    <3>2. top.kind = old.kind /\ top.plcs = old.plcs /\ top.state = old.state
          /\ top.effects = old.effects \o u.effects
      BY <2>4, <3>1 DEF Grown, Unit
    <3>3. \A v \in Units(h2) : \E w \in Units(h) :
             v.kind = w.kind /\ v.plcs = w.plcs /\ v.state = w.state
      BY <2>3, <3>1, <3>2
    <3>4. Numbered(h2, m)
      BY <3>3 DEF Numbered, IsPlaceholder
    <3>5. Only(h2, r)
      BY <3>3 DEF Only, IsPlaceholder
    <3>6. Absorbing(h2)
      BY <2>3, <3>1, <3>2 DEF Absorbing, TopIsPlaceholder, IsPlaceholder
    <3> QED BY <1>3, <2>1, <2>3, <3>2, <3>4, <3>5, <3>6 DEF h2
  <2>5. CASE ~(TopIsPlaceholder(h) /\ Absorbs(old, u)) /\ top = u
    <3>1. Numbered(h2, m)
      BY <2>3, <2>5 DEF Numbered
    <3>2. Only(h2, r)
      BY <2>3, <2>5 DEF Only
    <3>3. ~(Absorbing(h) /\ u.kind = "edit")
      BY <2>5 DEF Absorbing, Absorbs
    <3> QED BY <1>3, <2>1, <2>3, <3>1, <3>2, <3>3 DEF h2
  <2> QED BY <2>3, <2>4, <2>5
<1> QED BY <1>1, <1>2, <1>3, RecordCases

\* While nothing absorbs, any placeholder may be said to be the only one.
LEMMA NoneAbsorbs ==
    ASSUME NEW h, NEW m \in Nat, Numbered(h, m), Only(h, 0)
    PROVE  /\ \A u \in Units(h) : IsPlaceholder(u) => ~u.state.absorb
           /\ \A r : Only(h, r)
BY DEF Numbered, Only

\* A placeholder on top of the undo stack has a number.
LEMMA TopIsNumbered ==
    ASSUME NEW h \in Hist, NEW m \in Nat, Numbered(h, m), TopIsPlaceholder(h)
    PROVE  Plc(Last(h.past)) \in 1 .. m /\ Last(h.past).plcs = {Plc(Last(h.past))}
<1>1. Last(h.past) \in Units(h)
  BY OnTop DEF TopIsPlaceholder
<1>2. PICK p \in 1 .. m : Last(h.past).plcs = {p}
  BY <1>1 DEF Numbered, TopIsPlaceholder
<1> QED BY <1>2, ItsPlaceholder

\* The placeholder made for the first transaction of a batch, or the one it
\* continues, absorbs, and is the one that the editor remembers.
LEMMA NewPlaceholder ==
    ASSUME EditorInv, NeedsPlaceholder, NEW p, p = made + 1, p <= MaxPlaceholders
    PROVE  LET h == WithPlaceholder(p)
           IN /\ h \in Hist /\ h.on = hist.on /\ (h.open = <<>> <=> hist.open = <<>>)
              /\ Numbered(h, p) /\ Only(h, Remembered(h, p))
              /\ Remembered(h, p) \in 1 .. p
              /\ h.on /\ h.open = <<>> => Absorbing(h)
<1> DEFINE h == WithPlaceholder(p)
           u == [MkUnit("placeholder", <<>>, {p}) EXCEPT
                    !.state = NewState(ed.name, ed.selState)]
           h0 == [hist EXCEPT !.future = <<>>]
<1>0. /\ hist \in Hist /\ sel \in Selection /\ made \in Nat /\ p \in Placeholder
      /\ p \in Nat /\ p \in 1 .. p /\ made <= p /\ MaxPlaceholders \in Nat
  BY EditorAssumption DEF EditorInv, TypeOK, Placeholder
<1>1. Only(hist, 0) /\ Numbered(hist, made) /\ ed.selState \in Selection
  BY DEF EditorInv, AbsorberIsOpen, InBatch, BatchState, NeedsPlaceholder
<1>2. Numbered(hist, p) /\ \A r : Only(hist, r)
  BY <1>0, <1>1, MoreNumbers, NoneAbsorbs
<1>3. \A v \in Units(hist) : IsPlaceholder(v) => ~v.state.absorb
  BY <1>0, <1>1, NoneAbsorbs
<1>4. /\ u \in Unit /\ IsPlaceholder(u) /\ u.plcs = {p}
      /\ u.state.start \in Selection /\ u.state.absorb
  <2>1. ed.name \in Name /\ Stretch \in Selection
    BY DEF EditorInv, TypeOK, Selection
  <2>2. NewState(ed.name, ed.selState) \in PlcState
    BY <1>1, <2>1 DEF NewState, PlcState
  <2>3. /\ <<>> \in Seq(Effect) /\ {p} \in SUBSET Placeholder
        /\ "placeholder" \in {"edit", "script", "placeholder", "batch"}
    BY <1>0, EmptySeq
  <2>4. MkUnit("placeholder", <<>>, {p}) \in Unit
        /\ MkUnit("placeholder", <<>>, {p}).kind = "placeholder"
        /\ MkUnit("placeholder", <<>>, {p}).plcs = {p}
    <3> DEFINE kind == "placeholder"
               effects == <<>>
               plcs == {p}
    <3> HIDE DEF kind, effects, plcs
    <3>1. /\ effects \in Seq(Effect) /\ plcs \in SUBSET Placeholder
          /\ kind \in {"edit", "script", "placeholder", "batch"}
      BY <2>3 DEF kind, effects, plcs
    <3>2. /\ MkUnit(kind, effects, plcs) \in Unit
          /\ MkUnit(kind, effects, plcs).kind = kind
          /\ MkUnit(kind, effects, plcs).plcs = plcs
      BY <3>1, MadeUnit
    <3> QED BY <3>2 DEF kind, effects, plcs
  <2>5. u \in Unit /\ u.kind = "placeholder" /\ u.plcs = {p}
        /\ u.state = NewState(ed.name, ed.selState)
    BY <2>2, <2>4 DEF Unit
  <2> HIDE DEF u
  <2> QED BY <1>1, <2>5 DEF IsPlaceholder, NewState
<1> HIDE DEF u
<1>5. h = Record(hist, u)
  BY DEF WithPlaceholder, u
<1> HIDE DEF h
<1>6. ASSUME h \in Hist, Numbered(h, p) PROVE Remembered(h, p) \in 1 .. p
  BY <1>0, <1>6, TopIsNumbered DEF Remembered
<1>7. CASE ~hist.on /\ h = hist
  BY <1>0, <1>2, <1>6, <1>7 DEF h
<1>8. CASE /\ hist.on /\ hist.open # <<>> /\ h \in Hist /\ h.on = hist.on
           /\ h.past = hist.past /\ h.open # <<>> /\ Units(h) = Units(hist)
  <2>1. Numbered(h, p) /\ \A r : Only(h, r)
    BY <1>2, <1>8 DEF Numbered, Only
  <2> QED BY <1>6, <1>8, <2>1 DEF h
<1>9. CASE hist.on /\ hist.open = <<>> /\ h = PushOrMerge(h0, u)
  <2> DEFINE old == Last(h0.past)
             top == Last(h.past)
  <2>1. /\ h0 \in Hist /\ h0.open = hist.open /\ h0.on = hist.on
        /\ Units(h0) \subseteq Units(hist)
    BY <1>0, FutureDropped
  <2> HIDE DEF h0
  <2>2. TopIsPlaceholder(h0) => old \in Units(hist) /\ IsPlaceholder(old)
    BY <2>1, OnTop DEF TopIsPlaceholder
  <2>3. ~(TopIsPlaceholder(h0) /\ Absorbs(old, u))
    BY <1>3, <2>2 DEF Absorbs
  <2>4. /\ h \in Hist /\ h.past # <<>> /\ top \in Unit
        /\ h.open = h0.open /\ h.on = h0.on
        /\ Units(h) \subseteq Units(h0) \cup {top}
        /\ \/ /\ TopIsPlaceholder(h0) /\ top.kind = old.kind /\ top.plcs = old.plcs
              /\ top.state.start = old.state.start /\ top.state.absorb
           \/ top = u
    BY <1>0, <1>4, <1>9, <2>1, <2>3, Pushed
  <2>5. /\ IsPlaceholder(top) /\ top.state.absorb /\ top.state.start \in Selection
        /\ \E q \in 1 .. p : top.plcs = {q}
    <3>1. CASE TopIsPlaceholder(h0) /\ top.kind = old.kind /\ top.plcs = old.plcs
               /\ top.state.start = old.state.start /\ top.state.absorb
      BY <1>2, <2>2, <3>1 DEF Numbered, IsPlaceholder
    <3>2. CASE top = u
      BY <1>0, <1>4, <3>2
    <3> QED BY <2>4, <3>1, <3>2
  <2>6. Numbered(h, p)
    BY <1>2, <2>1, <2>4, <2>5 DEF Numbered
  <2>7. Absorbing(h) /\ TopIsPlaceholder(h)
    BY <2>4, <2>5 DEF Absorbing, TopIsPlaceholder
  <2>8. top.plcs = {Remembered(h, p)}
    BY <1>0, <2>4, <2>6, <2>7, TopIsNumbered DEF Remembered
  <2>9. Only(h, Remembered(h, p))
    BY <1>3, <2>1, <2>4, <2>8 DEF Only
  <2> QED BY <1>6, <1>9, <2>1, <2>4, <2>6, <2>7, <2>9 DEF h
<1>10. \/ ~hist.on /\ h = hist
       \/ /\ hist.on /\ hist.open # <<>> /\ h \in Hist /\ h.on = hist.on
          /\ h.past = hist.past /\ h.open # <<>> /\ Units(h) = Units(hist)
       \/ hist.on /\ hist.open = <<>> /\ h = PushOrMerge(h0, u)
  BY <1>0, <1>4, <1>5, RecordCases
<1> QED BY <1>7, <1>8, <1>9, <1>10 DEF h

----------------------------------------------------------------------------
(***************************************************************************)
(* The invariant is kept.                                                  *)
(***************************************************************************)

\* An effect is added to the document and to the unit that ends it.
LEMMA EndsGrow ==
    ASSUME NEW d \in Seq(Effect), NEW e \in Seq(Effect), NEW x \in Effect,
           NEW m \in Nat, m <= Len(d), Ends(d, m, e)
    PROVE  /\ Append(d, x) \in Seq(Effect) /\ Len(Append(d, x)) = Len(d) + 1
           /\ Ends(Append(d, x), m, e \o <<x>>)
<1> DEFINE d2 == Append(d, x)
           e2 == e \o <<x>>
<1>0. Len(d) \in Nat /\ Len(e) \in Nat
  BY LenProperties
<1>1. /\ d2 \in Seq(Effect) /\ Len(d2) = Len(d) + 1 /\ d2[Len(d) + 1] = x
      /\ \A i \in 1 .. Len(d) : d2[i] = d[i]
  BY AppendProperties
<1>2. e2 = Append(e, x)
  BY AppendIsConcat
<1>3. /\ Len(e2) = Len(e) + 1 /\ e2[Len(e) + 1] = x
      /\ \A i \in 1 .. Len(e) : e2[i] = e[i]
  <2> HIDE DEF e2
  <2> QED BY <1>2, AppendProperties
<1> HIDE DEF d2, e2
<1>4. Len(d2) - m <= Len(e2)
  BY <1>0, <1>1, <1>3 DEF Ends
<1>5. ASSUME NEW k \in 0 .. Len(d2) - m - 1 PROVE d2[Len(d2) - k] = e2[Len(e2) - k]
  <2>1. CASE k = 0
    BY <1>0, <1>1, <1>3, <2>1
  <2>2. CASE k # 0
    <3>1. k - 1 \in 0 .. Len(d) - m - 1
      BY <1>0, <1>1, <2>2
    <3>2. d[Len(d) - (k - 1)] = e[Len(e) - (k - 1)]
      BY <3>1 DEF Ends
    <3>3. Len(d) - (k - 1) \in 1 .. Len(d) /\ Len(e) - (k - 1) \in 1 .. Len(e)
      BY <1>0, <3>1 DEF Ends
    <3>4. Len(d2) - k = Len(d) - (k - 1) /\ Len(e2) - k = Len(e) - (k - 1)
      BY <1>0, <1>1, <1>3
    <3> QED BY <1>1, <1>3, <3>2, <3>3, <3>4
  <2> QED BY <2>1, <2>2
<1> QED BY <1>1, <1>4, <1>5 DEF Ends, d2, e2

\* Nothing was done since the batch was opened.
LEMMA EndsEmpty ==
    ASSUME NEW d \in Seq(Effect), NEW e \in Seq(Effect)
    PROVE  Ends(d, Len(d), e)
<1>1. Len(d) \in Nat /\ Len(e) \in Nat
  BY LenProperties
<1> QED BY <1>1 DEF Ends

\* nsEditor::DoTransaction: a batch's first edit makes its placeholder, which is then the
\* one on top that absorbs; the edit is merged into it.
LEMMA DoKeepsInv ==
    ASSUME EditorInv, NEW kind \in {"edit", "script"}, DoTransaction(kind)
    PROVE  EditorInv'
<1> DEFINE p == made + 1
           m == IF NeedsPlaceholder THEN p ELSE made
           h == IF NeedsPlaceholder THEN WithPlaceholder(p) ELSE hist
           r == IF NeedsPlaceholder THEN Remembered(h, p) ELSE ed.ref
           u == MkUnit(kind, <<NewEffect>>, {})
           Open(hh) == /\ hh.open = <<>> /\ session.mark <= Len(doc) /\ Absorbing(hh)
                       /\ Ends(doc, session.mark, Last(hh.past).effects)
<1>0. /\ hist \in Hist /\ sel \in Selection /\ made \in Nat /\ made <= MaxPlaceholders
      /\ doc \in Seq(Effect) /\ done \in Nat /\ MaxEffects \in Nat
      /\ MaxPlaceholders \in Nat /\ session.mark \in Nat
      /\ Numbered(hist, made) /\ ed.ref \in 0 .. made
  BY EditorAssumption DEF EditorInv, TypeOK
<1>1. /\ done < MaxEffects /\ m <= MaxPlaceholders /\ made' = m
      /\ ed' = IF NeedsPlaceholder THEN [ed EXCEPT !.ref = r, !.selState = Nothing] ELSE ed
      /\ session' = [session EXCEPT !.alone = @ /\ kind = "edit"]
      /\ done' = NewEffect /\ sel' = sel
      /\ \/ hist' = Record(h, u) /\ doc' = Append(doc, NewEffect)
         \/ hist' = h /\ doc' = doc
  BY DEF DoTransaction, CanEdit
<1>2. /\ NewEffect \in Effect /\ done' \in 0 .. MaxEffects
      /\ u \in Unit /\ ~IsPlaceholder(u) /\ u.kind = kind /\ u.effects = <<NewEffect>>
  <2>1. NewEffect \in Effect
    BY <1>0, <1>1 DEF NewEffect, Effect
  <2>2. <<NewEffect>> \in Seq(Effect) /\ {} \in SUBSET Placeholder
    BY <2>1
  <2>3. u \in Unit /\ u.kind = kind /\ u.effects = <<NewEffect>>
    <3> DEFINE effects == <<NewEffect>>
               plcs == {}
    <3> HIDE DEF effects, plcs
    <3>1. /\ effects \in Seq(Effect) /\ plcs \in SUBSET Placeholder
          /\ kind \in {"edit", "script", "placeholder", "batch"}
      BY <2>2 DEF effects, plcs
    <3>2. /\ MkUnit(kind, effects, plcs) \in Unit
          /\ MkUnit(kind, effects, plcs).kind = kind
          /\ MkUnit(kind, effects, plcs).effects = effects
      BY <3>1, MadeUnit
    <3> QED BY <3>2 DEF effects, plcs
  <2> QED BY <1>0, <1>1, <2>1, <2>3 DEF IsPlaceholder, NewEffect
<1>3. /\ h \in Hist /\ h.on = hist.on /\ (h.open = <<>> <=> hist.open = <<>>)
      /\ Numbered(h, m) /\ Only(h, IF InBatch THEN r ELSE 0)
      /\ m \in 0 .. MaxPlaceholders /\ r \in 0 .. m
      /\ NeedsPlaceholder => r # 0
      /\ session.alone /\ InBatch /\ hist.on => Open(h)
  <2>1. CASE NeedsPlaceholder
    <3>1. /\ h \in Hist /\ h.on = hist.on /\ (h.open = <<>> <=> hist.open = <<>>)
          /\ Numbered(h, p) /\ Only(h, r) /\ r \in 1 .. p
          /\ h.on /\ h.open = <<>> => Absorbing(h)
      BY <1>1, <2>1, NewPlaceholder
    <3>2. InBatch /\ ed.ref = 0
      BY <2>1 DEF NeedsPlaceholder, InBatch, EditorInv, BatchState
    <3>3. ASSUME session.alone, hist.on PROVE Open(h)
      <4>1. hist.open = <<>> /\ Len(doc) = session.mark
        BY <3>2, <3>3 DEF EditorInv, SessionIsOnTop
      <4>2. Absorbing(h)
        BY <3>1, <3>3, <4>1
      <4>3. Last(h.past).effects \in Seq(Effect)
        BY <3>1, <4>2, OnTop DEF Absorbing, TopIsPlaceholder, Unit
      <4> QED BY <1>0, <3>1, <4>1, <4>2, <4>3, EndsEmpty
    <3> QED BY <1>0, <1>1, <2>1, <3>1, <3>2, <3>3
  <2>2. CASE ~NeedsPlaceholder
    <3>1. h = hist /\ m = made /\ r = ed.ref
      BY <2>2
    <3>2. InBatch => ed.ref # 0
      BY <1>0, <2>2 DEF InBatch, NeedsPlaceholder, EditorInv, TypeOK
    <3> QED BY <1>0, <2>2, <3>1, <3>2 DEF EditorInv, AbsorberIsOpen, SessionIsOnTop
  <2> QED BY <2>1, <2>2
<1> HIDE DEF h, r, m, u
<1>4. /\ hist' \in Hist /\ hist'.on = hist.on
      /\ Numbered(hist', m) /\ Only(hist', IF InBatch THEN r ELSE 0)
      /\ doc' \in Seq(Effect)
      /\ session.alone /\ kind = "edit" /\ InBatch /\ hist.on =>
            /\ hist'.open = <<>> /\ session.mark <= Len(doc') /\ Absorbing(hist')
            /\ Ends(doc', session.mark, Last(hist'.past).effects)
  <2>1. CASE hist' = h /\ doc' = doc
    BY <1>0, <1>3, <2>1
  <2>2. CASE hist' = Record(h, u) /\ doc' = Append(doc, NewEffect)
    <3>1. /\ hist' \in Hist /\ hist'.on = h.on /\ (hist'.open = <<>> <=> h.open = <<>>)
          /\ Numbered(hist', m) /\ Only(hist', IF InBatch THEN r ELSE 0)
          /\ h.on /\ h.open = <<>> /\ Absorbing(h) /\ u.kind = "edit" =>
                /\ Absorbing(hist')
                /\ Last(hist'.past).effects = Last(h.past).effects \o u.effects
      BY <1>0, <1>2, <1>3, <2>2, RecordKeeps
    <3>2. doc' \in Seq(Effect)
      BY <1>0, <1>2, <2>2, AppendProperties
    <3>3. ASSUME session.alone, kind = "edit", InBatch, hist.on
          PROVE  /\ hist'.open = <<>> /\ session.mark <= Len(doc') /\ Absorbing(hist')
                 /\ Ends(doc', session.mark, Last(hist'.past).effects)
      <4>1. Open(h) /\ h.on
        BY <1>3, <3>3
      <4>2. Last(h.past).effects \in Seq(Effect)
        BY <1>3, <4>1, OnTop DEF Absorbing, TopIsPlaceholder, Unit
      <4>3. Len(doc') = Len(doc) + 1
            /\ Ends(doc', session.mark, Last(h.past).effects \o <<NewEffect>>)
        BY <1>0, <1>2, <2>2, <4>1, <4>2, EndsGrow
      <4>4. Len(doc) \in Nat
        BY <1>0, LenProperties
      <4>5. hist'.open = <<>> /\ Absorbing(hist')
            /\ Last(hist'.past).effects = Last(h.past).effects \o u.effects
        BY <1>2, <3>1, <3>3, <4>1
      <4>6. Ends(doc', session.mark, Last(hist'.past).effects)
        BY <1>2, <4>3, <4>5, Zenon
      <4>7. session.mark <= Len(doc')
        BY <1>0, <4>1, <4>3, <4>4
      <4> QED BY <4>5, <4>6, <4>7
    <3> QED BY <1>3, <3>1, <3>2, <3>3
  <2> QED BY <1>1, <2>1, <2>2
<1>5. /\ ed' \in [depth : 0 .. MaxDepth, ref : 0 .. m, name : Name,
                  selState : Selection \cup {Nothing}, notifying : BOOLEAN]
      /\ ed'.ref = r /\ ed'.depth = ed.depth /\ ed'.notifying = ed.notifying
      /\ (ed'.depth > 0 /\ ed'.ref = 0 => ed'.selState \in Selection)
  <2>1. ed \in [depth : 0 .. MaxDepth, ref : 0 .. made, name : Name,
                selState : Selection \cup {Nothing}, notifying : BOOLEAN]
    BY DEF EditorInv, TypeOK
  <2>2. CASE NeedsPlaceholder
    BY <1>1, <1>3, <2>1, <2>2
  <2>3. CASE ~NeedsPlaceholder
    BY <1>1, <1>3, <2>1, <2>3 DEF r, m, EditorInv, BatchState
  <2> QED BY <2>2, <2>3
<1>6. session' \in [mark : Nat, alone : BOOLEAN] /\ session'.mark = session.mark
      /\ (session'.alone => session.alone /\ kind = "edit")
  BY <1>1 DEF EditorInv, TypeOK
<1>7. TypeOK'
  <2>1. hist' \in [past : Seq(Unit), future : Seq(Unit), open : Seq(Unit), on : BOOLEAN]
    BY <1>4, HistType
  <2> QED BY <1>0, <1>1, <1>2, <1>3, <1>4, <1>5, <1>6, <2>1 DEF TypeOK
<1>8. InBatch' <=> InBatch
  BY <1>5 DEF InBatch
<1>9. BatchState'
  <2>1. ed.notifying => ed.depth > 0 /\ r # 0
    BY <1>3 DEF EditorInv, BatchState, r
  <2> QED BY <1>5, <2>1 DEF BatchState
<1>10. Numbered(hist, made)' /\ AbsorberIsOpen'
  BY <1>1, <1>4, <1>5, <1>8 DEF AbsorberIsOpen, Numbered, Only, Units
<1>11. SessionIsOnTop'
  <2>1. InBatch' => ed'.ref # 0
    BY <1>0, <1>3, <1>5, <1>8 DEF r, InBatch, NeedsPlaceholder, EditorInv, TypeOK
  <2> QED BY <1>4, <1>6, <1>8, <2>1 DEF SessionIsOnTop, Absorbing, TopIsPlaceholder
<1> QED BY <1>4, <1>7, <1>9, <1>10, <1>11 DEF EditorInv

\* What every state has.
LEMMA Facts ==
    ASSUME EditorInv
    PROVE  /\ hist \in Hist /\ Numbered(hist, made)
           /\ Only(hist, IF InBatch THEN ed.ref ELSE 0)
           /\ doc \in Seq(Effect) /\ sel \in Selection
           /\ made \in Nat /\ made <= MaxPlaceholders /\ done \in Nat
           /\ MaxEffects \in Nat /\ MaxPlaceholders \in Nat
           /\ session.mark \in Nat /\ session.alone \in BOOLEAN
BY EditorAssumption DEF EditorInv, AbsorberIsOpen, TypeOK

\* What the editor's own state has.
LEMMA EdFacts ==
    ASSUME EditorInv
    PROVE  /\ ed \in [depth : 0 .. MaxDepth, ref : 0 .. made, name : Name,
                      selState : Selection \cup {Nothing}, notifying : BOOLEAN]
           /\ MaxDepth \in Nat /\ ed.depth \in 0 .. MaxDepth /\ ed.ref \in 0 .. made
           /\ ed.notifying \in BOOLEAN
<1>1. ed \in [depth : 0 .. MaxDepth, ref : 0 .. made, name : Name,
              selState : Selection \cup {Nothing}, notifying : BOOLEAN]
  BY DEF EditorInv, TypeOK
<1>2. MaxDepth \in Nat
  BY EditorAssumption
<1> QED BY <1>1, <1>2

\* Clients use the manager behind the editor's back: the batch is not alone.
LEMMA AsideKeepsInv ==
    ASSUME EditorInv, UNCHANGED <<made, ed>>,
           session' = [session EXCEPT !.alone = FALSE]
           \/ (session' = session /\ hist.open # <<>> /\ hist'.on = hist.on),
           hist' \in Hist, Numbered(hist', made),
           Only(hist', IF InBatch THEN ed.ref ELSE 0),
           doc' \in Seq(Effect), done' \in 0 .. MaxEffects, sel' \in Selection
    PROVE  EditorInv'
<1>1. hist' \in [past : Seq(Unit), future : Seq(Unit), open : Seq(Unit), on : BOOLEAN]
  BY HistType
<1>2. TypeOK'
  BY <1>1 DEF EditorInv, TypeOK
<1>3. ~(session'.alone /\ InBatch' /\ hist'.on)
  BY DEF EditorInv, TypeOK, SessionIsOnTop, InBatch
<1>4. BatchState'
  BY DEF EditorInv, BatchState
<1>5. Numbered(hist, made)' /\ AbsorberIsOpen'
  BY DEF AbsorberIsOpen, InBatch, Numbered, Only, Units
<1> QED BY <1>2, <1>3, <1>4, <1>5 DEF EditorInv, SessionIsOnTop

\* A transaction given to the manager directly is not merged.
LEMMA DirectKeepsInv ==
    ASSUME EditorInv, DirectEdit
    PROVE  EditorInv'
<1> DEFINE effects == <<NewEffect>>
           plcs == {}
           u == MkUnit("script", effects, plcs)
<1>1. NewEffect \in Effect /\ NewEffect \in 0 .. MaxEffects
  BY Facts DEF DirectEdit, CanEdit, NewEffect, Effect
<1>2. /\ effects \in Seq(Effect) /\ plcs \in SUBSET Placeholder
      /\ "script" \in {"edit", "script", "placeholder", "batch"}
  BY <1>1
<1>3. hist' = Record(hist, u)
  BY DEF DirectEdit
<1> HIDE DEF effects, plcs
<1>4. u \in Unit /\ ~IsPlaceholder(u)
  BY <1>2, MadeUnit DEF IsPlaceholder
<1> HIDE DEF u
<1>5. hist' \in Hist /\ Numbered(hist', made) /\ Only(hist', IF InBatch THEN ed.ref ELSE 0)
  BY <1>3, <1>4, Facts, RecordKeeps
<1>6. doc' \in Seq(Effect)
  BY <1>1, Facts, AppendProperties DEF DirectEdit
<1> QED BY <1>1, <1>5, <1>6, Facts, AsideKeepsInv DEF DirectEdit

\* What the history is, while the batches that are open change.
LEMMA OtherOpen ==
    ASSUME NEW h \in Hist, NEW open \in Seq(Batch)
    PROVE  LET h2 == [h EXCEPT !.open = open]
           IN h2 \in Hist /\ h2.on = h.on /\ Units(h2) = Units(h)
BY DEF Hist, Units

\* Opening a batch of the manager changes no unit that can be undone.
LEMMA BeginKeepsInv ==
    ASSUME EditorInv, BeginTransaction
    PROVE  EditorInv'
<1> DEFINE effects == <<>>
           plcs == {}
           u == MkUnit("batch", effects, plcs)
           open == Append(hist.open, u)
<1>1. /\ effects \in Seq(Effect) /\ plcs \in SUBSET Placeholder
      /\ "batch" \in {"edit", "script", "placeholder", "batch"}
  BY EmptySeq
<1>2. hist' = [hist EXCEPT !.open = open]
  BY DEF BeginTransaction
<1> HIDE DEF effects, plcs
<1>3. u \in Batch
  BY <1>1, MadeUnit DEF Batch
<1> HIDE DEF u
<1>4. open \in Seq(Batch)
  BY <1>3, Facts, Appended DEF Hist
<1> HIDE DEF open
<1>5. hist' \in Hist /\ Units(hist') = Units(hist)
  BY <1>2, <1>4, Facts, OtherOpen
<1>6. Numbered(hist', made) /\ Only(hist', IF InBatch THEN ed.ref ELSE 0)
  BY <1>5, Facts DEF Numbered, Only
<1> QED BY <1>5, <1>6, Facts, AsideKeepsInv DEF BeginTransaction, EditorInv, TypeOK

\* A batch that ends is recorded in the one around it or on the undo stack.
LEMMA EndKeepsInv ==
    ASSUME EditorInv, EndTransaction
    PROVE  EditorInv'
<1> DEFINE batch == Last(hist.open)
           open == Front(hist.open)
           rest == [hist EXCEPT !.open = open]
<1>1. hist.open # <<>> /\ (hist' = rest \/ hist' = Record(rest, batch))
  BY DEF EndTransaction
<1>2. hist.open \in Seq(Batch) /\ batch \in Batch /\ Len(hist.open) \in Nat \ {0}
  BY <1>1, Facts, Elements DEF Hist
<1>3. open \in Seq(Batch)
  BY <1>2, PartOf DEF Front
<1>4. batch \in Unit /\ ~IsPlaceholder(batch)
  BY <1>2 DEF Batch, IsPlaceholder
<1> HIDE DEF open, batch
<1>5. rest \in Hist /\ rest.on = hist.on /\ Units(rest) = Units(hist)
  BY <1>3, Facts, OtherOpen
<1> HIDE DEF rest
<1>6. Numbered(rest, made) /\ Only(rest, IF InBatch THEN ed.ref ELSE 0)
  BY <1>5, Facts DEF Numbered, Only
<1>7. /\ hist' \in Hist /\ hist'.on = hist.on /\ Numbered(hist', made)
      /\ Only(hist', IF InBatch THEN ed.ref ELSE 0)
  BY <1>1, <1>4, <1>5, <1>6, Facts, RecordKeeps
<1> QED BY <1>1, <1>7, Facts, AsideKeepsInv DEF EndTransaction, EditorInv, TypeOK

\* The outermost level begins where nothing absorbs and nothing was done yet.
LEMMA BeginPlaceHolderKeepsInv ==
    ASSUME EditorInv, BeginPlaceHolderTransaction
    PROVE  EditorInv'
<1>1. UNCHANGED <<doc, done, hist, made, sel>>
  BY DEF BeginPlaceHolderTransaction
<1>2. Len(doc) \in Nat
  BY Facts, LenProperties
<1>3. CASE /\ ed.depth = 0 /\ session' = [mark |-> Len(doc), alone |-> hist.open = <<>>]
           /\ \E name \in Name :
                 ed' = [ed EXCEPT !.depth = 1, !.ref = 0, !.name = name, !.selState = sel]
  <2>1. PICK name \in Name :
           ed' = [ed EXCEPT !.depth = 1, !.ref = 0, !.name = name, !.selState = sel]
    BY <1>3
  <2>2. ~ed.notifying /\ ed.notifying \in BOOLEAN
    BY <1>3 DEF EditorInv, BatchState, TypeOK
  <2>3. /\ ed'.depth = 1 /\ ed'.ref = 0 /\ ed'.selState = sel /\ ed'.notifying = FALSE
        /\ ed'.name = name
    BY <2>1, <2>2 DEF EditorInv, TypeOK
  <2>4. TypeOK'
    <3>1. MaxDepth \in Nat /\ 1 \in 0 .. MaxDepth
      <4>1. ed.depth < MaxDepth
        BY DEF BeginPlaceHolderTransaction
      <4> QED BY <1>3, <4>1, EdFacts
    <3>2. ed' \in [depth : 0 .. MaxDepth, ref : 0 .. made, name : Name,
                   selState : Selection \cup {Nothing}, notifying : BOOLEAN]
      <4>1. 0 \in 0 .. made /\ sel \in Selection \cup {Nothing} /\ name \in Name
        BY Facts
      <4> QED BY <2>1, <3>1, <4>1, EdFacts
    <3>3. session' \in [mark : Nat, alone : BOOLEAN]
      BY <1>2, <1>3
    <3> QED BY <1>1, <3>2, <3>3 DEF EditorInv, TypeOK
  <2>5. BatchState'
    BY <1>1, <2>3, Facts DEF BatchState
  <2>6. Only(hist, 0)
    BY <1>3, Facts DEF InBatch
  <2>7. AbsorberIsOpen' /\ Numbered(hist, made)'
    BY <1>1, <2>3, <2>6, Facts DEF AbsorberIsOpen, Only, Units, Numbered
  <2>8. SessionIsOnTop'
    <3>1. session'.mark = Len(doc') /\ (session'.alone => hist'.open = <<>>)
      BY <1>1, <1>3
    <3>2. Len(doc') \in Nat /\ ed'.ref = 0
      BY <1>1, <1>2, <2>3
    <3> QED BY <3>1, <3>2 DEF SessionIsOnTop
  <2> QED BY <1>1, <2>4, <2>5, <2>7, <2>8 DEF EditorInv
<1>4. CASE ed.depth > 0 /\ ed' = [ed EXCEPT !.depth = @ + 1] /\ session' = session
  <2>1. /\ ed' \in [depth : 0 .. MaxDepth, ref : 0 .. made, name : Name,
                    selState : Selection \cup {Nothing}, notifying : BOOLEAN]
        /\ ed'.depth > 0 /\ ed'.ref = ed.ref /\ ed'.selState = ed.selState
        /\ ed'.notifying = ed.notifying
    <3>1. ed.depth < MaxDepth
      BY DEF BeginPlaceHolderTransaction
    <3>2. ed.depth + 1 \in 0 .. MaxDepth /\ ed.depth + 1 > 0
      BY <3>1, EdFacts
    <3> QED BY <1>4, <3>2, EdFacts
  <2> QED BY <1>1, <1>4, <2>1 DEF EditorInv, TypeOK, BatchState, AbsorberIsOpen,
          SessionIsOnTop, InBatch, Numbered, Only, Units, Absorbing, TopIsPlaceholder
<1> QED BY <1>3, <1>4 DEF BeginPlaceHolderTransaction

\* The placeholder p is closed, the other units stay what they are.
LEMMA CloseCloses ==
    ASSUME NEW units \in Seq(Unit), NEW p, sel \in Selection
    PROVE  /\ Close(units, p) \in Seq(Unit)
           /\ \A x \in Range(Close(units, p)) : \E v \in Range(units) :
                 /\ x.kind = v.kind /\ x.plcs = v.plcs
                 /\ x.state.start = v.state.start
                 /\ x.state.absorb => v.state.absorb /\ ~(IsPlaceholder(v) /\ Plc(v) = p)
<1> DEFINE c == Close(units, p)
           C(v) == IF IsPlaceholder(v) /\ Plc(v) = p THEN Closed(v) ELSE v
<1>1. /\ Len(units) \in Nat
      /\ \A k \in 1 .. Len(units) : units[k] \in Unit /\ units[k] \in Range(units)
  BY Elements
<1>2. ASSUME NEW v \in Unit
      PROVE  /\ C(v) \in Unit /\ C(v).kind = v.kind /\ C(v).plcs = v.plcs
             /\ C(v).state.start = v.state.start
             /\ C(v).state.absorb => v.state.absorb /\ ~(IsPlaceholder(v) /\ Plc(v) = p)
  <2>1. CASE IsPlaceholder(v) /\ Plc(v) = p
    <3> DEFINE s == [v.state EXCEPT !.absorb = FALSE, !.end = sel]
    <3>1. C(v) = [v EXCEPT !.state = s]
      BY <2>1 DEF Closed, Unit
    <3>2. s \in PlcState /\ s.start = v.state.start /\ ~s.absorb
      BY DEF Unit, PlcState
    <3> HIDE DEF s, C
    <3> QED BY <3>1, <3>2 DEF Unit
  <2>2. CASE ~(IsPlaceholder(v) /\ Plc(v) = p)
    BY <2>2
  <2> QED BY <2>1, <2>2
<1>3. c = [k \in 1 .. Len(units) |-> C(units[k])]
  BY DEF Close
<1> HIDE DEF c, C
<1>4. c \in Seq(Unit) /\ Len(c) = Len(units) /\ \A k \in 1 .. Len(units) : c[k] = C(units[k])
  BY <1>1, <1>2, <1>3
<1>5. ASSUME NEW x \in Range(c) PROVE \E v \in Range(units) : x = C(v) /\ v \in Unit
  BY <1>1, <1>4, Elements
<1>6. ASSUME NEW x \in Range(c)
      PROVE  \E v \in Range(units) :
                /\ x.kind = v.kind /\ x.plcs = v.plcs
                /\ x.state.start = v.state.start
                /\ x.state.absorb => v.state.absorb /\ ~(IsPlaceholder(v) /\ Plc(v) = p)
  BY <1>2, <1>5
<1> QED BY <1>4, <1>6 DEF c

\* The outermost level ends: the one placeholder that absorbs is closed, wherever it is.
LEMMA EndPlaceHolderKeepsInv ==
    ASSUME EditorInv, EndPlaceHolderTransaction
    PROVE  EditorInv'
<1>1. UNCHANGED <<doc, done, made, sel>>
  BY DEF EndPlaceHolderTransaction
<1>2. CASE ed.depth > 1 /\ ed' = [ed EXCEPT !.depth = @ - 1] /\ UNCHANGED <<hist, session>>
  <2>1. /\ ed' \in [depth : 0 .. MaxDepth, ref : 0 .. made, name : Name,
                    selState : Selection \cup {Nothing}, notifying : BOOLEAN]
        /\ ed'.depth > 0 /\ ed.depth > 0
        /\ ed'.ref = ed.ref /\ ed'.selState = ed.selState
        /\ ed'.notifying = ed.notifying
    <3>1. ed.depth - 1 \in 0 .. MaxDepth /\ ed.depth - 1 > 0 /\ ed.depth > 0
      BY <1>2, EdFacts
    <3> QED BY <1>2, <3>1, EdFacts
  <2> QED BY <1>1, <1>2, <2>1 DEF EditorInv, TypeOK, BatchState, AbsorberIsOpen,
          SessionIsOnTop, InBatch, Numbered, Only, Units, Absorbing, TopIsPlaceholder
<1>3. CASE /\ ed.depth = 1 /\ ~ed.notifying
           /\ hist' = [hist EXCEPT !.past = Close(@, ed.ref), !.future = Close(@, ed.ref)]
           /\ ed' = [ed EXCEPT !.selState = Nothing, !.notifying = ed.ref # 0,
                               !.depth = IF ed.ref # 0 THEN 1 ELSE 0]
           /\ session' = NoSession
  <2> DEFINE past == Close(hist.past, ed.ref)
             future == Close(hist.future, ed.ref)
  <2>1. past \in Seq(Unit) /\ future \in Seq(Unit)
    BY Facts, CloseCloses DEF Hist
  <2>2. ASSUME NEW x \in Range(past) \cup Range(future)
        PROVE  \E v \in Units(hist) :
                  /\ x.kind = v.kind /\ x.plcs = v.plcs
                  /\ x.state.start = v.state.start
                  /\ x.state.absorb =>
                        v.state.absorb /\ ~(IsPlaceholder(v) /\ Plc(v) = ed.ref)
    <3>1. hist.past \in Seq(Unit) /\ hist.future \in Seq(Unit) /\ sel \in Selection
      BY Facts DEF Hist
    <3>2. CASE x \in Range(past)
      BY <3>1, <3>2, CloseCloses DEF Units
    <3>3. CASE x \in Range(future)
      BY <3>1, <3>3, CloseCloses DEF Units
    <3> QED BY <3>2, <3>3
  <2>3. hist' = [hist EXCEPT !.past = past, !.future = future]
    BY <1>3
  <2> HIDE DEF past, future
  <2>4. hist' \in Hist /\ Units(hist') = Range(past) \cup Range(future)
    BY <2>1, <2>3, Facts DEF Hist, Units
  <2>5. Only(hist, ed.ref)
    BY <1>3, Facts DEF InBatch
  <2>6. Numbered(hist', made)
    BY <2>2, <2>4, Facts DEF Numbered, IsPlaceholder
  <2>7. Only(hist', 0)
    <3> SUFFICES ASSUME NEW x \in Units(hist'), IsPlaceholder(x), x.state.absorb
                 PROVE  FALSE
      BY DEF Only
    <3>1. PICK v \in Units(hist) :
             /\ x.kind = v.kind /\ v.state.absorb
             /\ ~(IsPlaceholder(v) /\ Plc(v) = ed.ref)
      BY <2>2, <2>4
    <3>2. IsPlaceholder(v) /\ v.plcs = {ed.ref}
      BY <2>5, <3>1 DEF Only, IsPlaceholder
    <3> QED BY <3>1, <3>2, ItsPlaceholder
  <2>8. /\ ed' \in [depth : 0 .. MaxDepth, ref : 0 .. made, name : Name,
                    selState : Selection \cup {Nothing}, notifying : BOOLEAN]
        /\ ed'.ref = ed.ref /\ ed'.notifying = (ed.ref # 0)
        /\ ed'.depth = IF ed.ref # 0 THEN 1 ELSE 0
    <3>1. 1 \in 0 .. MaxDepth /\ 0 \in 0 .. MaxDepth
      BY <1>3, EdFacts
    <3> QED BY <1>3, <3>1, EdFacts
  <2>9. TypeOK'
    <3>1. hist' \in [past : Seq(Unit), future : Seq(Unit), open : Seq(Unit), on : BOOLEAN]
      BY <2>4, HistType
    <3>2. session' \in [mark : Nat, alone : BOOLEAN]
      BY <1>3 DEF NoSession
    <3> QED BY <1>1, <2>8, <3>1, <3>2 DEF EditorInv, TypeOK
  <2>10. BatchState' /\ ~InBatch'
    BY <2>8 DEF BatchState, InBatch
  <2>11. AbsorberIsOpen' /\ Numbered(hist, made)'
    BY <1>1, <2>6, <2>7, <2>10 DEF AbsorberIsOpen, Numbered, Only, Units
  <2>12. SessionIsOnTop'
    BY <2>10 DEF SessionIsOnTop
  <2> QED BY <2>4, <2>9, <2>10, <2>11, <2>12 DEF EditorInv
<1> QED BY <1>2, <1>3 DEF EndPlaceHolderTransaction

\* The batch is over once the observers have returned.
LEMMA NotifiedKeepsInv ==
    ASSUME EditorInv, ObserversNotified
    PROVE  EditorInv'
<1>1. /\ ed' = [ed EXCEPT !.depth = 0, !.notifying = FALSE] /\ ed.notifying
      /\ UNCHANGED <<doc, done, hist, made, sel, session>>
  BY DEF ObserversNotified
<1>2. /\ ed' \in [depth : 0 .. MaxDepth, ref : 0 .. made, name : Name,
                  selState : Selection \cup {Nothing}, notifying : BOOLEAN]
      /\ ed'.depth = 0 /\ ~ed'.notifying
  <2>1. 0 \in 0 .. MaxDepth
    BY EdFacts
  <2> QED BY <1>1, <2>1, EdFacts
<1>3. ~InBatch /\ ~InBatch'
  BY <1>1, <1>2 DEF InBatch
<1>4. AbsorberIsOpen' /\ Numbered(hist, made)'
  BY <1>1, <1>3, Facts DEF AbsorberIsOpen, Only, Units, Numbered
<1> QED BY <1>1, <1>2, <1>3, <1>4 DEF EditorInv, TypeOK, BatchState, SessionIsOnTop

\* A composition that is committed absorbs as it did.
LEMMA CommitKeepsInv ==
    ASSUME EditorInv, CommitComposition
    PROVE  EditorInv'
<1> DEFINE old == Last(hist.past)
           n == Len(hist.past)
           x == [old EXCEPT !.state = [@ EXCEPT !.committed = TRUE]]
           t == [hist.past EXCEPT ![n] = x]
<1>1. UNCHANGED <<doc, done, made, ed, sel, session>> /\ TopIsPlaceholder(hist)
  BY DEF CommitComposition
<1>2. old \in Unit /\ old \in Units(hist) /\ hist.past # <<>> /\ old = hist.past[n]
  BY <1>1, Facts, OnTop DEF TopIsPlaceholder, Last
<1>3. hist' = [hist EXCEPT !.past = t]
  BY <1>2 DEF CommitComposition
<1>4. /\ x \in Unit /\ x.kind = old.kind /\ x.plcs = old.plcs /\ x.effects = old.effects
      /\ x.state.start = old.state.start /\ x.state.absorb = old.state.absorb
  BY <1>2 DEF Unit, PlcState
<1> HIDE DEF x
<1>5. /\ t \in Seq(Unit) /\ t # <<>> /\ Last(t) = x
      /\ Range(t) \subseteq Range(hist.past) \cup {x}
  BY <1>2, <1>4, Facts, Replaced DEF Hist
<1> HIDE DEF t
<1>6. /\ hist' \in Hist /\ hist'.past = t /\ hist'.open = hist.open /\ hist'.on = hist.on
      /\ Units(hist') \subseteq Units(hist) \cup {x}
  BY <1>3, <1>5, Facts DEF Hist, Units
<1>7. \A u \in Units(hist') : \E v \in Units(hist) :
         /\ u.kind = v.kind /\ u.plcs = v.plcs
         /\ u.state.start = v.state.start /\ u.state.absorb = v.state.absorb
  BY <1>2, <1>4, <1>6
<1>8. Numbered(hist', made) /\ Only(hist', IF InBatch THEN ed.ref ELSE 0)
  <2>1. Numbered(hist', made)
    BY <1>7, Facts DEF Numbered, IsPlaceholder
  <2>2. Only(hist', IF InBatch THEN ed.ref ELSE 0)
    BY <1>7, Facts DEF Only, IsPlaceholder
  <2> QED BY <2>1, <2>2
<1>9. TypeOK' /\ BatchState'
  <2>1. hist' \in [past : Seq(Unit), future : Seq(Unit), open : Seq(Unit), on : BOOLEAN]
    BY <1>6, HistType
  <2> QED BY <1>1, <2>1 DEF EditorInv, TypeOK, BatchState
<1>10. AbsorberIsOpen' /\ Numbered(hist, made)'
  BY <1>1, <1>8 DEF AbsorberIsOpen, Only, Units, Numbered, InBatch
<1>11. SessionIsOnTop'
  <2>1. InBatch' = InBatch
    BY <1>1 DEF InBatch
  <2>2. /\ Absorbing(hist) => Absorbing(hist')
        /\ Last(hist'.past).effects = Last(hist.past).effects
    BY <1>1, <1>4, <1>5, <1>6 DEF Absorbing, TopIsPlaceholder, IsPlaceholder
  <2> QED BY <1>1, <1>6, <2>1, <2>2 DEF EditorInv, SessionIsOnTop, Absorbing, TopIsPlaceholder
<1> QED BY <1>6, <1>9, <1>10, <1>11 DEF EditorInv

\* enableUndo() with either value.
LEMMA EnableCases ==
    ASSUME EnableUndo
    PROVE  \E on \in BOOLEAN :
              hist' = [hist EXCEPT !.on = IF hist.open = <<>> THEN on ELSE @,
                                   !.past = IF on THEN @ ELSE <<>>,
                                   !.future = IF on THEN @ ELSE <<>>]
BY DEF EnableUndo

\* A placeholder batch that is opened has done nothing yet.
LEMMA OpeningLeaves == BeginPlaceHolderTransaction => UNCHANGED <<doc, hist>>
BY DEF BeginPlaceHolderTransaction

\* enableUndo() at most drops units.
LEMMA EnableKeepsInv ==
    ASSUME EditorInv, EnableUndo
    PROVE  EditorInv'
<1>1. /\ UNCHANGED <<doc, done, made, ed, sel>>
      /\ session' = [session EXCEPT !.alone = FALSE]
  BY DEF EnableUndo
<1>2. PICK on \in BOOLEAN :
         hist' = [hist EXCEPT !.on = IF hist.open = <<>> THEN on ELSE @,
                              !.past = IF on THEN @ ELSE <<>>,
                              !.future = IF on THEN @ ELSE <<>>]
  BY DEF EnableUndo
<1>3. <<>> \in Seq(Unit) /\ Len(<<>>) = 0
  BY EmptySeq
<1>4. Range(<<>>) = {}
  <2>1. Range(<<>>) = {<<>>[k] : k \in 1 .. Len(<<>>)}
    BY <1>3, RangeEquality
  <2> QED BY <1>3, <2>1
<1>5. hist' \in Hist /\ (hist'.past = hist.past \/ hist'.past = <<>>)
      /\ (hist'.future = hist.future \/ hist'.future = <<>>)
  BY <1>2, <1>3, Facts DEF Hist
<1>6. Units(hist') \subseteq Units(hist)
  BY <1>4, <1>5 DEF Units
<1>7. Numbered(hist', made) /\ Only(hist', IF InBatch THEN ed.ref ELSE 0)
  BY <1>6, Facts, FewerUnits
<1> QED BY <1>1, <1>5, <1>7, Facts, AsideKeepsInv DEF EditorInv, TypeOK

\* The caret moves, or nothing happens.
LEMMA MoveKeepsInv ==
    ASSUME EditorInv, MoveCaret \/ UNCHANGED vars
    PROVE  EditorInv'
<1>1. UNCHANGED <<doc, done, hist, made, ed, session>> /\ sel' \in Selection
  BY Facts DEF MoveCaret, vars
<1> QED BY <1>1 DEF EditorInv, TypeOK, BatchState, AbsorberIsOpen,
           SessionIsOnTop, InBatch, Numbered, Only, Units, Absorbing, TopIsPlaceholder

\* The effects of some units are a sequence of effects.
LEMMA TheirEffects ==
    ASSUME NEW units \in Seq(Unit)
    PROVE  Effects(units) \in Seq(Effect) /\ Len(Effects(units)) \in Nat
<1> DEFINE ss == [k \in 1 .. Len(units) |-> units[k].effects]
<1>1. Len(units) \in Nat /\ \A k \in 1 .. Len(units) : units[k].effects \in Seq(Effect)
  <2>1. Len(units) \in Nat /\ \A k \in 1 .. Len(units) : units[k] \in Unit
    BY Elements
  <2>2. \A u \in Unit : u.effects \in Seq(Effect)
    BY DEF Unit
  <2> QED BY <2>1, <2>2
<1>2. ss \in Seq(Seq(Effect))
  BY <1>1
<1> HIDE DEF ss
<1>3. FlattenSeq(ss) \in Seq(Effect)
  BY <1>2, Flattened
<1> QED BY <1>3, LenProperties DEF Effects, ss

\* The last n units of a stack, or all of it: what is left, and what is taken.
LEMMA Taken ==
    ASSUME NEW s \in Seq(Unit), s # <<>>, NEW n \in Counts
    PROVE  LET left == Len(s) - AtMost(n, s)
               taken == SubSeq(s, left + 1, Len(s))
           IN /\ SubSeq(s, 1, left) \in Seq(Unit) /\ taken \in Seq(Unit)
              /\ Range(SubSeq(s, 1, left)) \subseteq Range(s)
              /\ Range(taken) \subseteq Range(s)
              /\ taken # <<>> /\ Reverse(taken) \in Seq(Unit)
              /\ Range(Reverse(taken)) \subseteq Range(s) /\ Reverse(taken) # <<>>
              /\ Head(taken) \in Range(s) /\ Last(Reverse(taken)) \in Range(s)
              /\ Last(Reverse(taken)) \in Unit
<1> DEFINE left == Len(s) - AtMost(n, s)
           taken == SubSeq(s, left + 1, Len(s))
<1>1. Len(s) \in Nat \ {0} /\ n \in Nat \ {0}
  BY Elements DEF Counts
<1>2. left \in Nat /\ left + 1 <= Len(s) /\ left <= Len(s) /\ left \in Int
      /\ left + 1 \in Nat \ {0} /\ Len(s) \in Int /\ 1 \in Nat \ {0}
  BY <1>1 DEF AtMost
<1> HIDE DEF left
<1>3. SubSeq(s, 1, left) \in Seq(Unit) /\ Range(SubSeq(s, 1, left)) \subseteq Range(s)
  BY <1>2, PartOf
<1>4. /\ taken \in Seq(Unit) /\ Range(taken) \subseteq Range(s)
      /\ Len(taken) = Len(s) - (left + 1) + 1
  BY <1>1, <1>2, PartOf
<1> HIDE DEF taken
<1>5. Len(taken) # 0 /\ taken # <<>>
  BY <1>1, <1>2, <1>4, EmptySeq
<1>6. Len(taken) \in Nat /\ 1 \in 1 .. Len(taken) /\ Head(taken) = taken[1]
  BY <1>4, <1>5, Elements, HeadTailProperties
<1>7. Head(taken) \in Range(s)
  BY <1>4, <1>6, Elements
<1>8. /\ Reverse(taken) \in Seq(Unit) /\ Len(Reverse(taken)) = Len(taken)
      /\ Range(Reverse(taken)) \subseteq Range(taken)
  BY <1>4, Reversed
<1>9. Reverse(taken) # <<>>
  BY <1>5, <1>8, EmptySeq
<1>10. Last(Reverse(taken)) \in Range(Reverse(taken)) /\ Last(Reverse(taken)) \in Unit
  BY <1>8, <1>9, Elements
<1> QED BY <1>3, <1>4, <1>5, <1>7, <1>8, <1>9, <1>10 DEF left, taken

\* The selection that an undone or redone unit brings back.
LEMMA RestoredSelection ==
    ASSUME EditorInv, NEW u \in Units(hist), u \in Unit, NEW end \in BOOLEAN
    PROVE  Restored(u, end) \subseteq Selection
<1>1. IsPlaceholder(u) => u.state.start \in Selection
  BY Facts DEF Numbered
<1>2. u.state.end \in Selection
  BY DEF Unit, PlcState
<1>3. sel \in Selection
  BY Facts
<1> QED BY <1>1, <1>2, <1>3 DEF Restored

\* Undo moves units to the redo stack and takes their effects back.
LEMMA UndoKeepsInv ==
    ASSUME EditorInv, NEW n \in Counts, Undo(n)
    PROVE  EditorInv'
<1> DEFINE left == Len(hist.past) - AtMost(n, hist.past)
           undone == SubSeq(hist.past, left + 1, Len(hist.past))
           past == SubSeq(hist.past, 1, left)
           back == Reverse(undone)
           future == hist.future \o back
<1>1. /\ hist.past # <<>> /\ hist' = [hist EXCEPT !.past = past, !.future = future]
      /\ doc' = SubSeq(doc, 1, Len(doc) - Len(Effects(undone)))
      /\ sel' \in Restored(Head(undone), FALSE)
      /\ session' = [session EXCEPT !.alone = FALSE]
      /\ UNCHANGED <<done, made, ed>>
  BY DEF Undo
<1>2. hist.past \in Seq(Unit) /\ hist.future \in Seq(Unit)
  BY Facts DEF Hist
<1>3. /\ past \in Seq(Unit) /\ undone \in Seq(Unit) /\ back \in Seq(Unit)
      /\ Range(past) \subseteq Range(hist.past) /\ Range(back) \subseteq Range(hist.past)
      /\ undone # <<>> /\ Head(undone) \in Range(hist.past)
  BY <1>1, <1>2, Taken
<1>4. Head(undone) \in Unit
  BY <1>2, <1>3, Elements
<1> HIDE DEF left, undone, past, back
<1>5. future \in Seq(Unit) /\ Range(future) = Range(hist.future) \cup Range(back)
  BY <1>2, <1>3, ConcatProperties, RangeConcatenation
<1> HIDE DEF future
<1>6. hist' \in Hist /\ Units(hist') \subseteq Units(hist)
  BY <1>1, <1>3, <1>5, Facts DEF Hist, Units
<1>7. Numbered(hist', made) /\ Only(hist', IF InBatch THEN ed.ref ELSE 0)
  BY <1>6, Facts, FewerUnits
<1>8. doc' \in Seq(Effect)
  <2>1. Len(Effects(undone)) \in Nat /\ Len(doc) \in Nat /\ doc \in Seq(Effect)
    BY <1>3, Facts, TheirEffects, LenProperties
  <2> DEFINE k == Len(doc) - Len(Effects(undone))
  <2>2. k \in Int /\ k <= Len(doc) /\ 1 \in Nat \ {0}
    BY <2>1
  <2>3. doc' = SubSeq(doc, 1, k)
    BY <1>1
  <2> HIDE DEF k
  <2> QED BY <2>1, <2>2, <2>3, PartOf
<1>9. sel' \in Selection
  <2>1. Head(undone) \in Units(hist)
    BY <1>3 DEF Units
  <2> QED BY <1>1, <1>4, <2>1, RestoredSelection
<1>10. done' \in 0 .. MaxEffects
  BY <1>1 DEF EditorInv, TypeOK
<1> QED BY <1>1, <1>6, <1>7, <1>8, <1>9, <1>10, AsideKeepsInv

\* Redo moves them to the undo stack again.
LEMMA RedoKeepsInv ==
    ASSUME EditorInv, NEW n \in Counts, Redo(n)
    PROVE  EditorInv'
<1> DEFINE left == Len(hist.future) - AtMost(n, hist.future)
           redone == Reverse(SubSeq(hist.future, left + 1, Len(hist.future)))
           future == SubSeq(hist.future, 1, left)
           past == hist.past \o redone
<1>1. /\ hist.future # <<>> /\ hist' = [hist EXCEPT !.future = future, !.past = past]
      /\ doc' = doc \o Effects(redone)
      /\ sel' \in Restored(Last(redone), TRUE)
      /\ session' = [session EXCEPT !.alone = FALSE]
      /\ UNCHANGED <<done, made, ed>>
  BY DEF Redo
<1>2. hist.past \in Seq(Unit) /\ hist.future \in Seq(Unit)
  BY Facts DEF Hist
<1>3. /\ future \in Seq(Unit) /\ redone \in Seq(Unit)
      /\ Range(future) \subseteq Range(hist.future)
      /\ Range(redone) \subseteq Range(hist.future)
      /\ Last(redone) \in Range(hist.future) /\ Last(redone) \in Unit
  BY <1>1, <1>2, Taken
<1> HIDE DEF left, redone, future
<1>4. past \in Seq(Unit) /\ Range(past) = Range(hist.past) \cup Range(redone)
  BY <1>2, <1>3, ConcatProperties, RangeConcatenation
<1> HIDE DEF past
<1>5. hist' \in Hist /\ Units(hist') \subseteq Units(hist)
  BY <1>1, <1>3, <1>4, Facts DEF Hist, Units
<1>6. Numbered(hist', made) /\ Only(hist', IF InBatch THEN ed.ref ELSE 0)
  BY <1>5, Facts, FewerUnits
<1>7. doc' \in Seq(Effect)
  <2>1. Effects(redone) \in Seq(Effect) /\ doc \in Seq(Effect)
    BY <1>3, Facts, TheirEffects
  <2> QED BY <1>1, <2>1, ConcatProperties
<1>8. sel' \in Selection
  <2>1. Last(redone) \in Units(hist)
    BY <1>3 DEF Units
  <2> QED BY <1>1, <1>3, <2>1, RestoredSelection
<1>9. done' \in 0 .. MaxEffects
  BY <1>1 DEF EditorInv, TypeOK
<1> QED BY <1>1, <1>5, <1>6, <1>7, <1>8, <1>9, AsideKeepsInv

----------------------------------------------------------------------------
(***************************************************************************)
(* The theorems.                                                           *)
(***************************************************************************)

\* The invariant holds of an editor just made.
LEMMA InitHasInv == Init => EditorInv
<1> SUFFICES ASSUME Init PROVE EditorInv
  OBVIOUS
<1>1. /\ doc = <<>> /\ done = 0 /\ made = 0 /\ sel = Stretch
      /\ hist = [past |-> <<>>, future |-> <<>>, open |-> <<>>, on |-> TRUE]
      /\ ed = [depth |-> 0, ref |-> 0, name |-> "other", selState |-> Nothing,
               notifying |-> FALSE]
      /\ session = [mark |-> 0, alone |-> FALSE]
  BY DEF Init, NoSession
<1>2. /\ <<>> \in Seq(Unit) /\ <<>> \in Seq(Batch) /\ <<>> \in Seq(Effect)
      /\ Len(<<>>) = 0
  BY EmptySeq
<1>3. Range(<<>>) = {}
  <2>1. Range(<<>>) = {<<>>[k] : k \in 1 .. Len(<<>>)}
    BY <1>2, RangeEquality
  <2> QED BY <1>2, <2>1
<1>4. hist \in Hist /\ Units(hist) = {} /\ ~InBatch
  BY <1>1, <1>2, <1>3 DEF Hist, Units, InBatch
<1>5. TypeOK
  <2>1. hist \in [past : Seq(Unit), future : Seq(Unit), open : Seq(Unit), on : BOOLEAN]
    BY <1>4, HistType
  <2>2. /\ 0 \in 0 .. MaxEffects /\ 0 \in 0 .. MaxPlaceholders /\ 0 \in 0 .. MaxDepth
        /\ 0 \in 0 .. made
    BY <1>1, EditorAssumption
  <2>3. ed \in [depth : 0 .. MaxDepth, ref : 0 .. made, name : Name,
                selState : Selection \cup {Nothing}, notifying : BOOLEAN]
    BY <1>1, <2>2 DEF Name
  <2> QED BY <1>1, <1>2, <2>1, <2>2, <2>3 DEF TypeOK, Selection
<1> QED BY <1>1, <1>4, <1>5 DEF EditorInv, Numbered, BatchState, AbsorberIsOpen, Only,
           SessionIsOnTop

\* What the theorems rest on: the types, and that a placeholder absorbs only while the
\* batch that opened or continued it is open and is the one the editor remembers, with
\* the whole of that batch in it unless others used the manager (nsEditor.cpp,
\* PlaceholderTxn.cpp).
THEOREM EditorInvariance == Spec => []EditorInv
<1>1. Init => EditorInv
  BY InitHasInv
<1>2. EditorInv /\ [Next]_vars => EditorInv'
  <2> SUFFICES ASSUME EditorInv, [Next]_vars PROVE EditorInv'
    OBVIOUS
  <2>1. CASE Edit
    <3> DEFINE kind == "edit"
    <3>1. DoTransaction(kind) /\ kind \in {"edit", "script"}
      BY <2>1 DEF Edit
    <3> HIDE DEF kind
    <3> QED BY <3>1, DoKeepsInv
  <2>2. CASE ScriptEdit
    <3> DEFINE kind == "script"
    <3>1. DoTransaction(kind) /\ kind \in {"edit", "script"}
      BY <2>2 DEF ScriptEdit
    <3> HIDE DEF kind
    <3> QED BY <3>1, DoKeepsInv
  <2>3. CASE DirectEdit
    BY <2>3, DirectKeepsInv
  <2>4. CASE BeginTransaction
    BY <2>4, BeginKeepsInv
  <2>5. CASE EndTransaction
    BY <2>5, EndKeepsInv
  <2>6. CASE BeginPlaceHolderTransaction
    BY <2>6, BeginPlaceHolderKeepsInv
  <2>7. CASE EndPlaceHolderTransaction
    BY <2>7, EndPlaceHolderKeepsInv
  <2>8. CASE ObserversNotified
    BY <2>8, NotifiedKeepsInv
  <2>9. CASE CommitComposition
    BY <2>9, CommitKeepsInv
  <2>10. CASE EnableUndo
    BY <2>10, EnableKeepsInv
  <2>11. CASE \E n \in Counts : Undo(n)
    BY <2>11, UndoKeepsInv
  <2>12. CASE \E n \in Counts : Redo(n)
    BY <2>12, RedoKeepsInv
  <2>13. CASE MoveCaret \/ UNCHANGED vars
    BY <2>13, MoveKeepsInv
  <2> QED BY <2>1, <2>2, <2>3, <2>4, <2>5, <2>6, <2>7, <2>8, <2>9, <2>10, <2>11, <2>12,
             <2>13 DEF Next
<1> QED BY <1>1, <1>2, PTL DEF Spec

\* The types: the effects of a unit that grows by merging, joining and flattening stay a
\* sequence of transactions that were done, and mPlaceHolderTxn is a placeholder that
\* exists.
THEOREM TypeCorrectness == Spec => []TypeOK
<1>1. EditorInv => TypeOK
  BY DEF EditorInv
<1> QED BY <1>1, EditorInvariance, PTL

\* Between placeholder batches, and while the observers are told that one has ended,
\* nothing that can be undone or redone absorbs: PlaceholderTxn::Merge cannot swallow a
\* transaction that belongs to no batch or to a later one.
THEOREM EditsAreNotSwallowed == Spec => []AbsorbersClosed
<1>1. EditorInv => AbsorbersClosed
  <2> SUFFICES ASSUME EditorInv, ed.depth = 0 \/ ed.notifying,
                      NEW u \in Units(hist), IsPlaceholder(u)
               PROVE  ~u.state.absorb
    BY DEF AbsorbersClosed, Units
  <2>1. ~InBatch
    BY DEF InBatch
  <2>2. Only(hist, 0) /\ Numbered(hist, made) /\ made \in Nat
    BY <2>1, Facts
  <2> QED BY <2>2, NoneAbsorbs
<1> QED BY <1>1, EditorInvariance, PTL

\* Ends says what IsSuffix does.
LEMMA EndsIsSuffix ==
    ASSUME NEW d \in Seq(Effect), NEW e \in Seq(Effect), NEW m \in Nat, m <= Len(d),
           Ends(d, m, e)
    PROVE  IsSuffix(SubSeq(d, m + 1, Len(d)), e)
<1> DEFINE t == SubSeq(d, m + 1, Len(d))
           l == Len(d) - m
<1>0. Len(d) \in Nat /\ Len(e) \in Nat /\ l \in Nat /\ l <= Len(e)
  BY LenProperties DEF Ends
<1>1. \A i \in 1 .. Len(d) : d[i] \in Effect
  BY ElementOfSeq
<1>2. /\ t \in Seq(Effect) /\ Len(t) = l
      /\ \A i \in 1 .. l : t[i] = d[m + i]
  <2>1. /\ m + 1 \in Int /\ Len(d) \in Int /\ \A i \in m + 1 .. Len(d) : d[i] \in Effect
        /\ Len(d) - (m + 1) + 1 = l /\ (m + 1 <= Len(d) \/ l = 0)
    BY <1>0, <1>1
  <2>2. /\ t \in Seq(Effect)
        /\ Len(t) = IF m + 1 <= Len(d) THEN Len(d) - (m + 1) + 1 ELSE 0
        /\ \A i \in 1 .. Len(d) - (m + 1) + 1 : t[i] = d[m + 1 + i - 1]
    BY <2>1, SubSeqProperties
  <2>3. \A i \in 1 .. l : m + 1 + i - 1 = m + i
    BY <1>0
  <2> HIDE DEF t
  <2> QED BY <1>0, <2>1, <2>2, <2>3
<1> HIDE DEF t
<1> DEFINE rt == Reverse(t)
           re == Reverse(e)
<1>3. /\ rt \in Seq(Effect) /\ Len(rt) = l /\ re \in Seq(Effect) /\ Len(re) = Len(e)
  BY <1>2, Reversed
<1>4. \A i \in 1 .. l : rt[i] = t[(l - i) + 1] /\ re[i] = e[(Len(e) - i) + 1]
  BY <1>0, <1>2 DEF Reverse
<1> HIDE DEF rt, re
<1>5. ASSUME NEW i \in 1 .. l PROVE rt[i] = re[i]
  <2>1. (l - i) + 1 \in 1 .. l /\ m + ((l - i) + 1) = Len(d) - (i - 1)
        /\ (Len(e) - i) + 1 = Len(e) - (i - 1) /\ i - 1 \in 0 .. Len(d) - m - 1
    BY <1>0
  <2>2. rt[i] = d[Len(d) - (i - 1)]
    BY <1>2, <1>4, <2>1
  <2>3. re[i] = e[Len(e) - (i - 1)]
    BY <1>4, <2>1
  <2> QED BY <2>1, <2>2, <2>3 DEF Ends
<1> DEFINE a == SubSeq(rt, 1, l)
           b == SubSeq(re, 1, l)
<1>7. /\ a \in Seq(Effect) /\ b \in Seq(Effect) /\ Len(a) = l /\ Len(b) = l
      /\ \A i \in 1 .. l : a[i] = rt[i] /\ b[i] = re[i]
  <2>1. ASSUME NEW s \in Seq(Effect), l <= Len(s)
        PROVE  /\ SubSeq(s, 1, l) \in Seq(Effect) /\ Len(SubSeq(s, 1, l)) = l
               /\ \A i \in 1 .. l : SubSeq(s, 1, l)[i] = s[i]
    BY <1>0, <2>1, SMT
  <2> QED BY <1>0, <1>3, <2>1
<1> HIDE DEF a, b
<1>8. a = b
  BY <1>5, <1>7, SeqEqual
<1>9. IsPrefix(rt, re)
  BY <1>0, <1>3, <1>8 DEF IsPrefix, a, b
<1> QED BY <1>9 DEF IsSuffix, rt, re, t

\* What a placeholder batch has done is on top of the undo stack, as the end of one unit:
\* one undo takes all of it back, unless something else was done with the manager.
THEOREM BatchIsOneUndo == Spec => []OneUndoPerBatch
<1>1. EditorInv => OneUndoPerBatch
  <2> SUFFICES ASSUME EditorInv, ed.depth > 0, session.alone, ~ed.notifying, hist.on,
                      Len(doc) > session.mark
               PROVE  /\ hist.past # <<>>
                      /\ IsSuffix(SubSeq(doc, session.mark + 1, Len(doc)),
                                  Last(hist.past).effects)
    BY DEF OneUndoPerBatch
  <2>0. doc \in Seq(Effect) /\ session.mark \in Nat /\ hist \in Hist /\ Len(doc) \in Nat
    BY Facts, LenProperties
  <2>1. /\ session.mark <= Len(doc) /\ hist.past # <<>>
        /\ Ends(doc, session.mark, Last(hist.past).effects)
    BY <2>0 DEF EditorInv, SessionIsOnTop, InBatch, Absorbing, TopIsPlaceholder
  <2>2. Last(hist.past).effects \in Seq(Effect)
    <3>1. Last(hist.past) \in Unit
      BY <2>0, <2>1, OnTop
    <3> QED BY <3>1 DEF Unit
  <2> QED BY <2>0, <2>1, <2>2, EndsIsSuffix
<1> QED BY <1>1, EditorInvariance, PTL

----------------------------------------------------------------------------
(***************************************************************************)
(* The effects of units, in one sequence and unit by unit.                 *)
(***************************************************************************)

\* What a sequence made of two others is.
LEMMA IsJoined ==
    ASSUME NEW S, NEW a \in Seq(S), NEW b \in Seq(S), NEW c \in Seq(S),
           Len(c) = Len(a) + Len(b),
           \A i \in 1 .. Len(a) : c[i] = a[i],
           \A i \in 1 .. Len(b) : c[Len(a) + i] = b[i]
    PROVE  c = a \o b
<1>1. Len(a) \in Nat /\ Len(b) \in Nat
  BY LenProperties
<1> DEFINE d == a \o b
<1>2. /\ d \in Seq(S) /\ Len(d) = Len(a) + Len(b)
      /\ \A i \in 1 .. Len(a) + Len(b) : d[i] = IF i <= Len(a) THEN a[i] ELSE b[i - Len(a)]
  BY ConcatProperties
<1> HIDE DEF d
<1>3. ASSUME NEW i \in 1 .. Len(c) PROVE c[i] = d[i]
  <2>1. CASE i <= Len(a)
    BY <1>1, <1>2, <2>1
  <2>2. CASE ~ (i <= Len(a))
    <3>1. i - Len(a) \in 1 .. Len(b) /\ Len(a) + (i - Len(a)) = i
      BY <1>1, <2>2
    <3>2. c[i] = b[i - Len(a)]
      BY <3>1
    <3> QED BY <1>2, <2>2, <3>2
  <2> QED BY <2>1, <2>2
<1> QED BY <1>2, <1>3, SeqEqual DEF d

Whole(u) == IF u.effects = <<>> THEN <<>> ELSE <<u.effects>>

\* A field of each unit, taken from two sequences of them in turn.
LEMMA ByUnit ==
    ASSUME NEW us \in Seq(Unit)
    PROVE  /\ [k \in 1 .. Len(us) |-> us[k].effects] \in Seq(Seq(Effect))
           /\ [k \in 1 .. Len(us) |-> Whole(us[k])] \in Seq(Seq(Seq(Effect)))
           /\ \A k \in 1 .. Len(us) : Whole(us[k]) \in Seq(Seq(Effect))
           /\ \A k \in 1 .. Len(us) : us[k].effects \in Seq(Effect)
<1>1. Len(us) \in Nat /\ \A k \in 1 .. Len(us) : us[k] \in Unit
  BY Elements
<1>2. \A u \in Unit : u.effects \in Seq(Effect)
  BY DEF Unit
<1>3. \A u \in Unit : Whole(u) \in Seq(Seq(Effect))
  BY <1>2, EmptySeq DEF Whole
<1>4. /\ \A k \in 1 .. Len(us) : us[k].effects \in Seq(Effect)
      /\ \A k \in 1 .. Len(us) : Whole(us[k]) \in Seq(Seq(Effect))
  BY <1>1, <1>2, <1>3
<1> QED BY <1>1, <1>4

LEMMA EffectsJoin ==
    ASSUME NEW us \in Seq(Unit), NEW vs \in Seq(Unit)
    PROVE  /\ Effects(us \o vs) = Effects(us) \o Effects(vs)
           /\ EffectsOf(us \o vs) = EffectsOf(us) \o EffectsOf(vs)
<1> DEFINE ws == us \o vs
           F(xs) == [k \in 1 .. Len(xs) |-> xs[k].effects]
           G(xs) == [k \in 1 .. Len(xs) |-> Whole(xs[k])]
<1>1. /\ ws \in Seq(Unit) /\ Len(ws) = Len(us) + Len(vs)
      /\ \A i \in 1 .. Len(us) + Len(vs) :
            ws[i] = IF i <= Len(us) THEN us[i] ELSE vs[i - Len(us)]
  BY ConcatProperties
<1>2. Len(us) \in Nat /\ Len(vs) \in Nat
  BY LenProperties
<1> HIDE DEF ws
<1>3. /\ F(us) \in Seq(Seq(Effect)) /\ F(vs) \in Seq(Seq(Effect)) /\ F(ws) \in Seq(Seq(Effect))
      /\ G(us) \in Seq(Seq(Seq(Effect))) /\ G(vs) \in Seq(Seq(Seq(Effect)))
      /\ G(ws) \in Seq(Seq(Seq(Effect)))
  BY <1>1, ByUnit
<1>4. /\ Len(F(us)) = Len(us) /\ Len(F(vs)) = Len(vs) /\ Len(F(ws)) = Len(us) + Len(vs)
      /\ Len(G(us)) = Len(us) /\ Len(G(vs)) = Len(vs) /\ Len(G(ws)) = Len(us) + Len(vs)
      /\ \A i \in 1 .. Len(us) : F(us)[i] = us[i].effects /\ G(us)[i] = Whole(us[i])
      /\ \A i \in 1 .. Len(vs) : F(vs)[i] = vs[i].effects /\ G(vs)[i] = Whole(vs[i])
      /\ \A i \in 1 .. Len(us) + Len(vs) : F(ws)[i] = ws[i].effects /\ G(ws)[i] = Whole(ws[i])
  BY <1>1, <1>2
<1> HIDE DEF F, G
<1>9. \A i \in 1 .. Len(us) : i \in 1 .. Len(us) + Len(vs) /\ ws[i] = us[i]
  BY <1>1, <1>2
<1>10. \A i \in 1 .. Len(vs) :
          Len(us) + i \in 1 .. Len(us) + Len(vs) /\ ws[Len(us) + i] = vs[i]
  <2> SUFFICES ASSUME NEW i \in 1 .. Len(vs)
               PROVE  /\ Len(us) + i \in 1 .. Len(us) + Len(vs)
                      /\ ws[Len(us) + i] = vs[i]
    OBVIOUS
  <2>1. /\ Len(us) + i \in 1 .. Len(us) + Len(vs) /\ ~ (Len(us) + i <= Len(us))
        /\ (Len(us) + i) - Len(us) = i
    BY <1>2
  <2> QED BY <1>1, <2>1
<1>5. F(ws) = F(us) \o F(vs)
  <2> DEFINE a == F(us)
             b == F(vs)
             c == F(ws)
  <2>1. /\ a \in Seq(Seq(Effect)) /\ b \in Seq(Seq(Effect)) /\ c \in Seq(Seq(Effect))
        /\ Len(a) = Len(us) /\ Len(b) = Len(vs)
        /\ Len(c) = Len(us) + Len(vs)
    BY <1>3, <1>4
  <2>2. ASSUME NEW i \in 1 .. Len(us) PROVE c[i] = a[i]
    BY <1>4, <1>9
  <2>3. ASSUME NEW i \in 1 .. Len(vs) PROVE c[Len(us) + i] = b[i]
    BY <1>4, <1>10
  <2> HIDE DEF a, b, c
  <2>4. /\ Len(c) = Len(a) + Len(b) /\ \A i \in 1 .. Len(a) : c[i] = a[i]
        /\ \A i \in 1 .. Len(b) : c[Len(a) + i] = b[i]
    BY <2>1, <2>2, <2>3
  <2>5. c = a \o b
    BY ONLY <2>1, <2>4, IsJoined
  <2> QED BY <2>5 DEF a, b, c
<1>6. G(ws) = G(us) \o G(vs)
  <2> DEFINE a == G(us)
             b == G(vs)
             c == G(ws)
  <2>1. /\ a \in Seq(Seq(Seq(Effect))) /\ b \in Seq(Seq(Seq(Effect))) /\ c \in Seq(Seq(Seq(Effect)))
        /\ Len(a) = Len(us) /\ Len(b) = Len(vs)
        /\ Len(c) = Len(us) + Len(vs)
    BY <1>3, <1>4
  <2>2. ASSUME NEW i \in 1 .. Len(us) PROVE c[i] = a[i]
    BY <1>4, <1>9
  <2>3. ASSUME NEW i \in 1 .. Len(vs) PROVE c[Len(us) + i] = b[i]
    BY <1>4, <1>10
  <2> HIDE DEF a, b, c
  <2>4. /\ Len(c) = Len(a) + Len(b) /\ \A i \in 1 .. Len(a) : c[i] = a[i]
        /\ \A i \in 1 .. Len(b) : c[Len(a) + i] = b[i]
    BY <2>1, <2>2, <2>3
  <2>5. c = a \o b
    BY ONLY <2>1, <2>4, IsJoined
  <2> QED BY <2>5 DEF a, b, c
<1>7. /\ FlattenSeq(F(us) \o F(vs)) = FlattenSeq(F(us)) \o FlattenSeq(F(vs))
      /\ FlattenSeq(G(us) \o G(vs)) = FlattenSeq(G(us)) \o FlattenSeq(G(vs))
  BY <1>3, FlattenConcat
<1>8. /\ FlattenSeq(F(ws)) = FlattenSeq(F(us)) \o FlattenSeq(F(vs))
      /\ FlattenSeq(G(ws)) = FlattenSeq(G(us)) \o FlattenSeq(G(vs))
  BY <1>5, <1>6, <1>7
<1> QED BY <1>8 DEF Effects, EffectsOf, F, G, ws, Whole

\* Units with the same effects.
LEMMA EffectsAgree ==
    ASSUME NEW us, NEW vs, Len(vs) = Len(us),
           \A k \in 1 .. Len(us) : vs[k].effects = us[k].effects
    PROVE  Effects(vs) = Effects(us) /\ EffectsOf(vs) = EffectsOf(us)
BY DEF Effects, EffectsOf

\* The effects of no units, and of one.
LEMMA EffectsOfFew ==
    /\ Effects(<<>>) = <<>> /\ EffectsOf(<<>>) = <<>>
    /\ \A u \in Unit : /\ Effects(<<u>>) = u.effects
                       /\ EffectsOf(<<u>>) = Whole(u)
<1>1. [k \in 1 .. Len(<<>>) |-> <<>>[k].effects] = <<>>
  OBVIOUS
<1>2. Effects(<<>>) = <<>> /\ EffectsOf(<<>>) = <<>>
  BY FlattenNothing DEF Effects, EffectsOf
<1>4. ASSUME NEW u \in Unit
      PROVE  Effects(<<u>>) = u.effects /\ EffectsOf(<<u>>) = Whole(u)
  <2>1. u.effects \in Seq(Effect) /\ Whole(u) \in Seq(Seq(Effect))
    BY DEF Unit, Whole
  <2>2. FlattenSeq(<<u.effects>>) = u.effects /\ FlattenSeq(<<Whole(u)>>) = Whole(u)
    BY <2>1, FlattenOne
  <2>3. /\ [k \in 1 .. Len(<<u>>) |-> <<u>>[k].effects] = <<u.effects>>
        /\ [k \in 1 .. Len(<<u>>) |-> Whole(<<u>>[k])] = <<Whole(u)>>
    OBVIOUS
  <2> QED BY <2>2, <2>3 DEF Effects, EffectsOf, Whole
<1> QED BY <1>2, <1>4

\* One more unit.
LEMMA EffectsAppend ==
    ASSUME NEW us \in Seq(Unit), NEW u \in Unit
    PROVE  /\ Effects(Append(us, u)) = Effects(us) \o u.effects
           /\ EffectsOf(Append(us, u)) = EffectsOf(us) \o Whole(u)
<1>1. Append(us, u) = us \o <<u>> /\ <<u>> \in Seq(Unit)
  BY AppendIsConcat
<1>2. /\ Effects(us \o <<u>>) = Effects(us) \o Effects(<<u>>)
      /\ EffectsOf(us \o <<u>>) = EffectsOf(us) \o EffectsOf(<<u>>)
  BY <1>1, EffectsJoin
<1> QED BY <1>1, <1>2, EffectsOfFew

\* The effects unit by unit are those in one sequence, and no more than the units.
LEMMA Gathered ==
    ASSUME NEW us \in Seq(Unit)
    PROVE  /\ Effects(us) \in Seq(Effect) /\ EffectsOf(us) \in Seq(Seq(Effect))
           /\ FlattenSeq(EffectsOf(us)) = Effects(us)
           /\ Len(EffectsOf(us)) <= Len(us)
<1> DEFINE Holds(xs) == FlattenSeq(EffectsOf(xs)) = Effects(xs) /\ Len(EffectsOf(xs)) <= Len(xs)
           T == {n \in Nat : \A xs \in Seq(Unit) : Len(xs) = n => Holds(xs)}
<1>1. ASSUME NEW xs \in Seq(Unit)
      PROVE  EffectsOf(xs) \in Seq(Seq(Effect)) /\ Effects(xs) \in Seq(Effect)
  <2> DEFINE t == [k \in 1 .. Len(xs) |-> Whole(xs[k])]
  <2>1. t \in Seq(Seq(Seq(Effect))) /\ EffectsOf(xs) = FlattenSeq(t)
    BY ByUnit DEF EffectsOf, Whole
  <2> HIDE DEF t
  <2> QED BY <2>1, Flattened, TheirEffects
<1>2. 0 \in T
  <2> SUFFICES ASSUME NEW xs \in Seq(Unit), Len(xs) = 0 PROVE Holds(xs)
    OBVIOUS
  <2>1. xs = <<>>
    BY EmptySeq
  <2> QED BY <2>1, FlattenNothing, EffectsOfFew
<1>3. ASSUME NEW n \in T PROVE n + 1 \in T
  <2> SUFFICES ASSUME NEW xs \in Seq(Unit), Len(xs) = n + 1 PROVE Holds(xs)
    OBVIOUS
  <2>0. n \in Nat /\ \A ys \in Seq(Unit) : Len(ys) = n => Holds(ys)
    OBVIOUS
  <2> HIDE DEF T
  <2>1. xs # <<>>
    BY <2>0, EmptySeq
  <2>2. PICK ys \in Seq(Unit), u \in Unit : xs = Append(ys, u)
    BY <2>1, SequenceEmptyOrAppend
  <2>3. Len(xs) = Len(ys) + 1 /\ Len(ys) \in Nat
    BY <2>2, AppendProperties, LenProperties
  <2>4. Holds(ys)
    BY <2>0, <2>3
  <2> DEFINE e == EffectsOf(ys)
             w == Whole(u)
  <2>5. e \in Seq(Seq(Effect)) /\ w \in Seq(Seq(Effect)) /\ u.effects \in Seq(Effect)
    <3>1. u.effects \in Seq(Effect)
      BY DEF Unit
    <3>2. w \in Seq(Seq(Effect))
      BY <3>1, EmptySeq DEF Whole
    <3> QED BY <1>1, <3>1, <3>2
  <2>6. EffectsOf(xs) = e \o w /\ Effects(xs) = Effects(ys) \o u.effects
    BY <2>2, EffectsAppend
  <2>7. FlattenSeq(w) = u.effects /\ Len(w) <= 1 /\ Len(w) \in Nat
    BY <2>5, FlattenNothing, FlattenOne DEF Whole
  <2> HIDE DEF w, e
  <2>8. FlattenSeq(e \o w) = FlattenSeq(e) \o FlattenSeq(w) /\ Len(e \o w) = Len(e) + Len(w)
    BY <2>5, FlattenConcat, ConcatProperties
  <2>9. FlattenSeq(EffectsOf(xs)) = Effects(xs)
    BY <2>4, <2>6, <2>7, <2>8 DEF e
  <2>10. Len(e) \in Nat /\ Len(e) <= Len(ys)
    BY <2>4, <2>5, LenProperties DEF e
  <2>11. Len(EffectsOf(xs)) <= Len(xs)
    BY <2>3, <2>6, <2>7, <2>8, <2>10
  <2> QED BY <2>9, <2>11
<1>4. T = Nat
  <2>1. T \subseteq Nat
    OBVIOUS
  <2> HIDE DEF T
  <2> QED BY <1>2, <1>3, <2>1, AllNaturals
<1> QED BY <1>1, <1>4, LenProperties

----------------------------------------------------------------------------
(***************************************************************************)
(* What recording a unit does to the effects.                              *)
(***************************************************************************)

\* The units vs are us with u at their end, as a unit of its own or merged into the
\* last one.
Grows(us, u, vs) ==
    \/ vs = Append(us, u)
    \/ \E f \in Seq(Unit), v \in Unit, w \in Unit :
          us = Append(f, v) /\ vs = Append(f, w) /\ w.effects = v.effects \o u.effects

\* Nothing is open: the unit goes on the stack.
LEMMA RecordOnStack ==
    ASSUME NEW h \in Hist, NEW u \in Unit, sel \in Selection, h.on, h.open = <<>>,
           IsPlaceholder(u) => u.effects = <<>>
    PROVE  LET g == Record(h, u)
           IN /\ g \in Hist /\ g.on = h.on /\ g.open = <<>> /\ g.future = <<>>
              /\ Grows(h.past, u, g.past)
              /\ u.kind \notin {"edit", "placeholder"} => g.past = Append(h.past, u)
<1> DEFINE g == Record(h, u)
           h0 == [h EXCEPT !.future = <<>>]
           old == Last(h0.past)
           top == Last(g.past)
<1>1. g = PushOrMerge(h0, u)
  BY DEF Record
<1>2. h0 \in Hist /\ h0.past = h.past /\ h0.open = h.open /\ h0.on = h.on /\ h0.future = <<>>
  BY FutureDropped DEF Hist
<1> HIDE DEF g, h0
<1>3. /\ g \in Hist /\ top \in Unit /\ g.open = h0.open /\ g.on = h0.on /\ g.future = h0.future
      /\ \/ /\ TopIsPlaceholder(h0) /\ Absorbs(old, u) /\ Grown(top, old, u)
            /\ g.past = [h0.past EXCEPT ![Len(h0.past)] = top]
         \/ /\ TopIsPlaceholder(h0) /\ Resumes(old, u)
            /\ top.effects = old.effects
            /\ g.past = [h0.past EXCEPT ![Len(h0.past)] = top]
         \/ top = u /\ g.past = Append(h0.past, u)
  BY <1>1, <1>2, Pushed
<1>4. ASSUME TopIsPlaceholder(h0), top.effects = old.effects \o u.effects,
             g.past = [h0.past EXCEPT ![Len(h0.past)] = top]
      PROVE  Grows(h.past, u, g.past)
  <2>1. h.past \in Seq(Unit) /\ h.past # <<>> /\ old = Last(h.past)
    BY <1>2, <1>4 DEF TopIsPlaceholder, Hist
  <2>2. /\ Front(h.past) \in Seq(Unit) /\ h.past = Append(Front(h.past), old) /\ old \in Unit
        /\ g.past = Append(Front(h.past), top)
    <3>1. g.past = [h.past EXCEPT ![Len(h.past)] = top]
      BY <1>2, <1>4
    <3>2. h.past \in Seq(Unit) /\ h.past # <<>> /\ top \in Unit
      BY <1>3, <2>1
    <3> HIDE DEF top, old
    <3>3. /\ Front(h.past) \in Seq(Unit) /\ h.past = Append(Front(h.past), Last(h.past))
          /\ Last(h.past) \in Unit
          /\ [h.past EXCEPT ![Len(h.past)] = top] = Append(Front(h.past), top)
      BY ONLY <3>2, ReplaceLast
    <3> QED BY <2>1, <3>1, <3>3
  <2> QED BY <1>3, <1>4, <2>2 DEF Grows
<1>5. CASE /\ TopIsPlaceholder(h0) /\ Absorbs(old, u) /\ Grown(top, old, u)
           /\ g.past = [h0.past EXCEPT ![Len(h0.past)] = top]
  <2>1. old \in Unit
    BY <1>2, <1>5, OnTop DEF TopIsPlaceholder
  <2>2. top.effects = old.effects \o u.effects /\ u.kind \in {"edit", "placeholder"}
    BY <1>5, <2>1 DEF Grown, Absorbs, Unit
  <2> QED BY <1>2, <1>3, <1>4, <1>5, <2>2 DEF g
<1>6. CASE /\ TopIsPlaceholder(h0) /\ Resumes(old, u) /\ top.effects = old.effects
           /\ g.past = [h0.past EXCEPT ![Len(h0.past)] = top]
  <2>1. old \in Unit
    BY <1>2, <1>6, OnTop DEF TopIsPlaceholder
  <2>2. u.kind = "placeholder" /\ u.effects = <<>> /\ old.effects \in Seq(Effect)
    BY <1>6, <2>1 DEF Resumes, IsPlaceholder, Unit
  <2>3. old.effects \o u.effects = old.effects
    BY <2>2, ConcatEmptySeq
  <2> QED BY <1>2, <1>3, <1>4, <1>6, <2>2, <2>3 DEF g
<1>7. CASE top = u /\ g.past = Append(h0.past, u)
  BY <1>2, <1>3, <1>7 DEF g, Grows
<1> QED BY <1>3, <1>5, <1>6, <1>7

\* In a batch that is open the effects go to its end.
LEMMA RecordInBatch ==
    ASSUME NEW h \in Hist, NEW u \in Unit, h.on, h.open # <<>>
    PROVE  LET g == Record(h, u)
           IN /\ g \in Hist /\ g.on = h.on /\ g.open # <<>>
              /\ g.past = h.past /\ g.future = h.future
              /\ Effects(g.open) = Effects(h.open) \o u.effects
<1> DEFINE g == Record(h, u)
           f == Front(h.open)
           b == Last(h.open)
           j == Joined(b, u)
<1>1. /\ g \in Hist /\ g.on = h.on /\ g.past = h.past /\ g.open # <<>> /\ g.future = h.future
      /\ g.open = Append(f, j) /\ j \in Batch /\ f \in Seq(Batch)
  BY RecordCases
<1>2. j.effects = b.effects \o u.effects
  BY DEF Joined, MkUnit
<1>3. h.open \in Seq(Batch) /\ Batch \subseteq Unit
  BY DEF Hist, Batch
<1>4. h.open = Append(f, b) /\ b \in Unit /\ j \in Unit /\ f \in Seq(Unit)
  <2>1. h.open = Append(f, b) /\ b \in Batch
    BY <1>3, ReplaceLast
  <2> QED BY <1>1, <1>3, <2>1, SeqMonotonic
<1> HIDE DEF f, b, j
<1>5. Effects(g.open) = Effects(f) \o j.effects /\ Effects(h.open) = Effects(f) \o b.effects
  BY <1>1, <1>4, EffectsAppend
<1>6. Effects(f) \in Seq(Effect) /\ b.effects \in Seq(Effect) /\ u.effects \in Seq(Effect)
  BY <1>4, Gathered DEF Unit
<1>7. (Effects(f) \o b.effects) \o u.effects = Effects(f) \o (b.effects \o u.effects)
  <2> DEFINE x == Effects(f)
             y == b.effects
             z == u.effects
  <2>1. x \in Seq(Effect) /\ y \in Seq(Effect) /\ z \in Seq(Effect)
    BY <1>6
  <2> HIDE DEF x, y, z
  <2>2. (x \o y) \o z = x \o (y \o z)
    BY <2>1, ConcatAssociative
  <2> QED BY <2>2 DEF x, y, z
<1> QED BY <1>1, <1>2, <1>5, <1>7

\* Concatenation is associative.
LEMMA Regroup ==
    ASSUME NEW S, NEW a \in Seq(S), NEW b \in Seq(S), NEW c \in Seq(S)
    PROVE  (a \o b) \o c = a \o (b \o c) /\ a \o b \in Seq(S) /\ b \o c \in Seq(S)
BY ConcatAssociative, ConcatProperties

\* The effects of the units grow by those of the unit, which become a unit or part of
\* the last one that has any.
LEMMA GrowsEffects ==
    ASSUME NEW us \in Seq(Unit), NEW u \in Unit, NEW vs \in Seq(Unit), Grows(us, u, vs)
    PROVE  /\ Effects(vs) = Effects(us) \o u.effects
           /\ u.effects = <<>> => EffectsOf(vs) = EffectsOf(us)
           /\ u.effects # <<>> =>
                 \/ EffectsOf(vs) = Append(EffectsOf(us), u.effects)
                 \/ /\ EffectsOf(us) # <<>>
                    /\ EffectsOf(vs) = Append(Front(EffectsOf(us)),
                                              Last(EffectsOf(us)) \o u.effects)
<1>0. u.effects \in Seq(Effect) /\ EffectsOf(us) \in Seq(Seq(Effect))
  BY Gathered DEF Unit
<1>1. CASE vs = Append(us, u)
  <2>1. Effects(vs) = Effects(us) \o u.effects /\ EffectsOf(vs) = EffectsOf(us) \o Whole(u)
    BY <1>1, EffectsAppend
  <2>2. u.effects = <<>> => EffectsOf(vs) = EffectsOf(us)
    BY <1>0, <2>1, ConcatEmptySeq DEF Whole
  <2>3. u.effects # <<>> => EffectsOf(vs) = Append(EffectsOf(us), u.effects)
    BY <1>0, <2>1, AppendIsConcat DEF Whole
  <2> QED BY <2>1, <2>2, <2>3
<1>2. CASE \E f \in Seq(Unit), v \in Unit, w \in Unit :
              us = Append(f, v) /\ vs = Append(f, w) /\ w.effects = v.effects \o u.effects
  <2>1. PICK f \in Seq(Unit), v \in Unit, w \in Unit :
              us = Append(f, v) /\ vs = Append(f, w) /\ w.effects = v.effects \o u.effects
    BY <1>2
  <2> DEFINE x == Effects(f)
             y == v.effects
             z == u.effects
             e == EffectsOf(f)
  <2>2. x \in Seq(Effect) /\ y \in Seq(Effect) /\ z \in Seq(Effect) /\ e \in Seq(Seq(Effect))
    BY Gathered DEF Unit
  <2>3. /\ Effects(us) = x \o y /\ Effects(vs) = x \o (y \o z)
        /\ EffectsOf(us) = e \o Whole(v) /\ EffectsOf(vs) = e \o Whole(w)
    BY <2>1, EffectsAppend
  <2> HIDE DEF x, y, z, e
  <2>4. Effects(vs) = Effects(us) \o z
    <3>1. (x \o y) \o z = x \o (y \o z)
      BY ONLY <2>2, ConcatAssociative
    <3> QED BY <2>3, <3>1
  <2>5. y = <<>> => y \o z = z
    BY <2>2, ConcatEmptySeq
  <2>6. z = <<>> => y \o z = y
    BY <2>2, ConcatEmptySeq
  <2>7. y # <<>> => y \o z # <<>>
    BY <2>2, ConcatEqualIffEmpty
  <2>8. Whole(v) = IF y = <<>> THEN <<>> ELSE <<y>>
    BY DEF Whole, y
  <2>9. Whole(w) = IF y \o z = <<>> THEN <<>> ELSE <<y \o z>>
    BY <2>1 DEF Whole, y, z
  <2>10. z = <<>> => EffectsOf(vs) = EffectsOf(us)
    BY <2>3, <2>6, <2>8, <2>9
  <2>11. CASE z # <<>> /\ y = <<>>
    <3>1. EffectsOf(us) = e \o <<>> /\ EffectsOf(vs) = e \o <<z>>
      BY <2>3, <2>5, <2>8, <2>9, <2>11
    <3>2. e \o <<>> = e /\ e \o <<z>> = Append(e, z)
      BY <2>2, ConcatEmptySeq, AppendIsConcat
    <3> QED BY <2>4, <2>11, <3>1, <3>2 DEF z
  <2>12. CASE z # <<>> /\ y # <<>>
    <3> DEFINE yz == y \o z
    <3>0. yz \in Seq(Effect)
      BY <2>2, ConcatProperties
    <3>1. EffectsOf(us) = e \o <<y>> /\ EffectsOf(vs) = e \o <<yz>>
      BY <2>3, <2>7, <2>8, <2>9, <2>12
    <3> HIDE DEF yz
    <3>2. e \o <<y>> = Append(e, y) /\ e \o <<yz>> = Append(e, yz)
      BY <2>2, <3>0, AppendIsConcat
    <3>3. /\ EffectsOf(us) # <<>> /\ Front(EffectsOf(us)) = e /\ Last(EffectsOf(us)) = y
      <4> DEFINE t == EffectsOf(us)
      <4>1. t = Append(e, y) /\ t \in Seq(Seq(Effect)) /\ t # <<>>
        BY <2>2, <3>1, <3>2, AppendProperties
      <4> HIDE DEF t
      <4>2. t = Append(Front(t), Last(t)) /\ Front(t) \in Seq(Seq(Effect)) /\ Last(t) \in Seq(Effect)
        BY <2>2, <4>1, ReplaceLast
      <4>3. Front(t) = e /\ Last(t) = y
        BY <2>2, <4>1, <4>2, AppendInjective
      <4> QED BY <4>1, <4>3 DEF t
    <3> QED BY <2>4, <2>12, <3>1, <3>2, <3>3 DEF z, yz
  <2> QED BY <2>4, <2>10, <2>11, <2>12 DEF z
<1> QED BY <1>1, <1>2 DEF Grows

----------------------------------------------------------------------------
(***************************************************************************)
(* The invariant, and steps that do not show.                              *)
(***************************************************************************)

\* What can be undone, and what was done in open batches since, is the end of the
\* document; while undo is disabled there is neither.
RecordedIn(d, h) ==
    /\ \E rest \in Seq(Effect) : d = rest \o (Effects(h.past) \o Effects(h.open))
    /\ ~h.on => h.past = <<>> /\ h.future = <<>> /\ Effects(h.open) = <<>>

HistoryInv == EditorInv /\ RecordedIn(doc, hist)

\* A history h2 that is to UndoHistory what h is, except that nothing can be redone.
SameHistory(h, h2) ==
    /\ h2 \in Hist /\ h2.on = h.on
    /\ Effects(h2.past) = Effects(h.past) /\ EffectsOf(h2.past) = EffectsOf(h.past)
    /\ Effects(h2.open) = Effects(h.open)
    /\ \/ EffectsOf(h2.future) = EffectsOf(h.future)
       \/ h2.future = <<>>
    /\ ~h.on /\ h.past = <<>> /\ h.future = <<>> => h2.past = <<>> /\ h2.future = <<>>

LEMMA EditorTypes ==
    ASSUME EditorInv
    PROVE  /\ doc \in Seq(Effect) /\ hist \in Hist /\ sel \in Selection
           /\ hist.past \in Seq(Unit) /\ hist.future \in Seq(Unit)
           /\ hist.open \in Seq(Batch) /\ hist.open \in Seq(Unit) /\ hist.on \in BOOLEAN
<1>1. hist \in Hist
  BY DEF EditorInv
<1> QED BY <1>1, HistType DEF EditorInv, TypeOK, Hist

\* Any sequence has itself and none as a suffix.
LEMMA ItsSuffixes ==
    ASSUME NEW S, NEW s \in Seq(S)
    PROVE  s \in Suffixes(s) /\ <<>> \in Suffixes(s)
<1>1. Len(s) \in Nat /\ SubSeq(s, 1, Len(s)) = s
  BY LenProperties, SubSeqFull
<1>2. s # <<>> => 1 \in 1 .. Len(s)
  BY <1>1, EmptySeq
<1> QED BY <1>1, <1>2 DEF Suffixes

\* The operators that UndoHistory is written with are those of its own instance.
LEMMA SameOperators ==
    /\ \A s : History!Suffixes(s) = Suffixes(s)
    /\ \A s : History!FlattenSeq(s) = FlattenSeq(s)
    /\ \A s : History!Front(s) = Front(s)
    /\ \A s : History!Last(s) = Last(s)
    /\ \A s : History!Reverse(s) = Reverse(s)
    /\ \A n, s : History!Some(n, s) = AtMost(n, s)
<1>1. \A s : History!Suffixes(s) = Suffixes(s)
  BY DEF History!Suffixes, Suffixes
<1>2. \A s : History!FlattenSeq(s) = FlattenSeq(s)
  BY DEF History!FlattenSeq, FlattenSeq
<1>3. \A s : History!Front(s) = Front(s)
  BY DEF History!Front, Front
<1>4. \A s : History!Last(s) = Last(s)
  BY DEF History!Last, Last
<1>5. \A s : History!Reverse(s) = Reverse(s)
  BY DEF History!Reverse, Reverse
<1>6. \A n, s : History!Some(n, s) = AtMost(n, s)
  BY DEF History!Some, AtMost
<1> QED BY <1>1, <1>2, <1>3, <1>4, <1>5, <1>6

\* What the variables of UndoHistory stand for after a step.
LEMMA After ==
    /\ EffectsOf(hist.past)' = EffectsOf(hist'.past)
    /\ EffectsOf(hist.future)' = EffectsOf(hist'.future)
    /\ Effects(hist.open)' = Effects(hist'.open)
BY DEF EffectsOf, Effects

\* The steps of UndoHistory, in terms of the editor's.
LEMMA ForgetStep ==
    ASSUME doc' = doc, Effects(hist'.open) = Effects(hist.open),
           EffectsOf(hist'.past) \in Suffixes(EffectsOf(hist.past)),
           EffectsOf(hist'.future) \in Suffixes(EffectsOf(hist.future))
    PROVE  History!Next
<1>1. History!Forget
  BY After, SameOperators DEF History!Forget, History!Forgetting
<1> QED BY <1>1 DEF History!Next

\* The two parts of a sequence made of two others.
LEMMA TwoParts ==
    ASSUME NEW S, NEW a \in Seq(S), NEW b \in Seq(S)
    PROVE  /\ a \o b \in Seq(S) /\ Len(a \o b) = Len(a) + Len(b)
           /\ SubSeq(a \o b, 1, Len(a)) = a
           /\ SubSeq(a \o b, Len(a) + 1, Len(a \o b)) = b
<1> DEFINE c == a \o b
           m == Len(a)
           n == Len(b)
<1>1. /\ c \in Seq(S) /\ Len(c) = m + n /\ m \in Nat /\ n \in Nat
      /\ \A i \in 1 .. m + n : c[i] = IF i <= m THEN a[i] ELSE b[i - m]
  BY ConcatProperties, LenProperties
<1>2. m = Len(a) /\ n = Len(b) /\ c = a \o b
  OBVIOUS
<1> HIDE DEF c, m, n
<1>3. /\ \A i \in 1 .. m : c[i] = a[i]
      /\ \A i \in 1 .. n : c[m + i] = b[i]
  <2>1. ASSUME NEW i \in 1 .. m PROVE c[i] = a[i]
    BY <1>1
  <2>2. ASSUME NEW i \in 1 .. n PROVE c[m + i] = b[i]
    <3>1. m + i \in 1 .. m + n /\ ~ (m + i <= m) /\ (m + i) - m = i
      BY <1>1
    <3> QED BY <1>1, <3>1
  <2> QED BY <2>1, <2>2
<1>4. SubSeq(c, 1, m) = a
  <2> DEFINE t == SubSeq(c, 1, m)
  <2>1. \A i \in 1 .. m : c[i] \in S
    BY <1>1, Elements
  <2>2. /\ t \in Seq(S) /\ Len(t) = IF 1 <= m THEN m - 1 + 1 ELSE 0
        /\ \A i \in 1 .. m - 1 + 1 : t[i] = c[1 + i - 1]
    BY <1>1, <2>1, SubSeqProperties
  <2> HIDE DEF t
  <2>3. Len(t) = m /\ \A i \in 1 .. m : t[i] = c[i]
    BY <1>1, <2>2
  <2>4. \A i \in 1 .. Len(t) : t[i] = a[i]
    BY <1>3, <2>3
  <2>5. t = a
    BY ONLY <1>2, <2>2, <2>3, <2>4, a \in Seq(S), SeqEqual
  <2> QED BY <2>5 DEF t
<1>5. SubSeq(c, m + 1, Len(c)) = b
  <2> DEFINE t == SubSeq(c, m + 1, m + n)
  <2>1. \A i \in m + 1 .. m + n : c[i] \in S
    BY <1>1, Elements
  <2>2. /\ t \in Seq(S) /\ Len(t) = IF m + 1 <= m + n THEN (m + n) - (m + 1) + 1 ELSE 0
        /\ \A i \in 1 .. (m + n) - (m + 1) + 1 : t[i] = c[m + 1 + i - 1]
    BY <1>1, <2>1, SubSeqProperties
  <2> HIDE DEF t
  <2>3. Len(t) = n /\ \A i \in 1 .. n : t[i] = c[m + i]
    BY <1>1, <2>2
  <2>4. \A i \in 1 .. Len(t) : t[i] = b[i]
    BY <1>3, <2>3
  <2>5. t = b
    BY ONLY <1>2, <2>2, <2>3, <2>4, b \in Seq(S), SeqEqual
  <2> QED BY <1>1, <2>5 DEF t
<1> QED BY <1>1, <1>2, <1>4, <1>5

\* What was added to the document.
LEMMA ItsAddition ==
    ASSUME doc \in Seq(Effect), NEW e \in Seq(Effect), doc' = doc \o e
    PROVE  History!Added = e
BY TwoParts DEF History!Added

LEMMA WorkStep ==
    ASSUME doc \in Seq(Effect), NEW e \in Seq(Effect), doc' = doc \o e,
           Effects(hist'.open) = Effects(hist.open) \o e,
           EffectsOf(hist'.past) \in Suffixes(EffectsOf(hist.past)),
           EffectsOf(hist'.future) \in Suffixes(EffectsOf(hist.future))
    PROVE  History!Next
<1>1. History!Work(e)
  BY After, SameOperators DEF History!Work, History!Forgetting
<1> QED BY <1>1, ItsAddition DEF History!Next

LEMMA UnrecordedStep ==
    ASSUME doc \in Seq(Effect), NEW e \in Seq(Effect), doc' = doc \o e,
           Effects(hist'.open) = Effects(hist.open),
           EffectsOf(hist'.past) = <<>>, EffectsOf(hist'.future) = <<>>
    PROVE  History!Next
<1>1. History!WorkUnrecorded(e)
  BY After DEF History!WorkUnrecorded
<1> QED BY <1>1, ItsAddition DEF History!Next

LEMMA CommitStep ==
    ASSUME doc \in Seq(Effect), NEW e \in Seq(Effect), doc' = doc \o e,
           EffectsOf(hist.past) \in Seq(Seq(Effect)),
           Effects(hist.open) \in Seq(Effect), Effects(hist.open) \o e # <<>>,
           \/ EffectsOf(hist'.past) = Append(EffectsOf(hist.past), Effects(hist.open) \o e)
           \/ /\ EffectsOf(hist.past) # <<>>
              /\ EffectsOf(hist'.past) = Append(Front(EffectsOf(hist.past)),
                                                Last(EffectsOf(hist.past)) \o e),
           EffectsOf(hist'.future) = <<>>, Effects(hist'.open) = <<>>
    PROVE  History!Next
<1> DEFINE p == EffectsOf(hist.past)
           q == EffectsOf(hist'.past)
           x == Effects(hist.open) \o e
<1>1. x \in Seq(Effect) /\ p \in Seq(Seq(Effect))
  BY ConcatProperties
<1>2. q = Append(p, x) => q # <<>> /\ Last(q) = x /\ Front(q) \in Suffixes(p)
  <2> HIDE DEF p, q, x
  <2> SUFFICES ASSUME q = Append(p, x) PROVE q # <<>> /\ Last(q) = x /\ Front(q) \in Suffixes(p)
    OBVIOUS
  <2>0. /\ Append(p, x) \in Seq(Seq(Effect)) /\ Append(p, x) # <<>>
        /\ Last(Append(p, x)) = x
    BY ONLY <1>1, Appended
  <2>1. q \in Seq(Seq(Effect)) /\ q # <<>> /\ Last(q) = x
    BY <2>0
  <2>2. q = Append(Front(q), Last(q)) /\ Front(q) \in Seq(Seq(Effect))
    BY <1>1, <2>1, ReplaceLast
  <2>3. Append(Front(q), x) = Append(p, x)
    BY <2>1, <2>2
  <2>4. Front(q) = p
    BY ONLY <1>1, <2>2, <2>3, AppendInjective
  <2> QED BY <1>1, <2>1, <2>4, ItsSuffixes
<1>3. \/ q # <<>> /\ Last(q) = x /\ Front(q) \in Suffixes(p)
      \/ p # <<>> /\ q = Append(Front(p), Last(p) \o e)
  BY <1>2
<1>4. History!Commit(e)
  BY <1>3, After, SameOperators DEF History!Commit
<1> QED BY <1>4, ItsAddition DEF History!Next

\* How far the stack goes down, and what comes off it.
LEMMA OffTheTop ==
    ASSUME NEW S, NEW s \in Seq(S), NEW n \in {1, 2}, s # <<>>
    PROVE  LET left == Len(s) - AtMost(n, s)
               a == SubSeq(s, 1, left)
               b == SubSeq(s, left + 1, Len(s))
           IN /\ s = a \o b /\ a \in Seq(S) /\ b \in Seq(S)
              /\ Len(a) = left /\ Len(b) = AtMost(n, s) /\ Len(b) \in 1 .. n
<1> DEFINE m == Len(s)
           left == m - AtMost(n, s)
           a == SubSeq(s, 1, left)
           b == SubSeq(s, left + 1, m)
<1>1. /\ m \in Nat \ {0} /\ AtMost(n, s) \in 1 .. n /\ left \in 0 .. m /\ left + 1 \in Nat
      /\ m - left = AtMost(n, s) /\ left \in Int /\ left <= m /\ left + 1 <= m
  BY EmptySeq DEF AtMost
<1>2. m = Len(s)
  OBVIOUS
<1> HIDE DEF m, left
<1>3. /\ a \in Seq(S) /\ b \in Seq(S) /\ Len(a) = left /\ Len(b) = m - left
  <2>1. \A i \in 1 .. m : s[i] \in S
    BY <1>2, Elements
  <2>2. /\ \A i \in 1 .. left : s[i] \in S
        /\ \A i \in left + 1 .. m : s[i] \in S
    BY <1>1, <2>1
  <2>3. a \in Seq(S) /\ Len(a) = IF 1 <= left THEN left - 1 + 1 ELSE 0
    BY <1>1, <2>2, SubSeqProperties
  <2>4. b \in Seq(S) /\ Len(b) = IF left + 1 <= m THEN m - (left + 1) + 1 ELSE 0
    BY <1>1, <2>2, SubSeqProperties
  <2> HIDE DEF a, b
  <2> QED BY <1>1, <2>3, <2>4
<1>4. s = a \o b
  <2>1. 1 \in 1 .. m + 1 /\ left \in 1 - 1 .. m /\ m \in left .. m
    BY <1>1
  <2>2. SubSeq(s, 1, left) \o SubSeq(s, left + 1, m) = SubSeq(s, 1, m)
    BY <1>2, <2>1, ConcatAdjacentSubSeq
  <2>3. SubSeq(s, 1, m) = s
    BY <1>2, SubSeqFull
  <2> QED BY <2>2, <2>3
<1> HIDE DEF a, b
<1> QED BY <1>1, <1>2, <1>3, <1>4 DEF m, left, a, b

LEMMA UndoStep ==
    ASSUME NEW n \in Counts, NEW a \in Seq(Seq(Effect)), NEW b \in Seq(Seq(Effect)),
           EffectsOf(hist.past) = a \o b, Len(b) = n,
           Effects(hist.open) = <<>>, Effects(hist'.open) = <<>>,
           doc = doc' \o FlattenSeq(b), EffectsOf(hist'.past) = a,
           EffectsOf(hist'.future) = EffectsOf(hist.future) \o Reverse(b)
    PROVE  History!Next
<1>1. n \in {1, 2}
  BY DEF Counts
<1> DEFINE p == EffectsOf(hist.past)
<1>0. p = a \o b /\ Len(b) = n /\ a \in Seq(Seq(Effect)) /\ b \in Seq(Seq(Effect))
  OBVIOUS
<1> HIDE DEF p
<1>2. p # <<>> /\ Len(p) - AtMost(n, p) = Len(a) /\ SubSeq(p, 1, Len(a)) = a
      /\ SubSeq(p, Len(a) + 1, Len(p)) = b
  <2> DEFINE S == Seq(Effect)
  <2>1. a \in Seq(S) /\ b \in Seq(S)
    BY <1>0
  <2> HIDE DEF S
  <2>2. /\ a \o b \in Seq(S) /\ Len(a \o b) = Len(a) + Len(b)
        /\ SubSeq(a \o b, 1, Len(a)) = a
        /\ SubSeq(a \o b, Len(a) + 1, Len(a \o b)) = b
    BY ONLY <2>1, TwoParts
  <2>3. /\ p \in Seq(S) /\ Len(p) = Len(a) + n /\ Len(a) \in Nat
        /\ SubSeq(p, 1, Len(a)) = a /\ SubSeq(p, Len(a) + 1, Len(p)) = b
    BY <1>0, <2>1, <2>2, LenProperties
  <2>4. AtMost(n, p) = n
    BY <1>1, <2>3 DEF AtMost
  <2>5. p # <<>>
    BY <1>1, <2>3, EmptySeq
  <2>6. n \in Nat /\ Len(a) \in Nat /\ Len(p) = Len(a) + n /\ AtMost(n, p) = n
    BY <1>1, <2>3, <2>4
  <2>7. Len(p) - AtMost(n, p) = Len(a)
    BY ONLY <2>6
  <2> QED BY <2>3, <2>5, <2>7
<1>3. Len(p) - History!Some(n, p) = Len(a)
  BY <1>2, SameOperators
<1>4. History!Undo(n)
  BY <1>2, <1>3, After, SameOperators DEF History!Undo, p
<1> QED BY <1>4 DEF History!Next

LEMMA RedoStep ==
    ASSUME NEW n \in Counts, NEW a \in Seq(Seq(Effect)), NEW b \in Seq(Seq(Effect)),
           EffectsOf(hist.future) = a \o b, Len(b) = n,
           Effects(hist.open) = <<>>, Effects(hist'.open) = <<>>,
           doc' = doc \o FlattenSeq(Reverse(b)), EffectsOf(hist'.future) = a,
           EffectsOf(hist'.past) = EffectsOf(hist.past) \o Reverse(b)
    PROVE  History!Next
<1>1. n \in {1, 2}
  BY DEF Counts
<1> DEFINE p == EffectsOf(hist.future)
<1>0. p = a \o b /\ Len(b) = n /\ a \in Seq(Seq(Effect)) /\ b \in Seq(Seq(Effect))
  OBVIOUS
<1> HIDE DEF p
<1>2. p # <<>> /\ Len(p) - AtMost(n, p) = Len(a) /\ SubSeq(p, 1, Len(a)) = a
      /\ SubSeq(p, Len(a) + 1, Len(p)) = b
  <2> DEFINE S == Seq(Effect)
  <2>1. a \in Seq(S) /\ b \in Seq(S)
    BY <1>0
  <2> HIDE DEF S
  <2>2. /\ a \o b \in Seq(S) /\ Len(a \o b) = Len(a) + Len(b)
        /\ SubSeq(a \o b, 1, Len(a)) = a
        /\ SubSeq(a \o b, Len(a) + 1, Len(a \o b)) = b
    BY ONLY <2>1, TwoParts
  <2>3. /\ p \in Seq(S) /\ Len(p) = Len(a) + n /\ Len(a) \in Nat
        /\ SubSeq(p, 1, Len(a)) = a /\ SubSeq(p, Len(a) + 1, Len(p)) = b
    BY <1>0, <2>1, <2>2, LenProperties
  <2>4. AtMost(n, p) = n
    BY <1>1, <2>3 DEF AtMost
  <2>5. p # <<>>
    BY <1>1, <2>3, EmptySeq
  <2>6. n \in Nat /\ Len(a) \in Nat /\ Len(p) = Len(a) + n /\ AtMost(n, p) = n
    BY <1>1, <2>3, <2>4
  <2>7. Len(p) - AtMost(n, p) = Len(a)
    BY ONLY <2>6
  <2> QED BY <2>3, <2>5, <2>7
<1>3. Len(p) - History!Some(n, p) = Len(a)
  BY <1>2, SameOperators
<1>4. History!Redo(n)
  BY <1>2, <1>3, After, SameOperators DEF History!Redo, p
<1> QED BY <1>4 DEF History!Next

\* A sequence made of two others, reversed.
LEMMA ReverseJoin ==
    ASSUME NEW S, NEW a \in Seq(S), NEW b \in Seq(S)
    PROVE  Reverse(a \o b) = Reverse(b) \o Reverse(a)
<1> DEFINE m == Len(a)
           n == Len(b)
           c == a \o b
           ra == Reverse(a)
           rb == Reverse(b)
           rc == Reverse(c)
<1>1. /\ c \in Seq(S) /\ Len(c) = m + n /\ m \in Nat /\ n \in Nat
      /\ \A i \in 1 .. m + n : c[i] = IF i <= m THEN a[i] ELSE b[i - m]
  BY ConcatProperties, LenProperties
<1> HIDE DEF c
<1>2. /\ ra \in Seq(S) /\ Len(ra) = m /\ \A i \in 1 .. m : ra[i] = a[m - i + 1]
      /\ rb \in Seq(S) /\ Len(rb) = n /\ \A i \in 1 .. n : rb[i] = b[n - i + 1]
      /\ rc \in Seq(S) /\ Len(rc) = m + n
      /\ \A i \in 1 .. m + n : rc[i] = c[(m + n) - i + 1]
  <2>1. /\ ra \in Seq(S) /\ Len(ra) = m /\ rb \in Seq(S) /\ Len(rb) = n
        /\ rc \in Seq(S) /\ Len(rc) = m + n
    BY <1>1, Reversed
  <2>2. /\ \A i \in 1 .. m : ra[i] = a[m - i + 1]
        /\ \A i \in 1 .. n : rb[i] = b[n - i + 1]
        /\ \A i \in 1 .. m + n : rc[i] = c[(m + n) - i + 1]
    BY <1>1 DEF Reverse
  <2> QED BY <2>1, <2>2
<1> HIDE DEF m, n, ra, rb, rc
<1>3. ASSUME NEW i \in 1 .. n PROVE rc[i] = rb[i]
  <2> DEFINE k == (m + n) - i + 1
  <2>1. /\ i \in 1 .. m + n /\ k \in 1 .. m + n
        /\ ~ (k <= m) /\ k - m = n - i + 1
    BY <1>1
  <2>2. rc[i] = c[k]
    BY <1>2, <2>1
  <2> HIDE DEF k
  <2>3. c[k] = b[n - i + 1]
    BY <1>1, <2>1
  <2> QED BY <1>2, <2>2, <2>3
<1>4. ASSUME NEW i \in 1 .. m PROVE rc[n + i] = ra[i]
  <2>1. /\ n + i \in 1 .. m + n /\ (m + n) - (n + i) + 1 = m - i + 1
        /\ m - i + 1 \in 1 .. m + n /\ m - i + 1 <= m
    BY <1>1
  <2>2. rc[n + i] = c[m - i + 1] /\ c[m - i + 1] = a[m - i + 1]
    BY <1>1, <1>2, <2>1
  <2> QED BY <1>2, <2>2
<1>5. rc = rb \o ra
  <2>1. /\ Len(rc) = Len(rb) + Len(ra) /\ \A i \in 1 .. Len(rb) : rc[i] = rb[i]
        /\ \A i \in 1 .. Len(ra) : rc[Len(rb) + i] = ra[i]
    BY <1>1, <1>2, <1>3, <1>4
  <2> QED BY ONLY <1>2, <2>1, IsJoined
<1> QED BY <1>5 DEF c, ra, rb, rc

\* None or one, reversed.
LEMMA ReverseFew ==
    ASSUME NEW S
    PROVE  Reverse(<<>>) = <<>> /\ \A x \in S : Reverse(<<x>>) = <<x>>
<1>1. Reverse(<<>>) = <<>>
  BY DEF Reverse
<1>2. ASSUME NEW x \in S PROVE Reverse(<<x>>) = <<x>>
  BY DEF Reverse
<1> QED BY <1>1, <1>2

\* The effects unit by unit of units in the other order.
LEMMA EffectsReversed ==
    ASSUME NEW us \in Seq(Unit)
    PROVE  EffectsOf(Reverse(us)) = Reverse(EffectsOf(us))
<1> DEFINE Holds(xs) == EffectsOf(Reverse(xs)) = Reverse(EffectsOf(xs))
           T == {n \in Nat : \A xs \in Seq(Unit) : Len(xs) = n => Holds(xs)}
<1>1. 0 \in T
  <2> SUFFICES ASSUME NEW xs \in Seq(Unit), Len(xs) = 0 PROVE Holds(xs)
    OBVIOUS
  <2>1. xs = <<>>
    BY EmptySeq
  <2> QED BY <2>1, ReverseFew, EffectsOfFew
<1>2. ASSUME NEW n \in T PROVE n + 1 \in T
  <2> SUFFICES ASSUME NEW xs \in Seq(Unit), Len(xs) = n + 1 PROVE Holds(xs)
    OBVIOUS
  <2>0. n \in Nat /\ \A ys \in Seq(Unit) : Len(ys) = n => Holds(ys)
    OBVIOUS
  <2> HIDE DEF T
  <2>1. xs # <<>>
    BY <2>0, EmptySeq
  <2>2. PICK ys \in Seq(Unit), u \in Unit : xs = Append(ys, u)
    BY <2>1, SequenceEmptyOrAppend
  <2>3. Len(xs) = Len(ys) + 1 /\ Len(ys) \in Nat
    BY <2>2, AppendProperties, LenProperties
  <2>4. Holds(ys)
    BY <2>0, <2>3
  <2> DEFINE one == <<u>>
             e == EffectsOf(ys)
             w == Whole(u)
  <2>5. one \in Seq(Unit) /\ xs = ys \o one
    BY <2>2, AppendIsConcat
  <2>6. Reverse(one) = one /\ EffectsOf(one) = w
    BY ReverseFew, EffectsOfFew
  <2>7. e \in Seq(Seq(Effect)) /\ w \in Seq(Seq(Effect)) /\ Reverse(w) = w
    <3>1. u.effects \in Seq(Effect)
      BY DEF Unit
    <3>2. w \in Seq(Seq(Effect)) /\ (w = <<>> \/ w = <<u.effects>>)
      BY <3>1, EmptySeq DEF Whole
    <3>3. Reverse(<<>>) = <<>> /\ Reverse(<<u.effects>>) = <<u.effects>>
      BY <3>1, ReverseFew
    <3> HIDE DEF w
    <3>4. Reverse(w) = w
      BY <3>2, <3>3
    <3> QED BY <3>2, <3>4, Gathered
  <2> HIDE DEF one, w, e
  <2>8. Reverse(xs) = one \o Reverse(ys)
    BY <2>5, <2>6, ReverseJoin
  <2>9. EffectsOf(Reverse(xs)) = w \o EffectsOf(Reverse(ys))
    <3>1. Reverse(ys) \in Seq(Unit)
      BY Reversed
    <3> QED BY <2>5, <2>6, <2>8, <3>1, EffectsJoin
  <2>10. EffectsOf(xs) = e \o w
    BY <2>5, <2>6, EffectsJoin DEF e
  <2>11. Reverse(e \o w) = w \o Reverse(e)
    BY <2>7, ReverseJoin
  <2> QED BY <2>4, <2>9, <2>10, <2>11 DEF e
<1>3. T = Nat
  <2>1. T \subseteq Nat
    OBVIOUS
  <2> HIDE DEF T
  <2> QED BY <1>1, <1>2, <2>1, AllNaturals
<1> QED BY <1>3, LenProperties

LEMMA SameKeeps ==
    ASSUME HistoryInv, SameHistory(hist, hist'), doc' = doc
    PROVE  /\ RecordedIn(doc', hist')
           /\ History!Next
<1>1. RecordedIn(doc', hist')
  BY DEF HistoryInv, RecordedIn, SameHistory
<1>2. EffectsOf(hist.past) \in Seq(Seq(Effect)) /\ EffectsOf(hist.future) \in Seq(Seq(Effect))
  BY EditorTypes, Gathered DEF HistoryInv
<1>3. /\ EffectsOf(hist.past) \in Suffixes(EffectsOf(hist.past))
      /\ EffectsOf(hist.future) \in Suffixes(EffectsOf(hist.future))
      /\ <<>> \in Suffixes(EffectsOf(hist.future))
  BY <1>2, ItsSuffixes
<1>4. /\ EffectsOf(hist'.past) = EffectsOf(hist.past)
      /\ Effects(hist'.open) = Effects(hist.open)
      /\ EffectsOf(hist'.future) \in {EffectsOf(hist.future), <<>>}
  BY EffectsOfFew DEF SameHistory
<1>5. History!Next
  BY <1>3, <1>4, ForgetStep
<1> QED BY <1>1, <1>5

----------------------------------------------------------------------------
(***************************************************************************)
(* Every step of the editor is one of UndoHistory.                         *)
(***************************************************************************)

\* A unit without effects does not show: a placeholder that is begun or continued, or a
\* batch in which every transaction has failed.
LEMMA NoEffectsNoShow ==
    ASSUME NEW h \in Hist, NEW u \in Unit, sel \in Selection, u.effects = <<>>
    PROVE  SameHistory(h, Record(h, u))
<1> DEFINE g == Record(h, u)
<1>0. /\ h.past \in Seq(Unit) /\ h.open \in Seq(Unit)
      /\ Effects(h.past) \in Seq(Effect) /\ Effects(h.open) \in Seq(Effect)
  <2>1. h.past \in Seq(Unit) /\ h.open \in Seq(Unit)
    BY HistType DEF Hist
  <2> QED BY <2>1, Gathered
<1>1. CASE ~h.on
  BY <1>1 DEF Record, SameHistory
<1>2. CASE h.on /\ h.open # <<>>
  <2> HIDE DEF g
  <2>1. /\ g \in Hist /\ g.on = h.on /\ g.past = h.past /\ g.future = h.future
        /\ Effects(g.open) = Effects(h.open) \o u.effects
    BY <1>2, RecordInBatch DEF g
  <2>2. Effects(g.open) = Effects(h.open)
    BY <1>0, <2>1, ConcatEmptySeq
  <2> QED BY <1>2, <2>1, <2>2 DEF SameHistory, g
<1>3. CASE h.on /\ h.open = <<>>
  <2> HIDE DEF g
  <2>1. /\ g \in Hist /\ g.on = h.on /\ g.open = <<>> /\ g.future = <<>>
        /\ Grows(h.past, u, g.past)
    BY <1>3, RecordOnStack DEF g
  <2>2. g.past \in Seq(Unit)
    BY <2>1 DEF Hist
  <2>3. Effects(g.past) = Effects(h.past) \o u.effects /\ EffectsOf(g.past) = EffectsOf(h.past)
    BY <1>0, <2>1, <2>2, GrowsEffects
  <2>4. Effects(g.past) = Effects(h.past)
    BY <1>0, <2>3, ConcatEmptySeq
  <2> QED BY <1>3, <2>1, <2>3, <2>4 DEF SameHistory, g
<1> QED BY <1>1, <1>2, <1>3

\* The effects of a history and what is left of a document before them are sequences.
LEMMA HistoryTypes ==
    ASSUME NEW h \in Hist
    PROVE  /\ h.past \in Seq(Unit) /\ h.future \in Seq(Unit) /\ h.open \in Seq(Unit)
           /\ Effects(h.past) \in Seq(Effect) /\ Effects(h.open) \in Seq(Effect)
           /\ EffectsOf(h.past) \in Seq(Seq(Effect))
           /\ EffectsOf(h.future) \in Seq(Seq(Effect))
<1>1. h.past \in Seq(Unit) /\ h.future \in Seq(Unit) /\ h.open \in Seq(Unit)
  BY HistType DEF Hist
<1> QED BY <1>1, Gathered

\* A transaction that has succeeded is done and recorded, after a placeholder perhaps.
LEMMA RecordWorks ==
    ASSUME HistoryInv, NEW h \in Hist, SameHistory(hist, h),
           NEW u \in Unit, ~IsPlaceholder(u), u.effects # <<>>,
           hist' = Record(h, u), doc' = doc \o u.effects
    PROVE  RecordedIn(doc', hist') /\ History!Next
<1> DEFINE e == u.effects
           g == Record(h, u)
           p == Effects(hist.past)
           o == Effects(hist.open)
<1>0. e \in Seq(Effect) /\ e # <<>> /\ p \in Seq(Effect) /\ o \in Seq(Effect)
  BY EditorTypes, HistoryTypes DEF HistoryInv, Unit
<1>1. /\ sel \in Selection /\ doc \in Seq(Effect) /\ hist \in Hist
      /\ EffectsOf(hist.past) \in Seq(Seq(Effect))
      /\ EffectsOf(hist.future) \in Seq(Seq(Effect))
  BY EditorTypes, HistoryTypes DEF HistoryInv
<1>2. /\ h.on = hist.on /\ Effects(h.past) = p /\ EffectsOf(h.past) = EffectsOf(hist.past)
      /\ Effects(h.open) = o /\ EffectsOf(h.future) \in {EffectsOf(hist.future), <<>>}
      /\ h.past \in Seq(Unit)
  BY EffectsOfFew, HistoryTypes DEF SameHistory
<1>3. PICK rest \in Seq(Effect) : doc = rest \o (p \o o)
  BY DEF HistoryInv, RecordedIn
<1>4. doc' = doc \o e /\ doc' = rest \o (p \o (o \o e)) /\ hist' = g
  <2>1. hist' = g /\ doc' = doc \o e
    OBVIOUS
  <2>2. rest \in Seq(Effect)
    OBVIOUS
  <2> HIDE DEF e, p, o
  <2> DEFINE po == p \o o
  <2>3. po \in Seq(Effect) /\ po \o e = p \o (o \o e)
    BY ONLY <1>0, Regroup
  <2>4. doc = rest \o po
    BY <1>3
  <2> HIDE DEF po
  <2>5. (rest \o po) \o e = rest \o (po \o e)
    <3>1. rest \in Seq(Effect) /\ po \in Seq(Effect) /\ e \in Seq(Effect)
      BY <1>0, <2>3
    <3> QED BY ONLY <3>1, Regroup
  <2> QED BY <2>1, <2>3, <2>4, <2>5
<1>5. CASE ~hist.on
  <2>1. hist' = h /\ h.past = <<>> /\ h.future = <<>> /\ o = <<>> /\ ~h.on
    BY <1>2, <1>5 DEF Record, HistoryInv, RecordedIn, SameHistory
  <2> HIDE DEF g, e, o, p
  <2>2. doc' \in Seq(Effect) /\ p = <<>>
    <3>1. doc' \in Seq(Effect)
      BY <1>0, <1>1, <1>4, ConcatProperties
    <3> QED BY <1>2, <2>1, <3>1, EffectsOfFew
  <2>3. doc' = doc' \o (Effects(hist'.past) \o Effects(hist'.open))
    <3>1. Effects(hist'.past) = <<>> /\ Effects(hist'.open) = <<>>
      BY <1>2, <2>1, <2>2
    <3>2. <<>> \o <<>> = <<>> /\ doc' \o <<>> = doc'
      BY <2>2, EmptySeq, ConcatEmptySeq
    <3> QED BY <3>1, <3>2
  <2>4. RecordedIn(doc', hist')
    BY <1>2, <2>1, <2>2, <2>3 DEF RecordedIn
  <2>5. /\ Effects(hist'.open) = Effects(hist.open)
        /\ EffectsOf(hist'.past) = <<>> /\ EffectsOf(hist'.future) = <<>>
    BY <1>2, <2>1, EffectsOfFew DEF o
  <2>6. History!Next
    BY <1>0, <1>1, <1>4, <2>5, UnrecordedStep
  <2> QED BY <2>4, <2>6
<1>6. CASE hist.on /\ h.open # <<>>
  <2> HIDE DEF g
  <2>1. /\ g.on = h.on /\ g.past = h.past /\ g.future = h.future
        /\ Effects(g.open) = Effects(h.open) \o u.effects
    BY <1>2, <1>6, RecordInBatch DEF g
  <2> HIDE DEF e, o, p
  <2>2. /\ Effects(hist'.open) = o \o e /\ Effects(hist'.past) = p
        /\ EffectsOf(hist'.past) = EffectsOf(hist.past)
        /\ EffectsOf(hist'.future) \in {EffectsOf(hist.future), <<>>} /\ hist'.on
    BY <1>2, <1>4, <1>6, <2>1 DEF e
  <2>3. RecordedIn(doc', hist')
    BY <1>4, <2>2 DEF RecordedIn
  <2>4. /\ EffectsOf(hist'.past) \in Suffixes(EffectsOf(hist.past))
        /\ EffectsOf(hist'.future) \in Suffixes(EffectsOf(hist.future))
    BY <1>1, <2>2, ItsSuffixes
  <2>5. History!Next
    BY <1>0, <1>1, <1>4, <2>2, <2>4, WorkStep DEF o
  <2> QED BY <2>3, <2>5
<1>7. CASE hist.on /\ h.open = <<>>
  <2> HIDE DEF g
  <2>1. /\ g \in Hist /\ g.on = h.on /\ g.open = <<>> /\ g.future = <<>>
        /\ Grows(h.past, u, g.past)
    BY <1>1, <1>2, <1>7, RecordOnStack DEF g
  <2>2. g.past \in Seq(Unit)
    BY <2>1 DEF Hist
  <2>3. /\ Effects(g.past) = Effects(h.past) \o e
        /\ \/ EffectsOf(g.past) = Append(EffectsOf(h.past), e)
           \/ /\ EffectsOf(h.past) # <<>>
              /\ EffectsOf(g.past) = Append(Front(EffectsOf(h.past)),
                                            Last(EffectsOf(h.past)) \o e)
    BY <1>2, <2>1, <2>2, GrowsEffects
  <2> HIDE DEF e, o, p
  <2>4. /\ o = <<>> /\ o \o e = e
        /\ Effects(hist'.past) = p \o e /\ Effects(hist'.open) = <<>> /\ hist'.on
        /\ EffectsOf(hist'.future) = <<>>
        /\ \/ EffectsOf(hist'.past) = Append(EffectsOf(hist.past), o \o e)
           \/ /\ EffectsOf(hist.past) # <<>>
              /\ EffectsOf(hist'.past) = Append(Front(EffectsOf(hist.past)),
                                                Last(EffectsOf(hist.past)) \o e)
    <3>1. o = <<>> /\ o \o e = e
      BY <1>0, <1>2, <1>7, EffectsOfFew, ConcatEmptySeq
    <3>2. Effects(hist'.open) = <<>> /\ hist'.on /\ EffectsOf(hist'.future) = <<>>
      BY <1>2, <1>4, <1>7, <2>1, EffectsOfFew
    <3> QED BY <1>2, <1>4, <2>3, <3>1, <3>2
  <2>5. doc' = rest \o (Effects(hist'.past) \o Effects(hist'.open))
    <3>1. p \o e \in Seq(Effect) /\ (p \o e) \o <<>> = p \o e
      BY <1>0, ConcatProperties, ConcatEmptySeq
    <3> QED BY <1>4, <2>4, <3>1
  <2>6. RecordedIn(doc', hist')
    BY <2>4, <2>5 DEF RecordedIn
  <2>7. o \o e # <<>>
    BY <1>0, <2>4
  <2>8. History!Next
    BY <1>0, <1>1, <1>4, <2>4, <2>7, CommitStep DEF o
  <2> QED BY <2>6, <2>8
<1> QED BY <1>2, <1>5, <1>6, <1>7

\* A history is the same as itself.
LEMMA SameItself ==
    ASSUME NEW h \in Hist
    PROVE  SameHistory(h, h)
BY DEF SameHistory

\* A step that leaves the document and the history alone.
LEMMA AsideShows ==
    ASSUME HistoryInv, UNCHANGED <<doc, hist>>
    PROVE  RecordedIn(doc', hist') /\ History!Next
<1>1. SameHistory(hist, hist')
  BY EditorTypes, SameItself DEF HistoryInv
<1> QED BY <1>1, SameKeeps

\* The unit of a transaction that is done now.
LEMMA ItsUnit ==
    ASSUME EditorInv, CanEdit, NEW kind \in {"edit", "script"}
    PROVE  LET u == MkUnit(kind, <<NewEffect>>, {})
           IN /\ u \in Unit /\ ~IsPlaceholder(u) /\ u.effects = <<NewEffect>>
              /\ u.effects # <<>> /\ Append(doc, NewEffect) = doc \o u.effects
<1>1. NewEffect \in Effect
  BY EditorAssumption DEF EditorInv, TypeOK, CanEdit, NewEffect, Effect
<1> DEFINE effects == <<NewEffect>>
           plcs == {}
<1>2. /\ effects \in Seq(Effect) /\ plcs \in SUBSET Placeholder /\ effects # <<>>
      /\ kind \in {"edit", "script", "placeholder", "batch"}
  BY <1>1
<1>3. Append(doc, NewEffect) = doc \o effects
  BY <1>1, EditorTypes, AppendIsConcat
<1> HIDE DEF effects, plcs
<1>4. /\ MkUnit(kind, effects, plcs) \in Unit
      /\ MkUnit(kind, effects, plcs).kind = kind
      /\ MkUnit(kind, effects, plcs).effects = effects
  BY <1>2, MadeUnit
<1> QED BY <1>2, <1>3, <1>4 DEF effects, plcs, IsPlaceholder

\* The placeholder made for the first transaction of a batch does not show.
LEMMA PlaceholderHidden ==
    ASSUME HistoryInv, NeedsPlaceholder, made + 1 <= MaxPlaceholders
    PROVE  SameHistory(hist, WithPlaceholder(made + 1))
<1> DEFINE m == MkUnit("placeholder", <<>>, {made + 1})
           s == NewState(ed.name, ed.selState)
           u == [m EXCEPT !.state = s]
<1>1. /\ made \in Nat /\ MaxPlaceholders \in Nat /\ ed.name \in Name
      /\ ed.selState \in Selection /\ hist \in Hist /\ sel \in Selection
  BY EditorAssumption DEF HistoryInv, EditorInv, TypeOK, BatchState, NeedsPlaceholder
<1>2. m \in Unit /\ m.effects = <<>>
  <2> DEFINE k == "placeholder"
             e == <<>>
             p == {made + 1}
  <2>1. /\ k \in {"edit", "script", "placeholder", "batch"} /\ e \in Seq(Effect)
        /\ p \in SUBSET Placeholder
    BY <1>1, EmptySeq DEF Placeholder
  <2> HIDE DEF k, e, p
  <2>2. MkUnit(k, e, p) \in Unit /\ MkUnit(k, e, p).effects = e
    BY ONLY <2>1, MadeUnit
  <2> QED BY <2>2 DEF k, e, p
<1>3. s \in PlcState
  BY <1>1 DEF NewState, PlcState, Selection
<1> HIDE DEF m, s
<1>4. u \in Unit /\ u.effects = <<>>
  BY <1>2, <1>3 DEF Unit
<1>5. WithPlaceholder(made + 1) = Record(hist, u)
  BY DEF WithPlaceholder, m, s
<1> HIDE DEF u
<1> QED BY <1>1, <1>4, <1>5, NoEffectsNoShow

LEMMA DoShows ==
    ASSUME HistoryInv, NEW kind \in {"edit", "script"}, DoTransaction(kind)
    PROVE  RecordedIn(doc', hist') /\ History!Next
<1> DEFINE h == IF NeedsPlaceholder THEN WithPlaceholder(made + 1) ELSE hist
           u == MkUnit(kind, <<NewEffect>>, {})
<1>1. /\ CanEdit /\ (NeedsPlaceholder => made + 1 <= MaxPlaceholders)
      /\ \/ hist' = Record(h, u) /\ doc' = Append(doc, NewEffect)
         \/ hist' = h /\ doc' = doc
  BY DEF DoTransaction
<1>2. SameHistory(hist, h) /\ h \in Hist
  <2>1. CASE NeedsPlaceholder
    BY <1>1, <2>1, PlaceholderHidden DEF SameHistory
  <2>2. CASE ~NeedsPlaceholder
    BY <2>2, EditorTypes, SameItself DEF HistoryInv
  <2> QED BY <2>1, <2>2
<1>3. /\ u \in Unit /\ ~IsPlaceholder(u) /\ u.effects # <<>>
      /\ Append(doc, NewEffect) = doc \o u.effects
  BY <1>1, ItsUnit DEF HistoryInv
<1> HIDE DEF h, u
<1>4. CASE hist' = Record(h, u) /\ doc' = Append(doc, NewEffect)
  BY <1>2, <1>3, <1>4, RecordWorks
<1>5. CASE hist' = h /\ doc' = doc
  BY <1>2, <1>5, SameKeeps
<1> QED BY <1>1, <1>4, <1>5

LEMMA DirectShows ==
    ASSUME HistoryInv, DirectEdit
    PROVE  RecordedIn(doc', hist') /\ History!Next
<1> DEFINE kind == "script"
           u == MkUnit(kind, <<NewEffect>>, {})
<1>1. CanEdit /\ hist' = Record(hist, u) /\ doc' = Append(doc, NewEffect)
  BY DEF DirectEdit
<1>2. kind \in {"edit", "script"}
  OBVIOUS
<1> HIDE DEF kind
<1>3. /\ u \in Unit /\ ~IsPlaceholder(u) /\ u.effects # <<>>
      /\ Append(doc, NewEffect) = doc \o u.effects
  BY <1>1, <1>2, ItsUnit DEF HistoryInv
<1> HIDE DEF u
<1>4. hist \in Hist /\ SameHistory(hist, hist)
  BY EditorTypes, SameItself DEF HistoryInv
<1> QED BY <1>1, <1>3, <1>4, RecordWorks

\* A batch that is begun has done nothing yet.
LEMMA BeginShows ==
    ASSUME HistoryInv, hist' \in Hist, BeginTransaction
    PROVE  RecordedIn(doc', hist') /\ History!Next
<1> DEFINE b == MkUnit("batch", <<>>, {})
<1>1. hist' = [hist EXCEPT !.open = Append(@, b)] /\ doc' = doc
  BY DEF BeginTransaction
<1>2. b \in Unit /\ b.effects = <<>>
  <2> DEFINE k == "batch"
             e == <<>>
             p == {}
  <2>1. /\ k \in {"edit", "script", "placeholder", "batch"} /\ e \in Seq(Effect)
        /\ p \in SUBSET Placeholder
    BY EmptySeq
  <2> HIDE DEF k, e, p
  <2>2. MkUnit(k, e, p) \in Unit /\ MkUnit(k, e, p).effects = e
    BY ONLY <2>1, MadeUnit
  <2> QED BY <2>2 DEF k, e, p
<1> HIDE DEF b
<1>3. hist \in Hist /\ hist' \in Hist /\ hist.open \in Seq(Unit) /\ Effects(hist.open) \in Seq(Effect)
  BY EditorTypes, HistoryTypes DEF HistoryInv, EditorInv
<1>4. /\ hist'.open = Append(hist.open, b) /\ hist'.past = hist.past
      /\ hist'.future = hist.future /\ hist'.on = hist.on
  BY <1>1, <1>3 DEF Hist
<1>5. Effects(hist'.open) = Effects(hist.open)
  <2>1. Effects(hist'.open) = Effects(hist.open) \o <<>>
    BY <1>2, <1>3, <1>4, EffectsAppend
  <2> QED BY <1>3, <2>1, ConcatEmptySeq
<1>6. SameHistory(hist, hist')
  BY <1>3, <1>4, <1>5 DEF SameHistory
<1> QED BY <1>1, <1>6, SameKeeps

\* A batch that ends joins the one around it, becomes a unit, or is dropped.
LEMMA EndShows ==
    ASSUME HistoryInv, hist' \in Hist, EndTransaction
    PROVE  RecordedIn(doc', hist') /\ History!Next
<1> DEFINE batch == Last(hist.open)
           rest == [hist EXCEPT !.open = Front(@)]
           e == batch.effects
<1>1. /\ hist.open # <<>> /\ doc' = doc
      /\ hist' = IF e = <<>> /\ batch.plcs = {} THEN rest ELSE Record(rest, batch)
  BY DEF EndTransaction
<1>2. /\ hist \in Hist /\ hist' \in Hist /\ hist.open \in Seq(Batch) /\ sel \in Selection
      /\ doc \in Seq(Effect)
      /\ Effects(hist.past) \in Seq(Effect) /\ EffectsOf(hist.past) \in Seq(Seq(Effect))
      /\ hist.past \in Seq(Unit)
  BY EditorTypes, HistoryTypes DEF HistoryInv, EditorInv
<1>3. /\ Front(hist.open) \in Seq(Batch) /\ batch \in Batch
      /\ hist.open = Append(Front(hist.open), batch)
  <2> DEFINE s == hist.open
  <2>1. s \in Seq(Batch) /\ s # <<>>
    BY <1>1, <1>2
  <2> HIDE DEF s
  <2>2. /\ Front(s) \in Seq(Batch) /\ s = Append(Front(s), Last(s)) /\ Last(s) \in Batch
    BY <2>1, ReplaceLast
  <2> QED BY <2>2 DEF s
<1>4. /\ rest \in Hist /\ rest.open = Front(hist.open) /\ rest.past = hist.past
      /\ rest.future = hist.future /\ rest.on = hist.on
  BY <1>2, <1>3 DEF Hist
<1>5. /\ batch \in Unit /\ batch.kind = "batch" /\ e \in Seq(Effect) /\ ~IsPlaceholder(batch)
      /\ Front(hist.open) \in Seq(Unit)
  <2>1. Batch \subseteq Unit
    BY DEF Batch
  <2>2. Front(hist.open) \in Seq(Unit)
    BY <1>3, <2>1, SeqMonotonic
  <2> QED BY <1>3, <2>2 DEF Batch, Unit, IsPlaceholder
<1> DEFINE o == Effects(Front(hist.open))
<1>6. Effects(hist.open) = o \o e /\ o \in Seq(Effect) /\ Effects(rest.open) = o
  BY <1>3, <1>4, <1>5, EffectsAppend, Gathered
<1> HIDE DEF batch, rest, e, o
<1>7. ASSUME e = <<>> PROVE SameHistory(hist, rest)
  <2>1. Effects(rest.open) = Effects(hist.open)
    BY <1>6, <1>7, ConcatEmptySeq
  <2> QED BY <1>4, <2>1 DEF SameHistory
<1>8. CASE e = <<>>
  <2>1. hist' = rest \/ hist' = Record(rest, batch)
    BY <1>1
  <2>2. SameHistory(rest, Record(rest, batch))
    BY <1>2, <1>4, <1>5, <1>8, NoEffectsNoShow DEF e
  <2>3. SameHistory(hist, hist')
    BY <1>4, <1>7, <1>8, <2>1, <2>2 DEF SameHistory
  <2> QED BY <1>1, <2>3, SameKeeps
<1>9. CASE e # <<>>
  <2>0. hist' = Record(rest, batch)
    BY <1>1, <1>9
  <2>1. CASE ~hist.on
    <3>1. o \o e = <<>>
      BY <1>6, <2>1 DEF HistoryInv, RecordedIn
    <3> QED BY <1>5, <1>6, <1>9, <3>1, ConcatEqualIffEmpty
  <2>2. CASE hist.on /\ rest.open # <<>>
    <3>1. /\ hist'.on = hist.on /\ hist'.past = hist.past /\ hist'.future = hist.future
          /\ Effects(hist'.open) = Effects(hist.open)
      BY <1>4, <1>5, <1>6, <2>0, <2>2, RecordInBatch DEF e
    <3>2. SameHistory(hist, hist')
      BY <1>2, <2>2, <3>1 DEF SameHistory
    <3> QED BY <1>1, <3>2, SameKeeps
  <2>3. CASE hist.on /\ rest.open = <<>>
    <3> DEFINE g == Record(rest, batch)
    <3>1. /\ g.on = hist.on /\ g.open = <<>> /\ g.future = <<>>
          /\ g.past = Append(hist.past, batch)
      <4>1. /\ rest.on /\ (IsPlaceholder(batch) => batch.effects = <<>>)
            /\ batch.kind \notin {"edit", "placeholder"}
        BY <1>4, <1>5, <2>3
      <4>2. /\ g.on = rest.on /\ g.open = <<>> /\ g.future = <<>>
            /\ (batch.kind \notin {"edit", "placeholder"} => g.past = Append(rest.past, batch))
        BY <1>2, <1>4, <1>5, <2>3, <4>1, RecordOnStack
      <4> QED BY <1>4, <4>1, <4>2
    <3> HIDE DEF g
    <3>2. Effects(hist.open) = e /\ o = <<>>
      <4>1. o = <<>>
        BY <1>6, <2>3, EffectsOfFew
      <4> QED BY <1>5, <1>6, <4>1, ConcatEmptySeq
    <3>3. Grows(hist.past, batch, g.past) /\ g.past \in Seq(Unit)
      BY <1>2, <1>5, <3>1, AppendProperties DEF Grows
    <3>4. Effects(g.past) = Effects(hist.past) \o e
      BY <1>2, <1>5, <3>3, GrowsEffects DEF e
    <3>5. EffectsOf(g.past) = Append(EffectsOf(hist.past), e)
      <4>1. EffectsOf(g.past) = EffectsOf(hist.past) \o <<e>>
        BY <1>2, <1>5, <1>9, <3>1, EffectsAppend DEF Whole, e
      <4> QED BY <1>2, <1>5, <4>1, AppendIsConcat
    <3>6. hist' = g /\ Effects(hist'.open) = <<>> /\ EffectsOf(hist'.future) = <<>>
      BY <2>0, <3>1, EffectsOfFew DEF g
    <3>7. RecordedIn(doc', hist')
      <4>1. PICK r \in Seq(Effect) : doc = r \o (Effects(hist.past) \o e)
        BY <3>2 DEF HistoryInv, RecordedIn
      <4>2. Effects(hist'.past) \o Effects(hist'.open) = Effects(hist.past) \o e
        <5>1. Effects(hist.past) \o e \in Seq(Effect)
          BY <1>2, <1>5, ConcatProperties
        <5>2. Effects(hist'.past) \o <<>> = Effects(hist.past) \o e
          BY <3>4, <3>6, <5>1, ConcatEmptySeq
        <5> QED BY <3>6, <5>2
      <4> QED BY <1>1, <2>3, <3>1, <3>6, <4>1, <4>2 DEF RecordedIn
    <3>8. History!Next
      <4> DEFINE none == <<>>
      <4>1. none \in Seq(Effect) /\ doc' = doc \o none /\ e \o none = e
        BY <1>1, <1>2, <1>5, EmptySeq, ConcatEmptySeq
      <4>2. /\ EffectsOf(hist'.past) = Append(EffectsOf(hist.past), Effects(hist.open) \o none)
            /\ Effects(hist.open) \in Seq(Effect) /\ Effects(hist.open) \o none # <<>>
        BY <1>5, <1>9, <3>2, <3>5, <3>6, <4>1
      <4> HIDE DEF none
      <4> QED BY <1>2, <3>6, <4>1, <4>2, CommitStep
    <3> QED BY <3>7, <3>8
  <2> QED BY <2>1, <2>2, <2>3
<1> QED BY <1>8, <1>9

\* Histories that differ in what is not an effect.
LEMMA SameEffects ==
    ASSUME HistoryInv, hist' \in Hist, doc' = doc,
           hist'.open = hist.open, hist'.on = hist.on,
           Len(hist'.past) = Len(hist.past), Len(hist'.future) = Len(hist.future),
           \A k \in 1 .. Len(hist.past) : hist'.past[k].effects = hist.past[k].effects,
           \A k \in 1 .. Len(hist.future) : hist'.future[k].effects = hist.future[k].effects
    PROVE  RecordedIn(doc', hist') /\ History!Next
<1>1. /\ Effects(hist'.past) = Effects(hist.past)
      /\ EffectsOf(hist'.past) = EffectsOf(hist.past)
      /\ EffectsOf(hist'.future) = EffectsOf(hist.future)
  BY EffectsAgree
<1>2. ASSUME hist.past = <<>>, hist.future = <<>>
      PROVE  hist'.past = <<>> /\ hist'.future = <<>>
  <2>1. /\ hist'.past \in Seq(Unit) /\ hist'.future \in Seq(Unit)
        /\ Len(hist'.past) = 0 /\ Len(hist'.future) = 0
    BY <1>2, EmptySeq DEF Hist
  <2> QED BY <2>1, EmptySeq
<1>3. SameHistory(hist, hist')
  BY <1>1, <1>2 DEF SameHistory
<1> QED BY <1>3, SameKeeps

\* The placeholder of a batch that ends is closed.
LEMMA CloseShows ==
    ASSUME HistoryInv, hist' \in Hist, EndPlaceHolderTransaction
    PROVE  RecordedIn(doc', hist') /\ History!Next
<1>0. doc' = doc /\ hist \in Hist /\ hist' \in Hist
  BY EditorTypes DEF EndPlaceHolderTransaction, HistoryInv, EditorInv
<1>1. CASE hist' = hist
  BY <1>0, <1>1, AsideShows
<1>2. CASE hist' = [hist EXCEPT !.past = Close(@, ed.ref), !.future = Close(@, ed.ref)]
  <2>1. ASSUME NEW us \in Seq(Unit)
        PROVE  /\ Len(Close(us, ed.ref)) = Len(us)
               /\ \A k \in 1 .. Len(us) : Close(us, ed.ref)[k].effects = us[k].effects
    <3>1. Len(us) \in Nat /\ \A k \in 1 .. Len(us) : us[k] \in Unit
      BY Elements
    <3>2. \A v \in Unit : Closed(v).effects = v.effects
      BY DEF Closed, Unit
    <3> QED BY <3>1, <3>2 DEF Close
  <2>2. /\ hist'.past = Close(hist.past, ed.ref) /\ hist'.future = Close(hist.future, ed.ref)
        /\ hist'.open = hist.open /\ hist'.on = hist.on
    BY <1>0, <1>2 DEF Hist
  <2>3. hist.past \in Seq(Unit) /\ hist.future \in Seq(Unit)
    BY <1>0 DEF Hist
  <2> QED BY <1>0, <2>1, <2>2, <2>3, SameEffects
<1> QED BY <1>1, <1>2 DEF EndPlaceHolderTransaction

LEMMA CommitShows ==
    ASSUME HistoryInv, hist' \in Hist, CommitComposition
    PROVE  RecordedIn(doc', hist') /\ History!Next
<1> DEFINE n == Len(hist.past)
           x == [hist.past[n] EXCEPT !.state = [@ EXCEPT !.committed = TRUE]]
           t == [hist.past EXCEPT ![n] = x]
<1>0. /\ doc' = doc /\ hist \in Hist /\ hist' \in Hist /\ hist.past # <<>>
      /\ hist.past \in Seq(Unit)
  BY EditorTypes DEF CommitComposition, TopIsPlaceholder, HistoryInv, EditorInv
<1>1. hist' = [hist EXCEPT !.past = t]
  BY DEF CommitComposition
<1>2. n \in Nat \ {0} /\ hist.past[n] \in Unit /\ n \in 1 .. n
  BY <1>0, Elements
<1>3. x \in Unit /\ x.effects = hist.past[n].effects
  BY <1>2 DEF Unit, PlcState
<1> HIDE DEF x
<1>4. Len(t) = n /\ \A k \in 1 .. n : t[k] = IF k = n THEN x ELSE hist.past[k]
  BY <1>0, <1>2, <1>3, ExceptSeq
<1> HIDE DEF t
<1>5. /\ hist'.past = t /\ hist'.open = hist.open /\ hist'.on = hist.on
      /\ hist'.future = hist.future
  BY <1>0, <1>1 DEF Hist
<1>6. \A k \in 1 .. n : t[k].effects = hist.past[k].effects
  BY <1>3, <1>4
<1> QED BY <1>0, <1>4, <1>5, <1>6, SameEffects

\* enableUndo() forgets, and keeps nothing when it turns the manager off.
LEMMA EnableShows ==
    ASSUME HistoryInv, hist' \in Hist, EnableUndo
    PROVE  RecordedIn(doc', hist') /\ History!Next
<1>1. doc' = doc /\ hist \in Hist
  BY EditorTypes DEF EnableUndo, HistoryInv
<1>2. PICK on \in BOOLEAN :
         hist' = [hist EXCEPT !.on = IF hist.open = <<>> THEN on ELSE @,
                              !.past = IF on THEN @ ELSE <<>>,
                              !.future = IF on THEN @ ELSE <<>>]
  BY EnableCases
<1>3. /\ hist'.open = hist.open /\ hist'.on = IF hist.open = <<>> THEN on ELSE hist.on
      /\ hist'.past = IF on THEN hist.past ELSE <<>>
      /\ hist'.future = IF on THEN hist.future ELSE <<>>
  BY <1>1, <1>2 DEF Hist
<1>4. /\ Effects(hist.past) \in Seq(Effect) /\ Effects(hist.open) \in Seq(Effect)
      /\ EffectsOf(hist.past) \in Seq(Seq(Effect)) /\ EffectsOf(hist.future) \in Seq(Seq(Effect))
  BY <1>1, HistoryTypes
<1>5. RecordedIn(doc', hist')
  <2> DEFINE p == Effects(hist.past)
             o == Effects(hist.open)
  <2>1. PICK rest \in Seq(Effect) : doc = rest \o (p \o o)
    BY DEF HistoryInv, RecordedIn
  <2>2. \E r \in Seq(Effect) : doc' = r \o (Effects(hist'.past) \o o)
    <3>1. CASE on
      BY <1>1, <1>3, <2>1, <3>1
    <3>2. CASE ~on
      <4> HIDE DEF p, o
      <4>0. rest \in Seq(Effect) /\ p \in Seq(Effect) /\ o \in Seq(Effect)
        BY <1>4 DEF p, o
      <4>1. rest \o p \in Seq(Effect) /\ rest \o (p \o o) = (rest \o p) \o o
        BY ONLY <4>0, Regroup
      <4>2. Effects(hist'.past) \o o = o
        BY <1>3, <3>2, <4>0, EffectsOfFew, ConcatEmptySeq
      <4>3. doc' = (rest \o p) \o (Effects(hist'.past) \o o)
        BY <1>1, <2>1, <4>1, <4>2
      <4> QED BY <4>1, <4>3
    <3> QED BY <3>1, <3>2
  <2>3. ~hist'.on => /\ hist'.past = <<>> /\ hist'.future = <<>> /\ Effects(hist'.open) = <<>>
    BY <1>3, EffectsOfFew DEF HistoryInv, RecordedIn
  <2> QED BY <1>3, <2>2, <2>3 DEF RecordedIn
<1>6. /\ EffectsOf(hist'.past) \in Suffixes(EffectsOf(hist.past))
      /\ EffectsOf(hist'.future) \in Suffixes(EffectsOf(hist.future))
  BY <1>3, <1>4, EffectsOfFew, ItsSuffixes
<1>7. History!Next
  BY <1>1, <1>3, <1>6, ForgetStep
<1> QED BY <1>5, <1>7

\* Units without effects are undone or redone without a change that shows.
LEMMA NothingTaken ==
    ASSUME NEW us \in Seq(Unit), EffectsOf(us) = <<>>
    PROVE  Effects(us) = <<>>
BY Gathered, FlattenNothing

\* As many of UndoHistory's units as there are effects in the units taken.
LEMMA CountTaken ==
    ASSUME NEW n \in Counts, NEW us \in Seq(Unit), Len(us) \in 1 .. n
    PROVE  EffectsOf(us) = <<>> \/ Len(EffectsOf(us)) \in Counts
<1> DEFINE e == EffectsOf(us)
<1>1. e \in Seq(Seq(Effect)) /\ Len(e) <= Len(us)
  BY Gathered
<1> HIDE DEF e
<1>2. Len(e) \in Nat /\ (e # <<>> => Len(e) # 0)
  BY <1>1, EmptySeq
<1>3. n \in {1, 2} /\ 1 \in Counts
  BY DEF Counts
<1> DEFINE m == Len(us)
           k == Len(e)
<1>4. m \in 1 .. n /\ k \in Nat /\ k <= m
  BY <1>1, <1>2
<1> HIDE DEF m, k
<1>5. k = 0 \/ k = 1 \/ (k = 2 /\ n = 2)
  BY ONLY <1>3, <1>4
<1> QED BY <1>2, <1>3, <1>5 DEF e, k

LEMMA UndoShows ==
    ASSUME HistoryInv, hist' \in Hist, NEW n \in Counts, Undo(n)
    PROVE  RecordedIn(doc', hist') /\ History!Next
<1> DEFINE left == Len(hist.past) - AtMost(n, hist.past)
           a == SubSeq(hist.past, 1, left)
           b == SubSeq(hist.past, left + 1, Len(hist.past))
<1>1. /\ hist.past # <<>> /\ hist.open = <<>>
      /\ hist' = [hist EXCEPT !.past = a, !.future = @ \o Reverse(b)]
      /\ doc' = SubSeq(doc, 1, Len(doc) - Len(Effects(b)))
  BY DEF Undo
<1>2. /\ hist \in Hist /\ hist.past \in Seq(Unit) /\ hist.future \in Seq(Unit) /\ n \in {1, 2}
      /\ doc \in Seq(Effect)
  BY EditorTypes DEF HistoryInv, Counts
<1>3. /\ hist.past = a \o b /\ a \in Seq(Unit) /\ b \in Seq(Unit) /\ Len(b) \in 1 .. n
  BY <1>1, <1>2, OffTheTop
<1> HIDE DEF a, b, left
<1>4. /\ hist'.past = a /\ hist'.future = hist.future \o Reverse(b)
      /\ hist'.open = <<>> /\ hist'.on = hist.on /\ hist.on
  <2>1. hist.on
    BY <1>1 DEF HistoryInv, RecordedIn
  <2> QED BY <1>1, <1>2, <2>1 DEF Hist
<1> DEFINE ea == Effects(a)
           eb == Effects(b)
           oa == EffectsOf(a)
           ob == EffectsOf(b)
           of == EffectsOf(hist.future)
<1>5. /\ ea \in Seq(Effect) /\ eb \in Seq(Effect) /\ oa \in Seq(Seq(Effect))
      /\ ob \in Seq(Seq(Effect)) /\ of \in Seq(Seq(Effect)) /\ FlattenSeq(ob) = eb
      /\ Effects(hist.past) = ea \o eb /\ EffectsOf(hist.past) = oa \o ob
  BY <1>2, <1>3, Gathered, EffectsJoin
<1>6. EffectsOf(hist'.future) = of \o Reverse(ob)
  <2> DEFINE rb == Reverse(b)
  <2>1. rb \in Seq(Unit) /\ EffectsOf(rb) = Reverse(ob) /\ hist'.future = hist.future \o rb
    BY <1>3, <1>4, Reversed, EffectsReversed
  <2> HIDE DEF rb
  <2>2. EffectsOf(hist.future \o rb) = of \o EffectsOf(rb)
    BY <1>2, <2>1, EffectsJoin
  <2> QED BY <2>1, <2>2
<1>7. Effects(hist.open) = <<>> /\ Effects(hist'.open) = <<>>
  BY <1>1, <1>4, EffectsOfFew
<1>8. ob = <<>> => eb = <<>>
  BY <1>3, NothingTaken
<1>9. ob = <<>> \/ Len(ob) \in Counts
  BY <1>3, CountTaken
<1>10. doc' = SubSeq(doc, 1, Len(doc) - Len(eb)) /\ EffectsOf(hist'.past) = oa
       /\ Effects(hist'.past) = ea
  BY <1>1, <1>4
<1> HIDE DEF ea, eb, oa, ob, of
<1>11. PICK rest \in Seq(Effect) : doc = rest \o ((ea \o eb) \o <<>>)
  BY <1>5, <1>7 DEF HistoryInv, RecordedIn
<1> DEFINE d == rest \o ea
<1>12. d \in Seq(Effect) /\ doc = d \o eb
  <2>1. ea \o eb \in Seq(Effect)
    BY <1>5, ConcatProperties
  <2>2. (ea \o eb) \o <<>> = ea \o eb
    BY <2>1, ConcatEmptySeq
  <2>3. doc = rest \o (ea \o eb)
    BY <1>11, <2>2
  <2>4. rest \in Seq(Effect) /\ ea \in Seq(Effect) /\ eb \in Seq(Effect)
    BY <1>5
  <2>5. rest \o ea \in Seq(Effect) /\ (rest \o ea) \o eb = rest \o (ea \o eb)
    BY ONLY <2>4, Regroup
  <2> QED BY <2>3, <2>5
<1> HIDE DEF d
<1>13. doc' = d
  <2>1. /\ Len(d \o eb) = Len(d) + Len(eb) /\ SubSeq(d \o eb, 1, Len(d)) = d
    BY <1>5, <1>12, TwoParts
  <2>2. Len(d) \in Nat /\ Len(eb) \in Nat /\ Len(doc) = Len(d) + Len(eb)
    BY <1>5, <1>12, <2>1, LenProperties
  <2>3. Len(doc) - Len(eb) = Len(d)
    BY ONLY <2>2
  <2> QED BY <1>10, <1>12, <2>1, <2>3
<1>14. RecordedIn(doc', hist')
  <2>1. Effects(hist'.past) \o Effects(hist'.open) = ea
    BY <1>5, <1>7, <1>10, ConcatEmptySeq
  <2>2. doc' = rest \o (Effects(hist'.past) \o Effects(hist'.open))
    BY <1>13, <2>1 DEF d
  <2> QED BY <1>4, <2>2 DEF RecordedIn
<1>15. History!Next
  <2>1. CASE ob = <<>>
    <3>1. doc' = doc
      BY <1>8, <1>12, <1>13, <2>1, ConcatEmptySeq
    <3>2. EffectsOf(hist'.past) = EffectsOf(hist.past)
      BY <1>5, <1>10, <2>1, ConcatEmptySeq
    <3>3. EffectsOf(hist'.future) = EffectsOf(hist.future)
      BY <1>5, <1>6, <2>1, ReverseFew, ConcatEmptySeq DEF of
    <3>4. /\ EffectsOf(hist'.past) \in Suffixes(EffectsOf(hist.past))
          /\ EffectsOf(hist'.future) \in Suffixes(EffectsOf(hist.future))
      BY <1>2, <3>2, <3>3, HistoryTypes, ItsSuffixes
    <3> QED BY <1>7, <3>1, <3>4, ForgetStep
  <2>2. CASE Len(ob) \in Counts
    <3>1. doc = doc' \o FlattenSeq(ob) /\ EffectsOf(hist'.past) = oa
          /\ EffectsOf(hist.past) = oa \o ob
          /\ EffectsOf(hist'.future) = EffectsOf(hist.future) \o Reverse(ob)
      BY <1>5, <1>6, <1>10, <1>12, <1>13 DEF of
    <3> QED BY <1>5, <1>7, <2>2, <3>1, UndoStep
  <2> QED BY <1>9, <2>1, <2>2
<1> QED BY <1>14, <1>15

LEMMA RedoShows ==
    ASSUME HistoryInv, hist' \in Hist, NEW n \in Counts, Redo(n)
    PROVE  RecordedIn(doc', hist') /\ History!Next
<1> DEFINE left == Len(hist.future) - AtMost(n, hist.future)
           a == SubSeq(hist.future, 1, left)
           b == SubSeq(hist.future, left + 1, Len(hist.future))
           c == Reverse(b)
<1>1. /\ hist.future # <<>> /\ hist.open = <<>>
      /\ hist' = [hist EXCEPT !.future = a, !.past = @ \o c]
      /\ doc' = doc \o Effects(c)
  BY DEF Redo
<1>2. /\ hist \in Hist /\ hist.past \in Seq(Unit) /\ hist.future \in Seq(Unit) /\ n \in {1, 2}
      /\ doc \in Seq(Effect)
  BY EditorTypes DEF HistoryInv, Counts
<1>3. /\ hist.future = a \o b /\ a \in Seq(Unit) /\ b \in Seq(Unit) /\ Len(b) \in 1 .. n
  BY <1>1, <1>2, OffTheTop
<1> HIDE DEF a, b, left
<1>4. c \in Seq(Unit) /\ EffectsOf(c) = Reverse(EffectsOf(b))
  BY <1>3, Reversed, EffectsReversed
<1> HIDE DEF c
<1>5. /\ hist'.past = hist.past \o c /\ hist'.future = a
      /\ hist'.open = <<>> /\ hist'.on = hist.on /\ hist.on
  <2>1. hist.on
    BY <1>1 DEF HistoryInv, RecordedIn
  <2> QED BY <1>1, <1>2, <2>1 DEF Hist
<1> DEFINE ep == Effects(hist.past)
           ec == Effects(c)
           op == EffectsOf(hist.past)
           oa == EffectsOf(a)
           ob == EffectsOf(b)
<1>6. /\ ep \in Seq(Effect) /\ ec \in Seq(Effect) /\ oa \in Seq(Seq(Effect))
      /\ ob \in Seq(Seq(Effect)) /\ op \in Seq(Seq(Effect))
      /\ FlattenSeq(Reverse(ob)) = ec /\ EffectsOf(hist.future) = oa \o ob
      /\ Effects(hist'.past) = ep \o ec /\ EffectsOf(hist'.past) = op \o Reverse(ob)
  <2>1. FlattenSeq(EffectsOf(c)) = ec
    BY <1>4, Gathered
  <2>2. EffectsOf(hist.future) = oa \o ob
    BY <1>3, EffectsJoin
  <2>3. Effects(hist'.past) = ep \o ec /\ EffectsOf(hist'.past) = op \o EffectsOf(c)
    <3>1. /\ Effects(hist.past \o c) = ep \o ec
          /\ EffectsOf(hist.past \o c) = op \o EffectsOf(c)
      BY <1>2, <1>4, EffectsJoin
    <3> QED BY <1>5, <3>1
  <2> QED BY <1>2, <1>3, <1>4, <2>1, <2>2, <2>3, Gathered
<1>7. Effects(hist.open) = <<>> /\ Effects(hist'.open) = <<>>
  BY <1>1, <1>5, EffectsOfFew
<1>8. ob = <<>> \/ Len(ob) \in Counts
  BY <1>3, CountTaken
<1>9. doc' = doc \o ec /\ EffectsOf(hist'.future) = oa
  BY <1>1, <1>5
<1> HIDE DEF ep, ec, op, oa, ob
<1>10. PICK rest \in Seq(Effect) : doc = rest \o (ep \o <<>>)
  BY <1>7 DEF HistoryInv, RecordedIn, ep
<1>11. RecordedIn(doc', hist')
  <2>1. doc = rest \o ep
    BY <1>6, <1>10, ConcatEmptySeq
  <2>2. rest \in Seq(Effect) /\ ep \in Seq(Effect) /\ ec \in Seq(Effect)
    BY <1>6
  <2>3. (rest \o ep) \o ec = rest \o (ep \o ec) /\ ep \o ec \in Seq(Effect)
    BY ONLY <2>2, Regroup
  <2>4. (ep \o ec) \o <<>> = ep \o ec
    BY <2>3, ConcatEmptySeq
  <2>5. doc' = rest \o (Effects(hist'.past) \o Effects(hist'.open))
    BY <1>6, <1>7, <1>9, <2>1, <2>3, <2>4
  <2> QED BY <1>5, <2>5 DEF RecordedIn
<1>12. History!Next
  <2>1. CASE ob = <<>>
    <3>1. ec = <<>> /\ Reverse(ob) = <<>>
      BY <1>6, <2>1, ReverseFew, FlattenNothing
    <3>2. doc' = doc
      BY <1>2, <1>9, <3>1, ConcatEmptySeq
    <3>3. /\ EffectsOf(hist'.past) = EffectsOf(hist.past)
          /\ EffectsOf(hist'.future) = EffectsOf(hist.future)
      BY <1>6, <1>9, <2>1, <3>1, ConcatEmptySeq DEF op
    <3>4. /\ EffectsOf(hist'.past) \in Suffixes(EffectsOf(hist.past))
          /\ EffectsOf(hist'.future) \in Suffixes(EffectsOf(hist.future))
      BY <1>2, <3>3, HistoryTypes, ItsSuffixes
    <3> QED BY <1>7, <3>2, <3>4, ForgetStep
  <2>2. CASE Len(ob) \in Counts
    <3>1. doc' = doc \o FlattenSeq(Reverse(ob)) /\ EffectsOf(hist'.future) = oa
          /\ EffectsOf(hist.future) = oa \o ob
          /\ EffectsOf(hist'.past) = EffectsOf(hist.past) \o Reverse(ob)
      BY <1>6, <1>9 DEF op
    <3> QED BY <1>6, <1>7, <2>2, <3>1, RedoStep
  <2> QED BY <1>8, <2>1, <2>2
<1> QED BY <1>11, <1>12

LEMMA HistoryInit == Init => History!Init /\ HistoryInv
<1> SUFFICES ASSUME Init PROVE History!Init /\ HistoryInv
  OBVIOUS
<1>1. /\ doc = <<>> /\ hist.past = <<>> /\ hist.future = <<>> /\ hist.open = <<>> /\ hist.on
  BY DEF Init
<1>2. /\ Effects(hist.past) = <<>> /\ Effects(hist.open) = <<>>
      /\ EffectsOf(hist.past) = <<>> /\ EffectsOf(hist.future) = <<>>
  BY <1>1, EffectsOfFew
<1>3. <<>> \in Seq(Effect) /\ <<>> = <<>> \o (<<>> \o <<>>)
  BY EmptySeq, ConcatEmptySeq
<1>4. RecordedIn(doc, hist)
  BY <1>1, <1>2, <1>3 DEF RecordedIn
<1> QED BY <1>1, <1>2, <1>4, InitHasInv DEF History!Init, HistoryInv

LEMMA HistoryStep ==
    ASSUME HistoryInv, hist' \in Hist, [Next]_vars
    PROVE  RecordedIn(doc', hist') /\ History!Next
<1>1. CASE Edit
  <2> DEFINE kind == "edit"
  <2>1. DoTransaction(kind) /\ kind \in {"edit", "script"}
    BY <1>1 DEF Edit
  <2> HIDE DEF kind
  <2> QED BY <2>1, DoShows
<1>2. CASE ScriptEdit
  <2> DEFINE kind == "script"
  <2>1. DoTransaction(kind) /\ kind \in {"edit", "script"}
    BY <1>2 DEF ScriptEdit
  <2> HIDE DEF kind
  <2> QED BY <2>1, DoShows
<1>3. CASE DirectEdit
  BY <1>3, DirectShows
<1>4. CASE BeginTransaction
  BY <1>4, BeginShows
<1>5. CASE EndTransaction
  BY <1>5, EndShows
<1>6. CASE BeginPlaceHolderTransaction \/ ObserversNotified \/ MoveCaret \/ UNCHANGED vars
  <2>1. BeginPlaceHolderTransaction => UNCHANGED <<doc, hist>>
    BY OpeningLeaves
  <2>2. ObserversNotified \/ MoveCaret => UNCHANGED <<doc, hist>>
    BY DEF ObserversNotified, MoveCaret
  <2>3. UNCHANGED vars => UNCHANGED <<doc, hist>>
    BY DEF vars
  <2> QED BY <1>6, <2>1, <2>2, <2>3, AsideShows
<1>7. CASE EndPlaceHolderTransaction
  BY <1>7, CloseShows
<1>8. CASE CommitComposition
  BY <1>8, CommitShows
<1>9. CASE EnableUndo
  BY <1>9, EnableShows
<1>10. CASE \E n \in Counts : Undo(n)
  BY <1>10, UndoShows
<1>11. CASE \E n \in Counts : Redo(n)
  BY <1>11, RedoShows
<1> QED BY <1>1, <1>2, <1>3, <1>4, <1>5, <1>6, <1>7, <1>8, <1>9, <1>10, <1>11 DEF Next

\* What can be undone stays the end of the document.
LEMMA HistoryInvariance == Spec => []HistoryInv
<1>1. HistoryInv /\ EditorInv' /\ [Next]_vars => HistoryInv'
  BY HistoryStep DEF HistoryInv, EditorInv
<1> QED BY <1>1, HistoryInit, EditorInvariance, PTL DEF Spec

\* The editor promises its clients what UndoHistory says, whatever they do: its
\* placeholders, their merging (PlaceholderTxn::Merge), the batches open within them and
\* the transactions that fail in them do not show, and every operation of nsEditor is one
\* step of the history of a document.
THEOREM EditorIsAHistory == Spec => EditorImplementsHistory
<1>1. HistoryInv /\ EditorInv' /\ [Next]_vars => [History!Next]_(History!vars)
  BY HistoryStep DEF EditorInv
<1> QED BY <1>1, HistoryInit, HistoryInvariance, EditorInvariance, PTL
        DEF Spec, EditorImplementsHistory, History!Spec

----------------------------------------------------------------------------
(***************************************************************************)
(* The count of modifications is exact while what was done since the save  *)
(* was done one by one.                                                    *)
(***************************************************************************)
\* The clients of EdCount: each transaction is the editor's own or given to the manager
\* directly, succeeds, and is undone and redone one at a time.
SingleSteps == {"script", "editFails", "undoMany"} \cap Env = {}

\* What one undo takes back, when it takes back anything.
Full == Seq(Effect) \ {<<>>}

SolidUnit == {u \in Unit : u.effects # <<>>}

\* A batch without effects has no placeholder in it either, and will be dropped.
SolidBatch == {u \in Batch : u.effects = <<>> => u.plcs = {}}

\* The effects of each unit.
Each(us) == [k \in 1 .. Len(us) |-> us[k].effects]

\* Every unit that can be undone or redone has effects.
Solid(h) ==
    /\ h.past \in Seq(SolidUnit) /\ h.future \in Seq(SolidUnit)
    /\ h.open \in Seq(SolidBatch)

\* Count c, with document d, saved as s, and the effects that can be undone (p) and redone
\* (f), unit by unit: the count is how many units have to be undone to come back to what
\* was saved, or redone if it is negative.  What cannot be undone any more (enableUndo) has
\* been done beyond what was saved, or undone before it.
IsCount(c, d, s, p, f) ==
    \/ /\ c > Len(p)
       /\ \E r \in Seq(Effect) : d = s \o r /\ Len(r) > Len(FlattenSeq(p))
    \/ \E a, b \in Seq(Full) : p = a \o b /\ Len(b) = c /\ d = s \o FlattenSeq(b)
    \/ \E a, b \in Seq(Full) :
          f = a \o b /\ c + Len(b) = 0 /\ s = d \o FlattenSeq(Reverse(b))
    \/ /\ c < 0 /\ p = <<>> /\ f = <<>>
       /\ \E r \in Full : s = d \o r

\* In a batch that is open the count is zero once something was done in it: it was saved there.
CountInv ==
    /\ modCount \in Int /\ saved \in [doc : Seq(Effect), plain : BOOLEAN]
    /\ Solid(hist)
    /\ saved.plain =>
          /\ IsCount(modCount, doc, saved.doc, Each(hist.past), Each(hist.future))
          /\ Effects(hist.open) # <<>> => modCount = 0

----------------------------------------------------------------------------
(***************************************************************************)
(* Sequences of units with effects.                                        *)
(***************************************************************************)

LEMMA FullIsSeq ==
    ASSUME NEW b \in Seq(Full)
    PROVE  b \in Seq(Seq(Effect)) /\ FlattenSeq(b) \in Seq(Effect) /\ Len(b) \in Nat
<1>1. Full \subseteq Seq(Effect)
  BY DEF Full
<1>2. b \in Seq(Seq(Effect))
  BY <1>1, SeqMonotonic
<1> QED BY <1>2, Flattened, LenProperties

\* Regroup for effects and for units.
LEMMA RegroupThem ==
    /\ \A x, y, z \in Seq(Effect) : (x \o y) \o z = x \o (y \o z)
    /\ \A x, y, z \in Seq(Full) : (x \o y) \o z = x \o (y \o z)
BY Regroup

\* One more unit.
LEMMA OneMore ==
    ASSUME NEW b \in Seq(Full), NEW e \in Full
    PROVE  /\ Append(b, e) \in Seq(Full) /\ Len(Append(b, e)) = Len(b) + 1
           /\ FlattenSeq(Append(b, e)) = FlattenSeq(b) \o e
           /\ Reverse(b) \in Seq(Full)
           /\ FlattenSeq(Reverse(Append(b, e))) = e \o FlattenSeq(Reverse(b))
<1>1. Append(b, e) \in Seq(Full) /\ Len(Append(b, e)) = Len(b) + 1
  BY AppendProperties
<1>2. FlattenSeq(Append(b, e)) = FlattenSeq(b) \o e
  BY FullIsSeq, FlattenAppend DEF Full
<1>3. Reverse(b) \in Seq(Full)
  BY Reversed
<1>4. Reverse(Append(b, e)) = <<e>> \o Reverse(b)
  <2>1. Append(b, e) = b \o <<e>> /\ <<e>> \in Seq(Full)
    BY AppendIsConcat
  <2>2. Reverse(b \o <<e>>) = Reverse(<<e>>) \o Reverse(b)
    BY <2>1, ReverseJoin
  <2>3. Reverse(<<e>>) = <<e>>
    BY ReverseFew
  <2> QED BY <2>1, <2>2, <2>3
<1>5. FlattenSeq(<<e>> \o Reverse(b)) = e \o FlattenSeq(Reverse(b))
  <2>1. <<e>> \in Seq(Seq(Effect)) /\ Reverse(b) \in Seq(Seq(Effect)) /\ e \in Seq(Effect)
    BY <1>3, FullIsSeq DEF Full
  <2>2. FlattenSeq(<<e>> \o Reverse(b)) = FlattenSeq(<<e>>) \o FlattenSeq(Reverse(b))
    BY <2>1, FlattenConcat
  <2>3. FlattenSeq(<<e>>) = e
    BY <2>1, FlattenOne
  <2> QED BY <2>2, <2>3
<1> QED BY <1>1, <1>2, <1>3, <1>4, <1>5

\* Units with effects have effects.
LEMMA FullIsFull ==
    ASSUME NEW b \in Seq(Full), b # <<>>
    PROVE  /\ FlattenSeq(b) \in Full /\ Len(FlattenSeq(b)) > 0
           /\ FlattenSeq(Reverse(b)) \in Full
<1>1. PICK q \in Seq(Full), e \in Full : b = Append(q, e)
  BY SequenceEmptyOrAppend
<1>2. /\ FlattenSeq(b) = FlattenSeq(q) \o e
      /\ FlattenSeq(Reverse(b)) = e \o FlattenSeq(Reverse(q))
      /\ FlattenSeq(q) \in Seq(Effect) /\ FlattenSeq(Reverse(q)) \in Seq(Effect)
  BY <1>1, OneMore, FullIsSeq
<1>3. e \in Seq(Effect) /\ e # <<>>
  BY DEF Full
<1>4. /\ FlattenSeq(b) # <<>> /\ FlattenSeq(b) \in Seq(Effect)
      /\ FlattenSeq(Reverse(b)) # <<>> /\ FlattenSeq(Reverse(b)) \in Seq(Effect)
  BY <1>2, <1>3, ConcatEqualIffEmpty, ConcatProperties
<1>5. Len(FlattenSeq(b)) \in Nat \ {0}
  BY <1>4, EmptySeq
<1> QED BY <1>4, <1>5 DEF Full

\* A sequence that ends with an element, in two parts: the second is empty or ends with it.
LEMMA LastPart ==
    ASSUME NEW a \in Seq(Full), NEW b \in Seq(Full), b # <<>>,
           NEW q \in Seq(Full), NEW e \in Full, Append(q, e) = a \o b
    PROVE  \E b0 \in Seq(Full) : b = Append(b0, e) /\ q = a \o b0
<1>1. PICK b0 \in Seq(Full), x \in Full : b = Append(b0, x)
  BY SequenceEmptyOrAppend
<1>2. b = b0 \o <<x>> /\ <<x>> \in Seq(Full)
  BY <1>1, AppendIsConcat
<1>3. a \o (b0 \o <<x>>) = (a \o b0) \o <<x>> /\ a \o b0 \in Seq(Full)
  <2>1. a \in Seq(Full) /\ b0 \in Seq(Full) /\ <<x>> \in Seq(Full)
    BY <1>2
  <2> QED BY ONLY <2>1, Regroup
<1>4. Append(a \o b0, x) = (a \o b0) \o <<x>>
  BY <1>3, AppendIsConcat
<1>5. Append(q, e) = Append(a \o b0, x)
  BY <1>2, <1>3, <1>4
<1>6. q = a \o b0 /\ e = x
  <2> DEFINE t == a \o b0
  <2>1. Append(q, e) = Append(t, x) /\ t \in Seq(Full)
    BY <1>3, <1>5
  <2> HIDE DEF t
  <2>2. q = t /\ e = x
    BY ONLY <2>1, q \in Seq(Full), e \in Full, x \in Full, AppendInjective
  <2> QED BY <2>2 DEF t
<1> QED BY <1>1, <1>6

\* Concatenation by a name, for a fact to be used as it stands.
Join(x, y) == x \o y

\* Two ways to see a document: when the end e is no longer than the end r, it is the end of r.
LEMMA Shorten ==
    ASSUME NEW x \in Seq(Effect), NEW e \in Seq(Effect), NEW s \in Seq(Effect), NEW r \in Seq(Effect),
           Join(x, e) = Join(s, r), Len(r) >= Len(e)
    PROVE  \E q \in Seq(Effect) : r = Join(q, e) /\ x = Join(s, q)
<1> USE DEF Join
<1> DEFINE m == Len(r)
           k == Len(e)
           q == SubSeq(r, 1, m - k)
           t == SubSeq(r, (m - k) + 1, m)
<1>1. m \in Nat /\ k \in Nat /\ m >= k /\ m = Len(r) /\ k = Len(e) /\ m - k \in 0 .. m
  BY LenProperties
<1> HIDE DEF m, k
<1>2. r = q \o t
  <2> DEFINE j == m - k
  <2>1. 1 \in 1 .. m + 1 /\ j \in 1 - 1 .. m /\ m \in j .. m
    BY <1>1
  <2> HIDE DEF j
  <2>2. SubSeq(r, 1, j) \o SubSeq(r, j + 1, m) = SubSeq(r, 1, m)
    BY <1>1, <2>1, ConcatAdjacentSubSeq
  <2>3. SubSeq(r, 1, m) = r
    BY <1>1, SubSeqFull
  <2> QED BY <2>2, <2>3 DEF j
<1>3. q \in Seq(Effect) /\ t \in Seq(Effect) /\ Len(t) = k
  <2>1. \A i \in 1 .. m : r[i] \in Effect
    BY <1>1, Elements
  <2>2. /\ \A i \in 1 .. m - k : r[i] \in Effect
        /\ \A i \in (m - k) + 1 .. m : r[i] \in Effect
    BY <1>1, <2>1
  <2>3. q \in Seq(Effect)
    BY <1>1, <2>2, SubSeqProperties
  <2>4. t \in Seq(Effect) /\ Len(t) = IF (m - k) + 1 <= m THEN m - ((m - k) + 1) + 1 ELSE 0
    BY <1>1, <2>2, SubSeqProperties
  <2> HIDE DEF q, t
  <2>5. (IF (m - k) + 1 <= m THEN m - ((m - k) + 1) + 1 ELSE 0) = k
    BY <1>1
  <2> QED BY <2>3, <2>4, <2>5
<1> HIDE DEF q, t
<1>4. s \o (q \o t) = (s \o q) \o t /\ s \o q \in Seq(Effect)
  <2>1. s \in Seq(Effect) /\ q \in Seq(Effect) /\ t \in Seq(Effect)
    BY <1>3
  <2>2. (s \o q) \o t = s \o (q \o t) /\ s \o q \in Seq(Effect)
    BY ONLY <2>1, Regroup
  <2> QED BY <2>2
<1>5. x \o e = (s \o q) \o t
  BY <1>2, <1>4
<1> DEFINE y == s \o q
<1>6. y \in Seq(Effect) /\ x \o e = y \o t
  BY <1>4, <1>5
<1> HIDE DEF y
<1>7. e = t /\ x = y
  <2>1. /\ Len(x \o e) = Len(x) + Len(e) /\ SubSeq(x \o e, Len(x) + 1, Len(x \o e)) = e
        /\ SubSeq(x \o e, 1, Len(x)) = x
    BY ONLY x \in Seq(Effect), e \in Seq(Effect), TwoParts
  <2>2. y \in Seq(Effect) /\ t \in Seq(Effect)
    BY <1>3, <1>6
  <2>3. /\ Len(y \o t) = Len(y) + Len(t) /\ SubSeq(y \o t, Len(y) + 1, Len(y \o t)) = t
        /\ SubSeq(y \o t, 1, Len(y)) = y
    BY ONLY <2>2, TwoParts
  <2>4. Len(x) \in Nat /\ Len(y) \in Nat
    BY <1>6, LenProperties
  <2> DEFINE lx == Len(x)
             ly == Len(y)
             n == Len(x \o e)
  <2>5. n = lx + k /\ n = ly + k /\ lx \in Nat /\ ly \in Nat
    BY <1>1, <1>3, <1>6, <2>1, <2>3, <2>4
  <2> HIDE DEF lx, ly, n
  <2>6. lx = ly
    BY ONLY <1>1, <2>5
  <2> QED BY <1>6, <2>1, <2>3, <2>6 DEF lx, ly
<1> QED BY <1>2, <1>3, <1>7 DEF y

----------------------------------------------------------------------------
(***************************************************************************)
(* What becomes of the count.                                              *)
(***************************************************************************)

LEMMA AtSave ==
    ASSUME NEW d \in Seq(Effect), NEW p \in Seq(Full), NEW f \in Seq(Full)
    PROVE  IsCount(0, d, d, p, f)
<1>1. <<>> \in Seq(Full) /\ Len(<<>>) = 0 /\ p = p \o <<>>
  BY EmptySeq, ConcatEmptySeq
<1>2. d = d \o FlattenSeq(<<>>)
  BY FlattenNothing, ConcatEmptySeq
<1> QED BY <1>1, <1>2 DEF IsCount

\* Nothing to undo or redo has no effects, and whatever has some changes the document.
LEMMA NothingElse ==
    ASSUME NEW b \in Seq(Full), NEW d \in Seq(Effect)
    PROVE  /\ Len(b) = 0 <=> b = <<>>
           /\ d \o FlattenSeq(b) = d <=> b = <<>>
           /\ d \o FlattenSeq(Reverse(b)) = d <=> b = <<>>
<1>1. CASE b = <<>>
  <2>1. FlattenSeq(b) = <<>> /\ FlattenSeq(Reverse(b)) = <<>> /\ Len(b) = 0
    BY <1>1, FlattenNothing, ReverseFew, EmptySeq
  <2> QED BY <1>1, <2>1, ConcatEmptySeq
<1>2. CASE b # <<>>
  <2>1. /\ FlattenSeq(b) \in Seq(Effect) /\ FlattenSeq(b) # <<>>
        /\ FlattenSeq(Reverse(b)) \in Seq(Effect) /\ FlattenSeq(Reverse(b)) # <<>>
    BY <1>2, FullIsFull DEF Full
  <2>2. Len(b) \in Nat \ {0}
    BY <1>2, EmptySeq
  <2> QED BY <1>2, <2>1, <2>2, ConcatEqualIffEmpty
<1> QED BY <1>1, <1>2

\* The count is zero exactly when the document is as saved.
LEMMA CountTells ==
    ASSUME NEW c \in Int, NEW d \in Seq(Effect), NEW s \in Seq(Effect),
           NEW p \in Seq(Full), NEW f \in Seq(Full), IsCount(c, d, s, p, f)
    PROVE  c = 0 <=> d = s
<1>1. ASSUME c > Len(p), NEW r \in Seq(Effect), d = s \o r, Len(r) > Len(FlattenSeq(p))
      PROVE  c # 0 /\ d # s
  <2>1. Len(p) \in Nat /\ Len(FlattenSeq(p)) \in Nat /\ Len(r) \in Nat
    BY FullIsSeq, LenProperties
  <2>2. r # <<>>
    BY <1>1, <2>1, EmptySeq
  <2> QED BY <1>1, <2>1, <2>2, ConcatEqualIffEmpty
<1>2. ASSUME NEW a \in Seq(Full), NEW b \in Seq(Full), Len(b) = c, d = s \o FlattenSeq(b)
      PROVE  c = 0 <=> d = s
  BY <1>2, NothingElse
<1>3. ASSUME NEW a \in Seq(Full), NEW b \in Seq(Full), c + Len(b) = 0,
             s = d \o FlattenSeq(Reverse(b))
      PROVE  c = 0 <=> d = s
  <2>1. c = 0 <=> Len(b) = 0
    BY <1>3
  <2> QED BY <1>3, <2>1, NothingElse
<1>4. ASSUME c < 0, NEW r \in Full, s = d \o r
      PROVE  c # 0 /\ d # s
  BY <1>4, ConcatEqualIffEmpty DEF Full
<1> QED BY <1>1, <1>2, <1>3, <1>4 DEF IsCount

\* A transaction is done where all that was saved is in force: it is a unit of its own, or
\* cannot be undone.
LEMMA CountDone ==
    ASSUME NEW c \in Int, NEW d \in Seq(Effect), NEW s \in Seq(Effect),
           NEW p \in Seq(Full), NEW f \in Seq(Full), IsCount(c, d, s, p, f),
           IsPrefix(s, d), NEW e \in Full
    PROVE  /\ IsCount(c + 1, d \o e, s, Append(p, e), <<>>)
           /\ p = <<>> => IsCount(c + 1, d \o e, s, <<>>, <<>>)
<1> DEFINE p1 == Append(p, e)
<1>0. /\ e \in Seq(Effect) /\ e # <<>> /\ Len(e) \in Nat \ {0}
      /\ FlattenSeq(p) \in Seq(Effect) /\ Len(FlattenSeq(p)) \in Nat /\ Len(p) \in Nat
      /\ p1 \in Seq(Full) /\ Len(p1) = Len(p) + 1 /\ FlattenSeq(p1) = FlattenSeq(p) \o e
      /\ Len(FlattenSeq(p1)) = Len(FlattenSeq(p)) + Len(e)
      /\ Len(<<>>) = 0 /\ FlattenSeq(<<>>) = <<>>
  <2>1. e \in Seq(Effect) /\ e # <<>> /\ Len(e) \in Nat \ {0}
    BY EmptySeq DEF Full
  <2>2. FlattenSeq(p) \in Seq(Effect) /\ Len(FlattenSeq(p)) \in Nat /\ Len(p) \in Nat
    BY FullIsSeq, LenProperties
  <2>3. p1 \in Seq(Full) /\ Len(p1) = Len(p) + 1 /\ FlattenSeq(p1) = FlattenSeq(p) \o e
    BY OneMore
  <2>4. Len(FlattenSeq(p) \o e) = Len(FlattenSeq(p)) + Len(e)
    BY <2>1, <2>2, ConcatProperties
  <2> QED BY <2>1, <2>2, <2>3, <2>4, FlattenNothing, EmptySeq
<1> HIDE DEF p1
<1>1. ASSUME c > Len(p), NEW r \in Seq(Effect), d = s \o r, Len(r) > Len(FlattenSeq(p))
      PROVE  /\ IsCount(c + 1, d \o e, s, p1, <<>>)
             /\ p = <<>> => IsCount(c + 1, d \o e, s, <<>>, <<>>)
  <2> DEFINE r1 == r \o e
  <2>1. r1 \in Seq(Effect) /\ Len(r1) = Len(r) + Len(e) /\ Len(r) \in Nat
    BY <1>0, ConcatProperties, LenProperties
  <2>2. d \o e = s \o r1
    <3>1. s \in Seq(Effect) /\ r \in Seq(Effect) /\ e \in Seq(Effect)
      BY <1>0
    <3>2. (s \o r) \o e = s \o (r \o e)
      BY ONLY <3>1, Regroup
    <3> QED BY <1>1, <3>2
  <2> HIDE DEF r1
  <2>3. c + 1 > Len(p1) /\ Len(r1) > Len(FlattenSeq(p1)) /\ c + 1 > 0 /\ Len(r1) > 0
    BY <1>0, <1>1, <2>1
  <2> QED BY <1>0, <2>1, <2>2, <2>3 DEF IsCount
<1>2. ASSUME NEW a \in Seq(Full), NEW b \in Seq(Full), p = a \o b, Len(b) = c,
             d = s \o FlattenSeq(b)
      PROVE  /\ IsCount(c + 1, d \o e, s, p1, <<>>)
             /\ p = <<>> => IsCount(c + 1, d \o e, s, <<>>, <<>>)
  <2> DEFINE b1 == Append(b, e)
  <2>1. b1 \in Seq(Full) /\ Len(b1) = c + 1 /\ FlattenSeq(b1) = FlattenSeq(b) \o e
    BY <1>2, OneMore
  <2>2. d \o e = s \o FlattenSeq(b1)
    <3>1. PICK g \in Seq(Effect) : g = FlattenSeq(b)
      BY FullIsSeq
    <3>2. s \in Seq(Effect) /\ g \in Seq(Effect) /\ e \in Seq(Effect)
      BY <1>0
    <3>3. (s \o g) \o e = s \o (g \o e)
      BY ONLY <3>2, RegroupThem
    <3> QED BY <1>2, <2>1, <3>1, <3>3
  <2>3. p1 = a \o b1
    <3> DEFINE t == <<e>>
    <3>1. t \in Seq(Full) /\ t = <<e>>
      OBVIOUS
    <3> HIDE DEF t
    <3>2. a \in Seq(Full) /\ b \in Seq(Full) /\ t \in Seq(Full)
      BY <3>1
    <3>3. (a \o b) \o t = a \o (b \o t)
      BY ONLY <3>2, RegroupThem
    <3>4. b1 = b \o t /\ p1 = p \o t
      BY <3>1, AppendIsConcat DEF p1
    <3> QED BY <1>2, <3>3, <3>4
  <2> HIDE DEF b1
  <2>4. IsCount(c + 1, d \o e, s, p1, <<>>)
    BY <2>1, <2>2, <2>3 DEF IsCount
  <2>5. ASSUME p = <<>> PROVE IsCount(c + 1, d \o e, s, <<>>, <<>>)
    <3>1. a \o b = <<>>
      BY <1>2, <2>5
    <3>2. b = <<>>
      BY ONLY <3>1, a \in Seq(Full), b \in Seq(Full), ConcatEqualIffEmpty
    <3>3. c = 0 /\ d = s
      BY <1>2, <3>2, NothingElse
    <3>4. d \o e = s \o e /\ Len(e) > 0 /\ c + 1 > 0
      BY <1>0, <3>3
    <3> QED BY <1>0, <3>4 DEF IsCount
  <2> QED BY <2>4, <2>5
<1>3. ASSUME NEW r \in Seq(Effect), s = d \o r
      PROVE  r = <<>>
  <2>1. Len(s) = Len(d) + Len(r) /\ Len(s) <= Len(d) /\ Len(d) \in Nat /\ Len(r) \in Nat
    BY <1>3, ConcatProperties, LenProperties DEF IsPrefix
  <2> QED BY <2>1, EmptySeq
<1>4. ASSUME NEW b \in Seq(Full), c + Len(b) = 0, s = d \o FlattenSeq(Reverse(b))
      PROVE  c = 0 /\ d = s
  <2>1. Reverse(b) \in Seq(Full) /\ FlattenSeq(Reverse(b)) \in Seq(Effect)
    BY Reversed, FullIsSeq
  <2>2. FlattenSeq(Reverse(b)) = <<>>
    BY <1>3, <1>4, <2>1
  <2>3. d = s
    BY <1>4, <2>2, ConcatEmptySeq
  <2>4. d \o FlattenSeq(Reverse(b)) = d
    BY <1>4, <2>3
  <2>5. Len(b) = 0
    BY <2>4, NothingElse
  <2>6. c = 0
    BY <1>4, <2>5
  <2> QED BY <2>3, <2>6
<1>5. CASE c = 0 /\ d = s
  <2>1. <<>> \in Seq(Full) /\ p = p \o <<>> /\ Len(<<>>) = c /\ d = s \o FlattenSeq(<<>>)
    BY <1>0, <1>5, EmptySeq, ConcatEmptySeq
  <2> QED BY <1>2, <2>1 DEF p1
<1>6. CASE \E r \in Full : s = d \o r
  BY <1>3, <1>6 DEF Full
<1> QED BY <1>1, <1>2, <1>4, <1>5, <1>6 DEF IsCount, p1

\* The saved document is the one that is left by the undo.
LEMMA UndoneSaved ==
    ASSUME NEW w \in Seq(Effect), NEW q \in Seq(Full), NEW f \in Seq(Full), NEW e \in Full
    PROVE  IsCount(0 - 1, w, w \o e, q, Append(f, e))
<1> DEFINE b == <<e>>
<1>1. b \in Seq(Full) /\ Len(b) = 1 /\ Append(f, e) = f \o b
  BY AppendIsConcat
<1>2. FlattenSeq(Reverse(b)) = e
  <2>1. Reverse(b) = b
    BY ReverseFew
  <2>2. FlattenSeq(b) = e
    BY FlattenOne DEF Full
  <2> QED BY <2>1, <2>2
<1> HIDE DEF b
<1>3. f \in Seq(Full) /\ (0 - 1) + Len(b) = 0 /\ w \o e = w \o FlattenSeq(Reverse(b))
  BY <1>1, <1>2
<1> QED BY <1>1, <1>3 DEF IsCount

\* What is undone was done beyond what was saved, and more of it is left.
LEMMA UndoneBeyond ==
    ASSUME NEW w \in Seq(Effect), NEW s \in Seq(Effect), NEW r \in Seq(Effect),
           NEW q \in Seq(Full), NEW e \in Full, Join(w, e) = Join(s, r),
           Len(r) > Len(FlattenSeq(Append(q, e)))
    PROVE  \E t \in Seq(Effect) : w = Join(s, t) /\ Len(t) > Len(FlattenSeq(q))
<1>1. e \in Seq(Effect) /\ Len(e) \in Nat
  BY LenProperties DEF Full
<1>2. FlattenSeq(q) \in Seq(Effect) /\ Len(FlattenSeq(q)) \in Nat
  BY FullIsSeq, LenProperties
<1>3. Len(FlattenSeq(Append(q, e))) = Len(FlattenSeq(q)) + Len(e)
  <2>1. FlattenSeq(Append(q, e)) = FlattenSeq(q) \o e
    BY OneMore
  <2>2. Len(FlattenSeq(q) \o e) = Len(FlattenSeq(q)) + Len(e)
    BY <1>1, <1>2, ConcatProperties
  <2> QED BY <2>1, <2>2
<1>4. Len(r) >= Len(e) /\ Len(r) \in Nat
  BY <1>1, <1>2, <1>3, LenProperties
<1>5. PICK t \in Seq(Effect) : r = Join(t, e) /\ w = Join(s, t)
  <2>1. Len(r) >= Len(e) /\ e \in Seq(Effect)
    BY <1>1, <1>4
  <2>2. \E t \in Seq(Effect) : r = Join(t, e) /\ w = Join(s, t)
    BY <2>1, Shorten
  <2> QED BY <2>2
<1>6. Len(r) = Len(t) + Len(e) /\ Len(t) \in Nat
  BY <1>1, <1>5, ConcatProperties, LenProperties DEF Join
<1>7. Len(t) > Len(FlattenSeq(q))
  BY <1>1, <1>2, <1>3, <1>4, <1>6
<1> QED BY <1>5, <1>7

\* What is undone was the last unit done after the save.
LEMMA UndoneSince ==
    ASSUME NEW w \in Seq(Effect), NEW s \in Seq(Effect), NEW b \in Seq(Full), NEW e \in Full,
           Join(w, e) = Join(s, FlattenSeq(Append(b, e)))
    PROVE  w = Join(s, FlattenSeq(b))
<1> DEFINE g == FlattenSeq(b)
           t == s \o g
<1>1. g \in Seq(Effect) /\ e \in Seq(Effect) /\ t \in Seq(Effect)
  BY FullIsSeq, ConcatProperties DEF Full
<1>2. w \o e = s \o (g \o e)
  BY OneMore DEF Join
<1> HIDE DEF g
<1>3. (s \o g) \o e = s \o (g \o e)
  BY <1>1, RegroupThem
<1>4. w \o e = t \o e
  BY <1>2, <1>3
<1> HIDE DEF t
<1>5. w = t
  BY <1>1, <1>4, ConcatSimplifications
<1> QED BY <1>5 DEF t, g, Join

\* What is undone was done before the save, as was what can be redone.
LEMMA UndoneBefore ==
    ASSUME NEW w \in Seq(Effect), NEW e \in Full, NEW b \in Seq(Full)
    PROVE  (w \o e) \o FlattenSeq(Reverse(b)) = w \o FlattenSeq(Reverse(Append(b, e)))
<1> DEFINE g == FlattenSeq(Reverse(b))
<1>1. g \in Seq(Effect) /\ e \in Seq(Effect)
  BY OneMore, FullIsSeq DEF Full
<1>2. FlattenSeq(Reverse(Append(b, e))) = e \o g
  BY OneMore
<1> HIDE DEF g
<1>3. (w \o e) \o g = w \o (e \o g)
  BY <1>1, RegroupThem
<1> QED BY <1>2, <1>3 DEF g

\* One more unit at the end of two parts.
LEMMA OneMorePart ==
    ASSUME NEW a \in Seq(Full), NEW b \in Seq(Full), NEW e \in Full
    PROVE  Append(a \o b, e) = a \o Append(b, e)
<1> DEFINE t == <<e>>
           ab == a \o b
<1>1. t \in Seq(Full) /\ ab \in Seq(Full)
  BY ConcatProperties
<1>2. Append(b, e) = b \o t /\ Append(ab, e) = ab \o t
  BY <1>1, AppendIsConcat
<1> HIDE DEF t
<1>3. (a \o b) \o t = a \o (b \o t)
  BY <1>1, RegroupThem
<1> QED BY <1>2, <1>3

\* The last unit is undone: there is one less to undo, or one more to redo.
LEMMA CountUndone ==
    ASSUME NEW c \in Int, NEW w \in Seq(Effect), NEW s \in Seq(Effect),
           NEW q \in Seq(Full), NEW f \in Seq(Full), NEW e \in Full,
           IsCount(c, w \o e, s, Append(q, e), f)
    PROVE  IsCount(c - 1, w, s, q, Append(f, e))
<1> DEFINE p == Append(q, e)
           f1 == Append(f, e)
           d == w \o e
<1>0. /\ Len(q) \in Nat /\ p \in Seq(Full) /\ Len(p) = Len(q) + 1 /\ p # <<>>
      /\ IsCount(c, d, s, p, f)
  BY FullIsSeq, AppendProperties
<1>1. ASSUME c > Len(p), NEW r \in Seq(Effect), d = s \o r, Len(r) > Len(FlattenSeq(p))
      PROVE  IsCount(c - 1, w, s, q, f1)
  <2>1. Join(w, e) = Join(s, r)
    BY <1>1 DEF Join
  <2>2. \E t \in Seq(Effect) : w = Join(s, t) /\ Len(t) > Len(FlattenSeq(q))
    BY <1>1, <2>1, UndoneBeyond
  <2>3. c - 1 > Len(q)
    BY <1>0, <1>1
  <2> QED BY <2>2, <2>3 DEF IsCount, Join
<1>2. ASSUME NEW a \in Seq(Full), NEW b \in Seq(Full), p = a \o b, Len(b) = c,
             d = s \o FlattenSeq(b), b # <<>>
      PROVE  IsCount(c - 1, w, s, q, f1)
  <2>1. PICK b0 \in Seq(Full) : b = Append(b0, e) /\ q = a \o b0
    BY <1>2, LastPart
  <2>2. w = s \o FlattenSeq(b0)
    <3>1. Join(w, e) = Join(s, FlattenSeq(Append(b0, e)))
      BY <1>2, <2>1 DEF Join
    <3>2. w = Join(s, FlattenSeq(b0))
      BY <3>1, UndoneSince
    <3> QED BY <3>2 DEF Join
  <2>3. Len(b) = Len(b0) + 1 /\ Len(b0) \in Nat
    BY <2>1, OneMore, FullIsSeq
  <2>4. Len(b0) = c - 1
    BY <1>2, <2>3
  <2> QED BY <2>1, <2>2, <2>4 DEF IsCount
<1>3. ASSUME NEW a \in Seq(Full), NEW b \in Seq(Full), f = a \o b, c + Len(b) = 0,
             s = d \o FlattenSeq(Reverse(b))
      PROVE  IsCount(c - 1, w, s, q, f1)
  <2> DEFINE b1 == Append(b, e)
  <2>1. b1 \in Seq(Full) /\ Len(b1) = Len(b) + 1 /\ Len(b) \in Nat
    BY OneMore, FullIsSeq
  <2>2. s = w \o FlattenSeq(Reverse(b1))
    BY <1>3, UndoneBefore
  <2>3. f1 = a \o b1
    BY <1>3, OneMorePart
  <2> HIDE DEF b1
  <2>5. (c - 1) + Len(b1) = 0
    <3>1. c + Len(b) = 0
      BY <1>3
    <3> DEFINE k == Len(b)
               l == Len(b1)
    <3>2. l = k + 1 /\ k \in Nat /\ c + k = 0
      BY <2>1, <3>1
    <3> HIDE DEF k, l
    <3>3. (c - 1) + l = 0
      BY ONLY <3>2, c \in Int
    <3> QED BY <3>3 DEF l
  <2> QED BY <2>1, <2>2, <2>3, <2>5 DEF IsCount
<1>4. CASE c = 0 /\ d = s
  <2>1. IsCount(0 - 1, w, d, q, f1)
    BY UndoneSaved
  <2> QED BY <1>4, <2>1
<1>5. ASSUME NEW b \in Seq(Full), Len(b) = c, d = s \o FlattenSeq(b), b = <<>>
      PROVE  c = 0 /\ d = s
  BY <1>5, NothingElse
<1> HIDE DEF p, d
<1> QED BY <1>0, <1>1, <1>2, <1>3, <1>4, <1>5 DEF IsCount

\* The next unit is redone.
LEMMA CountRedone ==
    ASSUME NEW c \in Int, NEW d \in Seq(Effect), NEW s \in Seq(Effect),
           NEW p \in Seq(Full), NEW g \in Seq(Full), NEW e \in Full,
           IsCount(c, d, s, p, Append(g, e))
    PROVE  IsCount(c + 1, d \o e, s, Append(p, e), g)
<1> DEFINE p1 == Append(p, e)
           f == Append(g, e)
<1>0. /\ e \in Seq(Effect) /\ e # <<>> /\ Len(e) \in Nat /\ Len(p) \in Nat
      /\ FlattenSeq(p) \in Seq(Effect) /\ Len(FlattenSeq(p)) \in Nat
      /\ p1 \in Seq(Full) /\ Len(p1) = Len(p) + 1 /\ f # <<>>
      /\ Len(FlattenSeq(p1)) = Len(FlattenSeq(p)) + Len(e)
  <2>1. e \in Seq(Effect) /\ e # <<>> /\ Len(e) \in Nat
    BY LenProperties DEF Full
  <2>2. FlattenSeq(p) \in Seq(Effect) /\ Len(FlattenSeq(p)) \in Nat /\ Len(p) \in Nat
    BY FullIsSeq, LenProperties
  <2>3. /\ p1 \in Seq(Full) /\ Len(p1) = Len(p) + 1 /\ f # <<>>
        /\ FlattenSeq(p1) = FlattenSeq(p) \o e
    BY OneMore, AppendProperties
  <2>4. Len(FlattenSeq(p) \o e) = Len(FlattenSeq(p)) + Len(e)
    BY <2>1, <2>2, ConcatProperties
  <2> QED BY <2>1, <2>2, <2>3, <2>4
<1>1. ASSUME c > Len(p), NEW r \in Seq(Effect), d = s \o r, Len(r) > Len(FlattenSeq(p))
      PROVE  IsCount(c + 1, d \o e, s, p1, g)
  <2> DEFINE r1 == r \o e
  <2>1. r1 \in Seq(Effect) /\ Len(r1) = Len(r) + Len(e) /\ Len(r) \in Nat
    BY <1>0, ConcatProperties, LenProperties
  <2>2. d \o e = s \o r1
    <3>1. s \in Seq(Effect) /\ r \in Seq(Effect) /\ e \in Seq(Effect)
      BY <1>0
    <3>2. (s \o r) \o e = s \o (r \o e)
      BY ONLY <3>1, RegroupThem
    <3> QED BY <1>1, <3>2
  <2> HIDE DEF r1
  <2>3. c + 1 > Len(p1) /\ Len(r1) > Len(FlattenSeq(p1))
    BY <1>0, <1>1, <2>1
  <2> QED BY <2>1, <2>2, <2>3 DEF IsCount
<1>2. ASSUME NEW a \in Seq(Full), NEW b \in Seq(Full), p = a \o b, Len(b) = c,
             d = s \o FlattenSeq(b)
      PROVE  IsCount(c + 1, d \o e, s, p1, g)
  <2> DEFINE b1 == Append(b, e)
  <2>1. b1 \in Seq(Full) /\ Len(b1) = c + 1 /\ FlattenSeq(b1) = FlattenSeq(b) \o e
    BY <1>2, OneMore
  <2>2. d \o e = s \o FlattenSeq(b1)
    <3>1. PICK h \in Seq(Effect) : h = FlattenSeq(b)
      BY FullIsSeq
    <3>2. s \in Seq(Effect) /\ h \in Seq(Effect) /\ e \in Seq(Effect)
      BY <1>0
    <3>3. (s \o h) \o e = s \o (h \o e)
      BY ONLY <3>2, RegroupThem
    <3> QED BY <1>2, <2>1, <3>1, <3>3
  <2>3. p1 = a \o b1
    <3> DEFINE t == <<e>>
    <3>1. t \in Seq(Full) /\ t = <<e>>
      OBVIOUS
    <3> HIDE DEF t
    <3>2. a \in Seq(Full) /\ b \in Seq(Full) /\ t \in Seq(Full)
      BY <3>1
    <3>3. (a \o b) \o t = a \o (b \o t)
      BY ONLY <3>2, RegroupThem
    <3>4. b1 = b \o t /\ p1 = p \o t
      BY <3>1, AppendIsConcat
    <3> QED BY <1>2, <3>3, <3>4
  <2> HIDE DEF b1
  <2> QED BY <2>1, <2>2, <2>3 DEF IsCount
<1>3. ASSUME NEW a \in Seq(Full), NEW b \in Seq(Full), f = a \o b, c + Len(b) = 0,
             s = d \o FlattenSeq(Reverse(b)), b # <<>>
      PROVE  IsCount(c + 1, d \o e, s, p1, g)
  <2>1. PICK b0 \in Seq(Full) : b = Append(b0, e) /\ g = a \o b0
    <3>1. Append(g, e) = a \o b /\ b # <<>>
      BY <1>3
    <3> QED BY ONLY <3>1, a \in Seq(Full), b \in Seq(Full), g \in Seq(Full), e \in Full, LastPart
  <2>2. /\ Len(b) = Len(b0) + 1 /\ Len(b0) \in Nat /\ Reverse(b0) \in Seq(Full)
        /\ FlattenSeq(Reverse(b)) = e \o FlattenSeq(Reverse(b0))
    BY <2>1, OneMore, FullIsSeq
  <2>3. PICK h \in Seq(Effect) : h = FlattenSeq(Reverse(b0))
    BY <2>2, FullIsSeq
  <2>4. s = (d \o e) \o h
    <3>1. d \in Seq(Effect) /\ e \in Seq(Effect) /\ h \in Seq(Effect)
      BY <1>0
    <3>2. (d \o e) \o h = d \o (e \o h)
      BY ONLY <3>1, RegroupThem
    <3> QED BY <1>3, <2>2, <2>3, <3>2
  <2>5. (c + 1) + Len(b0) = 0
    BY <1>3, <2>2
  <2> QED BY <2>1, <2>3, <2>4, <2>5 DEF IsCount
<1>4. CASE c = 0 /\ d = s
  <2>1. <<>> \in Seq(Full) /\ p = p \o <<>> /\ Len(<<>>) = c /\ d = s \o FlattenSeq(<<>>)
    BY <1>4, EmptySeq, ConcatEmptySeq, FlattenNothing
  <2> QED BY <1>2, <2>1
<1>5. ASSUME NEW b \in Seq(Full), c + Len(b) = 0, s = d \o FlattenSeq(Reverse(b)), b = <<>>
      PROVE  c = 0 /\ d = s
  <2>1. FlattenSeq(Reverse(<<>>)) = <<>> /\ Len(<<>>) = 0
    BY ReverseFew, FlattenNothing, EmptySeq
  <2>2. c = 0 /\ s = d \o <<>>
    BY <1>5, <2>1
  <2> QED BY <2>2, ConcatEmptySeq
<1> QED BY <1>0, <1>1, <1>2, <1>3, <1>4, <1>5 DEF IsCount

\* Both stacks are cleared (enableUndo).
LEMMA CountDropped ==
    ASSUME NEW c \in Int, NEW d \in Seq(Effect), NEW s \in Seq(Effect),
           NEW p \in Seq(Full), NEW f \in Seq(Full), IsCount(c, d, s, p, f)
    PROVE  IsCount(c, d, s, <<>>, <<>>)
<1>0. <<>> \in Seq(Full) /\ Len(<<>>) = 0 /\ FlattenSeq(<<>>) = <<>>
  BY EmptySeq, FlattenNothing
<1>1. ASSUME c > Len(p), NEW r \in Seq(Effect), d = s \o r, Len(r) > Len(FlattenSeq(p))
      PROVE  IsCount(c, d, s, <<>>, <<>>)
  <2>1. Len(p) \in Nat /\ Len(FlattenSeq(p)) \in Nat /\ Len(r) \in Nat
    BY FullIsSeq, LenProperties
  <2>2. c > 0 /\ Len(r) > 0
    BY <1>1, <2>1
  <2> QED BY <1>0, <1>1, <2>2 DEF IsCount
<1>2. ASSUME NEW b \in Seq(Full), Len(b) = c, d = s \o FlattenSeq(b), b # <<>>
      PROVE  IsCount(c, d, s, <<>>, <<>>)
  <2>1. FlattenSeq(b) \in Seq(Effect) /\ Len(FlattenSeq(b)) > 0
    BY <1>2, FullIsFull, FullIsSeq
  <2>2. c > 0
    BY <1>2, EmptySeq
  <2> QED BY <1>0, <1>2, <2>1, <2>2 DEF IsCount
<1>3. ASSUME NEW b \in Seq(Full), c + Len(b) = 0, s = d \o FlattenSeq(Reverse(b)), b # <<>>
      PROVE  IsCount(c, d, s, <<>>, <<>>)
  <2>1. FlattenSeq(Reverse(b)) \in Full
    BY <1>3, FullIsFull
  <2>2. Len(b) \in Nat \ {0}
    BY <1>3, EmptySeq
  <2>3. c < 0
    BY <1>3, <2>2
  <2> QED BY <1>0, <1>3, <2>1, <2>3 DEF IsCount
<1>4. CASE c = 0 /\ d = s
  BY <1>0, <1>4, AtSave
<1>5. ASSUME c < 0, NEW r \in Full, s = d \o r
      PROVE  IsCount(c, d, s, <<>>, <<>>)
  BY <1>5 DEF IsCount
<1>6. c = 0 <=> d = s
  BY CountTells
<1>7. ASSUME NEW b \in Seq(Full), b = <<>>, Len(b) = c \/ c + Len(b) = 0
      PROVE  c = 0
  <2>1. Len(b) = 0
    BY <1>7, <1>0
  <2> QED BY <1>7, <2>1
<1>8. CASE /\ c > Len(p)
           /\ \E r \in Seq(Effect) : d = s \o r /\ Len(r) > Len(FlattenSeq(p))
  BY <1>1, <1>8
<1>9. CASE \E a, b \in Seq(Full) : p = a \o b /\ Len(b) = c /\ d = s \o FlattenSeq(b)
  BY <1>2, <1>4, <1>6, <1>7, <1>9
<1>10. CASE \E a, b \in Seq(Full) :
               f = a \o b /\ c + Len(b) = 0 /\ s = d \o FlattenSeq(Reverse(b))
  BY <1>3, <1>4, <1>6, <1>7, <1>10
<1>11. CASE c < 0 /\ \E r \in Full : s = d \o r
  BY <1>5, <1>11
<1> QED BY <1>8, <1>9, <1>10, <1>11 DEF IsCount

----------------------------------------------------------------------------
(***************************************************************************)
(* Every unit that can be undone or redone has effects, if transactions    *)
(* succeed: a placeholder is made for a transaction and takes it in.       *)
(***************************************************************************)

LEMMA SolidTypes ==
    /\ SolidUnit \subseteq Unit /\ SolidBatch \subseteq Batch /\ SolidBatch \subseteq Unit
    /\ \A u \in SolidUnit : u \in Unit /\ u.effects \in Full
<1>1. \A u \in Unit : u.effects \in Seq(Effect)
  BY DEF Unit
<1> QED BY <1>1 DEF SolidUnit, SolidBatch, Batch, Full

LEMMA EachTypes ==
    ASSUME NEW us \in Seq(SolidUnit)
    PROVE  /\ us \in Seq(Unit) /\ Each(us) \in Seq(Full) /\ Len(Each(us)) = Len(us)
           /\ \A k \in 1 .. Len(us) : Each(us)[k] = us[k].effects
           /\ Effects(us) = FlattenSeq(Each(us))
<1>1. us \in Seq(Unit)
  BY SolidTypes, SeqMonotonic
<1>2. Len(us) \in Nat /\ \A k \in 1 .. Len(us) : us[k] \in SolidUnit
  BY Elements
<1>3. \A k \in 1 .. Len(us) : us[k].effects \in Full
  BY <1>2, SolidTypes
<1> DEFINE n == Len(us)
           t == [k \in 1 .. n |-> us[k].effects]
<1>4. t \in Seq(Full) /\ Len(t) = n
  BY <1>2, <1>3
<1> QED BY <1>1, <1>4 DEF Each, Effects

LEMMA EachAppend ==
    /\ Each(<<>>) = <<>>
    /\ \A us \in Seq(SolidUnit), u \in SolidUnit : Each(Append(us, u)) = Append(Each(us), u.effects)
<1>1. Each(<<>>) = <<>>
  BY EmptySeq DEF Each
<1>2. ASSUME NEW us \in Seq(SolidUnit), NEW u \in SolidUnit
      PROVE  Each(Append(us, u)) = Append(Each(us), u.effects)
  <2> DEFINE s == Append(us, u)
             t == Append(Each(us), u.effects)
             n == Len(us)
  <2>1. /\ s \in Seq(SolidUnit) /\ Len(s) = n + 1 /\ n \in Nat
        /\ \A k \in 1 .. n : s[k] = us[k]
        /\ s[n + 1] = u
    BY AppendProperties, LenProperties
  <2>2. /\ Each(us) \in Seq(Full) /\ Len(Each(us)) = n /\ u.effects \in Full
        /\ \A k \in 1 .. n : Each(us)[k] = us[k].effects
    BY EachTypes, SolidTypes
  <2>3. /\ t \in Seq(Full) /\ Len(t) = n + 1
        /\ \A k \in 1 .. n : t[k] = Each(us)[k]
        /\ t[n + 1] = u.effects
    BY <2>2, AppendProperties
  <2>4. /\ Each(s) \in Seq(Full) /\ Len(Each(s)) = n + 1
        /\ \A k \in 1 .. n + 1 : Each(s)[k] = s[k].effects
    BY <2>1, EachTypes
  <2> HIDE DEF s, t, n
  <2>5. \A k \in 1 .. n + 1 : Each(s)[k] = t[k]
    <3>1. ASSUME NEW k \in 1 .. n PROVE Each(s)[k] = t[k]
      BY <2>1, <2>2, <2>3, <2>4, <3>1
    <3>2. Each(s)[n + 1] = t[n + 1]
      BY <2>1, <2>3, <2>4
    <3>3. \A k \in 1 .. n + 1 : k \in 1 .. n \/ k = n + 1
      BY <2>1
    <3> QED BY <3>1, <3>2, <3>3
  <2>6. Each(s) = t
    BY <2>3, <2>4, <2>5, SeqEqual
  <2> QED BY <2>6 DEF s, t
<1> QED BY <1>1, <1>2

\* The front of what ends with an element.
LEMMA FrontAppend ==
    ASSUME NEW S, NEW s \in Seq(S), NEW x \in S
    PROVE  Front(Append(s, x)) = s /\ Last(Append(s, x)) = x
<1> DEFINE t == Append(s, x)
<1>1. t \in Seq(S) /\ t # <<>> /\ t = Append(s, x)
  BY AppendProperties
<1> HIDE DEF t
<1>2. Front(t) \in Seq(S) /\ t = Append(Front(t), Last(t)) /\ Last(t) \in S
  BY <1>1, ReplaceLast
<1> DEFINE f == Front(t)
           l == Last(t)
<1>3. f \in Seq(S) /\ l \in S /\ Append(s, x) = Append(f, l)
  BY <1>1, <1>2
<1> HIDE DEF f, l
<1>4. s = f /\ x = l
  BY <1>3, AppendInjective
<1> QED BY <1>4 DEF t, f, l

\* A transaction is recorded where all units have effects, or where the last one is a
\* placeholder without effects, which takes it in.
Takes(h, u) ==
    /\ h.future \in Seq(SolidUnit)
    /\ ~h.on => h.open \in Seq(SolidBatch)
    /\ h.open # <<>> => Front(h.open) \in Seq(SolidBatch)
    /\ \/ h.past \in Seq(SolidUnit)
       \/ /\ h.on /\ h.open = <<>> /\ Absorbing(h) /\ u.kind = "edit"
          /\ Front(h.past) \in Seq(SolidUnit)

LEMMA RecordSolid ==
    ASSUME NEW h \in Hist, NEW u \in Unit, sel \in Selection, u.effects # <<>>, Takes(h, u)
    PROVE  Solid(Record(h, u))
<1> DEFINE g == Record(h, u)
           h0 == [h EXCEPT !.future = <<>>]
<1>0. <<>> \in Seq(SolidUnit) /\ <<>> \in Seq(SolidBatch) /\ u \in SolidUnit
  BY EmptySeq DEF SolidUnit
<1>1. CASE ~h.on
  BY <1>1 DEF Record, Takes, Solid
<1>2. CASE h.on /\ h.open # <<>>
  <2> DEFINE j == Joined(Last(h.open), u)
  <2>1. /\ g.past = h.past /\ g.future = h.future /\ g.open = Append(Front(h.open), j)
        /\ j \in Batch
    BY <1>2, RecordCases
  <2>2. Last(h.open) \in Unit
    <3>1. h.open \in Seq(Batch) /\ Batch \subseteq Unit
      BY DEF Hist, Batch
    <3>2. Last(h.open) \in Batch
      BY <1>2, <3>1, ReplaceLast
    <3> QED BY <3>1, <3>2
  <2>3. j.effects # <<>>
    <3>1. Last(h.open).effects \in Seq(Effect) /\ u.effects \in Seq(Effect)
      BY <2>2 DEF Unit
    <3>2. Last(h.open).effects \o u.effects # <<>>
      BY <3>1, ConcatEqualIffEmpty
    <3> QED BY <3>2 DEF Joined, MkUnit
  <2>4. j \in SolidBatch
    BY <2>1, <2>3 DEF SolidBatch
  <2> HIDE DEF g, j
  <2>5. Append(Front(h.open), j) \in Seq(SolidBatch)
    BY <1>2, <2>4, AppendProperties DEF Takes
  <2>6. h.past \in Seq(SolidUnit) /\ h.future \in Seq(SolidUnit)
    BY <1>2 DEF Takes
  <2> QED BY <2>1, <2>5, <2>6 DEF Solid, g
<1>3. CASE h.on /\ h.open = <<>>
  <2> DEFINE old == Last(h0.past)
             top == Last(g.past)
  <2>1. g = PushOrMerge(h0, u)
    BY <1>3 DEF Record
  <2>2. h0 \in Hist /\ h0.past = h.past /\ h0.open = h.open /\ h0.on = h.on /\ h0.future = <<>>
    BY FutureDropped DEF Hist
  <2> HIDE DEF g, h0
  <2>3. /\ g \in Hist /\ top \in Unit /\ g.open = <<>> /\ g.future = <<>>
        /\ \/ /\ TopIsPlaceholder(h0) /\ Absorbs(old, u) /\ Grown(top, old, u)
              /\ g.past = [h0.past EXCEPT ![Len(h0.past)] = top]
           \/ /\ TopIsPlaceholder(h0) /\ Resumes(old, u)
              /\ top.effects = old.effects
              /\ g.past = [h0.past EXCEPT ![Len(h0.past)] = top]
           \/ /\ ~(TopIsPlaceholder(h0) /\ Absorbs(old, u))
              /\ g.past = Append(h0.past, u)
    BY <1>3, <2>1, <2>2, Pushed
  <2> DEFINE p == h.past
  <2>4. p \in Seq(Unit) /\ old = Last(p) /\ h0.past = p
    BY <2>2 DEF Hist
  <2>5. ASSUME TopIsPlaceholder(h0), g.past = [p EXCEPT ![Len(p)] = top], top \in SolidUnit
        PROVE  g.past \in Seq(SolidUnit)
    <3>1. p # <<>> /\ p \in Seq(Unit) /\ top \in Unit
      BY <2>3, <2>4, <2>5 DEF TopIsPlaceholder
    <3> HIDE DEF p, top
    <3>2. g.past = Append(Front(p), top)
      BY <2>5, <3>1, ReplaceLast
    <3>3. Front(p) \in Seq(SolidUnit)
      <4>1. CASE p \in Seq(SolidUnit)
        BY <3>1, <4>1, ReplaceLast
      <4> QED BY <4>1 DEF Takes, p
    <3>4. top \in SolidUnit
      BY <2>5
    <3>5. Append(Front(p), top) \in Seq(SolidUnit)
      BY ONLY <3>3, <3>4, AppendProperties
    <3> QED BY <3>2, <3>5
  <2>6. old \in Unit \/ ~TopIsPlaceholder(h0)
    <3>1. p # <<>> => Last(p) \in Unit
      BY <2>4, ReplaceLast
    <3> QED BY <2>4, <3>1 DEF TopIsPlaceholder
  <2>7. CASE /\ TopIsPlaceholder(h0) /\ Absorbs(old, u) /\ Grown(top, old, u)
             /\ g.past = [h0.past EXCEPT ![Len(h0.past)] = top]
    <3>1. old.effects \in Seq(Effect) /\ u.effects \in Seq(Effect) /\ top.effects = old.effects \o u.effects
      BY <2>6, <2>7 DEF Grown, Unit
    <3>2. old.effects \o u.effects # <<>>
      BY <3>1, ConcatEqualIffEmpty
    <3>3. top \in SolidUnit
      BY <2>3, <3>1, <3>2 DEF SolidUnit
    <3>4. g.past \in Seq(SolidUnit)
      BY <2>4, <2>5, <2>7, <3>3
    <3> QED BY <1>0, <2>3, <3>4 DEF Solid, g
  <2>8. CASE /\ TopIsPlaceholder(h0) /\ Resumes(old, u) /\ top.effects = old.effects
             /\ g.past = [h0.past EXCEPT ![Len(h0.past)] = top]
    <3>1. p \in Seq(SolidUnit)
      BY <2>8 DEF Takes, Resumes, IsPlaceholder
    <3>2. p # <<>>
      BY <2>4, <2>8 DEF TopIsPlaceholder
    <3> HIDE DEF p
    <3>3. Last(p) \in SolidUnit
      BY <3>1, <3>2, ReplaceLast
    <3>4. top \in SolidUnit
      BY <2>3, <2>4, <2>8, <3>3 DEF SolidUnit
    <3>5. g.past \in Seq(SolidUnit)
      BY <2>4, <2>5, <2>8, <3>4
    <3> QED BY <1>0, <2>3, <3>5 DEF Solid, g
  <2>9. CASE ~(TopIsPlaceholder(h0) /\ Absorbs(old, u)) /\ g.past = Append(h0.past, u)
    <3>1. ~(Absorbing(h) /\ u.kind = "edit")
      BY <2>2, <2>4, <2>9 DEF Absorbing, Absorbs, TopIsPlaceholder
    <3>2. p \in Seq(SolidUnit)
      BY <3>1 DEF Takes
    <3>3. g.past \in Seq(SolidUnit)
      BY <1>0, <2>4, <2>9, <3>2, AppendProperties
    <3> QED BY <1>0, <2>3, <3>3 DEF Solid, g
  <2> QED BY <2>3, <2>7, <2>8, <2>9
<1> QED BY <1>1, <1>2, <1>3

\* The placeholder that is made for a transaction takes it.
LEMMA PlaceholderTakes ==
    ASSUME EditorInv, Solid(hist), NeedsPlaceholder, made + 1 <= MaxPlaceholders,
           NEW u \in Unit, u.kind = "edit"
    PROVE  WithPlaceholder(made + 1) \in Hist /\ Takes(WithPlaceholder(made + 1), u)
<1> DEFINE p == made + 1
           m0 == MkUnit("placeholder", <<>>, {p})
           m == [m0 EXCEPT !.state = NewState(ed.name, ed.selState)]
           h == WithPlaceholder(p)
           h0 == [hist EXCEPT !.future = <<>>]
<1>0. hist \in Hist /\ sel \in Selection
  BY EditorTypes
<1>1. /\ h \in Hist /\ h.on = hist.on /\ (h.open = <<>> <=> hist.open = <<>>)
      /\ (h.on /\ h.open = <<>> => Absorbing(h))
  BY NewPlaceholder
<1>2. m \in Unit /\ h = Record(hist, m)
  <2>1. made \in 0 .. MaxPlaceholders /\ ed.name \in Name /\ ed.selState \in Selection \cup {Nothing}
    BY Facts, EdFacts
  <2>2. p \in Placeholder
    BY <2>1, EditorAssumption DEF Placeholder
  <2>3. m0 \in Unit
    <3> DEFINE none == <<>>
               ps == {p}
               kind == "placeholder"
    <3>1. /\ none \in Seq(Effect) /\ ps \in SUBSET Placeholder
          /\ kind \in {"edit", "script", "placeholder", "batch"}
      BY <2>2, EmptySeq
    <3>2. m0 = MkUnit(kind, none, ps)
      OBVIOUS
    <3> HIDE DEF none, ps, kind, m0
    <3> QED BY <3>1, <3>2, MadeUnit
  <2>4. NewState(ed.name, ed.selState) \in PlcState
    BY <2>1 DEF NewState, PlcState, Selection
  <2> HIDE DEF m0
  <2>5. m \in Unit
    BY <2>3, <2>4 DEF Unit
  <2> QED BY <2>5 DEF WithPlaceholder, m0
<1> HIDE DEF m, h, h0
<1>3. CASE ~hist.on
  <2>1. h = hist
    BY <1>2, <1>3 DEF Record
  <2>2. hist.open # <<>> => Front(hist.open) \in Seq(SolidBatch)
    BY ReplaceLast DEF Solid
  <2> QED BY <1>1, <2>1, <2>2 DEF Takes, Solid, h
<1>4. CASE hist.on /\ hist.open # <<>>
  <2> DEFINE f == Front(hist.open)
             j == Joined(Last(hist.open), m)
  <2>1. /\ h.past = hist.past /\ h.future = hist.future /\ h.open = Append(f, j) /\ j \in Batch
        /\ f \in Seq(Batch)
    BY <1>0, <1>2, <1>4, RecordCases
  <2>2. f \in Seq(SolidBatch)
    BY <1>4, ReplaceLast DEF Solid
  <2> HIDE DEF f, j
  <2>3. Front(h.open) = f
    BY <2>1, FrontAppend
  <2> QED BY <1>1, <1>4, <2>1, <2>2, <2>3 DEF Takes, Solid, h
<1>5. CASE hist.on /\ hist.open = <<>>
  <2> DEFINE top == Last(h.past)
             q == hist.past
  <2>1. h = PushOrMerge(h0, m)
    BY <1>2, <1>5 DEF Record, h0
  <2>2. h0 \in Hist /\ h0.past = hist.past /\ h0.future = <<>>
    BY <1>0, FutureDropped DEF Hist, h0
  <2>3. /\ h.future = <<>> /\ top \in Unit
        /\ \/ TopIsPlaceholder(h0) /\ h.past = [h0.past EXCEPT ![Len(h0.past)] = top]
           \/ h.past = Append(h0.past, m)
    <3> DEFINE g == PushOrMerge(h0, m)
    <3>1. /\ g.future = h0.future /\ Last(g.past) \in Unit
          /\ \/ TopIsPlaceholder(h0) /\ g.past = [h0.past EXCEPT ![Len(h0.past)] = Last(g.past)]
             \/ g.past = Append(h0.past, m)
      BY <1>0, <1>2, <2>2, Pushed
    <3> HIDE DEF g
    <3>2. h = g
      BY <2>1 DEF g
    <3> QED BY <2>2, <3>1, <3>2
  <2>4. q \in Seq(SolidUnit) /\ q \in Seq(Unit)
    BY EachTypes DEF Solid
  <2>5. Front(h.past) \in Seq(SolidUnit)
    <3>1. CASE TopIsPlaceholder(h0) /\ h.past = [h0.past EXCEPT ![Len(h0.past)] = top]
      <4>1. q # <<>> /\ h.past = [q EXCEPT ![Len(q)] = top]
        BY <2>2, <3>1 DEF TopIsPlaceholder
      <4>2. top \in Unit
        BY <2>3
      <4> HIDE DEF q, top
      <4>3. h.past = Append(Front(q), top) /\ Front(q) \in Seq(Unit)
        BY <2>4, <4>1, <4>2, ReplaceLast
      <4>4. Front(q) \in Seq(SolidUnit)
        BY <2>4, <4>1, ReplaceLast
      <4>5. Front(h.past) = Front(q)
        BY <4>2, <4>3, FrontAppend
      <4> QED BY <4>4, <4>5
    <3>2. CASE h.past = Append(h0.past, m)
      BY <1>2, <2>2, <2>4, <3>2, FrontAppend
    <3> QED BY <2>3, <3>1, <3>2
  <2>6. h.on /\ h.open = <<>> /\ Absorbing(h) /\ <<>> \in Seq(SolidUnit)
    BY <1>1, <1>5, EmptySeq
  <2> QED BY <1>1, <2>3, <2>5, <2>6 DEF Takes, h
<1> QED BY <1>3, <1>4, <1>5

LEMMA SolidTakes ==
    ASSUME NEW h \in Hist, Solid(h), NEW u
    PROVE  Takes(h, u)
<1>1. h.open # <<>> => Front(h.open) \in Seq(SolidBatch)
  BY ReplaceLast DEF Solid
<1> QED BY <1>1 DEF Takes, Solid

\* Transactions of the editor, and those given to the manager directly.
LEMMA DoSolid ==
    ASSUME EditorInv, Solid(hist), SingleSteps, DoTransaction("edit")
    PROVE  LET u == MkUnit("edit", <<NewEffect>>, {})
           IN /\ Solid(hist') /\ doc' = doc \o u.effects
              /\ u \in Unit /\ u.effects \in Full /\ ~IsPlaceholder(u)
              /\ made' = made => hist' = Record(hist, u)
<1> DEFINE u == MkUnit("edit", <<NewEffect>>, {})
           h == IF NeedsPlaceholder THEN WithPlaceholder(made + 1) ELSE hist
<1>1. /\ CanEdit /\ (NeedsPlaceholder => made + 1 <= MaxPlaceholders)
      /\ hist' = Record(h, u) /\ doc' = Append(doc, NewEffect)
      /\ made' = IF NeedsPlaceholder THEN made + 1 ELSE made
  BY DEF DoTransaction, SingleSteps
<1>2. hist \in Hist /\ sel \in Selection /\ made \in Nat
  BY EditorTypes, Facts
<1>3. /\ u \in Unit /\ ~IsPlaceholder(u) /\ u.effects # <<>> /\ u.effects \in Seq(Effect)
      /\ Append(doc, NewEffect) = doc \o u.effects /\ u.kind = "edit"
  <2> DEFINE kind == "edit"
  <2>1. kind \in {"edit", "script"}
    OBVIOUS
  <2> HIDE DEF kind
  <2>2. LET v == MkUnit(kind, <<NewEffect>>, {})
        IN /\ v \in Unit /\ ~IsPlaceholder(v) /\ v.effects = <<NewEffect>>
           /\ v.effects # <<>> /\ Append(doc, NewEffect) = doc \o v.effects
    BY <1>1, <2>1, ItsUnit
  <2>3. u.kind = "edit" /\ u = MkUnit(kind, <<NewEffect>>, {})
    BY DEF MkUnit, kind
  <2> HIDE DEF u
  <2>4. u.effects \in Seq(Effect)
    BY <2>2, <2>3 DEF Unit
  <2> QED BY <2>2, <2>3, <2>4
<1> HIDE DEF u
<1>4. h \in Hist /\ Takes(h, u)
  <2>1. CASE NeedsPlaceholder
    BY <1>1, <1>3, <2>1, PlaceholderTakes
  <2>2. CASE ~NeedsPlaceholder
    BY <1>2, <2>2, SolidTakes
  <2> QED BY <2>1, <2>2
<1>5. made' = made => h = hist
  BY <1>1, <1>2
<1> HIDE DEF h
<1>6. Solid(hist')
  BY <1>1, <1>2, <1>3, <1>4, RecordSolid
<1> QED BY <1>1, <1>3, <1>5, <1>6 DEF u, Full

LEMMA DirectSolid ==
    ASSUME EditorInv, Solid(hist), DirectEdit
    PROVE  LET u == MkUnit("script", <<NewEffect>>, {})
           IN /\ Solid(hist') /\ doc' = doc \o u.effects
              /\ u \in Unit /\ u.effects \in Full /\ ~IsPlaceholder(u)
              /\ hist' = Record(hist, u)
<1> DEFINE u == MkUnit("script", <<NewEffect>>, {})
<1>1. CanEdit /\ hist' = Record(hist, u) /\ doc' = Append(doc, NewEffect)
  BY DEF DirectEdit
<1>2. hist \in Hist /\ sel \in Selection
  BY EditorTypes
<1>3. /\ u \in Unit /\ ~IsPlaceholder(u) /\ u.effects # <<>>
      /\ Append(doc, NewEffect) = doc \o u.effects
  BY <1>1, ItsUnit
<1> HIDE DEF u
<1>4. u.effects \in Seq(Effect)
  BY <1>3 DEF Unit
<1>5. Takes(hist, u)
  BY <1>2, SolidTakes
<1>6. Solid(hist')
  BY <1>1, <1>2, <1>3, <1>5, RecordSolid
<1> QED BY <1>1, <1>3, <1>4, <1>6 DEF u, Full

----------------------------------------------------------------------------
(***************************************************************************)
(* Every step keeps the count.                                             *)
(***************************************************************************)

\* What the lemmas below know of a state.
LEMMA CountFacts ==
    ASSUME HistoryInv, CountInv
    PROVE  /\ doc \in Seq(Effect) /\ hist \in Hist /\ sel \in Selection
           /\ modCount \in Int /\ saved.doc \in Seq(Effect) /\ saved.plain \in BOOLEAN
           /\ Each(hist.past) \in Seq(Full) /\ Each(hist.future) \in Seq(Full)
           /\ hist.past \in Seq(SolidUnit) /\ hist.future \in Seq(SolidUnit)
           /\ hist.past \in Seq(Unit) /\ hist.future \in Seq(Unit)
           /\ Effects(hist.open) \in Seq(Effect)
<1>1. doc \in Seq(Effect) /\ hist \in Hist /\ sel \in Selection
  BY EditorTypes DEF HistoryInv
<1>2. modCount \in Int /\ saved.doc \in Seq(Effect) /\ saved.plain \in BOOLEAN
  BY DEF CountInv
<1>3. hist.past \in Seq(SolidUnit) /\ hist.future \in Seq(SolidUnit)
  BY DEF CountInv, Solid
<1> QED BY <1>1, <1>2, <1>3, EachTypes, HistoryTypes

\* While undo is disabled nothing can be undone or redone, nor is anything in a batch.
LEMMA OffIsEmpty ==
    ASSUME HistoryInv, ~hist.on
    PROVE  hist.past = <<>> /\ hist.future = <<>> /\ Effects(hist.open) = <<>>
BY DEF HistoryInv, RecordedIn

\* The document and what can be undone and redone stay as they are.
LEMMA SameKeepsCount ==
    ASSUME CountInv, doc' = doc, modCount' = modCount, saved' = saved, Solid(hist'),
           Each(hist'.past) = Each(hist.past), Each(hist'.future) = Each(hist.future),
           Effects(hist'.open) = Effects(hist.open)
    PROVE  CountInv'
BY DEF CountInv

\* A transaction is done.
LEMMA DoneKeepsCount ==
    ASSUME HistoryInv, HistoryInv', CountInv, Solid(hist'),
           NEW u \in Unit, u.effects \in Full, ~IsPlaceholder(u), doc' = doc \o u.effects,
           modCount' \in Int, saved' \in [doc : Seq(Effect), plain : BOOLEAN],
           saved'.doc = saved.doc,
           saved'.plain =>
              /\ saved.plain /\ modCount' = modCount + 1 /\ hist' = Record(hist, u)
              /\ IsPrefix(saved.doc, doc)
              /\ hist.on => hist.open = <<>> /\ Len(hist'.past) = Len(hist.past) + 1
    PROVE  CountInv'
<1> DEFINE c == modCount
           d == doc
           s == saved.doc
           p == Each(hist.past)
           f == Each(hist.future)
           e == u.effects
           p1 == Each(hist'.past)
           f1 == Each(hist'.future)
<1> SUFFICES ASSUME saved'.plain
             PROVE  /\ IsCount(c + 1, d \o e, s, p1, f1)
                    /\ Effects(hist'.open) = <<>>
  BY DEF CountInv
<1>1. /\ c \in Int /\ d \in Seq(Effect) /\ s \in Seq(Effect) /\ p \in Seq(Full) /\ f \in Seq(Full)
      /\ e \in Full /\ IsPrefix(s, d)
  BY CountFacts
<1>2. IsCount(c, d, s, p, f)
  BY DEF CountInv
<1>3. CASE hist.on
  <2>1. hist.open = <<>> /\ Len(hist'.past) = Len(hist.past) + 1 /\ hist' = Record(hist, u)
    BY <1>3
  <2> DEFINE g == Record(hist, u)
  <2>2. g.open = <<>> /\ g.future = <<>> /\ Grows(hist.past, u, g.past)
    BY <1>3, <2>1, CountFacts, RecordOnStack
  <2> HIDE DEF g
  <2>3. hist'.open = <<>> /\ hist'.future = <<>> /\ Grows(hist.past, u, hist'.past)
    BY <2>1, <2>2 DEF g
  <2>4. ASSUME NEW q \in Seq(Unit), NEW v \in Unit, NEW w \in Unit,
               hist.past = Append(q, v), hist'.past = Append(q, w)
        PROVE  FALSE
    <3>1. Len(hist.past) = Len(q) + 1 /\ Len(hist'.past) = Len(q) + 1 /\ Len(q) \in Nat
      BY <2>4, AppendProperties, LenProperties
    <3> QED BY <2>1, <3>1
  <2>5. hist'.past = Append(hist.past, u)
    BY <2>3, <2>4 DEF Grows
  <2>6. hist.past \in Seq(SolidUnit) /\ u \in SolidUnit
    BY CountFacts DEF SolidUnit, Full
  <2>7. p1 = Append(p, e) /\ f1 = <<>> /\ Effects(hist'.open) = <<>>
    BY <2>3, <2>5, <2>6, EachAppend, EffectsOfFew
  <2> HIDE DEF c, d, s, p, f, e, p1, f1
  <2>8. IsCount(c + 1, d \o e, s, Append(p, e), <<>>)
    BY <1>1, <1>2, CountDone
  <2> QED BY <2>7, <2>8
<1>4. CASE ~hist.on
  <2>1. hist.past = <<>> /\ hist.future = <<>> /\ Effects(hist.open) = <<>> /\ hist' = hist
    BY <1>4, OffIsEmpty DEF Record
  <2>2. p = <<>> /\ p1 = <<>> /\ f1 = <<>> /\ Effects(hist'.open) = <<>>
    BY <2>1, EachAppend
  <2> HIDE DEF c, d, s, p, f, e, p1, f1
  <2>3. IsCount(c + 1, d \o e, s, <<>>, <<>>)
    BY <1>1, <1>2, <2>2, CountDone
  <2> QED BY <2>2, <2>3
<1> QED BY <1>3, <1>4

\* The note that is taken of a transaction.
LEMMA NoteTaken ==
    ASSUME CountInv, NEW counted \in BOOLEAN, Noted(counted)
    PROVE  /\ saved' \in [doc : Seq(Effect), plain : BOOLEAN] /\ saved'.doc = saved.doc
           /\ saved'.plain => saved.plain /\ counted /\ OneByOne
BY DEF CountInv, Noted, OneByOne

LEMMA CountedUp ==
    \A c \in Int, m, n \in Nat :
       /\ c + ((n - m) + 1) \in Int
       /\ n = m => c + ((n - m) + 1) = c + 1
OBVIOUS

LEMMA EditKeepsCount ==
    ASSUME HistoryInv, HistoryInv', CountInv, SingleSteps,
           Edit \/ ScriptEdit, DoAfterDoTransaction, Noted(TRUE)
    PROVE  CountInv'
<1> DEFINE u == MkUnit("edit", <<NewEffect>>, {})
<1>1. DoTransaction("edit")
  BY DEF Edit, ScriptEdit, SingleSteps
<1>2. /\ Solid(hist') /\ doc' = doc \o u.effects
      /\ u \in Unit /\ u.effects \in Full /\ ~IsPlaceholder(u)
      /\ made' = made => hist' = Record(hist, u)
  BY <1>1, DoSolid DEF HistoryInv, CountInv
<1> HIDE DEF u
<1>3. made \in Nat /\ made' \in Nat /\ doc \in Seq(Effect) /\ modCount \in Int
  BY Facts DEF HistoryInv, EditorInv, TypeOK, CountInv
<1>4. Len(doc') = Len(doc) + 1 /\ Len(doc) \in Nat /\ doc' # doc
  <2>1. doc' = Append(doc, NewEffect) /\ NewEffect \in Effect
    BY <1>1, <1>3, Facts DEF DoTransaction, SingleSteps, CanEdit, NewEffect, Effect, HistoryInv
  <2>2. Len(doc') = Len(doc) + 1 /\ Len(doc) \in Nat
    BY <1>3, <2>1, AppendProperties, LenProperties
  <2> QED BY <2>2
<1>5. modCount' = modCount + ((made' - made) + 1)
  <2>1. Len(doc') - Len(doc) = 1
    BY <1>4
  <2> QED BY <2>1 DEF DoAfterDoTransaction, Increment
<1>6. /\ saved' \in [doc : Seq(Effect), plain : BOOLEAN] /\ saved'.doc = saved.doc
      /\ saved'.plain => saved.plain /\ OneByOne
  BY NoteTaken
<1>7. OneByOne => /\ made' = made /\ IsPrefix(saved.doc, doc)
                  /\ hist.on => hist.open = <<>> /\ Len(hist'.past) = Len(hist.past) + 1
  BY <1>4 DEF OneByOne
<1>8. modCount' \in Int /\ (made' = made => modCount' = modCount + 1)
  BY <1>3, <1>5, CountedUp
<1> QED BY <1>2, <1>6, <1>7, <1>8, DoneKeepsCount

LEMMA DirectKeepsCount ==
    ASSUME HistoryInv, HistoryInv', CountInv, DirectEdit,
           \/ Increment(0) /\ Noted(FALSE)
           \/ Increment(1) /\ Noted(TRUE)
    PROVE  CountInv'
<1> DEFINE u == MkUnit("script", <<NewEffect>>, {})
<1>1. /\ Solid(hist') /\ doc' = doc \o u.effects
      /\ u \in Unit /\ u.effects \in Full /\ ~IsPlaceholder(u)
      /\ hist' = Record(hist, u)
  BY DirectSolid DEF HistoryInv, CountInv
<1> HIDE DEF u
<1>2. doc \in Seq(Effect) /\ modCount \in Int
  BY CountFacts
<1>3. Len(doc') = Len(doc) + 1 /\ Len(doc) \in Nat /\ doc' # doc
  <2>1. doc' = Append(doc, NewEffect) /\ NewEffect \in Effect
    BY Facts DEF DirectEdit, CanEdit, NewEffect, Effect, HistoryInv
  <2>2. Len(doc') = Len(doc) + 1 /\ Len(doc) \in Nat
    BY <1>2, <2>1, AppendProperties, LenProperties
  <2> QED BY <2>2
<1>4. /\ saved' \in [doc : Seq(Effect), plain : BOOLEAN] /\ saved'.doc = saved.doc
      /\ saved'.plain => saved.plain /\ Noted(TRUE) /\ OneByOne /\ Increment(1)
  <2>1. CASE Increment(1) /\ Noted(TRUE)
    BY <2>1, NoteTaken
  <2>2. CASE Increment(0) /\ Noted(FALSE)
    BY <2>2, NoteTaken
  <2> QED BY <2>1, <2>2
<1>5. OneByOne => /\ IsPrefix(saved.doc, doc)
                  /\ hist.on => hist.open = <<>> /\ Len(hist'.past) = Len(hist.past) + 1
  BY <1>3 DEF OneByOne
<1>6. modCount' \in Int /\ (Increment(1) => modCount' = modCount + 1)
  <2>1. Increment(0) \/ Increment(1)
    OBVIOUS
  <2>2. modCount' = modCount + 0 \/ modCount' = modCount + 1
    BY <2>1 DEF Increment
  <2>3. Increment(1) => modCount' = modCount + 1
    BY DEF Increment
  <2> QED BY <1>2, <2>2, <2>3
<1> QED BY <1>1, <1>4, <1>5, <1>6, DoneKeepsCount

\* A batch is opened.
LEMMA BeginKeepsCount ==
    ASSUME HistoryInv, CountInv, BeginTransaction, UNCHANGED <<modCount, saved>>
    PROVE  CountInv'
<1> DEFINE b == MkUnit("batch", <<>>, {})
<1>1. b \in SolidBatch /\ b \in Unit /\ b.effects = <<>>
  <2> DEFINE none == <<>>
             nobody == {}
             kind == "batch"
  <2>1. /\ none \in Seq(Effect) /\ nobody \in SUBSET Placeholder
        /\ kind \in {"edit", "script", "placeholder", "batch"} /\ b = MkUnit(kind, none, nobody)
    BY EmptySeq
  <2> HIDE DEF none, nobody, kind, b
  <2>2. b \in Unit /\ b.kind = kind /\ b.effects = none /\ b.plcs = nobody
    BY <2>1, MadeUnit
  <2> QED BY <2>2 DEF SolidBatch, Batch, none, nobody, kind
<1> HIDE DEF b
<1>2. /\ hist' = [hist EXCEPT !.open = Append(@, b)] /\ doc' = doc
      /\ modCount' = modCount /\ saved' = saved
  BY DEF BeginTransaction, b
<1>3. /\ hist'.past = hist.past /\ hist'.future = hist.future
      /\ hist'.open = Append(hist.open, b)
  BY <1>2, CountFacts DEF Hist
<1>4. Solid(hist')
  <2>1. hist.open \in Seq(SolidBatch)
    BY DEF CountInv, Solid
  <2>2. Append(hist.open, b) \in Seq(SolidBatch)
    BY <1>1, <2>1, AppendProperties
  <2> QED BY <1>3, <2>2, CountFacts DEF Solid
<1>5. Effects(hist'.open) = Effects(hist.open)
  <2>1. hist.open \in Seq(Unit) /\ Effects(hist.open) \in Seq(Effect)
    BY EditorTypes, CountFacts DEF HistoryInv
  <2>2. Effects(Append(hist.open, b)) = Effects(hist.open) \o <<>>
    BY <1>1, <2>1, EffectsAppend
  <2> QED BY <1>3, <2>1, <2>2, ConcatEmptySeq
<1> QED BY <1>2, <1>3, <1>4, <1>5, SameKeepsCount

\* Where the document is as saved, the count says so whatever becomes of the stacks.
LEMMA SavedKeepsCount ==
    ASSUME doc' \in Seq(Effect), Solid(hist'), modCount' \in Int,
           saved' \in [doc : Seq(Effect), plain : BOOLEAN],
           saved'.plain => modCount' = 0 /\ doc' = saved'.doc
    PROVE  CountInv'
<1> DEFINE p == Each(hist'.past)
           f == Each(hist'.future)
           d == doc'
<1>1. p \in Seq(Full) /\ f \in Seq(Full) /\ d \in Seq(Effect)
  BY EachTypes DEF Solid
<1> HIDE DEF p, f, d
<1>2. IsCount(0, d, d, p, f)
  BY <1>1, AtSave
<1>3. saved'.plain => IsCount(modCount', doc', saved'.doc, p, f)
  BY <1>2 DEF d
<1> QED BY <1>3 DEF CountInv, p, f

\* A batch is closed.  If anything was done in it, it was saved after that.
LEMMA EndKeepsCount ==
    ASSUME HistoryInv, HistoryInv', CountInv, EndTransaction, UNCHANGED <<modCount, saved>>
    PROVE  CountInv'
<1> DEFINE batch == Last(hist.open)
           front == Front(hist.open)
           rest == [hist EXCEPT !.open = Front(@)]
<1>1. /\ hist.open # <<>> /\ doc' = doc /\ modCount' = modCount /\ saved' = saved
      /\ hist' = IF batch.effects = <<>> /\ batch.plcs = {} THEN rest ELSE Record(rest, batch)
  BY DEF EndTransaction
<1>2. /\ front \in Seq(SolidBatch) /\ batch \in SolidBatch /\ hist.open = Append(front, batch)
  <2> DEFINE s == hist.open
  <2>1. s \in Seq(SolidBatch) /\ s # <<>>
    BY <1>1 DEF CountInv, Solid
  <2> HIDE DEF s
  <2>2. Front(s) \in Seq(SolidBatch) /\ s = Append(Front(s), Last(s)) /\ Last(s) \in SolidBatch
    BY <2>1, ReplaceLast
  <2> QED BY <2>2 DEF s
<1>3. front \in Seq(Unit) /\ front \in Seq(Batch) /\ batch \in Unit /\ batch.effects \in Seq(Effect)
  <2>1. front \in Seq(Unit) /\ front \in Seq(Batch)
    BY <1>2, SolidTypes, SeqMonotonic
  <2>2. batch \in Unit
    BY <1>2, SolidTypes
  <2> QED BY <2>1, <2>2 DEF Unit
<1>4. /\ rest \in Hist /\ rest.past = hist.past /\ rest.future = hist.future /\ rest.open = front
  BY <1>3, CountFacts DEF Hist
<1>5. Solid(rest)
  BY <1>2, <1>4, CountFacts DEF Solid
<1>6. Effects(hist.open) = Effects(front) \o batch.effects /\ Effects(front) \in Seq(Effect)
  BY <1>2, <1>3, EffectsAppend, Gathered
<1> HIDE DEF batch, front, rest
<1>7. CASE batch.effects = <<>>
  <2>1. hist' = rest
    BY <1>1, <1>2, <1>7 DEF SolidBatch
  <2>2. Effects(hist'.open) = Effects(hist.open)
    BY <1>4, <1>6, <1>7, <2>1, ConcatEmptySeq
  <2> QED BY <1>1, <1>4, <1>5, <2>1, <2>2, SameKeepsCount
<1>8. CASE batch.effects # <<>>
  <2>1. hist' = Record(rest, batch)
    BY <1>1, <1>8
  <2>2. Solid(hist')
    BY <1>3, <1>4, <1>5, <1>8, <2>1, CountFacts, SolidTakes, RecordSolid
  <2>3. Effects(hist.open) # <<>>
    BY <1>3, <1>6, <1>8, ConcatEqualIffEmpty
  <2>4. saved.plain => modCount = 0 /\ doc = saved.doc
    <3> SUFFICES ASSUME saved.plain PROVE modCount = 0 /\ doc = saved.doc
      OBVIOUS
    <3>1. modCount = 0
      BY <2>3 DEF CountInv
    <3>2. IsCount(modCount, doc, saved.doc, Each(hist.past), Each(hist.future))
      BY DEF CountInv
    <3>3. modCount = 0 <=> doc = saved.doc
      BY <3>2, CountFacts, CountTells
    <3> QED BY <3>1, <3>3
  <2> QED BY <1>1, <2>2, <2>4, CountFacts, SavedKeepsCount DEF CountInv
<1> QED BY <1>7, <1>8

\* Units that have become others with the same effects.
LEMMA SameThem ==
    ASSUME NEW us \in Seq(SolidUnit), NEW vs \in Seq(Unit), Len(vs) = Len(us),
           \A k \in 1 .. Len(us) : vs[k].effects = us[k].effects
    PROVE  vs \in Seq(SolidUnit) /\ Each(vs) = Each(us)
<1>1. Len(us) \in Nat /\ \A k \in 1 .. Len(us) : us[k] \in SolidUnit
  BY Elements
<1>2. \A k \in 1 .. Len(us) : vs[k] \in Unit
  BY Elements
<1>3. \A k \in 1 .. Len(us) : vs[k] \in SolidUnit
  BY <1>1, <1>2 DEF SolidUnit
<1>4. vs \in Seq(SolidUnit)
  BY <1>1, <1>3
<1>5. Each(vs) = Each(us)
  BY DEF Each
<1> QED BY <1>4, <1>5

LEMMA CloseKeepsCount ==
    ASSUME HistoryInv, CountInv, EndPlaceHolderTransaction, UNCHANGED <<modCount, saved>>
    PROVE  CountInv'
<1>0. doc' = doc /\ hist \in Hist /\ Solid(hist)
  BY CountFacts DEF EndPlaceHolderTransaction, CountInv
<1>1. CASE hist' = hist
  BY <1>0, <1>1, SameKeepsCount
<1>2. CASE hist' = [hist EXCEPT !.past = Close(@, ed.ref), !.future = Close(@, ed.ref)]
  <2>1. ASSUME NEW us \in Seq(SolidUnit)
        PROVE  Close(us, ed.ref) \in Seq(SolidUnit) /\ Each(Close(us, ed.ref)) = Each(us)
    <3> DEFINE vs == Close(us, ed.ref)
    <3>1. us \in Seq(Unit) /\ sel \in Selection
      BY EachTypes, CountFacts
    <3>2. Len(us) \in Nat /\ \A k \in 1 .. Len(us) : us[k] \in Unit
      BY <3>1, Elements
    <3>3. \A v \in Unit : Closed(v).effects = v.effects
      BY DEF Closed, Unit
    <3>4. Len(vs) = Len(us) /\ \A k \in 1 .. Len(us) : vs[k].effects = us[k].effects
      BY <3>2, <3>3 DEF Close
    <3>5. vs \in Seq(Unit)
      BY <3>1, CloseCloses
    <3> HIDE DEF vs
    <3> QED BY <3>4, <3>5, SameThem DEF vs
  <2>2. /\ hist'.past = Close(hist.past, ed.ref) /\ hist'.future = Close(hist.future, ed.ref)
        /\ hist'.open = hist.open
    BY <1>0, <1>2 DEF Hist
  <2>3. Solid(hist') /\ Each(hist'.past) = Each(hist.past) /\ Each(hist'.future) = Each(hist.future)
    BY <1>0, <2>1, <2>2 DEF Solid
  <2> QED BY <1>0, <2>2, <2>3, SameKeepsCount
<1> QED BY <1>1, <1>2 DEF EndPlaceHolderTransaction

LEMMA CommitKeepsCount ==
    ASSUME HistoryInv, CountInv, CommitComposition, UNCHANGED <<modCount, saved>>
    PROVE  CountInv'
<1> DEFINE n == Len(hist.past)
           x == [hist.past[n] EXCEPT !.state = [@ EXCEPT !.committed = TRUE]]
           t == [hist.past EXCEPT ![n] = x]
<1>0. /\ doc' = doc /\ hist \in Hist /\ hist.past # <<>> /\ Solid(hist)
      /\ hist.past \in Seq(Unit) /\ hist.past \in Seq(SolidUnit)
  BY CountFacts DEF CommitComposition, TopIsPlaceholder, CountInv
<1>1. hist' = [hist EXCEPT !.past = t]
  BY DEF CommitComposition
<1>2. n \in Nat \ {0} /\ hist.past[n] \in Unit /\ n \in 1 .. n
  BY <1>0, Elements
<1>3. x \in Unit /\ x.effects = hist.past[n].effects
  BY <1>2 DEF Unit, PlcState
<1> HIDE DEF x
<1>4. t \in Seq(Unit) /\ Len(t) = n /\ \A k \in 1 .. n : t[k] = IF k = n THEN x ELSE hist.past[k]
  BY <1>0, <1>2, <1>3, ExceptSeq
<1>5. hist'.past = t /\ hist'.open = hist.open /\ hist'.future = hist.future
  BY <1>0, <1>1 DEF Hist
<1> HIDE DEF t
<1>6. \A k \in 1 .. n : t[k].effects = hist.past[k].effects
  BY <1>3, <1>4
<1>7. t \in Seq(SolidUnit) /\ Each(t) = Each(hist.past)
  BY <1>0, <1>4, <1>6, SameThem
<1>8. Solid(hist')
  BY <1>0, <1>5, <1>7 DEF Solid
<1> QED BY <1>0, <1>5, <1>7, <1>8, SameKeepsCount

\* Undo is enabled, or disabled with all that could be undone and redone forgotten.
LEMMA EnableKeepsCount ==
    ASSUME HistoryInv, CountInv, EnableUndo, UNCHANGED <<modCount, saved>>
    PROVE  CountInv'
<1>1. doc' = doc /\ hist \in Hist /\ Solid(hist)
  BY CountFacts DEF EnableUndo, CountInv
<1>2. PICK on \in BOOLEAN :
         hist' = [hist EXCEPT !.on = IF hist.open = <<>> THEN on ELSE @,
                              !.past = IF on THEN @ ELSE <<>>,
                              !.future = IF on THEN @ ELSE <<>>]
  BY EnableCases
<1>3. /\ hist'.open = hist.open
      /\ hist'.past = IF on THEN hist.past ELSE <<>>
      /\ hist'.future = IF on THEN hist.future ELSE <<>>
  BY <1>1, <1>2 DEF Hist
<1>4. CASE on
  BY <1>1, <1>3, <1>4, SameKeepsCount DEF Solid
<1>5. CASE ~on
  <2>1. hist'.past = <<>> /\ hist'.future = <<>>
    BY <1>3, <1>5
  <2>2. Solid(hist')
    BY <1>1, <1>3, <2>1, EmptySeq DEF Solid
  <2>3. Each(hist'.past) = <<>> /\ Each(hist'.future) = <<>>
    BY <2>1, EachAppend
  <2> DEFINE p == Each(hist.past)
             f == Each(hist.future)
  <2>4. saved.plain => IsCount(modCount, doc, saved.doc, p, f)
    BY DEF CountInv
  <2>5. /\ modCount \in Int /\ doc \in Seq(Effect) /\ saved.doc \in Seq(Effect)
        /\ p \in Seq(Full) /\ f \in Seq(Full)
    BY CountFacts
  <2> HIDE DEF p, f
  <2>6. saved.plain => IsCount(modCount, doc, saved.doc, <<>>, <<>>)
    BY <2>4, <2>5, CountDropped
  <2> QED BY <1>1, <1>3, <2>2, <2>3, <2>6 DEF CountInv
<1> QED BY <1>4, <1>5

\* One unit is taken off a stack.
LEMMA OneOff ==
    ASSUME NEW S, NEW s \in Seq(S), s # <<>>
    PROVE  LET left == Len(s) - AtMost(1, s)
               b == SubSeq(s, left + 1, Len(s))
           IN \E q \in Seq(S), u \in S :
                 /\ s = Append(q, u) /\ SubSeq(s, 1, left) = q
                 /\ b = <<u>> /\ Reverse(b) = <<u>>
<1> DEFINE left == Len(s) - AtMost(1, s)
           a == SubSeq(s, 1, left)
           b == SubSeq(s, left + 1, Len(s))
<1>1. s = a \o b /\ a \in Seq(S) /\ b \in Seq(S) /\ Len(b) \in 1 .. 1
  BY OffTheTop
<1> HIDE DEF left, a, b
<1> DEFINE n == Len(b)
<1>2. n = 1 /\ b # <<>>
  <2>1. n \in 1 .. 1
    BY <1>1
  <2> HIDE DEF n
  <2>2. n = 1
    BY ONLY <2>1
  <2>3. b = <<>> => n = 0
    BY DEF n
  <2>4. b # <<>>
    BY <2>2, <2>3
  <2> QED BY <2>2, <2>4
<1> HIDE DEF n
<1>3. PICK r \in Seq(S), u \in S : b = Append(r, u)
  BY <1>1, <1>2, SequenceEmptyOrAppend
<1>4. r = <<>>
  <2> DEFINE m == Len(r)
  <2>1. m \in Nat /\ n = m + 1
    BY <1>3, AppendProperties, LenProperties DEF n
  <2> HIDE DEF m
  <2>2. m = 0
    BY ONLY <1>2, <2>1
  <2> QED BY <2>2, EmptySeq DEF m
<1>5. b = <<u>>
  BY <1>3, <1>4
<1>6. s = Append(a, u)
  BY <1>1, <1>5, AppendIsConcat
<1>7. Reverse(b) = <<u>>
  BY <1>5, ReverseFew
<1> QED BY <1>1, <1>5, <1>6, <1>7 DEF left, a, b

LEMMA UndoKeepsCount ==
    ASSUME HistoryInv, CountInv, Undo(1), DoAfterUndoTransaction(1), UNCHANGED saved
    PROVE  CountInv'
<1> DEFINE left == Len(hist.past) - AtMost(1, hist.past)
           b == SubSeq(hist.past, left + 1, Len(hist.past))
<1>1. /\ hist.past # <<>> /\ hist.open = <<>>
      /\ hist' = [hist EXCEPT !.past = SubSeq(@, 1, left), !.future = @ \o Reverse(b)]
      /\ doc' = SubSeq(doc, 1, Len(doc) - Len(Effects(b)))
  BY DEF Undo
<1>2. /\ hist \in Hist /\ hist.past \in Seq(SolidUnit) /\ hist.future \in Seq(SolidUnit)
      /\ doc \in Seq(Effect) /\ hist.open \in Seq(SolidBatch)
  BY CountFacts DEF CountInv, Solid
<1>3. PICK q \in Seq(SolidUnit), u \in SolidUnit :
         /\ hist.past = Append(q, u) /\ SubSeq(hist.past, 1, left) = q
         /\ b = <<u>> /\ Reverse(b) = <<u>>
  BY <1>1, <1>2, OneOff
<1> HIDE DEF left, b
<1> DEFINE e == u.effects
           eq == Effects(q)
<1>4. e \in Full /\ e \in Seq(Effect) /\ u \in Unit /\ q \in Seq(Unit) /\ Effects(b) = e
  BY <1>3, SolidTypes, EachTypes, EffectsOfFew DEF Full
<1>5. /\ hist'.past = q /\ hist'.open = hist.open /\ hist'.future = Append(hist.future, u)
  <2>1. hist.future \o <<u>> = Append(hist.future, u)
    BY <1>2, AppendIsConcat
  <2> QED BY <1>1, <1>2, <1>3, <2>1 DEF Hist
<1>6. Effects(hist.past) = eq \o e /\ Effects(hist.open) = <<>> /\ eq \in Seq(Effect)
  BY <1>1, <1>3, <1>4, EffectsAppend, EffectsOfFew, Gathered
<1>7. Solid(hist')
  BY <1>2, <1>5, AppendProperties DEF Solid
<1>8. modCount' = modCount - 1 /\ modCount \in Int
  BY CountFacts DEF DoAfterUndoTransaction, Increment
<1>9. doc' = SubSeq(doc, 1, Len(doc) - Len(e))
  BY <1>1, <1>4
<1>10. PICK rest \in Seq(Effect) : doc = rest \o ((eq \o e) \o <<>>)
  BY <1>6 DEF HistoryInv, RecordedIn
<1> DEFINE d == rest \o eq
<1>11. d \in Seq(Effect) /\ doc = d \o e /\ doc' = d
  <2> HIDE DEF e, eq, d
  <2>1. eq \in Seq(Effect) /\ e \in Seq(Effect) /\ rest \in Seq(Effect)
    BY <1>4, <1>6
  <2>2. (eq \o e) \o <<>> = eq \o e
    BY <2>1, ConcatProperties, ConcatEmptySeq
  <2>3. doc = rest \o (eq \o e)
    BY <1>10, <2>2
  <2>4. rest \o eq \in Seq(Effect) /\ (rest \o eq) \o e = rest \o (eq \o e)
    BY ONLY <2>1, Regroup
  <2>5. d \in Seq(Effect) /\ doc = d \o e
    BY <2>3, <2>4 DEF d
  <2>6. /\ Len(d \o e) = Len(d) + Len(e) /\ SubSeq(d \o e, 1, Len(d)) = d
    BY <2>1, <2>5, TwoParts
  <2>7. Len(d) \in Nat /\ Len(e) \in Nat /\ Len(doc) = Len(d) + Len(e)
    BY <2>1, <2>5, <2>6, LenProperties
  <2>8. Len(doc) - Len(e) = Len(d)
    BY ONLY <2>7
  <2> QED BY <1>9, <2>5, <2>6, <2>8
<1> HIDE DEF d, eq
<1> DEFINE qe == Each(q)
           fe == Each(hist.future)
           s == saved.doc
           c == modCount
<1>12. /\ Each(hist.past) = Append(qe, e) /\ Each(hist'.past) = qe
       /\ Each(hist'.future) = Append(fe, e) /\ qe \in Seq(Full) /\ fe \in Seq(Full)
       /\ s \in Seq(Effect)
  BY <1>2, <1>3, <1>5, EachAppend, EachTypes, CountFacts
<1>13. saved.plain => IsCount(c, d \o e, s, Append(qe, e), fe)
  BY <1>11, <1>12 DEF CountInv
<1> HIDE DEF e, qe, fe, s, c
<1>14. saved.plain => IsCount(c - 1, d, s, qe, Append(fe, e))
  BY <1>4, <1>8, <1>11, <1>12, <1>13, CountUndone DEF c
<1>15. Effects(hist'.open) = <<>>
  BY <1>1, <1>5, EffectsOfFew
<1>16. saved' = saved /\ modCount' \in Int
  BY <1>8
<1> QED BY <1>7, <1>8, <1>11, <1>12, <1>14, <1>15, <1>16 DEF CountInv, c, s

LEMMA RedoKeepsCount ==
    ASSUME HistoryInv, CountInv, Redo(1), DoAfterRedoTransaction(1), UNCHANGED saved
    PROVE  CountInv'
<1> DEFINE left == Len(hist.future) - AtMost(1, hist.future)
           b == SubSeq(hist.future, left + 1, Len(hist.future))
<1>1. /\ hist.future # <<>> /\ hist.open = <<>>
      /\ hist' = [hist EXCEPT !.future = SubSeq(@, 1, left), !.past = @ \o Reverse(b)]
      /\ doc' = doc \o Effects(Reverse(b))
  BY DEF Redo
<1>2. /\ hist \in Hist /\ hist.past \in Seq(SolidUnit) /\ hist.future \in Seq(SolidUnit)
      /\ doc \in Seq(Effect) /\ hist.open \in Seq(SolidBatch)
  BY CountFacts DEF CountInv, Solid
<1>3. PICK g \in Seq(SolidUnit), u \in SolidUnit :
         /\ hist.future = Append(g, u) /\ SubSeq(hist.future, 1, left) = g
         /\ b = <<u>> /\ Reverse(b) = <<u>>
  BY <1>1, <1>2, OneOff
<1> HIDE DEF left, b
<1> DEFINE e == u.effects
<1>4. e \in Full /\ u \in Unit /\ Effects(Reverse(b)) = e
  BY <1>3, SolidTypes, EffectsOfFew
<1>5. hist'.past = Append(hist.past, u) /\ hist'.open = hist.open /\ hist'.future = g
  <2>1. hist.past \o <<u>> = Append(hist.past, u)
    BY <1>2, AppendIsConcat
  <2> QED BY <1>1, <1>2, <1>3, <2>1 DEF Hist
<1>6. doc' = doc \o e
  BY <1>1, <1>4
<1>7. Solid(hist')
  BY <1>2, <1>5, AppendProperties DEF Solid
<1>8. modCount' = modCount + 1 /\ modCount \in Int
  BY CountFacts DEF DoAfterRedoTransaction, Increment
<1> DEFINE pe == Each(hist.past)
           ge == Each(g)
           s == saved.doc
           c == modCount
           d == doc
<1>9. /\ Each(hist.future) = Append(ge, e) /\ Each(hist'.future) = ge
      /\ Each(hist'.past) = Append(pe, e) /\ pe \in Seq(Full) /\ ge \in Seq(Full)
      /\ s \in Seq(Effect)
  BY <1>2, <1>3, <1>5, EachAppend, EachTypes, CountFacts
<1>10. saved.plain => IsCount(c, d, s, pe, Append(ge, e))
  BY <1>9 DEF CountInv
<1> HIDE DEF e, pe, ge, s, c, d
<1>11. saved.plain => IsCount(c + 1, d \o e, s, Append(pe, e), ge)
  BY <1>2, <1>4, <1>8, <1>9, <1>10, CountRedone DEF c, d
<1>12. Effects(hist'.open) = <<>>
  BY <1>1, <1>5, EffectsOfFew
<1>13. saved' = saved /\ modCount' \in Int
  BY <1>8
<1> QED BY <1>6, <1>7, <1>8, <1>9, <1>11, <1>12, <1>13 DEF CountInv, c, s, d

LEMMA CountInit == InitCounted => CountInv
<1> SUFFICES ASSUME InitCounted PROVE CountInv
  OBVIOUS
<1> DEFINE none == <<>>
<1>1. /\ doc = none /\ hist.past = none /\ hist.future = none /\ hist.open = none
      /\ modCount = 0 /\ saved = [doc |-> none, plain |-> TRUE]
  BY DEF InitCounted, Init
<1>2. /\ none \in Seq(Effect) /\ none \in Seq(Full) /\ none \in Seq(SolidUnit)
      /\ none \in Seq(SolidBatch)
  BY EmptySeq
<1>3. Each(none) = none /\ Effects(none) = none
  BY EachAppend, EffectsOfFew
<1> HIDE DEF none
<1>4. IsCount(0, none, none, none, none)
  BY <1>2, AtSave
<1>5. Solid(hist)
  BY <1>1, <1>2 DEF Solid
<1> QED BY <1>1, <1>2, <1>3, <1>4, <1>5 DEF CountInv

LEMMA CountStep ==
    ASSUME SingleSteps, HistoryInv, HistoryInv', CountInv, [NextCounted]_allVars
    PROVE  CountInv'
<1>0. Solid(hist)
  BY DEF CountInv
<1>1. CASE (Edit \/ ScriptEdit) /\ DoAfterDoTransaction /\ Noted(TRUE)
  BY <1>1, EditKeepsCount
<1>2. CASE /\ DirectEdit
           /\ \/ Increment(0) /\ Noted(FALSE)
              \/ Increment(1) /\ Noted(TRUE)
  BY <1>2, DirectKeepsCount
<1>3. CASE /\ \E n \in Counts : \/ Undo(n) /\ DoAfterUndoTransaction(n)
                                \/ Redo(n) /\ DoAfterRedoTransaction(n)
           /\ UNCHANGED saved
  <2>1. Counts = {1}
    BY DEF Counts, SingleSteps
  <2>2. \/ Undo(1) /\ DoAfterUndoTransaction(1)
        \/ Redo(1) /\ DoAfterRedoTransaction(1)
    BY <1>3, <2>1
  <2> QED BY <1>3, <2>2, UndoKeepsCount, RedoKeepsCount
<1>4. CASE UNCHANGED <<modCount, saved>> /\ BeginTransaction
  BY <1>4, BeginKeepsCount
<1>5. CASE UNCHANGED <<modCount, saved>> /\ EndTransaction
  BY <1>5, EndKeepsCount
<1>6. CASE UNCHANGED <<modCount, saved>> /\ EndPlaceHolderTransaction
  BY <1>6, CloseKeepsCount
<1>7. CASE UNCHANGED <<modCount, saved>> /\ CommitComposition
  BY <1>7, CommitKeepsCount
<1>8. CASE UNCHANGED <<modCount, saved>> /\ EnableUndo
  BY <1>8, EnableKeepsCount
<1>9. CASE /\ UNCHANGED <<modCount, saved>>
           /\ BeginPlaceHolderTransaction \/ ObserversNotified \/ MoveCaret
  <2>1. BeginPlaceHolderTransaction => UNCHANGED <<doc, hist>>
    BY OpeningLeaves
  <2>2. ObserversNotified \/ MoveCaret => UNCHANGED <<doc, hist>>
    BY DEF ObserversNotified, MoveCaret
  <2> QED BY <1>0, <1>9, <2>1, <2>2, SameKeepsCount
<1>10. CASE ResetModificationCount
  <2>1. /\ saved' = [doc |-> doc, plain |-> TRUE] /\ modCount' = 0
        /\ doc' = doc /\ hist' = hist
    BY <1>10 DEF ResetModificationCount, vars
  <2>2. doc \in Seq(Effect)
    BY CountFacts
  <2> QED BY <1>0, <2>1, <2>2, SavedKeepsCount
<1>11. CASE UNCHANGED allVars
  <2>1. doc' = doc /\ hist' = hist /\ modCount' = modCount /\ saved' = saved
    BY <1>11 DEF allVars, vars
  <2> QED BY <1>0, <2>1, SameKeepsCount
<1> QED BY <1>1, <1>2, <1>3, <1>4, <1>5, <1>6, <1>7, <1>8, <1>9, <1>10, <1>11 DEF NextCounted

\* Counting does not change what the editor does.
LEMMA CountedIsSpec == SpecCounted => Spec
<1>1. InitCounted => Init
  BY DEF InitCounted
<1>2. [NextCounted]_allVars => [Next]_vars
  BY DEF NextCounted, Next, ResetModificationCount, allVars
<1> QED BY <1>1, <1>2, PTL DEF SpecCounted, Spec

\* nsEditor.cpp counts transactions, each as one (DoAfterDoTransaction and its siblings),
\* yet while all that is done after resetModificationCount() is done one transaction at a
\* time and takes back nothing of what was saved, the count is zero exactly when the
\* document is as saved: after any undos and redos, a save in an open batch and
\* enableUndo(), which forgets units on both sides of what was saved.
THEOREM CountTellsOfChanges == SingleSteps => (SpecCounted => []CountIsExact)
<1>1. HistoryInv /\ CountInv => CountIsExact
  <2> SUFFICES ASSUME HistoryInv, CountInv, saved.plain
               PROVE  modCount = 0 <=> doc = saved.doc
    BY DEF CountIsExact
  <2>1. IsCount(modCount, doc, saved.doc, Each(hist.past), Each(hist.future))
    BY DEF CountInv
  <2> QED BY <2>1, CountFacts, CountTells
<1>2. SingleSteps /\ HistoryInv /\ HistoryInv' /\ CountInv /\ [NextCounted]_allVars => CountInv'
  BY CountStep
<1> SUFFICES ASSUME SingleSteps PROVE SpecCounted => []CountIsExact
  OBVIOUS
<1>3. HistoryInv /\ HistoryInv' /\ CountInv /\ [NextCounted]_allVars => CountInv'
  BY <1>2
<1> QED BY <1>1, <1>3, CountInit, CountedIsSpec, HistoryInvariance, PTL DEF SpecCounted
=============================================================================
