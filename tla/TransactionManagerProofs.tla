---------------------- MODULE TransactionManagerProofs ----------------------
(***************************************************************************)
(* Theorems about TransactionManager, for every value of its constants.    *)
(***************************************************************************)
EXTENDS TransactionManager, SequenceFacts

Stacks == [StackId -> Seq(Item)]

\* Item i is on a stack of st.
IsHeld(st, i) == \E s \in StackId : \E k \in 1 .. Len(st[s]) : st[s][k] = i

\* No item is at two places of st.
Distinct(st) ==
    \A s, t \in StackId :
    \A m \in 1 .. Len(st[s]), n \in 1 .. Len(st[t]) :
        st[s][m] = st[t][n] => s = t /\ m = n

\* Every stack of st2 is a stretch of that of st.
Shrunk(st2, st) ==
    /\ st2 \in Stacks
    /\ \A s \in StackId : \E d \in Nat :
          /\ Len(st2[s]) + d <= Len(st[s])
          /\ \A k \in 1 .. Len(st2[s]) : st2[s][k] = st[s][k + d]

----------------------------------------------------------------------------
(***************************************************************************)
(* Lemmas about the operations of nsTransactionStack.                      *)
(***************************************************************************)

\* Taking items off the ends of stacks leaves no item in two places.
LEMMA ShrunkKeeps ==
    ASSUME NEW st \in Stacks, NEW st2, Shrunk(st2, st), Distinct(st)
    PROVE  /\ Distinct(st2)
           /\ \A i : IsHeld(st2, i) => IsHeld(st, i)
<1>1. ASSUME NEW s \in StackId, NEW k \in 1 .. Len(st2[s])
      PROVE  \E d \in Nat : /\ Len(st2[s]) + d <= Len(st[s])
                            /\ k + d \in 1 .. Len(st[s])
                            /\ \A j \in 1 .. Len(st2[s]) :
                                  st2[s][j] = st[s][j + d]
  <2>1. PICK d \in Nat : /\ Len(st2[s]) + d <= Len(st[s])
                         /\ \A j \in 1 .. Len(st2[s]) :
                               st2[s][j] = st[s][j + d]
    BY DEF Shrunk
  <2>2. Len(st2[s]) \in Nat /\ Len(st[s]) \in Nat
    BY DEF Shrunk, Stacks
  <2>3. k + d \in 1 .. Len(st[s])
    BY <2>1, <2>2
  <2> QED BY <2>1, <2>3
<1>2. ASSUME NEW s \in StackId, NEW t \in StackId,
             NEW m \in 1 .. Len(st2[s]), NEW n \in 1 .. Len(st2[t]),
             st2[s][m] = st2[t][n]
      PROVE  s = t /\ m = n
  <2>1. PICK d \in Nat : /\ Len(st2[s]) + d <= Len(st[s])
                         /\ m + d \in 1 .. Len(st[s])
                         /\ \A j \in 1 .. Len(st2[s]) :
                               st2[s][j] = st[s][j + d]
    BY <1>1
  <2>2. PICK e \in Nat : /\ n + e \in 1 .. Len(st[t])
                         /\ \A j \in 1 .. Len(st2[t]) :
                               st2[t][j] = st[t][j + e]
    BY <1>1
  <2>3. st[s][m + d] = st[t][n + e]
    BY <2>1, <2>2, <1>2
  <2>4. s = t /\ m + d = n + e
    BY <2>1, <2>2, <2>3 DEF Distinct
  <2>5. n + d \in 1 .. Len(st[s])
    <3>1. n \in 1 .. Len(st2[s])
      BY <2>4
    <3>2. Len(st2[s]) \in Nat /\ Len(st[s]) \in Nat
      BY DEF Shrunk, Stacks
    <3> QED BY <3>1, <3>2, <2>1
  <2>6. st2[s][n] = st[s][n + d]
    BY <2>1, <2>4
  <2>7. st[s][n + d] = st[s][m + d]
    BY <2>6, <2>1, <2>4, <1>2
  <2>8. n + d = m + d
    BY <2>5, <2>1, <2>7 DEF Distinct
  <2> QED BY <2>4, <2>8
<1>3. ASSUME NEW i, IsHeld(st2, i)
      PROVE  IsHeld(st, i)
  <2>1. PICK s \in StackId : \E k \in 1 .. Len(st2[s]) : st2[s][k] = i
    BY <1>3 DEF IsHeld
  <2>2. PICK k \in 1 .. Len(st2[s]) : st2[s][k] = i
    BY <2>1
  <2>3. PICK d \in Nat : /\ k + d \in 1 .. Len(st[s])
                         /\ \A j \in 1 .. Len(st2[s]) :
                               st2[s][j] = st[s][j + d]
    BY <1>1
  <2> QED BY <2>2, <2>3 DEF IsHeld
<1> QED BY <1>2, <1>3 DEF Distinct

\* Pushing an item that is on no stack.
LEMMA PushKeeps ==
    ASSUME NEW st \in Stacks, NEW s \in StackId, NEW i \in Item,
           Distinct(st), ~IsHeld(st, i)
    PROVE  /\ Push(st, s, i) \in Stacks
           /\ Distinct(Push(st, s, i))
           /\ \A j : IsHeld(Push(st, s, i), j) => j = i \/ IsHeld(st, j)
<1> DEFINE st2 == Push(st, s, i)
<1>1. st2 \in Stacks /\ st2[s] = Append(st[s], i)
      /\ \A t \in StackId \ {s} : st2[t] = st[t]
  BY DEF Push, Stacks
<1>2. /\ Len(st2[s]) = Len(st[s]) + 1 /\ Len(st[s]) \in Nat
      /\ st2[s][Len(st[s]) + 1] = i
      /\ \A k \in 1 .. Len(st[s]) : st2[s][k] = st[s][k]
  <2>1. st[s] \in Seq(Item)
    BY DEF Stacks
  <2> QED BY <1>1, <2>1, AppendProperties
<1>3. ASSUME NEW t \in StackId, NEW k \in 1 .. Len(st2[t])
      PROVE  \/ t = s /\ k = Len(st[s]) + 1 /\ st2[t][k] = i
             \/ k \in 1 .. Len(st[t]) /\ st2[t][k] = st[t][k]
  BY <1>1, <1>2
<1>4. ASSUME NEW t \in StackId, NEW k \in 1 .. Len(st[t])
      PROVE  st[t][k] # i
  BY DEF IsHeld
<1>5. Distinct(st2)
  <2> SUFFICES ASSUME NEW a \in StackId, NEW b \in StackId,
                      NEW m \in 1 .. Len(st2[a]), NEW n \in 1 .. Len(st2[b]),
                      st2[a][m] = st2[b][n]
               PROVE  a = b /\ m = n
    BY DEF Distinct
  <2>1. CASE m \in 1 .. Len(st[a]) /\ st2[a][m] = st[a][m]
    <3>1. st2[b][n] # i
      BY <2>1, <1>4
    <3>2. n \in 1 .. Len(st[b]) /\ st2[b][n] = st[b][n]
      BY <3>1, <1>3
    <3>3. st[a][m] = st[b][n]
      BY <2>1, <3>2
    <3> QED BY <2>1, <3>2, <3>3 DEF Distinct
  <2>2. CASE a = s /\ m = Len(st[s]) + 1 /\ st2[a][m] = i
    <3>1. st2[b][n] = i
      BY <2>2
    <3>2. ~(n \in 1 .. Len(st[b]) /\ st2[b][n] = st[b][n])
      BY <3>1, <1>4
    <3> QED BY <2>2, <3>2, <1>3
  <2>3. \/ a = s /\ m = Len(st[s]) + 1 /\ st2[a][m] = i
        \/ m \in 1 .. Len(st[a]) /\ st2[a][m] = st[a][m]
    BY <1>3
  <2> QED BY <2>1, <2>2, <2>3
<1>6. ASSUME NEW j, IsHeld(st2, j)
      PROVE  j = i \/ IsHeld(st, j)
  BY <1>3, <1>6 DEF IsHeld
<1> QED BY <1>1, <1>5, <1>6

LEMMA ShrunkRefl ==
    ASSUME NEW st \in Stacks PROVE Shrunk(st, st)
<1>1. ASSUME NEW s \in StackId
      PROVE  \E d \in Nat : /\ Len(st[s]) + d <= Len(st[s])
                            /\ \A k \in 1 .. Len(st[s]) : st[s][k] = st[s][k + d]
  <2>1. Len(st[s]) \in Nat
    BY DEF Stacks
  <2> WITNESS 0 \in Nat
  <2> QED BY <2>1
<1> QED BY <1>1 DEF Shrunk

LEMMA ShrunkTrans ==
    ASSUME NEW a \in Stacks, NEW b \in Stacks, NEW c \in Stacks,
           Shrunk(a, b), Shrunk(b, c)
    PROVE  Shrunk(a, c)
<1>1. ASSUME NEW s \in StackId
      PROVE  \E d \in Nat : /\ Len(a[s]) + d <= Len(c[s])
                            /\ \A k \in 1 .. Len(a[s]) : a[s][k] = c[s][k + d]
  <2>1. PICK d1 \in Nat : /\ Len(a[s]) + d1 <= Len(b[s])
                          /\ \A k \in 1 .. Len(a[s]) : a[s][k] = b[s][k + d1]
    BY DEF Shrunk
  <2>2. PICK d2 \in Nat : /\ Len(b[s]) + d2 <= Len(c[s])
                          /\ \A k \in 1 .. Len(b[s]) : b[s][k] = c[s][k + d2]
    BY DEF Shrunk
  <2>3. Len(a[s]) \in Nat /\ Len(b[s]) \in Nat /\ Len(c[s]) \in Nat
    BY DEF Stacks
  <2>4. d1 + d2 \in Nat /\ Len(a[s]) + (d1 + d2) <= Len(c[s])
    <3>1. \A x, y, z \in Nat :
             x + d1 <= y /\ y + d2 <= z => x + (d1 + d2) <= z
      OBVIOUS
    <3>2. Len(a[s]) + d1 <= Len(b[s]) /\ Len(b[s]) + d2 <= Len(c[s])
      BY <2>1, <2>2
    <3>3. Len(a[s]) + (d1 + d2) <= Len(c[s])
      BY <3>1, <3>2, <2>3
    <3>4. \A x, y \in Nat : x + y \in Nat
      OBVIOUS
    <3> QED BY <3>3, <3>4
  <2>5. ASSUME NEW k \in 1 .. Len(a[s])
        PROVE  a[s][k] = c[s][k + (d1 + d2)]
    <3>1. k + d1 \in 1 .. Len(b[s])
      BY <2>1, <2>3
    <3>2. a[s][k] = b[s][k + d1] /\ b[s][k + d1] = c[s][(k + d1) + d2]
      BY <2>1, <2>2, <3>1
    <3>3. (k + d1) + d2 = k + (d1 + d2)
      OBVIOUS
    <3> QED BY <3>2, <3>3
  <2> WITNESS d1 + d2 \in Nat
  <2> QED BY <2>4, <2>5
<1> QED BY <1>1 DEF Shrunk

\* Replacing a stack by a stretch of it.
LEMMA StretchShrinks ==
    ASSUME NEW st \in Stacks, NEW s \in StackId, NEW q \in Seq(Item),
           NEW d \in Nat, Len(q) + d <= Len(st[s]),
           \A k \in 1 .. Len(q) : q[k] = st[s][k + d]
    PROVE  Shrunk([st EXCEPT ![s] = q], st)
<1> DEFINE st2 == [st EXCEPT ![s] = q]
<1>1. st2 \in Stacks
  BY DEF Stacks
<1>2. ASSUME NEW t \in StackId
      PROVE  \E e \in Nat : /\ Len(st2[t]) + e <= Len(st[t])
                            /\ \A k \in 1 .. Len(st2[t]) :
                                  st2[t][k] = st[t][k + e]
  <2>1. CASE t = s
    <3>1. st2[t] = q
      BY <2>1 DEF Stacks
    <3> WITNESS d \in Nat
    <3> QED BY <2>1, <3>1
  <2>2. CASE t # s
    <3>1. st2[t] = st[t]
      BY <2>2 DEF Stacks
    <3>2. Len(st[t]) \in Nat
      BY DEF Stacks
    <3> WITNESS 0 \in Nat
    <3> QED BY <3>1, <3>2
  <2> QED BY <2>1, <2>2
<1> QED BY <1>1, <1>2 DEF Shrunk

LEMMA SubSeqOfSeq ==
    ASSUME NEW S, NEW q \in Seq(S), NEW a \in Nat, NEW b \in Nat, a <= b + 1,
           a >= 1, b <= Len(q)
    PROVE  /\ SubSeq(q, a, b) \in Seq(S)
           /\ Len(SubSeq(q, a, b)) = b - a + 1
           /\ \A k \in 1 .. b - a + 1 : SubSeq(q, a, b)[k] = q[k + (a - 1)]
<1>1. \A k \in a .. b : q[k] \in S
  BY ElementOfSeq
<1>2. /\ SubSeq(q, a, b) \in Seq(S)
      /\ Len(SubSeq(q, a, b)) = IF a <= b THEN b - a + 1 ELSE 0
      /\ \A k \in 1 .. b - a + 1 : SubSeq(q, a, b)[k] = q[a + k - 1]
  BY <1>1, SubSeqProperties
<1> QED BY <1>2

LEMMA PopShrinks ==
    ASSUME NEW st \in Stacks, NEW s \in StackId
    PROVE  /\ Shrunk(Pop(st, s), st)
           /\ \A t \in StackId \ {s} : Pop(st, s)[t] = st[t]
           /\ st[s] # <<>> =>
                /\ Len(Pop(st, s)[s]) = Len(st[s]) - 1
                /\ \A k \in 1 .. Len(st[s]) - 1 : Pop(st, s)[s][k] = st[s][k]
                /\ Len(st[s]) \in 1 .. Len(st[s]) /\ Last(st[s]) \in Item
<1>1. CASE st[s] = <<>>
  BY <1>1, ShrunkRefl DEF Pop
<1>2. CASE st[s] # <<>>
  <2>1. st[s] \in Seq(Item) /\ Len(st[s]) \in Nat /\ Len(st[s]) >= 1
    BY <1>2, EmptySeq DEF Stacks
  <2>2. /\ Front(st[s]) \in Seq(Item)
        /\ Len(Front(st[s])) = Len(st[s]) - 1
        /\ \A k \in 1 .. Len(st[s]) - 1 : Front(st[s])[k] = st[s][k + 0]
    BY <2>1, SubSeqOfSeq DEF Front
  <2>3. Shrunk([st EXCEPT ![s] = Front(st[s])], st)
    <3>1. Len(Front(st[s])) + 0 <= Len(st[s])
      BY <2>1, <2>2
    <3>2. \A k \in 1 .. Len(Front(st[s])) : Front(st[s])[k] = st[s][k + 0]
      BY <2>2
    <3> QED BY <2>2, <3>1, <3>2, StretchShrinks
  <2>4. Pop(st, s) = [st EXCEPT ![s] = Front(st[s])]
    BY <1>2 DEF Pop, Stacks
  <2>5. Last(st[s]) \in Item
    BY <2>1, ElementOfSeq DEF Last
  <2>6. /\ Pop(st, s)[s] = Front(st[s])
        /\ \A t \in StackId \ {s} : Pop(st, s)[t] = st[t]
    BY <2>4 DEF Stacks
  <2>7. \A k \in 1 .. Len(st[s]) - 1 : Front(st[s])[k] = st[s][k]
    BY <2>1, <2>2
  <2>8. Len(st[s]) \in 1 .. Len(st[s])
    BY <2>1
  <2> QED BY <2>2, <2>3, <2>4, <2>5, <2>6, <2>7, <2>8
<1> QED BY <1>1, <1>2

\* What is popped is on no stack any more.
LEMMA PopFrees ==
    ASSUME NEW st \in Stacks, NEW s \in StackId, st[s] # <<>>, Distinct(st)
    PROVE  ~IsHeld(Pop(st, s), Last(st[s]))
<1> DEFINE p == Pop(st, s)
<1> SUFFICES ASSUME NEW t \in StackId, NEW k \in 1 .. Len(p[t]),
                    p[t][k] = Last(st[s])
             PROVE  FALSE
  BY DEF IsHeld
<1>1. /\ \A u \in StackId \ {s} : p[u] = st[u]
      /\ Len(p[s]) = Len(st[s]) - 1
      /\ \A j \in 1 .. Len(st[s]) - 1 : p[s][j] = st[s][j]
      /\ Len(st[s]) \in 1 .. Len(st[s])
  BY PopShrinks
<1>2. Last(st[s]) = st[s][Len(st[s])]
  BY DEF Last
<1>3. CASE t = s
  <2>1. Len(st[s]) \in Nat
    BY DEF Stacks
  <2>2. k \in 1 .. Len(st[s]) - 1 /\ k \in 1 .. Len(st[s]) /\ k # Len(st[s])
    BY <1>1, <1>3, <2>1
  <2>3. st[s][k] = st[s][Len(st[s])]
    BY <1>1, <1>2, <1>3, <2>2
  <2> QED BY <1>1, <2>2, <2>3 DEF Distinct
<1>4. CASE t # s
  <2>1. k \in 1 .. Len(st[t]) /\ st[t][k] = st[s][Len(st[s])]
    BY <1>1, <1>2, <1>4
  <2> QED BY <1>1, <1>4, <2>1 DEF Distinct
<1> QED BY <1>3, <1>4

LEMMA PopKeeps ==
    ASSUME NEW st \in Stacks, NEW s \in StackId, Distinct(st)
    PROVE  /\ Pop(st, s) \in Stacks
           /\ Distinct(Pop(st, s))
           /\ \A i : IsHeld(Pop(st, s), i) => IsHeld(st, i)
<1>1. Shrunk(Pop(st, s), st)
  BY PopShrinks
<1>2. Pop(st, s) \in Stacks
  BY <1>1 DEF Shrunk
<1> QED BY <1>1, <1>2, ShrunkKeeps

LEMMA PopPushKeeps ==
    ASSUME NEW st \in Stacks, NEW s \in StackId, NEW t \in StackId,
           Distinct(st)
    PROVE  /\ PopPush(st, s, t) \in Stacks
           /\ Distinct(PopPush(st, s, t))
           /\ \A i : IsHeld(PopPush(st, s, t), i) => IsHeld(st, i)
<1>1. CASE st[s] = <<>>
  BY <1>1 DEF PopPush
<1>2. CASE st[s] # <<>>
  <2>1. Last(st[s]) \in Item /\ Len(st[s]) \in 1 .. Len(st[s])
    BY <1>2, PopShrinks
  <2>2. IsHeld(st, Last(st[s]))
    BY <2>1 DEF IsHeld, Last
  <2>3. ~IsHeld(Pop(st, s), Last(st[s]))
    BY <1>2, PopFrees
  <2>4. PopPush(st, s, t) = Push(Pop(st, s), t, Last(st[s]))
    BY <1>2 DEF PopPush
  <2>5. /\ PopPush(st, s, t) \in Stacks
        /\ Distinct(PopPush(st, s, t))
        /\ \A i : IsHeld(PopPush(st, s, t), i) =>
                     i = Last(st[s]) \/ IsHeld(Pop(st, s), i)
    BY <2>1, <2>3, <2>4, PopKeeps, PushKeeps
  <2> QED BY <2>2, <2>5, PopKeeps
<1> QED BY <1>1, <1>2

LEMMA ClearShrinks ==
    ASSUME NEW st \in Stacks, NEW s \in StackId
    PROVE  Shrunk(Clear(st, s), st)
<1>1. <<>> \in Seq(Item) /\ Len(<<>>) = 0 /\ Len(st[s]) \in Nat
  BY DEF Stacks
<1>2. Len(<<>>) + 0 <= Len(st[s])
  BY <1>1
<1>3. \A k \in 1 .. Len(<<>>) : <<>>[k] = st[s][k + 0]
  BY <1>1
<1> QED BY <1>1, <1>2, <1>3, StretchShrinks DEF Clear

LEMMA PruneShrinks ==
    ASSUME NEW st \in Stacks, NEW s \in StackId, NEW n \in Nat
    PROVE  /\ Shrunk(Prune(st, s, n), st)
           /\ \A t \in StackId \ {s} : Prune(st, s, n)[t] = st[t]
           /\ Len(Prune(st, s, n)[s]) <= n
           /\ Len(Prune(st, s, n)[s]) <= Len(st[s])
<1>1. st[s] \in Seq(Item) /\ Len(st[s]) \in Nat
  BY DEF Stacks
<1>2. CASE Len(st[s]) > n
  <2> DEFINE q == SubSeq(st[s], Len(st[s]) - n + 1, Len(st[s]))
  <2>1. /\ Len(st[s]) - n + 1 \in Nat /\ Len(st[s]) - n \in Nat
        /\ Len(st[s]) - n + 1 <= Len(st[s]) + 1 /\ Len(st[s]) - n + 1 >= 1
    BY <1>1, <1>2
  <2>2. /\ q \in Seq(Item)
        /\ Len(q) = Len(st[s]) - (Len(st[s]) - n + 1) + 1
        /\ \A k \in 1 .. Len(st[s]) - (Len(st[s]) - n + 1) + 1 :
              q[k] = st[s][k + ((Len(st[s]) - n + 1) - 1)]
    BY <1>1, <2>1, SubSeqOfSeq
  <2> PICK e \in Nat : e = Len(st[s]) - n
    BY <2>1
  <2>3. Len(q) = n /\ Len(q) + e <= Len(st[s])
    BY <1>1, <2>2
  <2>4. \A k \in 1 .. Len(q) : q[k] = st[s][k + e]
    BY <1>1, <2>2
  <2>5. Prune(st, s, n) = [st EXCEPT ![s] = q]
    BY <1>2 DEF Prune, Stacks
  <2>6. Shrunk(Prune(st, s, n), st)
    <3> HIDE DEF q
    <3>1. Shrunk([st EXCEPT ![s] = q], st)
      BY <2>2, <2>3, <2>4, StretchShrinks
    <3> QED BY <2>5, <3>1
  <2>7. /\ \A t \in StackId \ {s} : Prune(st, s, n)[t] = st[t]
        /\ Prune(st, s, n)[s] = q
    BY <2>5 DEF Stacks
  <2> QED BY <1>1, <1>2, <2>3, <2>6, <2>7
<1>3. CASE ~(Len(st[s]) > n)
  <2>1. Prune(st, s, n) = st
    BY <1>3 DEF Prune, Stacks
  <2> QED BY <1>1, <1>3, <2>1, ShrunkRefl
<1> QED BY <1>2, <1>3

LEMMA PopBottomShrinks ==
    ASSUME NEW st \in Stacks, NEW s \in StackId
    PROVE  /\ Shrunk(PopBottom(st, s), st)
           /\ \A t \in StackId \ {s} : PopBottom(st, s)[t] = st[t]
           /\ st[s] # <<>> => Len(PopBottom(st, s)[s]) = Len(st[s]) - 1
<1>1. CASE st[s] = <<>>
  BY <1>1, ShrunkRefl DEF PopBottom
<1>2. CASE st[s] # <<>>
  <2>1. st[s] \in Seq(Item) /\ Len(st[s]) \in Nat /\ Len(st[s]) >= 1
    BY <1>2, EmptySeq DEF Stacks
  <2>2. /\ Tail(st[s]) \in Seq(Item)
        /\ Len(Tail(st[s])) = Len(st[s]) - 1
        /\ \A k \in 1 .. Len(Tail(st[s])) : Tail(st[s])[k] = st[s][k + 1]
    BY <1>2, <2>1, HeadTailProperties
  <2>3. Len(Tail(st[s])) + 1 <= Len(st[s])
    BY <2>1, <2>2
  <2>4. Shrunk([st EXCEPT ![s] = Tail(st[s])], st)
    BY <2>2, <2>3, StretchShrinks
  <2>5. PopBottom(st, s) = [st EXCEPT ![s] = Tail(st[s])]
    BY <1>2 DEF PopBottom, Stacks
  <2>6. /\ \A t \in StackId \ {s} : PopBottom(st, s)[t] = st[t]
        /\ PopBottom(st, s)[s] = Tail(st[s])
    BY <2>5 DEF Stacks
  <2> QED BY <2>2, <2>4, <2>5, <2>6
<1> QED BY <1>1, <1>2

----------------------------------------------------------------------------
(***************************************************************************)
(* Type correctness.                                                       *)
(***************************************************************************)
LEMMA StackIds ==
    /\ DoStack \in StackId
    /\ \A dir \in Direction, i \in Holder : <<dir, i>> \in StackId
    /\ 0 \in Holder /\ Item \subseteq Holder
    /\ "undo" \in Direction /\ "redo" \in Direction
    /\ \A dir \in Direction : Other(dir) \in Direction
    /\ \A dir \in Direction : \A i : <<dir, i>> # DoStack
BY BoundsAssumption DEF StackId, DoStack, Direction, Holder, Item, Other

LEMMA NewFrames ==
    ASSUME TypeOK
    PROVE  /\ \A dir \in Direction, i \in Holder, n \in Nat :
                 MkFrame("kids", dir, i, "loop", n) \in Frame
           /\ \A dir \in Direction, i \in Holder : Kids(dir, i) \in Frame
           /\ \A dir \in Direction, i \in Item, at \in {"kids", "calling"} :
                 MkFrame("item", dir, i, at, 0) \in Frame
           /\ \A i \in Item : MkFrame("body", "do", i, "running", 0) \in Frame
<1>1. doc \in Seq(Item) /\ "ok" \in Result
  BY DEF TypeOK, Result
<1>2. \A dir \in Direction, i \in Holder, n \in Nat :
         MkFrame("kids", dir, i, "loop", n) \in Frame
  BY <1>1 DEF MkFrame, Frame
<1>3. \A dir \in Direction, i \in Item, at \in {"kids", "calling"} :
         MkFrame("item", dir, i, at, 0) \in Frame
  BY <1>1 DEF MkFrame, Frame
<1>4. \A i \in Item : MkFrame("body", "do", i, "running", 0) \in Frame
  BY <1>1 DEF MkFrame, Frame
<1>5. ASSUME NEW dir \in Direction, NEW i \in Holder
      PROVE  Kids(dir, i) \in Frame
  <2>1. stack[<<dir, i>>] \in Seq(Item)
    BY StackIds DEF TypeOK
  <2>2. Len(stack[<<dir, i>>]) \in Nat
    BY <2>1, LenProperties
  <2> QED BY <1>2, <2>2 DEF Kids
<1> QED BY <1>2, <1>3, <1>4, <1>5

LEMMA EnteredType ==
    ASSUME TypeOK, NEW dir \in Direction, NEW i \in Item
    PROVE  Entered(dir, i) \in Seq(Frame)
<1>1. /\ Kids(dir, i) \in Frame
      /\ MkFrame("item", dir, i, "kids", 0) \in Frame
      /\ MkFrame("item", dir, i, "calling", 0) \in Frame
  BY NewFrames, StackIds
<1> QED BY <1>1 DEF Entered

LEMMA CalleeType ==
    ASSUME TypeOK, Running
    PROVE  /\ Len(calls) \in Nat /\ Len(calls) >= 1
           /\ Callee \in Frame /\ Callee = calls[Len(calls)]
           /\ Front(calls) \in Seq(Frame)
           /\ Len(Front(calls)) = Len(calls) - 1
           /\ \A k \in 1 .. Len(calls) - 1 : Front(calls)[k] = calls[k]
<1>1. calls \in Seq(Frame) /\ calls # <<>>
  BY DEF TypeOK, Running
<1>2. Len(calls) \in Nat /\ Len(calls) >= 1
  BY <1>1, EmptySeq
<1>3. Callee = calls[Len(calls)] /\ Callee \in Frame
  BY <1>1, <1>2, ElementOfSeq DEF Callee, Last
<1> PICK n \in Nat : n = Len(calls) - 1
  BY <1>2
<1>4. n <= Len(calls) /\ 1 <= n + 1 /\ Len(calls) = n + 1
  BY <1>2
<1>5. /\ SubSeq(calls, 1, n) \in Seq(Frame)
      /\ Len(SubSeq(calls, 1, n)) = n - 1 + 1
      /\ \A k \in 1 .. n - 1 + 1 : SubSeq(calls, 1, n)[k] = calls[k + (1 - 1)]
  BY <1>1, <1>4, SubSeqOfSeq
<1>6. Front(calls) = SubSeq(calls, 1, n)
  BY DEF Front
<1>7. /\ Len(Front(calls)) = n
      /\ \A k \in 1 .. n : Front(calls)[k] = calls[k]
  BY <1>5, <1>6
<1>8. /\ Len(Front(calls)) = Len(calls) - 1
      /\ \A k \in 1 .. Len(calls) - 1 : Front(calls)[k] = calls[k]
  BY <1>7
<1> QED BY <1>2, <1>3, <1>5, <1>6, <1>8

\* What a frame is made of, by what it is a frame of.
LEMMA FrameFields ==
    ASSUME NEW f \in Frame
    PROVE  /\ f.left \in Nat /\ f.res \in Result /\ f.doc0 \in Seq(Item)
           /\ f.fn \in {"body", "kids", "item"}
           /\ f.fn = "body" => f.dir = "do" /\ f.item \in Item
           /\ f.fn # "body" => f.dir \in Direction
           /\ f.fn = "kids" => f.item \in Holder
           /\ f.fn = "item" => f.item \in Item
BY DEF Frame

LEMMA ChangedFrames ==
    ASSUME NEW f \in Frame
    PROVE  /\ f.fn = "item" =>
                \A at \in {"kids", "calling", "recover"} :
                   [f EXCEPT !.at = at] \in Frame
           /\ f.fn = "kids" =>
                /\ f.left > 0 => Waiting(f) \in Frame
                /\ \A r \in Result :
                      [f EXCEPT !.at = "loop", !.res = r] \in Frame
<1>1. ASSUME f.fn = "item", NEW at \in {"kids", "calling", "recover"}
      PROVE  [f EXCEPT !.at = at] \in Frame
  BY <1>1 DEF Frame
<1>2. ASSUME f.fn = "kids", f.left > 0
      PROVE  Waiting(f) \in Frame
  <2>1. f.left - 1 \in Nat
    BY <1>2, FrameFields
  <2> QED BY <1>2, <2>1 DEF Frame, Waiting
<1>3. ASSUME f.fn = "kids", NEW r \in Result
      PROVE  [f EXCEPT !.at = "loop", !.res = r] \in Frame
  BY <1>3 DEF Frame
<1> QED BY <1>1, <1>2, <1>3

----------------------------------------------------------------------------
(***************************************************************************)
(* Ownership and the limit on the history.                                 *)
(***************************************************************************)

\* Only items that exist are held, each in one place.
Ownership ==
    /\ Distinct(stack)
    /\ \A i : IsHeld(stack, i) => i \in 1 .. created

Within(st) ==
    maxCount >= 0 =>
        Len(st[<<"undo", 0>>]) + Len(st[<<"redo", 0>>]) <= maxCount

StackInv == TypeOK /\ Ownership /\ Within(stack)

\* st2 can follow the stacks of the present state.
Follows(st2) ==
    /\ st2 \in Stacks
    /\ Distinct(st2)
    /\ \A i : IsHeld(st2, i) => IsHeld(stack, i)

LEMMA StackInvFacts ==
    ASSUME StackInv
    PROVE  /\ stack \in Stacks /\ Distinct(stack) /\ Follows(stack)
           /\ created \in Nat /\ created <= MaxItems
           /\ maxCount \in Nat \cup {-1}
           /\ \A i : IsHeld(stack, i) => i \in 1 .. created
BY BoundsAssumption DEF StackInv, TypeOK, Ownership, Stacks, Holder, Follows

LEMMA ShrunkFollows ==
    ASSUME StackInv, NEW st \in Stacks, Follows(st), NEW st2, Shrunk(st2, st)
    PROVE  Follows(st2)
<1>1. st2 \in Stacks
  BY DEF Shrunk
<1>2. Distinct(st2) /\ \A i : IsHeld(st2, i) => IsHeld(st, i)
  BY ShrunkKeeps DEF Follows
<1> QED BY <1>1, <1>2 DEF Follows

\* The stacks of the top level are those of holder 0, which is no item.
LEMMA TopLevel ==
    /\ <<"undo", 0>> \in StackId /\ <<"redo", 0>> \in StackId
    /\ DoStack \in StackId
    /\ <<"undo", 0>> # DoStack /\ <<"redo", 0>> # DoStack
    /\ <<"undo", 0>> # <<"redo", 0>>
    /\ \A dir \in Direction, i \in Item :
          /\ <<dir, i>> \in StackId
          /\ <<dir, i>> # <<"undo", 0>> /\ <<dir, i>> # <<"redo", 0>>
          /\ <<dir, i>> # DoStack
<1>1. \A i \in Item : i # 0
  BY DEF Item
<1> QED BY <1>1, StackIds DEF DoStack

LEMMA EndTransactionKeeps ==
    ASSUME StackInv, stack[DoStack] # <<>>, EndTransaction(Peek(DoStack))
    PROVE  /\ Follows(stack') /\ Within(stack')
           /\ ret' \in Result
           /\ own' \in [Item -> Seq(Item)]
<1> DEFINE i == Last(stack[DoStack])
           rest == Pop(stack, DoStack)
           parent == Last(rest[DoStack])
           undos == <<"undo", 0>>
           redos == <<"redo", 0>>
           noRedo == Clear(rest, redos)
           top == Last(noRedo[undos])
           pruned == IF Overflows(noRedo) THEN PopBottom(noRedo, undos)
                     ELSE noRedo
<1>1. /\ stack \in Stacks /\ Distinct(stack) /\ Follows(stack)
      /\ maxCount \in Nat \cup {-1}
  BY StackInvFacts
<1>2. /\ i \in Item /\ IsHeld(stack, i)
      /\ Shrunk(rest, stack) /\ rest \in Stacks /\ Follows(rest)
      /\ ~IsHeld(rest, i)
      /\ rest[undos] = stack[undos] /\ rest[redos] = stack[redos]
  <2>1. /\ Shrunk(rest, stack)
        /\ \A t \in StackId \ {DoStack} : rest[t] = stack[t]
        /\ Len(stack[DoStack]) \in 1 .. Len(stack[DoStack]) /\ i \in Item
    BY <1>1, TopLevel, PopShrinks
  <2>2. ~IsHeld(rest, i)
    BY <1>1, TopLevel, PopFrees
  <2>3. IsHeld(stack, i)
    BY <2>1, TopLevel DEF IsHeld, Last
  <2>4. rest \in Stacks
    BY <2>1 DEF Shrunk
  <2>5. Follows(rest)
    BY <1>1, <2>1, ShrunkFollows
  <2> QED BY <2>1, <2>2, <2>3, <2>4, <2>5, TopLevel
<1>3. /\ Shrunk(noRedo, rest) /\ noRedo \in Stacks /\ Follows(noRedo)
      /\ ~IsHeld(noRedo, i)
      /\ noRedo[undos] = stack[undos] /\ noRedo[redos] = <<>>
  <2>1. Shrunk(noRedo, rest)
    BY <1>2, TopLevel, ClearShrinks
  <2>2. noRedo \in Stacks
    BY <2>1 DEF Shrunk
  <2>3. Distinct(rest)
    BY <1>2 DEF Follows
  <2>4. Follows(noRedo)
    BY <1>2, <2>1, ShrunkFollows
  <2>5. ~IsHeld(noRedo, i)
    BY <1>2, <2>1, <2>3, ShrunkKeeps
  <2>6. noRedo[undos] = rest[undos] /\ noRedo[redos] = <<>>
    BY <1>2, TopLevel DEF Clear, Stacks
  <2> QED BY <1>2, <2>1, <2>2, <2>4, <2>5, <2>6
<1>4. \A r \in Result : DidNotify(r) \subseteq Result
  BY DEF DidNotify, Result
<1>5. "ok" \in Result /\ "fail" \in Result
  BY DEF Result
<1>6. own \in [Item -> Seq(Item)]
  BY DEF StackInv, TypeOK
<1>13. /\ Len(stack[undos]) \in Nat /\ Len(stack[redos]) \in Nat
      /\ maxCount >= 0 => Len(stack[undos]) <= maxCount
  <2>1. Len(stack[undos]) \in Nat /\ Len(stack[redos]) \in Nat
    BY <1>1, TopLevel DEF Stacks
  <2>2. maxCount >= 0 => Len(stack[undos]) + Len(stack[redos]) <= maxCount
    BY DEF StackInv, Within
  <2>3. \A x, y \in Nat, z \in Nat \cup {-1} : x + y <= z => x <= z
    OBVIOUS
  <2> QED BY <1>1, <2>1, <2>2, <2>3
<1> HIDE DEF rest, noRedo
<1>7. CASE Dropped(i) /\ stack' = rest /\ ret' \in DropResults(i) /\ own' = own
  <2>1. Within(rest)
    BY <1>2 DEF StackInv, Within
  <2>2. DropResults(i) \subseteq Result
    BY <1>4, <1>5 DEF DropResults
  <2> QED BY <1>2, <1>6, <1>7, <2>1, <2>2
<1>8. CASE /\ rest[DoStack] # <<>>
           /\ stack' = Push(rest, <<"undo", parent>>, i)
           /\ ret' \in DidNotify("ok") /\ own' = own
  <2>1. parent \in Item
    BY <1>2, <1>8, TopLevel, PopShrinks
  <2>2. /\ <<"undo", parent>> \in StackId
        /\ <<"undo", parent>> # undos /\ <<"undo", parent>> # redos
    BY <2>1, StackIds, TopLevel
  <2>3. /\ stack' \in Stacks /\ Distinct(stack')
        /\ \A j : IsHeld(stack', j) => j = i \/ IsHeld(rest, j)
    BY <1>2, <1>8, <2>2, PushKeeps DEF Follows
  <2>4. stack'[undos] = rest[undos] /\ stack'[redos] = rest[redos]
    BY <1>2, <1>8, <2>2, TopLevel DEF Push, Stacks
  <2>5. Within(stack')
    BY <1>2, <2>4 DEF StackInv, Within
  <2> QED BY <1>2, <1>4, <1>5, <1>6, <1>8, <2>3, <2>5 DEF Follows
<1>9. CASE /\ Kept(i) /\ stack' = Push(pruned, undos, i)
           /\ ret' \in DidNotify("ok") /\ own' = own
  <2>1. /\ Shrunk(pruned, noRedo)
        /\ pruned[redos] = <<>>
        /\ maxCount >= 0 => Len(pruned[undos]) + 1 <= maxCount
    <3>1. Len(noRedo[undos]) \in Nat /\ Len(<<>>) = 0
      BY <1>3, TopLevel DEF Stacks
    <3>2. maxCount >= 0 => maxCount > 0 /\ Len(noRedo[undos]) <= maxCount
      <4>1. maxCount # 0
        BY <1>9 DEF Kept
      <4> QED BY <1>1, <1>3, <1>13, <4>1
    <3>3. CASE Overflows(noRedo)
      <4>1. Len(noRedo[undos]) > 0 /\ Len(noRedo[undos]) >= maxCount
        BY <1>1, <3>1, <3>3 DEF Overflows
      <4>2. noRedo[undos] # <<>>
        BY <3>1, <4>1
      <4>3. /\ Shrunk(PopBottom(noRedo, undos), noRedo)
            /\ PopBottom(noRedo, undos)[redos] = noRedo[redos]
            /\ Len(PopBottom(noRedo, undos)[undos]) = Len(noRedo[undos]) - 1
        BY <1>3, <4>2, TopLevel, PopBottomShrinks
      <4> QED BY <1>1, <1>3, <3>1, <3>2, <3>3, <4>1, <4>3
    <3>4. CASE ~Overflows(noRedo)
      <4>1. Shrunk(noRedo, noRedo)
        BY <1>3, ShrunkRefl
      <4>2. maxCount >= 0 => Len(noRedo[undos]) < maxCount
        BY <1>1, <3>1, <3>2, <3>4 DEF Overflows
      <4>3. maxCount >= 0 => Len(noRedo[undos]) + 1 <= maxCount
        BY <1>1, <3>1, <4>2
      <4> QED BY <1>3, <3>4, <4>1, <4>3
    <3> QED BY <3>3, <3>4
  <2> HIDE DEF pruned
  <2>2. pruned \in Stacks /\ Follows(pruned) /\ ~IsHeld(pruned, i)
    <3>1. pruned \in Stacks
      BY <2>1 DEF Shrunk
    <3>2. Follows(pruned)
      BY <1>3, <2>1, ShrunkFollows
    <3>3. ~IsHeld(pruned, i)
      BY <1>3, <2>1, ShrunkKeeps DEF Follows
    <3> QED BY <3>1, <3>2, <3>3
  <2>3. /\ stack' \in Stacks /\ Distinct(stack')
        /\ \A j : IsHeld(stack', j) => j = i \/ IsHeld(pruned, j)
    BY <1>2, <1>9, <2>2, TopLevel, PushKeeps DEF Follows
  <2>4. stack'[undos] = Append(pruned[undos], i) /\ stack'[redos] = <<>>
    BY <1>9, <2>1, <2>2, TopLevel DEF Push, Stacks
  <2>5. Len(stack'[undos]) = Len(pruned[undos]) + 1 /\ Len(<<>>) = 0
        /\ Len(pruned[undos]) \in Nat
    <3>1. pruned[undos] \in Seq(Item)
      BY <2>2, TopLevel DEF Stacks
    <3> QED BY <1>2, <2>4, <3>1, AppendProperties
  <2>6. Within(stack')
    BY <1>1, <2>1, <2>4, <2>5 DEF Within
  <2> QED BY <1>2, <1>4, <1>5, <1>6, <1>9, <2>2, <2>3, <2>6 DEF Follows
<1>10. Within(noRedo)
  <2>1. /\ Len(noRedo[undos]) = Len(stack[undos])
        /\ Len(noRedo[redos]) = 0
    BY <1>3
  <2>2. maxCount >= 0 => Len(noRedo[undos]) + Len(noRedo[redos]) <= maxCount
    BY <1>1, <1>13, <2>1
  <2> QED BY <2>2 DEF Within
<1>11. CASE /\ noRedo[undos] # <<>> /\ stack' = noRedo
            /\ own' = [own EXCEPT ![top] = @ \o own[i]]
            /\ ret' \in DidNotify("ok")
  <2>1. top \in Item
    BY <1>3, <1>11, TopLevel, PopShrinks
  <2>2. own[top] \o own[i] \in Seq(Item)
    BY <1>2, <1>6, <2>1, ConcatProperties
  <2>3. own' \in [Item -> Seq(Item)]
    BY <1>6, <1>11, <2>2
  <2> QED BY <1>3, <1>4, <1>5, <1>10, <1>11, <2>3
<1>12. CASE stack' = noRedo /\ ret' = "fail" /\ own' = own
  BY <1>3, <1>5, <1>6, <1>10, <1>12
<1> QED
  BY <1>7, <1>8, <1>9, <1>11, <1>12 DEF EndTransaction, Peek, rest, noRedo

LEMMA FollowingKeeps ==
    ASSUME StackInv, Follows(stack'), Within(stack'),
           created' = created, maxCount' = maxCount
    PROVE  stack' \in Stacks /\ Ownership' /\ Within(stack)'
BY StackInvFacts DEF Follows, Ownership, Within, IsHeld, Distinct

LEMMA SameStack ==
    ASSUME StackInv, stack' = stack, created' = created, maxCount' = maxCount
    PROVE  stack' \in Stacks /\ Ownership' /\ Within(stack)'
<1>1. Follows(stack') /\ Within(stack')
  BY StackInvFacts DEF StackInv
<1> QED BY <1>1, FollowingKeeps

LEMMA SetMaxTransactionCountKeeps ==
    ASSUME StackInv, SetMaxTransactionCount
    PROVE  /\ Follows(stack') /\ Within(stack)'
           /\ maxCount' \in Nat \cup {-1} /\ ret' \in Result
<1> DEFINE undos == Len(stack[<<"undo", 0>>])
           redos == Len(stack[<<"redo", 0>>])
           undosLeft(n) == IF undos + redos <= n THEN undos
                           ELSE IF redos < n THEN n - redos ELSE 0
           pruned(n) == Prune(Prune(stack, <<"undo", 0>>, undosLeft(n)),
                              <<"redo", 0>>, n - undosLeft(n))
<1>1. PICK n \in Counts :
         \/ ret' = "fail" /\ UNCHANGED <<stack, maxCount>>
         \/ /\ maxCount' = Normalized(n) /\ ret' = "ok"
            /\ stack' = IF n < 0 \/ n > undos + redos THEN stack ELSE pruned(n)
  BY DEF SetMaxTransactionCount
<1>2. n \in Int
  BY CountsAssumption
<1>3. /\ stack \in Stacks /\ Follows(stack) /\ Within(stack)
      /\ maxCount \in Nat \cup {-1}
  BY StackInvFacts DEF StackInv
<1>4. undos \in Nat /\ redos \in Nat
  BY <1>3, TopLevel DEF Stacks
<1>5. "ok" \in Result /\ "fail" \in Result
  BY DEF Result
<1>6. CASE ret' = "fail" /\ UNCHANGED <<stack, maxCount>>
  BY <1>3, <1>5, <1>6 DEF Within
<1>7. CASE /\ maxCount' = Normalized(n) /\ ret' = "ok"
           /\ n < 0 /\ stack' = stack
  <2>1. maxCount' = -1
    BY <1>7 DEF Normalized
  <2> QED BY <1>3, <1>5, <1>7, <2>1 DEF Within
<1>8. CASE /\ maxCount' = Normalized(n) /\ ret' = "ok"
           /\ n >= 0 /\ n > undos + redos /\ stack' = stack
  <2>1. maxCount' = n /\ n \in Nat
    BY <1>2, <1>8 DEF Normalized
  <2>2. undos + redos <= n
    <3>1. \A x, y \in Nat, z \in Int : z > x + y => x + y <= z
      OBVIOUS
    <3> QED BY <1>2, <1>4, <1>8, <3>1
  <2> QED BY <1>3, <1>5, <1>8, <2>1, <2>2 DEF Within
<1>9. CASE /\ maxCount' = Normalized(n) /\ ret' = "ok"
           /\ n >= 0 /\ stack' = pruned(n)
  <2>1. maxCount' = n /\ n \in Nat
    BY <1>2, <1>9 DEF Normalized
  <2>2. undosLeft(n) \in Nat /\ n - undosLeft(n) \in Nat
    <3>1. CASE undos + redos <= n
      <4>1. \A x, y, z \in Nat : x + y <= z => z - x \in Nat
        OBVIOUS
      <4> QED BY <1>4, <2>1, <3>1, <4>1
    <3>2. CASE ~(undos + redos <= n) /\ redos < n
      BY <1>4, <2>1, <3>2
    <3>3. CASE ~(undos + redos <= n) /\ ~(redos < n)
      BY <1>4, <2>1, <3>3
    <3> QED BY <3>1, <3>2, <3>3
  <2> DEFINE first == Prune(stack, <<"undo", 0>>, undosLeft(n))
  <2>3. /\ Shrunk(first, stack)
        /\ Len(first[<<"undo", 0>>]) <= undosLeft(n)
    BY <1>3, <2>2, TopLevel, PruneShrinks
  <2>4. first \in Stacks /\ Follows(first)
    <3>1. first \in Stacks
      BY <2>3 DEF Shrunk
    <3> QED BY <1>3, <2>3, <3>1, ShrunkFollows
  <2>5. /\ Shrunk(stack', first)
        /\ stack'[<<"undo", 0>>] = first[<<"undo", 0>>]
        /\ Len(stack'[<<"redo", 0>>]) <= n - undosLeft(n)
    <3> HIDE DEF first
    <3>1. /\ Shrunk(Prune(first, <<"redo", 0>>, n - undosLeft(n)), first)
          /\ \A t \in StackId \ {<<"redo", 0>>} :
                Prune(first, <<"redo", 0>>, n - undosLeft(n))[t] = first[t]
          /\ Len(Prune(first, <<"redo", 0>>, n - undosLeft(n))[<<"redo", 0>>])
                <= n - undosLeft(n)
      BY <2>2, <2>4, TopLevel, PruneShrinks
    <3>2. stack' = Prune(first, <<"redo", 0>>, n - undosLeft(n))
      BY <1>9 DEF first
    <3> QED BY <3>1, <3>2, TopLevel
  <2>6. Follows(stack') /\ stack' \in Stacks
    <3>1. Follows(stack')
      BY <2>4, <2>5, ShrunkFollows
    <3> QED BY <3>1 DEF Follows
  <2>7. Len(stack'[<<"undo", 0>>]) + Len(stack'[<<"redo", 0>>]) <= n
    <3>1. /\ Len(stack'[<<"undo", 0>>]) \in Nat
          /\ Len(stack'[<<"redo", 0>>]) \in Nat
      BY <2>6, TopLevel DEF Stacks
    <3>2. \A u, r, a, m \in Nat :
             u <= a /\ r <= m - a => u + r <= m
      OBVIOUS
    <3>3. Len(stack'[<<"undo", 0>>]) <= undosLeft(n)
      BY <2>3, <2>5
    <3> HIDE DEF undosLeft
    <3> QED BY <2>1, <2>2, <2>5, <3>1, <3>2, <3>3
  <2> QED BY <1>5, <1>9, <2>1, <2>6, <2>7 DEF Within
<1>10. n < 0 \/ n >= 0
  BY <1>2
<1> HIDE DEF undos, redos, pruned
<1> QED BY <1>1, <1>6, <1>7, <1>8, <1>9, <1>10

\* Undo and redo move an item between the two stacks of its holder.
LEMMA MoveKeeps ==
    ASSUME StackInv, NEW dir \in Direction, NEW i \in Holder
    PROVE  /\ Follows(PopPush(stack, <<dir, i>>, <<Other(dir), i>>))
           /\ Within(PopPush(stack, <<dir, i>>, <<Other(dir), i>>))
<1> DEFINE s == <<dir, i>>
           t == <<Other(dir), i>>
           moved == PopPush(stack, s, t)
           undos == <<"undo", 0>>
           redos == <<"redo", 0>>
<1>1. /\ stack \in Stacks /\ Distinct(stack) /\ Within(stack)
      /\ maxCount \in Nat \cup {-1}
  BY StackInvFacts DEF StackInv
<1>2. s \in StackId /\ t \in StackId /\ s # t
  BY StackIds DEF Direction, Other
<1>3. Follows(moved)
  BY <1>1, <1>2, PopPushKeeps DEF Follows
<1>4. CASE stack[s] = <<>>
  BY <1>1, <1>3, <1>4 DEF PopPush
<1>5. CASE stack[s] # <<>>
  <2>1. /\ Pop(stack, s) \in Stacks
        /\ \A u \in StackId \ {s} : Pop(stack, s)[u] = stack[u]
        /\ Len(Pop(stack, s)[s]) = Len(stack[s]) - 1
        /\ Last(stack[s]) \in Item
    BY <1>1, <1>2, <1>5, PopShrinks DEF Shrunk
  <2>2. moved = Push(Pop(stack, s), t, Last(stack[s]))
    BY <1>5 DEF PopPush
  <2>3. /\ \A u \in StackId \ {s, t} : moved[u] = stack[u]
        /\ moved[s] = Pop(stack, s)[s]
        /\ moved[t] = Append(stack[t], Last(stack[s]))
    BY <1>2, <2>1, <2>2 DEF Push, Stacks
  <2>4. stack[s] \in Seq(Item) /\ stack[t] \in Seq(Item)
    BY <1>1, <1>2 DEF Stacks
  <2>5. /\ Len(moved[t]) = Len(stack[t]) + 1
        /\ Len(moved[s]) = Len(stack[s]) - 1
        /\ Len(stack[s]) \in Nat /\ Len(stack[t]) \in Nat
    <3>1. /\ Len(Append(stack[t], Last(stack[s]))) = Len(stack[t]) + 1
          /\ Len(stack[s]) \in Nat /\ Len(stack[t]) \in Nat
      BY <2>1, <2>4, AppendProperties
    <3> HIDE DEF s, t, moved
    <3> QED BY <2>1, <2>3, <3>1
  <2>6. CASE i = 0
    <3>1. (s = undos /\ t = redos) \/ (s = redos /\ t = undos)
      <4>1. dir = "undo" \/ dir = "redo"
        BY DEF Direction
      <4>2. CASE dir = "undo"
        BY <2>6, <4>2 DEF Other
      <4>3. CASE dir = "redo"
        BY <2>6, <4>3 DEF Other
      <4> QED BY <4>1, <4>2, <4>3
    <3> HIDE DEF s, t, moved, undos, redos
    <3>2. /\ Len(moved[s]) + Len(moved[t]) = Len(stack[s]) + Len(stack[t])
          /\ Len(moved[t]) + Len(moved[s]) = Len(stack[t]) + Len(stack[s])
      <4> DEFINE a == Len(stack[s])
                 b == Len(stack[t])
                 c == Len(moved[s])
                 d == Len(moved[t])
      <4>1. a \in Nat /\ b \in Nat /\ c = a - 1 /\ d = b + 1
        BY <2>5
      <4> HIDE DEF a, b, c, d
      <4>2. c + d = a + b /\ d + c = b + a
        BY ONLY <4>1
      <4> QED BY <4>2 DEF a, b, c, d
    <3>3. Len(moved[undos]) + Len(moved[redos])
             = Len(stack[undos]) + Len(stack[redos])
      BY ONLY <3>1, <3>2
    <3>4. maxCount >= 0 => Len(stack[undos]) + Len(stack[redos]) <= maxCount
      BY <1>1 DEF Within, undos, redos
    <3>5. maxCount >= 0 => Len(moved[undos]) + Len(moved[redos]) <= maxCount
      BY <3>3, <3>4
    <3>6. Within(moved)
      BY <3>5 DEF Within, undos, redos
    <3> QED BY <1>3, <3>6 DEF moved, s, t
  <2>7. CASE i # 0
    <3>1. undos \in StackId \ {s, t} /\ redos \in StackId \ {s, t}
      BY <2>7, TopLevel
    <3>2. moved[undos] = stack[undos] /\ moved[redos] = stack[redos]
      BY <2>3, <3>1
    <3>3. Within(moved)
      BY <1>1, <3>2 DEF Within
    <3> QED BY <1>3, <3>3
  <2> QED BY <2>6, <2>7
<1> QED BY <1>4, <1>5

LEMMA GoOnType ==
    ASSUME TypeOK, Running, NEW f \in Frame, NEW callees \in Seq(Frame)
    PROVE  Append(Front(calls), f) \o callees \in Seq(Frame)
<1>1. Front(calls) \in Seq(Frame)
  BY CalleeType
<1>2. Append(Front(calls), f) \in Seq(Frame)
  BY <1>1, AppendProperties
<1> QED BY <1>2, ConcatProperties

\* What the steps that leave the stacks and the count alone must establish.
LEMMA QuietKeeps ==
    ASSUME StackInv, UNCHANGED <<stack, created, batch, maxCount, told>>,
           calls' \in Seq(Frame), ret' \in Result,
           faults' \subseteq Direction \X Item, doc' \in Seq(Item),
           own' \in [Item -> Seq(Item)], before' \in [Item -> Seq(Item)]
    PROVE  StackInv'
<1>1. Ownership' /\ Within(stack)'
  BY SameStack
<1>2. TypeOK'
  BY DEF StackInv, TypeOK
<1> QED BY <1>1, <1>2 DEF StackInv

\* The document stays a sequence of effects.
LEMMA EffectsType ==
    ASSUME TypeOK, NEW i \in Item
    PROVE  Without(own[i]) \in Seq(Item) /\ With(own[i]) \in Seq(Item)
<1>1. doc \in Seq(Item) /\ own[i] \in Seq(Item)
  BY DEF TypeOK
<1>2. doc \o own[i] \in Seq(Item)
  BY <1>1, ConcatProperties
<1>3. SubSeq(doc, 1, Len(doc) - Len(own[i])) \in Seq(Item)
  <2>1. Len(doc) \in Nat /\ Len(own[i]) \in Nat
    BY <1>1
  <2>3. Len(doc) - Len(own[i]) \in Int
    BY <2>1
  <2> PICK m \in Int : m = Len(doc) - Len(own[i])
    BY <2>3
  <2>2. \A k \in 1 .. m : k \in 1 .. Len(doc)
    BY <2>1
  <2>4. \A k \in 1 .. m : doc[k] \in Item
    BY <1>1, <2>2, ElementOfSeq
  <2> QED BY <2>4, SubSeqProperties
<1> QED BY <1>1, <1>2, <1>3 DEF Without, With

\* What calls' and ret' are after each way for the innermost call to go on.
LEMMA ReturnType ==
    ASSUME TypeOK, Running, NEW r \in Result, Return(r)
    PROVE  calls' \in Seq(Frame) /\ ret' \in Result
BY CalleeType DEF Return

LEMMA ItemGoesOn ==
    ASSUME TypeOK, Running, Callee.fn = "item",
           NEW at \in {"kids", "calling", "recover"},
           NEW callees, callees = <<>> \/ \E f \in Frame : callees = <<f>>,
           GoOn(at, callees)
    PROVE  calls' \in Seq(Frame)
<1>1. callees \in Seq(Frame)
  <2>1. CASE callees = <<>>
    BY <2>1
  <2>2. ASSUME NEW f \in Frame, callees = <<f>>
        PROVE  callees \in Seq(Frame)
    BY <2>2
  <2> QED BY <2>1, <2>2
<1>2. [Callee EXCEPT !.at = at] \in Frame
  BY CalleeType, ChangedFrames
<1> QED BY <1>1, <1>2, GoOnType DEF GoOn

\* The type invariant with ownership and the limit is inductive: the steps of
\* the clients.
LEMMA ClientKeeps ==
    ASSUME StackInv, Client
    PROVE  StackInv'
<1>1. TypeOK /\ Ownership /\ Within(stack)
  BY DEF StackInv
<1>2. /\ stack \in Stacks /\ Distinct(stack) /\ Follows(stack)
      /\ created \in Nat /\ created <= MaxItems
      /\ \A i : IsHeld(stack, i) => i \in 1 .. created
  BY StackInvFacts
<1>3. /\ calls \in Seq(Frame) /\ ret \in Result /\ doc \in Seq(Item)
      /\ own \in [Item -> Seq(Item)] /\ before \in [Item -> Seq(Item)]
      /\ faults \subseteq Direction \X Item
      /\ batch \subseteq 1 .. created
  BY <1>1 DEF TypeOK
<1>4. "ok" \in Result /\ "fail" \in Result
      /\ \A r \in Result : DidNotify(r) \subseteq Result
  BY DEF Result, DidNotify
<1>5. ASSUME RoomForItem, NEW i, i = created + 1,
             stack' = Push(stack, DoStack, i), created' = i,
             maxCount' = maxCount
      PROVE  /\ i \in Item /\ i \in Holder
             /\ 1 .. created \subseteq 1 .. i /\ i \in 1 .. i
             /\ stack' \in Stacks /\ Ownership' /\ Within(stack)'
  <2>1. i \in Item /\ i \in Holder /\ i \notin 1 .. created
        /\ 1 .. created \subseteq 1 .. i /\ i \in 1 .. i
    BY <1>2, <1>5, BoundsAssumption DEF RoomForItem, Item, Holder
  <2>2. /\ Push(stack, DoStack, i) \in Stacks
        /\ Distinct(Push(stack, DoStack, i))
        /\ \A j : IsHeld(Push(stack, DoStack, i), j) =>
                     j = i \/ IsHeld(stack, j)
    BY <1>2, <2>1, TopLevel, PushKeeps
  <2>3. Ownership'
    <3>1. \A j : IsHeld(stack', j) => j \in 1 .. created'
      BY <1>2, <1>5, <2>1, <2>2
    <3>2. Distinct(stack')
      BY <1>5, <2>2
    <3> QED BY <3>1, <3>2 DEF Ownership, IsHeld, Distinct
  <2>4. /\ stack'[<<"undo", 0>>] = stack[<<"undo", 0>>]
        /\ stack'[<<"redo", 0>>] = stack[<<"redo", 0>>]
    BY <1>2, <1>5, TopLevel DEF Push, Stacks
  <2>5. Within(stack)'
    BY <1>1, <1>5, <2>4 DEF Within
  <2> QED BY <1>5, <2>1, <2>2, <2>3, <2>5
<1>6. CASE Vetoed
  <2>1. ret' \in Result /\ UNCHANGED <<stack, created, batch, maxCount, told>>
        /\ UNCHANGED <<calls, faults, doc, own, before>>
    BY <1>6 DEF Vetoed, docVars
  <2> QED BY <1>3, <2>1, QuietKeeps
<1>7. CASE DoTransaction
  <2> PICK i : i = created + 1
    OBVIOUS
  <2>1. /\ RoomForItem /\ created' = i
        /\ stack' = Push(stack, DoStack, i)
        /\ calls' = Append(calls, MkFrame("body", "do", i, "running", 0))
        /\ doc' = Append(doc, i)
        /\ own' = [own EXCEPT ![i] = <<i>>]
        /\ before' = [before EXCEPT ![i] = doc]
        /\ UNCHANGED <<batch, maxCount, ret, told, faults>>
    BY <1>7 DEF DoTransaction
  <2>2. /\ i \in Item /\ i \in Holder
        /\ 1 .. created \subseteq 1 .. i /\ i \in 1 .. i
        /\ stack' \in Stacks /\ Ownership' /\ Within(stack)'
    BY <1>5, <2>1
  <2>3. MkFrame("body", "do", i, "running", 0) \in Frame
    BY <1>1, <2>2, NewFrames
  <2>4. calls' \in Seq(Frame) /\ doc' \in Seq(Item)
    BY <1>3, <2>1, <2>2, <2>3, AppendProperties
  <2>5. own' \in [Item -> Seq(Item)] /\ before' \in [Item -> Seq(Item)]
    BY <1>3, <2>1, <2>2
  <2>6. TypeOK'
    BY <1>1, <2>1, <2>2, <2>4, <2>5 DEF TypeOK, Stacks
  <2> QED BY <2>2, <2>6 DEF StackInv
<1>8. CASE BeginBatch
  <2> PICK i : i = created + 1
    OBVIOUS
  <2>1. /\ RoomForItem /\ created' = i
        /\ stack' = Push(stack, DoStack, i)
        /\ batch' = batch \cup {i}
        /\ ret' \in DidNotify("ok")
        /\ UNCHANGED <<maxCount, calls, told, faults, doc, own, before>>
    BY <1>8 DEF BeginBatch, docVars
  <2>2. /\ i \in Item /\ i \in Holder
        /\ 1 .. created \subseteq 1 .. i /\ i \in 1 .. i
        /\ stack' \in Stacks /\ Ownership' /\ Within(stack)'
    BY <1>5, <2>1
  <2>3. batch' \subseteq 1 .. i
    BY <1>3, <2>1, <2>2
  <2>4. TypeOK'
    BY <1>1, <1>4, <2>1, <2>2, <2>3 DEF TypeOK, Stacks
  <2> QED BY <2>2, <2>4 DEF StackInv
<1>9. CASE EndBatch
  <2>1. UNCHANGED <<created, batch, maxCount, calls, told, faults, doc, before>>
    BY <1>9 DEF EndBatch
  <2>2. CASE ret' = "fail" /\ UNCHANGED <<stack, own>>
    BY <1>3, <1>4, <2>1, <2>2, QuietKeeps
  <2>3. CASE BatchOpen /\ EndTransaction(Peek(DoStack))
    <3>1. /\ Follows(stack') /\ Within(stack') /\ ret' \in Result
          /\ own' \in [Item -> Seq(Item)]
      BY <2>3, EndTransactionKeeps DEF BatchOpen
    <3>2. stack' \in Stacks /\ Ownership' /\ Within(stack)'
      BY <2>1, <3>1, FollowingKeeps
    <3>3. TypeOK'
      BY <1>1, <2>1, <3>1, <3>2 DEF TypeOK, Stacks
    <3> QED BY <3>2, <3>3 DEF StackInv
  <2> QED BY <1>9, <2>2, <2>3 DEF EndBatch
<1>10. CASE ClearHistory
  <2> DEFINE once == Clear(stack, <<"redo", 0>>)
             twice == Clear(once, <<"undo", 0>>)
  <2>1. /\ stack' = twice /\ ret' = "ok"
        /\ UNCHANGED <<created, batch, maxCount, calls, told, faults>>
        /\ UNCHANGED <<doc, own, before>>
    BY <1>10 DEF ClearHistory, docVars
  <2>2. Shrunk(once, stack)
    BY <1>2, TopLevel, ClearShrinks
  <2>3. once \in Stacks /\ Follows(once)
    BY <1>2, <2>2, ShrunkFollows DEF Shrunk
  <2>4. Shrunk(twice, once)
    <3> HIDE DEF once
    <3> QED BY <2>3, TopLevel, ClearShrinks
  <2>5. twice \in Stacks /\ Follows(twice)
    BY <2>3, <2>4, ShrunkFollows DEF Shrunk
  <2>6. twice[<<"undo", 0>>] = <<>> /\ twice[<<"redo", 0>>] = <<>>
    BY <1>2, <2>3, TopLevel DEF Clear, Stacks
  <2>7. Within(twice)
    <3> HIDE DEF twice
    <3>1. Len(<<>>) + Len(<<>>) = 0 /\ maxCount \in Int
      BY <1>1 DEF TypeOK
    <3> QED BY <2>6, <3>1 DEF Within
  <2>8. stack' \in Stacks /\ Ownership' /\ Within(stack)'
    BY <2>1, <2>5, <2>7, FollowingKeeps
  <2>9. TypeOK'
    BY <1>1, <1>4, <2>1, <2>8 DEF TypeOK, Stacks
  <2> QED BY <2>8, <2>9 DEF StackInv
<1>11. CASE SetMaxTransactionCount
  <2>1. UNCHANGED <<created, batch, calls, told, faults, doc, own, before>>
    BY <1>11 DEF SetMaxTransactionCount, docVars
  <2>2. /\ Follows(stack') /\ Within(stack)'
        /\ maxCount' \in Nat \cup {-1} /\ ret' \in Result
    BY <1>11, SetMaxTransactionCountKeeps
  <2>3. stack' \in Stacks /\ Ownership'
    BY <1>2, <2>1, <2>2 DEF Follows, Ownership, IsHeld, Distinct
  <2>4. TypeOK'
    BY <1>1, <2>1, <2>2, <2>3 DEF TypeOK, Stacks
  <2> QED BY <2>2, <2>3, <2>4 DEF StackInv
<1>12. ASSUME NEW dir \in Direction, UndoOrRedo(dir)
       PROVE  StackInv'
  <2>1. /\ UNCHANGED <<stack, created, batch, maxCount, told>>
        /\ UNCHANGED <<faults, doc, own, before>>
    BY <1>12 DEF UndoOrRedo, docVars
  <2>2. \/ ret' \in Result /\ calls' = calls
        \/ /\ calls' = Append(calls, MkFrame("kids", dir, 0, "loop", 1))
           /\ ret' = ret
    BY <1>4, <1>12 DEF UndoOrRedo
  <2>3. MkFrame("kids", dir, 0, "loop", 1) \in Frame
    BY <1>1, StackIds, NewFrames
  <2>4. calls' \in Seq(Frame) /\ ret' \in Result
    <3>1. CASE ret' \in Result /\ calls' = calls
      BY <1>3, <3>1
    <3>2. CASE /\ calls' = Append(calls, MkFrame("kids", dir, 0, "loop", 1))
               /\ ret' = ret
      BY <1>3, <2>3, <3>2, AppendProperties
    <3> QED BY <2>2, <3>1, <3>2
  <2> QED BY <1>3, <2>1, <2>4, QuietKeeps
<1> QED
  BY <1>6, <1>7, <1>8, <1>9, <1>10, <1>11, <1>12 DEF Client

\* The steps of the manager itself.
LEMMA ProgressKeeps ==
    ASSUME StackInv, Progress
    PROVE  StackInv'
<1>1. TypeOK /\ Ownership /\ Within(stack)
  BY DEF StackInv
<1>2. /\ calls \in Seq(Frame) /\ ret \in Result /\ doc \in Seq(Item)
      /\ own \in [Item -> Seq(Item)] /\ before \in [Item -> Seq(Item)]
      /\ faults \subseteq Direction \X Item
      /\ stack \in Stacks /\ created \in Nat
  BY <1>1, StackInvFacts DEF TypeOK
<1>3. "ok" \in Result /\ "fail" \in Result
      /\ \A r \in Result : DidNotify(r) \subseteq Result
  BY DEF Result, DidNotify
<1>4. Running => /\ Callee \in Frame /\ Front(calls) \in Seq(Frame)
                 /\ Callee.fn # "body" => Callee.dir \in Direction
                 /\ Callee.fn = "body" => Callee.item \in Item
                 /\ Callee.fn = "item" => Callee.item \in Item
                 /\ Callee.fn = "kids" => Callee.item \in Holder
                 /\ Callee.res \in Result
  BY <1>1, CalleeType, FrameFields
<1>5. ASSUME Running, Callee.fn = "item"
      PROVE  \A dir \in Direction : \E f \in Frame : <<Kids(dir, Callee.item)>> = <<f>>
  BY <1>1, <1>4, <1>5, StackIds, NewFrames
\* The steps of an item leave the stacks alone.
<1>6. ASSUME UNCHANGED <<stack, created, batch, maxCount, told>>,
             UNCHANGED <<own, before>>,
             doc' \in Seq(Item), faults' \subseteq Direction \X Item,
             calls' \in Seq(Frame), ret' \in Result
      PROVE  StackInv'
  BY <1>2, <1>6, QuietKeeps
<1>7. ASSUME Running, Callee.fn = "item", NEW dir \in Direction,
             \/ Succeeds(dir, Callee.item)
             \/ Fails(dir, Callee.item)
      PROVE  faults' \subseteq Direction \X Item
  BY <1>2, <1>4, <1>7 DEF Succeeds, Fails
<1>8. "undo" \in Direction /\ "redo" \in Direction
  BY DEF Direction
<1>10. CASE DoReturns
  <2>1. /\ Running /\ stack[DoStack] # <<>>
        /\ EndTransaction(Peek(DoStack))
        /\ calls' = Front(calls)
        /\ UNCHANGED <<created, batch, maxCount, told, faults, doc, before>>
    BY <1>10 DEF DoReturns, BodyReturns, In
  <2>2. /\ Follows(stack') /\ Within(stack') /\ ret' \in Result
        /\ own' \in [Item -> Seq(Item)]
    BY <2>1, EndTransactionKeeps
  <2>3. stack' \in Stacks /\ Ownership' /\ Within(stack)'
    BY <2>1, <2>2, FollowingKeeps
  <2>4. TypeOK'
    BY <1>1, <1>4, <2>1, <2>2, <2>3 DEF TypeOK, Stacks
  <2> QED BY <2>3, <2>4 DEF StackInv
<1>11. CASE DoFails
  <2> DEFINE popped == Pop(stack, DoStack)
  <2>1. /\ Running /\ Callee.item \in Item
        /\ stack' = popped
        /\ doc' = before[Callee.item]
        /\ calls' = Front(calls) /\ ret' = "fail"
        /\ UNCHANGED <<created, batch, maxCount, told, faults, own, before>>
    BY <1>4, <1>11 DEF DoFails, BodyReturns, In, Return
  <2>2. Shrunk(popped, stack) /\ Follows(stack)
        /\ \A t \in StackId \ {DoStack} : popped[t] = stack[t]
    BY <1>2, TopLevel, PopShrinks, StackInvFacts
  <2>3. Follows(popped) /\ Within(popped)
    <3>1. Follows(popped)
      BY <1>2, <2>2, ShrunkFollows
    <3>2. /\ popped[<<"undo", 0>>] = stack[<<"undo", 0>>]
          /\ popped[<<"redo", 0>>] = stack[<<"redo", 0>>]
      BY <2>2, TopLevel
    <3>3. Within(popped)
      BY <1>1, <3>2 DEF Within
    <3> QED BY <3>1, <3>3
  <2>4. stack' \in Stacks /\ Ownership' /\ Within(stack)'
    BY <2>1, <2>3, FollowingKeeps
  <2>5. TypeOK'
    BY <1>1, <1>2, <1>3, <1>4, <2>1, <2>4 DEF TypeOK, Stacks
  <2> QED BY <2>4, <2>5 DEF StackInv
<1>12. CASE KidsEnd
  <2>1. /\ Running /\ (Return(Callee.res) \/ Return("fail"))
        /\ UNCHANGED <<stack, created, batch, maxCount, told>>
        /\ UNCHANGED <<faults, doc, own, before>>
    BY <1>12 DEF KidsEnd, In, docVars
  <2>2. calls' \in Seq(Frame) /\ ret' \in Result
    BY <1>1, <1>3, <1>4, <2>1, ReturnType
  <2> QED BY <1>2, <1>6, <2>1, <2>2
<1>13. CASE KidsVetoed
  <2>1. /\ Running /\ (\E r \in Result : Return(r))
        /\ UNCHANGED <<stack, created, batch, maxCount, told>>
        /\ UNCHANGED <<faults, doc, own, before>>
    BY <1>13 DEF KidsVetoed, In, docVars
  <2>2. calls' \in Seq(Frame) /\ ret' \in Result
    BY <1>1, <2>1, ReturnType
  <2> QED BY <1>2, <1>6, <2>1, <2>2
<1>14. CASE KidsCall
  <2>1. /\ Running /\ Callee.fn = "kids" /\ Callee.left > 0
        /\ stack[Source] # <<>>
        /\ calls' = Append(Front(calls), Waiting(Callee))
                    \o Entered(Callee.dir, Peek(Source))
        /\ UNCHANGED <<stack, created, batch, maxCount, ret, told>>
        /\ UNCHANGED <<faults, doc, own, before>>
    BY <1>14 DEF KidsCall, In, docVars
  <2>2. Waiting(Callee) \in Frame /\ Callee.dir \in Direction
        /\ Callee.item \in Holder
    BY <1>4, <2>1, ChangedFrames
  <2>3. Peek(Source) \in Item
    BY <1>2, <2>1, <2>2, StackIds, PopShrinks DEF Source, Peek
  <2>4. Entered(Callee.dir, Peek(Source)) \in Seq(Frame)
    BY <1>1, <2>2, <2>3, EnteredType
  <2>5. calls' \in Seq(Frame)
    BY <1>1, <2>1, <2>2, <2>4, GoOnType
  <2> QED BY <1>2, <1>6, <2>1, <2>5
<1>15. CASE KidsMove
  <2>1. /\ Running /\ Callee.fn = "kids"
        /\ stack' = IF ret = "ok" THEN PopPush(stack, Source, Target)
                    ELSE stack
        /\ \E r \in DidNotify(ret) :
              calls' = Append(Front(calls),
                              [Callee EXCEPT !.at = "loop", !.res = r])
        /\ told' \in {"didUndo", "didRedo"}
        /\ UNCHANGED <<created, batch, maxCount, ret, faults, doc, own, before>>
    BY <1>15 DEF KidsMove, In, docVars
  <2>2. Callee \in Frame /\ Callee.dir \in Direction /\ Callee.item \in Holder
    BY <1>4, <2>1
  <2>3. Follows(stack') /\ Within(stack')
    <3>1. Follows(stack)
      BY StackInvFacts
    <3>2. /\ Follows(PopPush(stack, Source, Target))
          /\ Within(PopPush(stack, Source, Target))
      BY <2>2, MoveKeeps DEF Source, Target
    <3>3. CASE ret = "ok"
      BY <2>1, <3>2, <3>3
    <3>4. CASE ret # "ok"
      BY <1>1, <2>1, <3>1, <3>4
    <3> QED BY <3>3, <3>4
  <2>4. stack' \in Stacks /\ Ownership' /\ Within(stack)'
    BY <2>1, <2>3, FollowingKeeps
  <2>5. calls' \in Seq(Frame)
    <3> PICK r \in Result :
               calls' = Append(Front(calls),
                               [Callee EXCEPT !.at = "loop", !.res = r])
      BY <1>2, <1>3, <2>1
    <3>1. [Callee EXCEPT !.at = "loop", !.res = r] \in Frame
      BY <2>1, <2>2, ChangedFrames
    <3> QED BY <1>4, <2>1, <3>1, AppendProperties
  <2>6. TypeOK'
    BY <1>1, <2>1, <2>4, <2>5 DEF TypeOK, Stacks
  <2> QED BY <2>4, <2>6 DEF StackInv
<1>16. CASE UndoItemKidsDone
  <2>1. /\ Running /\ Callee.fn = "item"
        /\ UNCHANGED <<stack, created, batch, maxCount, told>>
        /\ UNCHANGED <<faults, doc, own, before>>
        /\ \/ /\ GoOn("recover", <<Kids("redo", Callee.item)>>) /\ ret' = ret
           \/ Return("ok")
           \/ GoOn("calling", <<>>) /\ ret' = ret
    BY <1>16 DEF UndoItemKidsDone, In, docVars, RecoverFromUndoError
  <2>2. calls' \in Seq(Frame) /\ ret' \in Result
    <3>1. CASE GoOn("recover", <<Kids("redo", Callee.item)>>) /\ ret' = ret
      BY <1>1, <1>2, <1>5, <1>8, <2>1, <3>1, ItemGoesOn
    <3>2. CASE Return("ok")
      BY <1>1, <1>3, <2>1, <3>2, ReturnType
    <3>3. CASE GoOn("calling", <<>>) /\ ret' = ret
      BY <1>1, <1>2, <2>1, <3>3, ItemGoesOn
    <3> QED BY <2>1, <3>1, <3>2, <3>3
  <2> QED BY <1>2, <1>6, <2>1, <2>2
<1>17. CASE UndoItemCalled
  <2>1. /\ Running /\ Callee.fn = "item"
        /\ UNCHANGED <<stack, created, batch, maxCount, told, own, before>>
        /\ \/ /\ Succeeds("undo", Callee.item) /\ Return("ok")
              /\ doc' = Without(own[Callee.item])
           \/ /\ Fails("undo", Callee.item) /\ ret' = ret /\ doc' = doc
              /\ GoOn("recover", <<Kids("redo", Callee.item)>>)
    BY <1>17 DEF UndoItemCalled, In, RecoverFromUndoError
  <2>2. doc' \in Seq(Item) /\ faults' \subseteq Direction \X Item
    BY <1>1, <1>2, <1>4, <1>7, <1>8, <2>1, EffectsType
  <2>3. calls' \in Seq(Frame) /\ ret' \in Result
    <3>1. CASE GoOn("recover", <<Kids("redo", Callee.item)>>) /\ ret' = ret
      BY <1>1, <1>2, <1>5, <1>8, <2>1, <3>1, ItemGoesOn
    <3>2. CASE Return("ok")
      BY <1>1, <1>3, <2>1, <3>2, ReturnType
    <3> QED BY <2>1, <3>1, <3>2
  <2> QED BY <1>6, <2>1, <2>2, <2>3
<1>18. CASE UndoItemRecovered
  <2>1. /\ Running /\ Return("fail")
        /\ UNCHANGED <<stack, created, batch, maxCount, told>>
        /\ UNCHANGED <<faults, doc, own, before>>
    BY <1>18 DEF UndoItemRecovered, In, docVars
  <2>2. calls' \in Seq(Frame) /\ ret' \in Result
    BY <1>1, <1>3, <2>1, ReturnType
  <2> QED BY <1>2, <1>6, <2>1, <2>2
<1>19. CASE RedoItemCalled
  <2>1. /\ Running /\ Callee.fn = "item"
        /\ UNCHANGED <<stack, created, batch, maxCount, told, own, before>>
        /\ \/ /\ Succeeds("redo", Callee.item) /\ ret' = ret
              /\ GoOn("kids", <<Kids("redo", Callee.item)>>)
              /\ doc' = With(own[Callee.item])
           \/ Fails("redo", Callee.item) /\ Return("fail") /\ doc' = doc
    BY <1>19 DEF RedoItemCalled, In
  <2>2. doc' \in Seq(Item) /\ faults' \subseteq Direction \X Item
    BY <1>1, <1>2, <1>4, <1>7, <1>8, <2>1, EffectsType
  <2>3. calls' \in Seq(Frame) /\ ret' \in Result
    <3>1. CASE GoOn("kids", <<Kids("redo", Callee.item)>>) /\ ret' = ret
      BY <1>1, <1>2, <1>5, <1>8, <2>1, <3>1, ItemGoesOn
    <3>2. CASE Return("fail")
      BY <1>1, <1>3, <2>1, <3>2, ReturnType
    <3> QED BY <2>1, <3>1, <3>2
  <2> QED BY <1>6, <2>1, <2>2, <2>3
<1>20. CASE RedoItemKidsDone
  <2>1. /\ Running /\ Callee.fn = "item"
        /\ UNCHANGED <<stack, created, batch, maxCount, told>>
        /\ UNCHANGED <<faults, doc, own, before>>
        /\ \/ GoOn("recover", <<Kids("undo", Callee.item)>>) /\ ret' = ret
           \/ Return("ok")
    BY <1>20 DEF RedoItemKidsDone, In, docVars, RecoverFromRedoError
  <2>2. calls' \in Seq(Frame) /\ ret' \in Result
    <3>1. CASE GoOn("recover", <<Kids("undo", Callee.item)>>) /\ ret' = ret
      BY <1>1, <1>2, <1>5, <1>8, <2>1, <3>1, ItemGoesOn
    <3>2. CASE Return("ok")
      BY <1>1, <1>3, <2>1, <3>2, ReturnType
    <3> QED BY <2>1, <3>1, <3>2
  <2> QED BY <1>2, <1>6, <2>1, <2>2
<1>21. CASE RedoItemRecovered
  <2>1. /\ Running /\ Callee.fn = "item" /\ Return("fail")
        /\ UNCHANGED <<stack, created, batch, maxCount, told, own, before>>
        /\ \/ doc' = doc /\ faults' = faults
           \/ Succeeds("undo", Callee.item) /\ doc' = Without(own[Callee.item])
           \/ Fails("undo", Callee.item) /\ doc' = doc
    BY <1>21 DEF RedoItemRecovered, In
  <2>2. doc' \in Seq(Item) /\ faults' \subseteq Direction \X Item
    BY <1>1, <1>2, <1>4, <1>7, <1>8, <2>1, EffectsType
  <2>3. calls' \in Seq(Frame) /\ ret' \in Result
    BY <1>1, <1>3, <2>1, ReturnType
  <2> QED BY <1>6, <2>1, <2>2, <2>3
<1>22. CASE EndBatch
  BY <1>22, ClientKeeps DEF Client
<1> QED
  BY <1>10, <1>11, <1>12, <1>13, <1>14, <1>15, <1>16, <1>17, <1>18, <1>19,
     <1>20, <1>21, <1>22 DEF Progress

----------------------------------------------------------------------------
LEMMA StackInvInit ==
    ASSUME Init PROVE StackInv
<1>1. <<>> \in Seq(Item) /\ <<>> \in Seq(Frame) /\ Len(<<>>) = 0
  OBVIOUS
<1>2. \A s \in StackId : stack[s] = <<>>
  BY DEF Init
<1>3. TypeOK
  <2>1. stack \in [StackId -> Seq(Item)]
    BY <1>1 DEF Init
  <2>2. created \in Holder /\ batch \subseteq 1 .. created
    BY StackIds DEF Init
  <2>3. maxCount \in Nat \cup {-1}
    BY DEF Init
  <2>4. calls \in Seq(Frame) /\ ret \in Result /\ doc \in Seq(Item)
        /\ told \in {"nothing", "didUndo", "didRedo"}
        /\ faults \subseteq Direction \X Item
    BY <1>1 DEF Init, Result
  <2>5. own \in [Item -> Seq(Item)] /\ before \in [Item -> Seq(Item)]
    BY <1>1 DEF Init
  <2> QED BY <2>1, <2>2, <2>3, <2>4, <2>5 DEF TypeOK
<1>4. \A s \in StackId : 1 .. Len(stack[s]) = {}
  BY <1>1, <1>2
<1>5. Ownership
  BY <1>4 DEF Ownership, Distinct, IsHeld
<1>6. Within(stack)
  <2>1. Len(stack[<<"undo", 0>>]) = 0 /\ Len(stack[<<"redo", 0>>]) = 0
    BY <1>1, <1>2, TopLevel
  <2>2. maxCount \in Int
    BY <1>3 DEF TypeOK
  <2> QED BY <2>1, <2>2 DEF Within
<1> QED BY <1>3, <1>5, <1>6 DEF StackInv

LEMMA StackInvStep ==
    ASSUME StackInv, [Next]_vars PROVE StackInv'
<1>1. CASE Client
  BY <1>1, ClientKeeps
<1>2. CASE Progress
  BY <1>2, ProgressKeeps
<1>3. CASE UNCHANGED vars
  <2>1. /\ UNCHANGED <<stack, created, batch, maxCount, told>>
        /\ UNCHANGED <<calls, ret, faults, doc, own, before>>
    BY <1>3 DEF vars
  <2>2. /\ calls \in Seq(Frame) /\ ret \in Result /\ doc \in Seq(Item)
        /\ own \in [Item -> Seq(Item)] /\ before \in [Item -> Seq(Item)]
        /\ faults \subseteq Direction \X Item
    BY DEF StackInv, TypeOK
  <2> QED BY <2>1, <2>2, QuietKeeps
<1> QED BY <1>1, <1>2, <1>3 DEF Next

\* The strengthening that is inductive: types, every held item exists and is
\* held in one place, and the history is within its limit.
THEOREM StackInvariance == Spec => []StackInv
<1>1. Init => StackInv
  BY StackInvInit
<1>2. StackInv /\ [Next]_vars => StackInv'
  BY StackInvStep
<1> QED BY <1>1, <1>2, PTL DEF Spec

\* Whatever clients and listeners do, the state of the manager has its type:
\* the stacks hold items, the call stack holds frames of the functions.
THEOREM TypeCorrectness == Spec => []TypeOK
<1>1. StackInv => TypeOK
  BY DEF StackInv
<1> QED BY <1>1, StackInvariance, PTL

\* No sequence of calls, nested calls, vetoes and failures leaves an item on
\* two stacks of the manager and its items, or twice on one: not even when an
\* undoTransaction() calls the manager again.
THEOREM SingleHolder == Spec => []OneHolder
<1>1. StackInv => OneHolder
  BY DEF StackInv, Ownership, Distinct, OneHolder
<1> QED BY <1>1, StackInvariance, PTL

\* The undo and the redo stack together never hold more than maxTransactionCount
\* items, whenever the limit is set and however transactions nest.
THEOREM HistoryIsLimited == Spec => []WithinMaxCount
<1>1. StackInv => WithinMaxCount
  BY DEF StackInv, Within, WithinMaxCount
<1> QED BY <1>1, StackInvariance, PTL

----------------------------------------------------------------------------
(***************************************************************************)
(* The calls in progress: what an undo or redo pops, what is left on the   *)
(* do stack, and in which order the children of an item are undone.  The   *)
(* first and the last are for constants with which undoTransaction() and   *)
(* redoTransaction() do not call the manager.                              *)
(***************************************************************************)

\* A child is created after the item that holds it, and the items on the do
\* stack in the order of the stack.
Nested(st) ==
    /\ \A s \in StackId \ {DoStack} : \A m \in 1 .. Len(st[s]) : st[s][m] > s[2]
    /\ \A m, n \in 1 .. Len(st[DoStack]) : m < n => st[DoStack][m] < st[DoStack][n]

\* The frame g can be the call made by f.
Fits(f, g, st) ==
    \/ /\ f.fn = "body" /\ g.fn = "body" /\ f.item < g.item
    \/ /\ f.fn = "kids" /\ g.fn = "item" /\ f.item < g.item
       /\ st[<<f.dir, f.item>>] # <<>> /\ Last(st[<<f.dir, f.item>>]) = g.item
    \/ /\ f.fn = "item" /\ g.fn = "kids" /\ f.item = g.item

\* Calls go from parents to children.
Descends(q) ==
    \A j, k \in 1 .. Len(q) : j < k =>
        /\ q[j].item <= q[k].item
        /\ q[j].fn # "item" => q[j].item < q[k].item
        /\ q[j].fn = "body" <=> q[k].fn = "body"

Chained(q, st) == \A k \in 1 .. Len(q) - 1 : Fits(q[k], q[k + 1], st)

\* A transaction whose doTransaction() runs is on the do stack.
BodiesAreDone(q, st, bt) ==
    \A k \in 1 .. Len(q) : q[k].fn = "body" =>
        q[k].item \notin bt /\ \E m \in 1 .. Len(st[DoStack]) : st[DoStack][m] = q[k].item

Orderly(q, st, bt) == Descends(q) /\ Chained(q, st) /\ BodiesAreDone(q, st, bt)

CallsInv == Nested(stack) /\ Orderly(calls, stack, batch)

----------------------------------------------------------------------------
(***************************************************************************)
(* Lemmas about the stacks.                                                *)
(***************************************************************************)

LEMMA StackNumbers ==
    ASSUME NEW st \in Stacks, NEW s \in StackId
    PROVE  /\ Len(st[s]) \in Nat
           /\ \A m \in 1 .. Len(st[s]) : st[s][m] \in Item /\ st[s][m] \in Nat
           /\ s # DoStack => s[2] \in Nat
<1>1. st[s] \in Seq(Item)
  BY DEF Stacks
<1>2. Item \subseteq Nat /\ Holder \subseteq Nat
  BY BoundsAssumption DEF Item, Holder
<1>3. s # DoStack => s[2] \in Holder
  BY DEF StackId
<1>4. Len(st[s]) \in Nat /\ \A m \in 1 .. Len(st[s]) : st[s][m] \in Item
  BY <1>1, ElementOfSeq, LenProperties
<1> QED BY <1>2, <1>3, <1>4

LEMMA ShrunkNested ==
    ASSUME NEW st \in Stacks, NEW st2, Shrunk(st2, st), Nested(st)
    PROVE  Nested(st2)
<1>0. st2 \in Stacks
  BY DEF Shrunk
<1>1. ASSUME NEW s \in StackId \ {DoStack}, NEW m \in 1 .. Len(st2[s])
      PROVE  st2[s][m] > s[2]
  <2>1. PICK d \in Nat : /\ Len(st2[s]) + d <= Len(st[s])
                         /\ \A k \in 1 .. Len(st2[s]) : st2[s][k] = st[s][k + d]
    BY DEF Shrunk
  <2>2. m + d \in 1 .. Len(st[s])
    BY <1>0, <2>1, StackNumbers
  <2> QED BY <2>1, <2>2 DEF Nested
<1>2. ASSUME NEW m \in 1 .. Len(st2[DoStack]), NEW n \in 1 .. Len(st2[DoStack]), m < n
      PROVE  st2[DoStack][m] < st2[DoStack][n]
  <2>1. PICK d \in Nat : /\ Len(st2[DoStack]) + d <= Len(st[DoStack])
                         /\ \A k \in 1 .. Len(st2[DoStack]) :
                              st2[DoStack][k] = st[DoStack][k + d]
    BY StackIds DEF Shrunk
  <2>2. m + d \in 1 .. Len(st[DoStack]) /\ n + d \in 1 .. Len(st[DoStack]) /\ m + d < n + d
    BY <1>0, <1>2, <2>1, StackNumbers, StackIds
  <2> QED BY <2>1, <2>2 DEF Nested
<1> QED BY <1>1, <1>2 DEF Nested

LEMMA PushNested ==
    ASSUME NEW st \in Stacks, NEW s \in StackId, NEW i \in Item, Nested(st),
           s # DoStack => i > s[2],
           s = DoStack => \A m \in 1 .. Len(st[DoStack]) : st[DoStack][m] < i
    PROVE  /\ Nested(Push(st, s, i)) /\ Push(st, s, i) \in Stacks
           /\ \A t \in StackId \ {s} : Push(st, s, i)[t] = st[t]
<1> DEFINE st2 == Push(st, s, i)
<1>1. /\ st2 \in Stacks /\ st2[s] = Append(st[s], i)
      /\ \A t \in StackId \ {s} : st2[t] = st[t]
  BY DEF Push, Stacks
<1>2. /\ Len(st2[s]) = Len(st[s]) + 1 /\ Len(st[s]) \in Nat
      /\ st2[s][Len(st[s]) + 1] = i
      /\ \A k \in 1 .. Len(st[s]) : st2[s][k] = st[s][k]
  <2>1. st[s] \in Seq(Item)
    BY DEF Stacks
  <2> QED BY <1>1, <2>1, AppendProperties
<1> HIDE DEF st2
<1>3. ASSUME NEW t \in StackId \ {DoStack}, NEW m \in 1 .. Len(st2[t])
      PROVE  st2[t][m] > t[2]
  <2>1. CASE t = s
    <3>1. CASE m = Len(st[s]) + 1
      BY <1>2, <2>1, <3>1
    <3>2. CASE m \in 1 .. Len(st[s])
      <4>1. st[s][m] > s[2]
        BY <2>1, <3>2 DEF Nested
      <4> QED BY <1>2, <2>1, <3>2, <4>1
    <3>3. m \in 1 .. Len(st[s]) + 1
      BY <1>2, <2>1
    <3> QED BY <1>2, <3>1, <3>2, <3>3
  <2>2. CASE t # s
    BY <2>2, <1>1 DEF Nested
  <2> QED BY <2>1, <2>2
<1>4. ASSUME NEW m \in 1 .. Len(st2[DoStack]), NEW n \in 1 .. Len(st2[DoStack]), m < n
      PROVE  st2[DoStack][m] < st2[DoStack][n]
  <2>1. CASE DoStack = s
    <3>1. m \in 1 .. Len(st[s])
      BY <1>2, <1>4, <2>1
    <3>2. CASE n = Len(st[s]) + 1
      BY <1>2, <2>1, <3>1, <3>2
    <3>3. CASE n \in 1 .. Len(st[s])
      BY <1>2, <1>4, <2>1, <3>1, <3>3 DEF Nested
    <3> QED BY <1>2, <2>1, <3>2, <3>3
  <2>2. CASE DoStack # s
    BY <2>2, <1>1, <1>4, StackIds DEF Nested
  <2> QED BY <2>1, <2>2
<1>5. Nested(st2)
  BY <1>3, <1>4 DEF Nested
<1> QED BY <1>1, <1>5 DEF st2

\* The item that moves between the stacks of its holder.
LEMMA MoveNested ==
    ASSUME NEW st \in Stacks, NEW dir \in Direction, NEW h \in Holder, Nested(st)
    PROVE  LET st2 == PopPush(st, <<dir, h>>, <<Other(dir), h>>)
           IN /\ Nested(st2) /\ st2[DoStack] = st[DoStack]
              /\ \A e \in Direction, g \in Holder : g # h => st2[<<e, g>>] = st[<<e, g>>]
<1> DEFINE s == <<dir, h>>
           t == <<Other(dir), h>>
           i == Last(st[s])
<1>0. /\ s \in StackId /\ t \in StackId /\ DoStack \in StackId
      /\ s # DoStack /\ t # DoStack
      /\ \A e \in Direction, g \in Holder :
            <<e, g>> \in StackId /\ (g # h => <<e, g>> # s /\ <<e, g>> # t)
  BY StackIds
<1>1. CASE st[s] = <<>>
  BY <1>1 DEF PopPush
<1>2. CASE st[s] # <<>>
  <2>1. /\ Shrunk(Pop(st, s), st) /\ i \in Item /\ Len(st[s]) \in 1 .. Len(st[s])
        /\ \A u \in StackId \ {s} : Pop(st, s)[u] = st[u]
    BY <1>0, <1>2, PopShrinks
  <2>2. Pop(st, s) \in Stacks /\ Nested(Pop(st, s))
    BY <2>1, ShrunkNested DEF Shrunk
  <2>3. i > h
    BY <1>0, <2>1 DEF Nested, Last
  <2>4. PopPush(st, s, t) = Push(Pop(st, s), t, i)
    BY <1>2 DEF PopPush
  <2>5. t[2] = h
    OBVIOUS
  <2>6. /\ Nested(PopPush(st, s, t))
        /\ \A u \in StackId \ {t} : PopPush(st, s, t)[u] = Pop(st, s)[u]
    <3> HIDE DEF s, t, i
    <3> QED BY <1>0, <2>1, <2>2, <2>3, <2>4, <2>5, PushNested
  <2> HIDE DEF s, t, i
  <2>7. PopPush(st, s, t)[DoStack] = st[DoStack]
    BY <1>0, <2>1, <2>6
  <2>8. \A e \in Direction, g \in Holder : g # h => PopPush(st, s, t)[<<e, g>>] = st[<<e, g>>]
    BY <1>0, <2>1, <2>6
  <2> QED BY <2>6, <2>7, <2>8 DEF s, t
<1> QED BY <1>1, <1>2

----------------------------------------------------------------------------
(***************************************************************************)
(* Lemmas about the call stack.                                            *)
(***************************************************************************)

LEMMA FrameNumbers ==
    ASSUME NEW q \in Seq(Frame), NEW k \in 1 .. Len(q)
    PROVE  /\ q[k] \in Frame /\ q[k].item \in Nat
           /\ q[k].fn \in {"body", "kids", "item"}
           /\ q[k].fn # "body" => q[k].dir \in Direction
           /\ q[k].fn \in {"kids", "item"} => q[k].item \in Holder
<1>1. q[k] \in Frame
  BY ElementOfSeq
<1>2. Item \subseteq Nat /\ Holder \subseteq Nat /\ Item \subseteq Holder
  BY BoundsAssumption DEF Item, Holder
<1> QED BY <1>1, <1>2, FrameFields

\* Another call.
LEMMA AppendOrderly ==
    ASSUME NEW q \in Seq(Frame), NEW g \in Frame, NEW st, NEW bt, Orderly(q, st, bt),
           q # <<>> => Fits(q[Len(q)], g, st),
           g.fn = "body" => /\ g.item \notin bt
                            /\ \E m \in 1 .. Len(st[DoStack]) : st[DoStack][m] = g.item
    PROVE  Orderly(Append(q, g), st, bt) /\ Append(q, g) \in Seq(Frame)
<1> DEFINE r == Append(q, g)
           n == Len(q)
<1>1. /\ r \in Seq(Frame) /\ n \in Nat /\ Len(r) = n + 1 /\ r[n + 1] = g
      /\ \A k \in 1 .. n : r[k] = q[k]
  BY AppendProperties
<1>2. \A k \in 1 .. n + 1 : r[k].item \in Nat /\ r[k].fn \in {"body", "kids", "item"}
  BY <1>1, FrameNumbers
<1>3. CASE n = 0
  <2>1. r[1] = g /\ Len(r) = 1
    BY <1>1, <1>3
  <2> HIDE DEF r
  <2> QED BY <1>1, <2>1 DEF Orderly, Descends, Chained, BodiesAreDone
<1>4. CASE n > 0
  <2>1. n \in 1 .. n /\ q # <<>>
    BY <1>1, <1>4
  <2>2. Fits(q[n], g, st)
    BY <2>1
  <2>3. /\ q[n].item <= g.item
        /\ q[n].fn # "item" => q[n].item < g.item
        /\ q[n].fn = "body" <=> g.fn = "body"
    BY <1>1, <1>2, <2>1, <2>2 DEF Fits
  <2> HIDE DEF r
  <2>4. ASSUME NEW j \in 1 .. n
        PROVE  /\ q[j].item <= g.item
               /\ q[j].fn # "item" => q[j].item < g.item
               /\ q[j].fn = "body" <=> g.fn = "body"
    <3>1. CASE j = n
      BY <2>3, <3>1
    <3>2. CASE j < n
      <4>1. /\ q[j].item <= q[n].item
            /\ q[j].fn # "item" => q[j].item < q[n].item
            /\ q[j].fn = "body" <=> q[n].fn = "body"
        BY <2>1, <3>2 DEF Orderly, Descends
      <4>2. q[j].item \in Nat /\ q[n].item \in Nat /\ g.item \in Nat
        BY <1>1, <1>2, <2>1
      <4> QED BY <2>3, <4>1, <4>2
    <3> QED BY <1>1, <3>1, <3>2
  <2>5. Descends(r)
    <3> SUFFICES ASSUME NEW j \in 1 .. Len(r), NEW k \in 1 .. Len(r), j < k
                 PROVE  /\ r[j].item <= r[k].item
                        /\ r[j].fn # "item" => r[j].item < r[k].item
                        /\ r[j].fn = "body" <=> r[k].fn = "body"
      BY DEF Descends
    <3>1. j \in 1 .. n /\ r[j] = q[j]
      BY <1>1
    <3>2. CASE k = n + 1
      BY <1>1, <2>4, <3>1, <3>2
    <3>3. CASE k \in 1 .. n
      BY <1>1, <3>1, <3>3 DEF Orderly, Descends
    <3> QED BY <1>1, <3>2, <3>3
  <2>6. Chained(r, st)
    <3> SUFFICES ASSUME NEW k \in 1 .. n PROVE Fits(r[k], r[k + 1], st)
      BY <1>1 DEF Chained
    <3>1. CASE k = n
      BY <1>1, <2>2, <3>1
    <3>2. CASE k < n
      BY <1>1, <3>2 DEF Orderly, Chained
    <3> QED BY <1>1, <3>1, <3>2
  <2>7. BodiesAreDone(r, st, bt)
    BY <1>1 DEF Orderly, BodiesAreDone
  <2> QED BY <1>1, <2>5, <2>6, <2>7 DEF Orderly, r
<1> QED BY <1>1, <1>3, <1>4

\* What Orderly() reads of a frame.
Alike(f, g) == f.fn = g.fn /\ f.dir = g.dir /\ f.item = g.item

\* The calls that remain of q, in r, when the stacks have become st2.
LEMMA RemainOrderly ==
    ASSUME NEW q \in Seq(Frame), NEW r \in Seq(Frame), NEW st, NEW bt, NEW st2, NEW bt2,
           Orderly(q, st, bt), Len(r) <= Len(q),
           \A k \in 1 .. Len(r) : Alike(r[k], q[k]),
           \A k \in 1 .. Len(r) - 1 : q[k].fn = "kids" =>
              st2[<<q[k].dir, q[k].item>>] = st[<<q[k].dir, q[k].item>>],
           BodiesAreDone(r, st2, bt2)
    PROVE  Orderly(r, st2, bt2)
<1>0. Len(r) \in Nat /\ Len(q) \in Nat /\ \A k \in 1 .. Len(r) : k \in 1 .. Len(q)
  BY LenProperties
<1>1. Descends(r)
  BY <1>0 DEF Orderly, Descends, Alike
<1>2. Chained(r, st2)
  <2> SUFFICES ASSUME NEW k \in 1 .. Len(r) - 1 PROVE Fits(r[k], r[k + 1], st2)
    BY DEF Chained
  <2>1. k \in 1 .. Len(r) /\ k + 1 \in 1 .. Len(r) /\ k \in 1 .. Len(q) - 1
    BY <1>0
  <2>2. Fits(q[k], q[k + 1], st)
    BY <2>1 DEF Orderly, Chained
  <2>3. Alike(r[k], q[k]) /\ Alike(r[k + 1], q[k + 1])
    BY <2>1
  <2>4. q[k].fn = "kids" => st2[<<q[k].dir, q[k].item>>] = st[<<q[k].dir, q[k].item>>]
    BY <2>1
  <2> QED BY <2>2, <2>3, <2>4 DEF Fits, Alike
<1> QED BY <1>1, <1>2 DEF Orderly

\* A call returns, or goes on; the stacks stay.
LEMMA SameStacksOrderly ==
    ASSUME NEW q \in Seq(Frame), NEW r \in Seq(Frame), NEW st, NEW bt,
           Orderly(q, st, bt), Len(r) <= Len(q),
           \A k \in 1 .. Len(r) : Alike(r[k], q[k])
    PROVE  Orderly(r, st, bt)
<1>1. BodiesAreDone(r, st, bt)
  BY LenProperties DEF Orderly, BodiesAreDone, Alike
<1> QED BY <1>1, RemainOrderly

----------------------------------------------------------------------------
(***************************************************************************)
(* The steps of the clients.                                               *)
(***************************************************************************)

\* No undo or redo is in progress when a client runs, and none is begun while
\* one of them is a transaction being done.
LEMMA OnlyBodies ==
    ASSUME TypeOK, CallsInv, "reenter" \notin Env, ClientRuns
    PROVE  /\ \A k \in 1 .. Len(calls) : calls[k].fn = "body"
           /\ Running => Busy
<1>0. calls \in Seq(Frame) /\ Len(calls) \in Nat
  BY DEF TypeOK
<1>1. CASE ~ Running
  BY <1>1 DEF Running
<1>2. CASE Running
  <2>1. Callee = calls[Len(calls)] /\ Len(calls) \in 1 .. Len(calls) /\ Callee.fn = "body"
    <3>1. Callee.fn = "body"
      BY <1>2 DEF ClientRuns, In
    <3> QED BY <1>2, <3>1, CalleeType
  <2>2. \A k \in 1 .. Len(calls) : calls[k].fn = "body"
    <3> TAKE k \in 1 .. Len(calls)
    <3>1. CASE k < Len(calls)
      BY <2>1, <3>1 DEF CallsInv, Orderly, Descends
    <3>2. CASE k = Len(calls)
      BY <2>1, <3>2
    <3> QED BY <1>0, <3>1, <3>2
  <2>3. \E m \in 1 .. Len(stack[DoStack]) : stack[DoStack][m] = Callee.item
    BY <2>1 DEF CallsInv, Orderly, BodiesAreDone
  <2>4. stack[DoStack] # <<>>
    BY <2>3
  <2> QED BY <2>2, <2>4 DEF Busy
<1> QED BY <1>1, <1>2

\* The do stack has lost its last item.
Popped(st) ==
    /\ Len(st[DoStack]) = Len(stack[DoStack]) - 1
    /\ \A k \in 1 .. Len(stack[DoStack]) - 1 : st[DoStack][k] = stack[DoStack][k]

LEMMA EndTransactionNested ==
    ASSUME StackInv, Nested(stack), stack[DoStack] # <<>>, EndTransaction(Peek(DoStack))
    PROVE  Nested(stack') /\ Popped(stack')
<1> DEFINE i == Last(stack[DoStack])
           rest == Pop(stack, DoStack)
           parent == Last(rest[DoStack])
           undos == <<"undo", 0>>
           redos == <<"redo", 0>>
           noRedo == Clear(rest, redos)
           pruned == IF Overflows(noRedo) THEN PopBottom(noRedo, undos) ELSE noRedo
<1>1. /\ \/ stack' = rest \/ stack' = noRedo \/ stack' = Push(pruned, undos, i)
         \/ rest[DoStack] # <<>> /\ stack' = Push(rest, <<"undo", parent>>, i)
  BY DEF EndTransaction, Peek
<1>2. stack \in Stacks
  BY StackInvFacts
<1>3. /\ Shrunk(rest, stack) /\ Popped(rest) /\ i \in Item
      /\ Len(stack[DoStack]) \in 1 .. Len(stack[DoStack])
  BY <1>2, TopLevel, PopShrinks DEF Popped
<1>4. rest \in Stacks /\ Nested(rest)
  BY <1>2, <1>3, ShrunkNested DEF Shrunk
<1> HIDE DEF rest
<1>5. /\ Shrunk(noRedo, rest) /\ noRedo \in Stacks /\ noRedo[DoStack] = rest[DoStack]
  <2>1. noRedo[DoStack] = rest[DoStack]
    BY <1>4, TopLevel DEF Clear, Stacks
  <2> QED BY <1>4, <2>1, TopLevel, ClearShrinks DEF Shrunk
<1>6. Nested(noRedo)
  BY <1>4, <1>5, ShrunkNested
<1> HIDE DEF noRedo
<1>7. /\ pruned \in Stacks /\ Nested(pruned) /\ pruned[DoStack] = rest[DoStack]
  <2>1. /\ Shrunk(PopBottom(noRedo, undos), noRedo)
        /\ PopBottom(noRedo, undos)[DoStack] = noRedo[DoStack]
    BY <1>5, TopLevel, PopBottomShrinks
  <2>2. Nested(PopBottom(noRedo, undos)) /\ PopBottom(noRedo, undos) \in Stacks
    BY <1>5, <1>6, <2>1, ShrunkNested DEF Shrunk
  <2> QED BY <1>5, <1>6, <2>1, <2>2
<1> HIDE DEF pruned
<1>8. CASE stack' = rest
  BY <1>3, <1>4, <1>8
<1>9. CASE stack' = noRedo
  BY <1>3, <1>5, <1>6, <1>9 DEF Popped
<1>10. CASE stack' = Push(pruned, undos, i)
  <2>1. undos[2] = 0 /\ i > 0
    BY <1>3 DEF Item
  <2>2. undos \in StackId /\ undos # DoStack
    BY TopLevel
  <2> HIDE DEF undos, i
  <2>3. Nested(stack') /\ stack'[DoStack] = pruned[DoStack]
    BY <1>3, <1>7, <1>10, <2>1, <2>2, TopLevel, PushNested
  <2> QED BY <1>3, <1>7, <2>3 DEF Popped
<1>11. CASE rest[DoStack] # <<>> /\ stack' = Push(rest, <<"undo", parent>>, i)
  <2>1. /\ Len(rest[DoStack]) = Len(stack[DoStack]) - 1 /\ Len(stack[DoStack]) \in Nat
        /\ Len(rest[DoStack]) \in 1 .. Len(rest[DoStack]) /\ parent \in Item
    BY <1>2, <1>3, <1>4, <1>11, TopLevel, PopShrinks, StackNumbers DEF Popped
  <2>2. parent = stack[DoStack][Len(stack[DoStack]) - 1]
    BY <1>3, <2>1 DEF Popped, Last
  <2>3. i = stack[DoStack][Len(stack[DoStack])]
    BY DEF Last
  <2>4. parent < i
    BY <2>1, <2>2, <2>3 DEF Nested
  <2>5. parent \in Nat /\ i \in Nat
    BY <1>3, <2>1 DEF Item
  <2>6. <<"undo", parent>> \in StackId /\ <<"undo", parent>> # DoStack
    BY <2>1, TopLevel, StackIds
  <2> DEFINE s == <<"undo", parent>>
  <2>7. s[2] = parent
    OBVIOUS
  <2>8. s \in StackId /\ s # DoStack /\ stack' = Push(rest, s, i)
    BY <1>11, <2>6
  <2> HIDE DEF s, i, parent
  <2>9. Nested(stack') /\ stack'[DoStack] = rest[DoStack]
    BY <1>3, <1>4, <2>4, <2>5, <2>7, <2>8, TopLevel, PushNested
  <2> QED BY <1>3, <2>9 DEF Popped
<1> QED BY <1>1, <1>8, <1>9, <1>10, <1>11

\* The other transactions being done stay on the do stack.
LEMMA PoppedBodies ==
    ASSUME StackInv, CallsInv, Popped(stack'), batch' = batch,
           calls' \in Seq(Frame), Len(calls') <= Len(calls),
           \A k \in 1 .. Len(calls') :
              calls'[k] = calls[k] /\ calls[k].item # Peek(DoStack)
    PROVE  BodiesAreDone(calls', stack', batch')
<1> SUFFICES ASSUME NEW k \in 1 .. Len(calls'), calls'[k].fn = "body"
             PROVE  /\ calls'[k].item \notin batch'
                    /\ \E m \in 1 .. Len(stack'[DoStack]) :
                          stack'[DoStack][m] = calls'[k].item
  BY DEF BodiesAreDone
<1>1. k \in 1 .. Len(calls) /\ calls'[k] = calls[k] /\ calls[k].item # Peek(DoStack)
  BY LenProperties DEF StackInv, TypeOK
<1>2. calls[k].item \notin batch
  BY <1>1 DEF CallsInv, Orderly, BodiesAreDone
<1>3. PICK m \in 1 .. Len(stack[DoStack]) : stack[DoStack][m] = calls[k].item
  BY <1>1 DEF CallsInv, Orderly, BodiesAreDone
<1>4. m # Len(stack[DoStack])
  BY <1>1, <1>3 DEF Peek, Last
<1>5. Len(stack[DoStack]) \in Nat
  BY StackInvFacts, StackNumbers, StackIds
<1>6. m \in 1 .. Len(stack[DoStack]) - 1
  BY <1>3, <1>4, <1>5
<1>7. m \in 1 .. Len(stack'[DoStack]) /\ stack'[DoStack][m] = stack[DoStack][m]
  BY <1>6 DEF Popped
<1> QED BY <1>1, <1>2, <1>3, <1>7

\* A new item, on the do stack.
LEMMA NewItemOrderly ==
    ASSUME StackInv, CallsInv, RoomForItem,
           \A k \in 1 .. Len(calls) : calls[k].fn = "body",
           NEW bt, bt = batch \/ bt = batch \cup {created + 1}
    PROVE  LET st2 == Push(stack, DoStack, created + 1)
           IN /\ created + 1 \in Item /\ created + 1 \notin batch
              /\ Nested(st2) /\ Orderly(calls, st2, bt)
              /\ \E m \in 1 .. Len(st2[DoStack]) : st2[DoStack][m] = created + 1
              /\ \A k \in 1 .. Len(calls) : calls[k].item < created + 1
<1> DEFINE i == created + 1
           st2 == Push(stack, DoStack, i)
<1>1. /\ stack \in Stacks /\ created \in Nat /\ calls \in Seq(Frame)
      /\ batch \subseteq 1 .. created /\ Len(calls) \in Nat
      /\ \A j : IsHeld(stack, j) => j \in 1 .. created
  BY StackInvFacts DEF StackInv, TypeOK
<1>2. i \in Item /\ i \notin batch
  BY <1>1, BoundsAssumption DEF RoomForItem, Item
<1>3. \A m \in 1 .. Len(stack[DoStack]) : stack[DoStack][m] \in 1 .. created
  BY <1>1, StackIds DEF IsHeld
<1>4. \A m \in 1 .. Len(stack[DoStack]) : stack[DoStack][m] < i
  BY <1>1, <1>3
<1>5. Nested(st2)
  <2> HIDE DEF i
  <2> QED BY <1>1, <1>2, <1>4, StackIds, PushNested DEF CallsInv
<1>6. /\ Len(st2[DoStack]) = Len(stack[DoStack]) + 1 /\ Len(stack[DoStack]) \in Nat
      /\ st2[DoStack][Len(stack[DoStack]) + 1] = i
      /\ \A k \in 1 .. Len(stack[DoStack]) : st2[DoStack][k] = stack[DoStack][k]
  <2>1. stack[DoStack] \in Seq(Item) /\ st2[DoStack] = Append(stack[DoStack], i)
    BY <1>1, StackIds DEF Stacks, Push
  <2> QED BY <1>2, <2>1, AppendProperties
<1> HIDE DEF st2
<1>7. \E m \in 1 .. Len(st2[DoStack]) : st2[DoStack][m] = i
  BY <1>6
<1>8. ASSUME NEW k \in 1 .. Len(calls)
      PROVE  /\ calls[k].item < i /\ calls[k].item \notin bt
             /\ \E m \in 1 .. Len(st2[DoStack]) : st2[DoStack][m] = calls[k].item
  <2>1. PICK m \in 1 .. Len(stack[DoStack]) : stack[DoStack][m] = calls[k].item
    BY DEF CallsInv, Orderly, BodiesAreDone
  <2>2. calls[k].item \notin batch
    BY DEF CallsInv, Orderly, BodiesAreDone
  <2>3. m \in 1 .. Len(st2[DoStack]) /\ st2[DoStack][m] = calls[k].item
    BY <1>6, <2>1
  <2>4. calls[k].item < i /\ calls[k].item \in 1 .. created
    BY <1>3, <1>4, <2>1
  <2> QED BY <1>1, <2>2, <2>3, <2>4
<1>9. BodiesAreDone(calls, st2, bt)
  BY <1>8 DEF BodiesAreDone
<1>10. Orderly(calls, st2, bt)
  <2>1. Orderly(calls, stack, batch)
    BY DEF CallsInv
  <2>2. /\ \A k \in 1 .. Len(calls) : Alike(calls[k], calls[k])
        /\ \A k \in 1 .. Len(calls) - 1 : calls[k].fn # "kids"
    BY <1>1 DEF Alike
  <2> QED BY <1>1, <1>9, <2>1, <2>2, RemainOrderly
<1> QED BY <1>2, <1>5, <1>7, <1>8, <1>10 DEF st2

\* The stacks of the manager are cut: the do stack and the calls stay.
LEMMA CutOrderly ==
    ASSUME StackInv, CallsInv, \A k \in 1 .. Len(calls) : calls[k].fn = "body",
           NEW st2, Shrunk(st2, stack), st2[DoStack] = stack[DoStack]
    PROVE  Nested(st2) /\ Orderly(calls, st2, batch)
<1>1. /\ stack \in Stacks /\ calls \in Seq(Frame) /\ Len(calls) \in Nat
      /\ Nested(stack) /\ Orderly(calls, stack, batch)
  BY StackInvFacts DEF StackInv, TypeOK, CallsInv
<1>2. Nested(st2)
  BY <1>1, ShrunkNested
<1>3. BodiesAreDone(calls, st2, batch)
  BY <1>1 DEF Orderly, BodiesAreDone
<1>4. /\ \A k \in 1 .. Len(calls) : Alike(calls[k], calls[k])
      /\ \A k \in 1 .. Len(calls) - 1 : calls[k].fn # "kids"
  BY <1>1 DEF Alike
<1> QED BY <1>1, <1>2, <1>3, <1>4, RemainOrderly

\* A batch ends: the transactions being done stay on the do stack.
LEMMA EndBatchOrderly ==
    ASSUME StackInv, CallsInv, \A k \in 1 .. Len(calls) : calls[k].fn = "body",
           EndBatch
    PROVE  CallsInv'
<1>1. /\ stack \in Stacks /\ calls \in Seq(Frame) /\ Len(calls) \in Nat
      /\ Nested(stack) /\ Orderly(calls, stack, batch)
  BY StackInvFacts DEF StackInv, TypeOK, CallsInv
<1>2. calls' = calls /\ batch' = batch
  BY DEF EndBatch
<1>3. CASE stack' = stack
  BY <1>2, <1>3 DEF CallsInv, Nested, Orderly, Descends, Chained, Fits, BodiesAreDone
<1>4. CASE BatchOpen /\ EndTransaction(Peek(DoStack))
  <2>1. Nested(stack') /\ Popped(stack')
    BY <1>1, <1>4, EndTransactionNested DEF BatchOpen
  <2>2. \A k \in 1 .. Len(calls) : calls[k].item # Peek(DoStack)
    BY <1>1, <1>4 DEF BatchOpen, Orderly, BodiesAreDone
  <2>3. BodiesAreDone(calls', stack', batch')
    BY <1>1, <1>2, <2>1, <2>2, PoppedBodies
  <2>4. /\ \A k \in 1 .. Len(calls') : Alike(calls'[k], calls[k])
        /\ \A k \in 1 .. Len(calls') - 1 : calls[k].fn # "kids"
    BY <1>1, <1>2 DEF Alike
  <2>5. Orderly(calls', stack', batch')
    BY <1>1, <1>2, <2>3, <2>4, RemainOrderly
  <2> QED BY <2>1, <2>5 DEF CallsInv, Nested, Orderly, Descends, Chained, Fits, BodiesAreDone
<1> QED BY <1>3, <1>4 DEF EndBatch

LEMMA CallsInvNext ==
    ASSUME Nested(stack'), Orderly(calls', stack', batch') PROVE CallsInv'
BY DEF CallsInv, Nested, Orderly, Descends, Chained, Fits, BodiesAreDone

LEMMA ClientCalls ==
    ASSUME StackInv, CallsInv, "reenter" \notin Env, Client
    PROVE  CallsInv'
<1>1. /\ stack \in Stacks /\ calls \in Seq(Frame) /\ Len(calls) \in Nat /\ TypeOK
      /\ Nested(stack) /\ Orderly(calls, stack, batch) /\ created \in Nat
  BY StackInvFacts DEF StackInv, TypeOK, CallsInv
<1>2. /\ \A k \in 1 .. Len(calls) : calls[k].fn = "body"
      /\ Running => Busy
  <2>1. ClientRuns
    BY DEF Client, Vetoed, DoTransaction, BeginBatch, EndBatch, ClearHistory,
           SetMaxTransactionCount, UndoOrRedo
  <2> QED BY <1>1, <2>1, OnlyBodies
<1>3. ASSUME UNCHANGED <<stack, batch, calls>> PROVE CallsInv'
  BY <1>1, <1>3, CallsInvNext
<1>4. CASE Vetoed
  BY <1>3, <1>4 DEF Vetoed
<1>5. CASE DoTransaction
  <2> DEFINE i == created + 1
             st2 == Push(stack, DoStack, i)
             g == MkFrame("body", "do", i, "running", 0)
  <2>1. /\ RoomForItem /\ stack' = st2 /\ calls' = Append(calls, g) /\ batch' = batch
    BY <1>5 DEF DoTransaction
  <2>2. /\ i \in Item /\ i \notin batch /\ Nested(st2) /\ Orderly(calls, st2, batch)
        /\ \E m \in 1 .. Len(st2[DoStack]) : st2[DoStack][m] = i
        /\ \A k \in 1 .. Len(calls) : calls[k].item < i
    BY <1>2, <2>1, NewItemOrderly
  <2>3. g \in Frame /\ g.fn = "body" /\ g.item = i
    BY <1>1, <2>2, NewFrames DEF MkFrame
  <2> HIDE DEF st2, g, i
  <2>4. calls # <<>> => Len(calls) \in 1 .. Len(calls)
    BY <1>1, CalleeType DEF Running
  <2>5. calls # <<>> => Fits(calls[Len(calls)], g, st2)
    BY <1>2, <2>2, <2>3, <2>4 DEF Fits
  <2>6. Orderly(Append(calls, g), st2, batch)
    BY <1>1, <2>2, <2>3, <2>5, AppendOrderly
  <2> QED BY <2>1, <2>2, <2>6, CallsInvNext
<1>6. CASE BeginBatch
  <2>1. /\ RoomForItem /\ stack' = Push(stack, DoStack, created + 1) /\ calls' = calls
        /\ batch' = batch \cup {created + 1}
    BY <1>6 DEF BeginBatch
  <2>2. Nested(stack') /\ Orderly(calls, stack', batch')
    BY <1>2, <2>1, NewItemOrderly
  <2> QED BY <2>1, <2>2, CallsInvNext
<1>7. CASE EndBatch
  BY <1>2, <1>7, EndBatchOrderly
<1>8. CASE ClearHistory
  <2> DEFINE noRedo == Clear(stack, <<"redo", 0>>)
  <2>1. stack' = Clear(noRedo, <<"undo", 0>>) /\ calls' = calls /\ batch' = batch
    BY <1>8 DEF ClearHistory
  <2>2. Shrunk(noRedo, stack) /\ noRedo \in Stacks /\ noRedo[DoStack] = stack[DoStack]
    BY <1>1, TopLevel, ClearShrinks DEF Shrunk, Clear, Stacks
  <2> HIDE DEF noRedo
  <2>3. /\ Shrunk(stack', noRedo) /\ stack' \in Stacks
        /\ stack'[DoStack] = stack[DoStack]
    BY <2>1, <2>2, TopLevel, ClearShrinks DEF Shrunk, Clear, Stacks
  <2>4. Nested(stack') /\ Orderly(calls, stack', batch)
    BY <1>1, <1>2, <2>2, <2>3, ShrunkTrans, CutOrderly
  <2> QED BY <2>1, <2>4, CallsInvNext
<1>9. CASE SetMaxTransactionCount
  <2>1. calls' = calls /\ batch' = batch
    BY <1>9 DEF SetMaxTransactionCount
  <2>2. Shrunk(stack', stack) /\ stack'[DoStack] = stack[DoStack]
    <3>1. CASE stack' = stack
      BY <1>1, <3>1, ShrunkRefl
    <3>2. CASE stack' # stack
      <4> DEFINE undos == Len(stack[<<"undo", 0>>])
                 redos == Len(stack[<<"redo", 0>>])
                 left(n) == IF undos + redos <= n THEN undos
                            ELSE IF redos < n THEN n - redos ELSE 0
      <4>1. PICK n \in Counts :
              /\ ~ (n < 0)
              /\ stack' = Prune(Prune(stack, <<"undo", 0>>, left(n)),
                                <<"redo", 0>>, n - left(n))
        BY <1>9, <3>2 DEF SetMaxTransactionCount
      <4>2. n \in Nat /\ undos \in Nat /\ redos \in Nat
        BY <1>1, <4>1, CountsAssumption, TopLevel, StackNumbers
      <4>3. left(n) \in Nat /\ n - left(n) \in Nat
        <5> HIDE DEF undos, redos
        <5> QED BY <4>2
      <4>4. PICK a \in Nat, b \in Nat :
              stack' = Prune(Prune(stack, <<"undo", 0>>, a), <<"redo", 0>>, b)
        BY <4>1, <4>3
      <4> DEFINE mid == Prune(stack, <<"undo", 0>>, a)
      <4>5. Shrunk(mid, stack) /\ mid \in Stacks /\ mid[DoStack] = stack[DoStack]
        <5>1. DoStack \in StackId \ {<<"undo", 0>>} /\ <<"undo", 0>> \in StackId
          BY TopLevel
        <5>2. /\ Shrunk(mid, stack)
              /\ \A t \in StackId \ {<<"undo", 0>>} : mid[t] = stack[t]
          BY <1>1, <4>4, <5>1, PruneShrinks
        <5> QED BY <5>1, <5>2 DEF Shrunk
      <4>6. stack' = Prune(mid, <<"redo", 0>>, b)
        BY <4>4
      <4> HIDE DEF mid
      <4>7. DoStack \in StackId \ {<<"redo", 0>>} /\ <<"redo", 0>> \in StackId
        BY TopLevel
      <4>8. /\ Shrunk(stack', mid)
            /\ \A t \in StackId \ {<<"redo", 0>>} : stack'[t] = mid[t]
        BY <4>5, <4>6, <4>7, PruneShrinks
      <4>9. /\ Shrunk(stack', mid) /\ stack' \in Stacks
            /\ stack'[DoStack] = stack[DoStack]
        BY <4>5, <4>7, <4>8 DEF Shrunk
      <4> QED BY <1>1, <4>5, <4>9, ShrunkTrans
    <3> QED BY <3>1, <3>2
  <2>3. Nested(stack') /\ Orderly(calls, stack', batch)
    BY <1>2, <2>2, CutOrderly
  <2> QED BY <2>1, <2>3, CallsInvNext
<1>10. ASSUME NEW dir \in Direction, UndoOrRedo(dir)
       PROVE  CallsInv'
  <2>1. CASE calls' = calls
    BY <1>3, <1>10, <2>1 DEF UndoOrRedo
  <2>2. CASE calls' # calls
    <3> DEFINE g == MkFrame("kids", dir, 0, "loop", 1)
    <3>1. /\ ~ Busy /\ calls' = Append(calls, g)
          /\ UNCHANGED <<stack, batch>>
      BY <1>10, <2>2 DEF UndoOrRedo
    <3>2. calls = <<>>
      BY <1>2, <3>1 DEF Running
    <3>3. g \in Frame /\ g.fn = "kids"
      BY <1>1, NewFrames, StackIds DEF MkFrame
    <3> HIDE DEF g
    <3>4. Orderly(Append(calls, g), stack, batch)
      BY <1>1, <3>2, <3>3, AppendOrderly
    <3> QED BY <1>1, <3>1, <3>4, CallsInvNext
  <2> QED BY <2>1, <2>2
<1> QED BY <1>4, <1>5, <1>6, <1>7, <1>8, <1>9, <1>10 DEF Client

----------------------------------------------------------------------------
(***************************************************************************)
(* The steps of the calls in progress.                                     *)
(***************************************************************************)

\* The innermost call, having gone on as f.
LEMMA CalleeGoesOn ==
    ASSUME TypeOK, Running, NEW f \in Frame, Alike(f, Callee)
    PROVE  LET r == Append(Front(calls), f)
           IN /\ r \in Seq(Frame) /\ Len(r) = Len(calls) /\ Len(r) \in 1 .. Len(r)
              /\ r # <<>> /\ r[Len(r)] = f
              /\ \A k \in 1 .. Len(r) : Alike(r[k], calls[k])
<1> DEFINE r == Append(Front(calls), f)
<1>1. /\ Len(calls) \in Nat /\ Len(calls) >= 1 /\ Callee = calls[Len(calls)]
      /\ Front(calls) \in Seq(Frame) /\ Len(Front(calls)) = Len(calls) - 1
      /\ \A k \in 1 .. Len(calls) - 1 : Front(calls)[k] = calls[k]
  BY CalleeType
<1>2. /\ r \in Seq(Frame) /\ Len(r) = Len(calls) - 1 + 1 /\ r[Len(calls) - 1 + 1] = f
      /\ \A k \in 1 .. Len(calls) - 1 : r[k] = calls[k]
  BY <1>1, AppendProperties
<1> HIDE DEF r
<1>3. Len(r) = Len(calls) /\ Len(r) \in 1 .. Len(r) /\ r[Len(r)] = f /\ r # <<>>
  BY <1>1, <1>2
<1>4. \A k \in 1 .. Len(r) : Alike(r[k], calls[k])
  BY <1>1, <1>2, <1>3 DEF Alike
<1> QED BY <1>2, <1>3, <1>4 DEF r

LEMMA ReturnCalls ==
    ASSUME StackInv, CallsInv, Running, calls' = Front(calls), UNCHANGED <<stack, batch>>
    PROVE  CallsInv'
<1>1. TypeOK /\ calls \in Seq(Frame) /\ Nested(stack) /\ Orderly(calls, stack, batch)
  BY DEF StackInv, TypeOK, CallsInv
<1>2. /\ calls' \in Seq(Frame) /\ Len(calls') <= Len(calls)
      /\ \A k \in 1 .. Len(calls') : Alike(calls'[k], calls[k])
  BY <1>1, CalleeType DEF Alike
<1>3. Orderly(calls', stack, batch)
  BY <1>1, <1>2, SameStacksOrderly
<1> QED BY <1>1, <1>3, CallsInvNext

\* An item goes on by itself, or calls a loop over its own children.
LEMMA GoOnCalls ==
    ASSUME StackInv, CallsInv, Running, Callee.fn = "item", UNCHANGED <<stack, batch>>,
           NEW at \in {"kids", "calling", "recover"},
           \/ GoOn(at, <<>>)
           \/ \E dir \in Direction : GoOn(at, <<Kids(dir, Callee.item)>>)
    PROVE  CallsInv'
<1> DEFINE f == [Callee EXCEPT !.at = at]
           r == Append(Front(calls), f)
<1>1. /\ TypeOK /\ calls \in Seq(Frame) /\ Nested(stack) /\ Orderly(calls, stack, batch)
      /\ Callee \in Frame
  BY CalleeType DEF StackInv, TypeOK, CallsInv
<1>2. f \in Frame /\ Alike(f, Callee)
  BY <1>1, ChangedFrames DEF Alike, Frame
<1>3. /\ r \in Seq(Frame) /\ Len(r) = Len(calls) /\ r # <<>> /\ r[Len(r)] = f
      /\ \A k \in 1 .. Len(r) : Alike(r[k], calls[k])
  BY <1>1, <1>2, CalleeGoesOn
<1>4. Len(r) <= Len(calls)
  BY <1>1, <1>3, LenProperties
<1>5. Orderly(r, stack, batch)
  <2> HIDE DEF r
  <2> QED BY <1>1, <1>3, <1>4, SameStacksOrderly
<1>6. CASE GoOn(at, <<>>)
  <2>1. calls' = r
    <3>1. calls' = r \o <<>>
      BY <1>6 DEF GoOn
    <3> HIDE DEF r
    <3> QED BY <1>3, <3>1, ConcatEmptySeq
  <2> QED BY <1>1, <1>5, <2>1, CallsInvNext
<1>7. ASSUME NEW dir \in Direction, GoOn(at, <<Kids(dir, Callee.item)>>)
      PROVE  CallsInv'
  <2> DEFINE g == Kids(dir, Callee.item)
  <2>1. g \in Frame /\ g.fn = "kids" /\ g.item = Callee.item
    BY <1>1, NewFrames, StackIds, FrameFields DEF Kids, MkFrame
  <2>2. calls' = r \o <<g>>
    BY <1>7 DEF GoOn
  <2>3. Fits(f, g, stack)
    BY <1>2, <2>1 DEF Fits, Alike
  <2> HIDE DEF r, g, f
  <2>4. calls' = Append(r, g)
    BY <1>3, <2>1, <2>2, AppendIsConcat
  <2>5. Orderly(Append(r, g), stack, batch)
    BY <1>3, <1>5, <2>1, <2>3, AppendOrderly
  <2> QED BY <1>1, <2>4, <2>5, CallsInvNext
<1> QED BY <1>6, <1>7

LEMMA AppendTwo ==
    ASSUME NEW S, NEW q \in Seq(S), NEW a \in S, NEW b \in S
    PROVE  Append(Append(q, a), b) = q \o <<a, b>>
<1> DEFINE r == Append(q, a)
           t == <<a, b>>
<1>1. t \in Seq(S) /\ Len(t) = 2 /\ t[1] = a /\ t[2] = b
  OBVIOUS
<1> HIDE DEF t
<1>2. /\ r \in Seq(S) /\ Len(r) = Len(q) + 1 /\ Len(q) \in Nat
      /\ r[Len(q) + 1] = a /\ \A k \in 1 .. Len(q) : r[k] = q[k]
  BY AppendProperties
<1> HIDE DEF r
<1>3. /\ Append(r, b) \in Seq(S) /\ Len(Append(r, b)) = Len(r) + 1
      /\ Append(r, b)[Len(r) + 1] = b /\ \A k \in 1 .. Len(r) : Append(r, b)[k] = r[k]
  BY <1>2, AppendProperties
<1>4. /\ q \o t \in Seq(S) /\ Len(q \o t) = Len(q) + Len(t)
      /\ \A k \in 1 .. Len(q) + Len(t) :
            (q \o t)[k] = IF k <= Len(q) THEN q[k] ELSE t[k - Len(q)]
  BY <1>1, ConcatProperties
<1>5. Len(Append(r, b)) = Len(q \o t)
  BY <1>1, <1>2, <1>3, <1>4
<1>6. ASSUME NEW k \in 1 .. Len(Append(r, b))
      PROVE  Append(r, b)[k] = (q \o t)[k]
  <2>1. CASE k \in 1 .. Len(q)
    BY <1>2, <1>3, <1>4, <2>1
  <2>2. CASE k = Len(q) + 1
    BY <1>1, <1>2, <1>3, <1>4, <2>2
  <2>3. CASE k = Len(q) + 2
    BY <1>1, <1>2, <1>3, <1>4, <2>3
  <2>4. k \in 1 .. Len(q) \/ k = Len(q) + 1 \/ k = Len(q) + 2
    BY <1>2, <1>3
  <2> QED BY <2>1, <2>2, <2>3, <2>4
<1> QED BY <1>3, <1>4, <1>5, <1>6, SeqEqual DEF r, t

\* A loop calls the child on top of the stack it takes from.
LEMMA KidsCallCalls ==
    ASSUME StackInv, CallsInv, KidsCall PROVE CallsInv'
<1> DEFINE i == Last(stack[Source])
           f == Waiting(Callee)
           r == Append(Front(calls), f)
<1>1. /\ TypeOK /\ calls \in Seq(Frame) /\ Nested(stack) /\ Orderly(calls, stack, batch)
      /\ stack \in Stacks
  BY StackInvFacts DEF StackInv, TypeOK, CallsInv
<1>2. /\ Running /\ Callee.fn = "kids" /\ Callee.left > 0 /\ stack[Source] # <<>>
      /\ calls' = r \o Entered(Callee.dir, i) /\ UNCHANGED <<stack, batch>>
  BY DEF KidsCall, In, Peek
<1>3. Callee \in Frame /\ Callee.dir \in Direction /\ Callee.item \in Holder
  BY <1>1, <1>2, CalleeType, FrameFields
<1>4. f \in Frame /\ Alike(f, Callee)
  BY <1>2, <1>3, ChangedFrames DEF Alike, Waiting, Frame
<1>5. /\ r \in Seq(Frame) /\ Len(r) = Len(calls) /\ r # <<>> /\ r[Len(r)] = f
      /\ \A k \in 1 .. Len(r) : Alike(r[k], calls[k])
  BY <1>1, <1>2, <1>4, CalleeGoesOn
<1>6. Len(r) <= Len(calls)
  BY <1>1, <1>5, LenProperties
<1> HIDE DEF r
<1>7. Orderly(r, stack, batch)
  BY <1>1, <1>5, <1>6, SameStacksOrderly
<1>8. i \in Item /\ i > Callee.item
  <2>1. Source \in StackId /\ Source # DoStack /\ Source[2] = Callee.item
    BY <1>3, StackIds DEF Source
  <2>2. Len(stack[Source]) \in 1 .. Len(stack[Source]) /\ i \in Item
    BY <1>1, <1>2, <2>1, PopShrinks
  <2>3. stack[Source][Len(stack[Source])] > Source[2]
    BY <1>1, <2>1, <2>2 DEF Nested
  <2> QED BY <2>1, <2>2, <2>3 DEF Last
<1>9. PICK at \in {"kids", "calling"} :
        \/ Entered(Callee.dir, i) = <<MkFrame("item", Callee.dir, i, at, 0)>>
        \/ Entered(Callee.dir, i)
             = <<MkFrame("item", Callee.dir, i, at, 0), Kids(Callee.dir, i)>>
  BY DEF Entered
<1> DEFINE g == MkFrame("item", Callee.dir, i, at, 0)
           h == Kids(Callee.dir, i)
<1>10. /\ g \in Frame /\ g.fn = "item" /\ g.item = i
       /\ h \in Frame /\ h.fn = "kids" /\ h.item = i
  <2>1. i \in Holder
    BY <1>8, StackIds
  <2>2. g \in Frame /\ h \in Frame
    BY <1>1, <1>3, <1>8, <2>1, NewFrames
  <2> QED BY <2>2 DEF MkFrame, Kids
<1>11. Fits(f, g, stack)
  <2>1. f.fn = "kids" /\ f.item < i /\ <<f.dir, f.item>> = Source
    BY <1>2, <1>3, <1>4, <1>8 DEF Alike, Source
  <2> QED BY <1>2, <1>10, <2>1 DEF Fits
<1>12. Fits(g, h, stack)
  BY <1>10 DEF Fits
<1> HIDE DEF f, g, h, i
<1>13. Append(r, g) \in Seq(Frame) /\ Orderly(Append(r, g), stack, batch)
  BY <1>5, <1>7, <1>10, <1>11, AppendOrderly
<1>14. CASE calls' = r \o <<g>>
  <2>1. calls' = Append(r, g)
    BY <1>5, <1>10, <1>14, AppendIsConcat
  <2> QED BY <1>1, <1>2, <1>13, <2>1, CallsInvNext
<1>15. CASE calls' = r \o <<g, h>>
  <2> DEFINE q == Append(r, g)
  <2>1. /\ Len(q) = Len(r) + 1 /\ q[Len(r) + 1] = g /\ q # <<>>
        /\ Append(q, h) = r \o <<g, h>>
    BY <1>5, <1>10, AppendProperties, AppendTwo
  <2> HIDE DEF q
  <2>2. Orderly(Append(q, h), stack, batch)
    <3>1. q \in Seq(Frame) /\ Orderly(q, stack, batch)
      BY <1>13 DEF q
    <3>2. Fits(q[Len(q)], h, stack)
      BY <1>12, <2>1
    <3> QED BY <1>10, <3>1, <3>2, AppendOrderly
  <2> QED BY <1>1, <1>2, <1>15, <2>1, <2>2, CallsInvNext
<1> QED BY <1>2, <1>9, <1>14, <1>15 DEF g, h

\* A child has returned to a loop: only that loop's stacks change, and the
\* loops that wait are those of items created before its own.
LEMMA KidsMoveCalls ==
    ASSUME StackInv, CallsInv, KidsMove PROVE CallsInv'
<1>1. /\ TypeOK /\ calls \in Seq(Frame) /\ Nested(stack) /\ Orderly(calls, stack, batch)
      /\ stack \in Stacks
  BY StackInvFacts DEF StackInv, TypeOK, CallsInv
<1>2. PICK res \in DidNotify(ret) :
        calls' = Append(Front(calls), [Callee EXCEPT !.at = "loop", !.res = res])
  BY DEF KidsMove
<1>3. /\ Running /\ Callee.fn = "kids" /\ batch' = batch
      /\ stack' = stack \/ stack' = PopPush(stack, Source, Target)
  BY DEF KidsMove, In
<1>4. /\ Callee \in Frame /\ Callee.dir \in Direction /\ Callee.item \in Holder
      /\ Len(calls) \in Nat /\ Callee = calls[Len(calls)] /\ Len(calls) \in 1 .. Len(calls)
  BY <1>1, <1>3, CalleeType, FrameFields
<1> DEFINE f == [Callee EXCEPT !.at = "loop", !.res = res]
<1>5. f \in Frame /\ Alike(f, Callee)
  <2>1. res \in Result
    BY <1>1, <1>2 DEF DidNotify, TypeOK, Result
  <2> QED BY <1>3, <1>4, <2>1, ChangedFrames DEF Alike, Frame
<1>6. /\ calls' \in Seq(Frame) /\ Len(calls') = Len(calls)
      /\ \A k \in 1 .. Len(calls') : Alike(calls'[k], calls[k])
  BY <1>1, <1>2, <1>3, <1>5, CalleeGoesOn
<1>7. /\ Nested(stack') /\ stack'[DoStack] = stack[DoStack]
      /\ \A e \in Direction, g \in Holder :
            g # Callee.item => stack'[<<e, g>>] = stack[<<e, g>>]
  <2>1. CASE stack' = stack
    BY <1>1, <2>1
  <2>2. CASE stack' = PopPush(stack, Source, Target)
    <3> DEFINE dir == Callee.dir
               h == Callee.item
    <3>1. stack' = PopPush(stack, <<dir, h>>, <<Other(dir), h>>)
      BY <2>2 DEF Source, Target
    <3>2. dir \in Direction /\ h \in Holder
      BY <1>4
    <3> HIDE DEF dir, h
    <3>3. /\ Nested(stack') /\ stack'[DoStack] = stack[DoStack]
          /\ \A e \in Direction, g \in Holder :
                g # h => stack'[<<e, g>>] = stack[<<e, g>>]
      BY <1>1, <3>1, <3>2, MoveNested
    <3> QED BY <3>3 DEF h
  <2> QED BY <1>3, <2>1, <2>2
<1>8. ASSUME NEW k \in 1 .. Len(calls') - 1, calls[k].fn = "kids"
      PROVE  stack'[<<calls[k].dir, calls[k].item>>] = stack[<<calls[k].dir, calls[k].item>>]
  <2>1. k \in 1 .. Len(calls) /\ k < Len(calls)
    BY <1>4, <1>6
  <2>2. calls[k].item < Callee.item
    BY <1>1, <1>4, <1>8, <2>1 DEF Orderly, Descends
  <2>3. /\ calls[k].item \in Nat /\ Callee.item \in Nat
        /\ calls[k].dir \in Direction /\ calls[k].item \in Holder
    BY <1>1, <1>4, <1>8, <2>1, FrameNumbers
  <2>4. calls[k].item # Callee.item
    BY <2>2, <2>3
  <2> QED BY <1>7, <2>3, <2>4
<1>9. BodiesAreDone(calls', stack', batch)
  BY <1>1, <1>6, <1>7 DEF Orderly, BodiesAreDone, Alike
<1>10. Orderly(calls', stack', batch)
  <2>1. Len(calls') <= Len(calls)
    BY <1>4, <1>6
  <2> QED BY <1>1, <1>6, <1>8, <1>9, <2>1, RemainOrderly
<1> QED BY <1>3, <1>7, <1>10, CallsInvNext

\* A doTransaction() returns: those that remain are of items created before.
\* The item on top of the do stack was created last of those on it.
LEMMA TopIsLatest ==
    ASSUME stack \in Stacks, Nested(stack), stack[DoStack] # <<>>,
           NEW m \in 1 .. Len(stack[DoStack])
    PROVE  stack[DoStack][m] <= Peek(DoStack) /\ Peek(DoStack) \in Nat
<1>1. Len(stack[DoStack]) \in 1 .. Len(stack[DoStack])
  BY TopLevel, PopShrinks
<1>2. Peek(DoStack) = stack[DoStack][Len(stack[DoStack])]
  BY DEF Peek, Last
<1>3. /\ stack[DoStack][m] \in Nat /\ Peek(DoStack) \in Nat
      /\ m \in Nat /\ Len(stack[DoStack]) \in Nat
  BY <1>1, <1>2, StackIds, StackNumbers
<1>4. CASE m = Len(stack[DoStack])
  BY <1>2, <1>3, <1>4
<1>5. CASE m < Len(stack[DoStack])
  BY <1>1, <1>2, <1>3, <1>5 DEF Nested
<1> QED BY <1>3, <1>4, <1>5

LEMMA DoneCalls ==
    ASSUME StackInv, CallsInv, DoReturns \/ DoFails PROVE CallsInv'
<1>1. /\ TypeOK /\ calls \in Seq(Frame) /\ Nested(stack) /\ Orderly(calls, stack, batch)
      /\ stack \in Stacks
  BY StackInvFacts DEF StackInv, TypeOK, CallsInv
<1>2. /\ Running /\ Callee.fn = "body" /\ stack[DoStack] # <<>>
      /\ calls' = Front(calls) /\ batch' = batch
      /\ EndTransaction(Peek(DoStack)) \/ stack' = Pop(stack, DoStack)
  BY DEF DoReturns, DoFails, BodyReturns, In, Return
<1>3. Nested(stack') /\ Popped(stack')
  <2>1. CASE EndTransaction(Peek(DoStack))
    BY <1>1, <1>2, <2>1, EndTransactionNested
  <2>2. CASE stack' = Pop(stack, DoStack)
    <3>1. Shrunk(stack', stack) /\ Popped(stack')
      BY <1>1, <1>2, <2>2, TopLevel, PopShrinks DEF Popped
    <3> QED BY <1>1, <3>1, ShrunkNested
  <2> QED BY <1>2, <2>1, <2>2
<1>4. /\ calls' \in Seq(Frame) /\ Len(calls') <= Len(calls)
      /\ \A k \in 1 .. Len(calls') : calls'[k] = calls[k]
      /\ Callee = calls[Len(calls)] /\ Len(calls) \in 1 .. Len(calls)
      /\ \A k \in 1 .. Len(calls') : k \in 1 .. Len(calls) /\ k < Len(calls)
  BY <1>1, <1>2, CalleeType
<1>5. ASSUME NEW k \in 1 .. Len(calls')
      PROVE  calls[k].item # Peek(DoStack) /\ calls[k].fn # "kids"
  <2>1. k \in 1 .. Len(calls) /\ k < Len(calls)
    BY <1>4
  <2>2. calls[k].fn = "body" /\ calls[k].item < Callee.item
    BY <1>1, <1>2, <1>4, <2>1 DEF Orderly, Descends
  <2>3. calls[k].item \in Nat /\ Callee.item \in Nat
    BY <1>1, <1>4, <2>1, FrameNumbers
  <2>4. PICK m \in 1 .. Len(stack[DoStack]) : stack[DoStack][m] = Callee.item
    BY <1>1, <1>2, <1>4 DEF Orderly, BodiesAreDone
  <2>5. Callee.item <= Peek(DoStack) /\ Peek(DoStack) \in Nat
    BY <1>1, <1>2, <2>4, TopIsLatest
  <2> QED BY <2>2, <2>3, <2>5
<1>6. BodiesAreDone(calls', stack', batch')
  BY <1>2, <1>3, <1>4, <1>5, PoppedBodies
<1>7. Orderly(calls', stack', batch')
  <2>1. \A k \in 1 .. Len(calls') : Alike(calls'[k], calls[k])
    BY <1>4 DEF Alike
  <2>2. \A k \in 1 .. Len(calls') - 1 : calls[k].fn # "kids"
    BY <1>4, <1>5, LenProperties
  <2> QED BY <1>1, <1>4, <1>6, <2>1, <2>2, RemainOrderly
<1> QED BY <1>3, <1>7, CallsInvNext

LEMMA ProgressCalls ==
    ASSUME StackInv, CallsInv, "reenter" \notin Env, Progress
    PROVE  CallsInv'
<1>1. TypeOK
  BY DEF StackInv
<1>2. ASSUME Running, NEW r, Return(r), UNCHANGED <<stack, batch>> PROVE CallsInv'
  BY <1>2, ReturnCalls DEF Return
<1>3. ASSUME Running, Callee.fn = "item", UNCHANGED <<stack, batch>>,
             NEW at \in {"kids", "calling", "recover"},
             \/ GoOn(at, <<>>)
             \/ GoOn(at, <<Kids("undo", Callee.item)>>)
             \/ GoOn(at, <<Kids("redo", Callee.item)>>)
      PROVE  CallsInv'
  BY <1>3, GoOnCalls, StackIds
<1>4. CASE DoReturns \/ DoFails
  BY <1>4, DoneCalls
<1>5. CASE Running /\ BatchOpen /\ EndBatch
  <2>1. \A k \in 1 .. Len(calls) : calls[k].fn = "body"
    BY <1>1, <1>5, OnlyBodies DEF EndBatch
  <2> QED BY <1>5, <2>1, EndBatchOrderly
<1>6. CASE KidsEnd \/ KidsVetoed
  BY <1>2, <1>6 DEF KidsEnd, KidsVetoed, In
<1>7. CASE KidsCall \/ KidsMove
  BY <1>7, KidsCallCalls, KidsMoveCalls
<1>8. CASE UndoItemKidsDone
  <2>1. /\ Running /\ Callee.fn = "item" /\ UNCHANGED <<stack, batch>>
        /\ \/ Return("ok")
           \/ GoOn("calling", <<>>)
           \/ GoOn("recover", <<Kids("redo", Callee.item)>>)
    BY <1>8 DEF UndoItemKidsDone, In, RecoverFromUndoError
  <2> QED BY <1>2, <1>3, <2>1
<1>9. CASE UndoItemCalled
  <2>1. /\ Running /\ Callee.fn = "item" /\ UNCHANGED <<stack, batch>>
        /\ Return("ok") \/ GoOn("recover", <<Kids("redo", Callee.item)>>)
    BY <1>9 DEF UndoItemCalled, In, RecoverFromUndoError
  <2> QED BY <1>2, <1>3, <2>1
<1>10. CASE UndoItemRecovered \/ RedoItemRecovered
  BY <1>2, <1>10 DEF UndoItemRecovered, RedoItemRecovered, In
<1>11. CASE RedoItemCalled
  <2>1. /\ Running /\ Callee.fn = "item" /\ UNCHANGED <<stack, batch>>
        /\ Return("fail") \/ GoOn("kids", <<Kids("redo", Callee.item)>>)
    BY <1>11 DEF RedoItemCalled, In
  <2> QED BY <1>2, <1>3, <2>1
<1>12. CASE RedoItemKidsDone
  <2>1. /\ Running /\ Callee.fn = "item" /\ UNCHANGED <<stack, batch>>
        /\ Return("ok") \/ GoOn("recover", <<Kids("undo", Callee.item)>>)
    BY <1>12 DEF RedoItemKidsDone, In, RecoverFromRedoError
  <2> QED BY <1>2, <1>3, <2>1
<1> QED BY <1>4, <1>5, <1>6, <1>7, <1>8, <1>9, <1>10, <1>11, <1>12 DEF Progress

----------------------------------------------------------------------------
(***************************************************************************)
(* The theorems.                                                            *)
(***************************************************************************)

LEMMA CallsInvInit ==
    ASSUME Init PROVE CallsInv
<1>1. /\ calls = <<>> /\ Len(calls) = 0
      /\ \A s \in StackId : stack[s] = <<>> /\ Len(stack[s]) = 0
  BY DEF Init
<1>2. Nested(stack)
  BY <1>1, StackIds DEF Nested
<1>3. Orderly(calls, stack, batch)
  BY <1>1 DEF Orderly, Descends, Chained, BodiesAreDone
<1> QED BY <1>2, <1>3 DEF CallsInv

LEMMA CallsInvStep ==
    ASSUME StackInv, CallsInv, "reenter" \notin Env, [Next]_vars
    PROVE  CallsInv'
<1>1. CASE Client
  BY <1>1, ClientCalls
<1>2. CASE Progress
  BY <1>2, ProgressCalls
<1>3. CASE UNCHANGED vars
  <2>1. UNCHANGED <<stack, batch, calls>>
    BY <1>3 DEF vars
  <2>2. Nested(stack') /\ Orderly(calls', stack', batch')
    BY <2>1 DEF CallsInv
  <2> QED BY <2>2, CallsInvNext
<1> QED BY <1>1, <1>2, <1>3 DEF Next

LEMMA CallsPopWhatTheyPeeked ==
    ASSUME CallsInv PROVE PopsWhatItPeeked
<1> SUFFICES ASSUME NEW k \in 1 .. Len(calls) - 1,
                    calls[k].fn = "kids", calls[k + 1].fn = "item"
             PROVE  LET s == stack[<<calls[k].dir, calls[k].item>>]
                    IN s # <<>> /\ Last(s) = calls[k + 1].item
  BY DEF PopsWhatItPeeked
<1>1. Fits(calls[k], calls[k + 1], stack)
  BY DEF CallsInv, Orderly, Chained
<1> QED BY <1>1 DEF Fits

\* Whatever doTransaction() and the listeners do, and as long as what is undone
\* or redone does not itself call the manager, UndoTransaction(),
\* RedoTransaction() and the loops over the children pop off a stack the item
\* they had peeked at, although in between foreign code has run, children have
\* moved, and failures have been taken back: a loop below the innermost one is
\* that of an item created earlier, whose stacks nobody touches.
THEOREM UndoPopsWhatItPeeked ==
    ASSUME "reenter" \notin Env
    PROVE  Spec => []PopsWhatItPeeked
<1>1. Init => CallsInv
  BY CallsInvInit
<1>2. StackInv /\ CallsInv /\ [Next]_vars => CallsInv'
  BY CallsInvStep
<1>3. CallsInv => PopsWhatItPeeked
  BY CallsPopWhatTheyPeeked
<1> QED BY <1>1, <1>2, <1>3, StackInvariance, PTL DEF Spec

\* The calls in progress are either all of them transactions being done, or
\* all of them parts of one undo or redo.
DoingOrUndoing ==
    \A j, k \in 1 .. Len(calls) : calls[j].fn = "body" <=> calls[k].fn = "body"

\* As long as what is undone or redone does not itself call the manager, doing
\* and undoing never nest: UndoTransaction() and RedoTransaction() called from
\* within a doTransaction() are refused, because the transaction that runs is
\* still on the do stack, whatever other transactions and batches it has begun
\* and ended there in the meantime.
THEOREM DoingAndUndoingNeverNest ==
    ASSUME "reenter" \notin Env
    PROVE  Spec => []DoingOrUndoing
<1>1. Init => CallsInv
  BY CallsInvInit
<1>2. StackInv /\ CallsInv /\ [Next]_vars => CallsInv'
  BY CallsInvStep
<1>3. StackInv /\ CallsInv => DoingOrUndoing
  <2> SUFFICES ASSUME StackInv, CallsInv, NEW j \in 1 .. Len(calls), NEW k \in 1 .. Len(calls)
               PROVE  calls[j].fn = "body" <=> calls[k].fn = "body"
    BY DEF DoingOrUndoing
  <2>1. j < k => (calls[j].fn = "body" <=> calls[k].fn = "body")
    BY DEF CallsInv, Orderly, Descends
  <2>2. k < j => (calls[k].fn = "body" <=> calls[j].fn = "body")
    BY DEF CallsInv, Orderly, Descends
  <2>3. Len(calls) \in Nat
    BY DEF StackInv, TypeOK
  <2>4. j < k \/ k < j \/ j = k
    BY <2>3
  <2> QED BY <2>1, <2>2, <2>4
<1> QED BY <1>1, <1>2, <1>3, StackInvariance, PTL DEF Spec

----------------------------------------------------------------------------
(***************************************************************************)
(* The do stack and the doTransaction()s that run, whatever the clients    *)
(* do: also when what is undone or redone calls the manager, and when a    *)
(* doTransaction() returns with a batch open.                              *)
(***************************************************************************)

\* The calls of q that are of a doTransaction().
Bodies(q) == {k \in 1 .. Len(q) : q[k].fn = "body"}

\* The places of the do stack of st that hold no batch.
Doing(st, bt) == {m \in 1 .. Len(st[DoStack]) : st[DoStack][m] \notin bt}

\* Later calls are of items created later.
BodiesRise(q) == \A j, k \in Bodies(q) : j < k => q[j].item < q[k].item

BodiesAreDoing(q, st, bt) ==
    \A k \in Bodies(q) : \E m \in Doing(st, bt) : st[DoStack][m] = q[k].item

\* A transaction is on the do stack of st and its doTransaction() is not in q.
Stranded(q, st, bt) ==
    \E m \in Doing(st, bt) : \A k \in Bodies(q) : q[k].item # st[DoStack][m]

IsStranded == Stranded(calls, stack, batch)
WillBeStranded == Stranded(calls', stack', batch')

DoInv == Nested(stack) /\ BodiesRise(calls) /\ BodiesAreDoing(calls, stack, batch)

\* The same doTransaction()s run in q and in r.
SameBodies(q, r) ==
    /\ Bodies(r) = Bodies(q)
    /\ \A k \in Bodies(q) : r[k].item = q[k].item

LEMMA DoInvNext ==
    ASSUME Nested(stack'), BodiesRise(calls'), BodiesAreDoing(calls', stack', batch')
    PROVE  DoInv'
BY DEF DoInv, Nested, BodiesRise, BodiesAreDoing, Bodies, Doing

\* Steps of neither the do stack nor a doTransaction().
LEMMA SameDoing ==
    ASSUME DoInv, Nested(stack'), stack'[DoStack] = stack[DoStack], batch' = batch,
           SameBodies(calls, calls')
    PROVE  DoInv' /\ (WillBeStranded <=> IsStranded)
<1>1. BodiesRise(calls')
  BY DEF DoInv, BodiesRise, SameBodies
<1>2. Doing(stack', batch') = Doing(stack, batch)
  BY DEF Doing
<1>3. BodiesAreDoing(calls', stack', batch')
  BY <1>2 DEF DoInv, BodiesAreDoing, SameBodies
<1>4. WillBeStranded <=> IsStranded
  BY <1>2 DEF WillBeStranded, IsStranded, Stranded, SameBodies
<1> QED BY <1>1, <1>3, <1>4, DoInvNext

\* An undo or redo returns, goes on or calls.
LEMMA TailBodies ==
    ASSUME TypeOK, Running, Callee.fn # "body", NEW f \in Frame, f.fn = Callee.fn,
           NEW t \in Seq(Frame), \A k \in 1 .. Len(t) : t[k].fn # "body"
    PROVE  /\ SameBodies(calls, Front(calls))
           /\ SameBodies(calls, Append(Front(calls), f))
           /\ SameBodies(calls, Append(Front(calls), f) \o t)
<1> DEFINE n == Len(calls)
           r == Append(Front(calls), f)
<1>1. /\ n \in Nat /\ n >= 1 /\ Callee = calls[n] /\ Front(calls) \in Seq(Frame)
      /\ Len(Front(calls)) = n - 1
      /\ \A k \in 1 .. n - 1 : Front(calls)[k] = calls[k]
  BY CalleeType
<1>2. /\ r \in Seq(Frame) /\ Len(r) = n /\ r[n] = f
      /\ \A k \in 1 .. n - 1 : r[k] = calls[k]
  <2>1. /\ r \in Seq(Frame) /\ Len(r) = n - 1 + 1 /\ r[n - 1 + 1] = f
        /\ \A k \in 1 .. n - 1 : r[k] = Front(calls)[k]
    BY <1>1, AppendProperties
  <2> QED BY <1>1, <2>1
<1> HIDE DEF r
<1>3. /\ Len(r \o t) = n + Len(t) /\ Len(t) \in Nat
      /\ \A k \in 1 .. n + Len(t) : (r \o t)[k] = IF k <= n THEN r[k] ELSE t[k - n]
  <2>1. /\ Len(r \o t) = Len(r) + Len(t) /\ Len(t) \in Nat
        /\ \A k \in 1 .. Len(r) + Len(t) :
              (r \o t)[k] = IF k <= Len(r) THEN r[k] ELSE t[k - Len(r)]
    <3>1. Len(t) \in Nat
      BY LenProperties
    <3>2. /\ Len(r \o t) = Len(r) + Len(t)
          /\ \A k \in 1 .. Len(r) + Len(t) :
                (r \o t)[k] = IF k <= Len(r) THEN r[k] ELSE t[k - Len(r)]
      <4> r \in Seq(Frame)
        BY <1>2
      <4> QED BY ConcatProperties
    <3> QED BY <3>1, <3>2
  <2> HIDE DEF n
  <2> QED BY <1>2, <2>1
<1>4. Bodies(calls) = {k \in 1 .. n - 1 : calls[k].fn = "body"}
  BY <1>1 DEF Bodies
<1>5. Bodies(Front(calls)) = Bodies(calls)
  BY <1>1, <1>4 DEF Bodies
<1>6. Bodies(r) = Bodies(calls)
  <2>1. ASSUME NEW k \in 1 .. n PROVE r[k].fn = "body" <=> calls[k].fn = "body"
    <3>1. k \in 1 .. n - 1 \/ k = n
      BY <1>1
    <3> QED BY <1>1, <1>2, <3>1
  <2> QED BY <1>2, <2>1 DEF Bodies
<1>7. Bodies(r \o t) = Bodies(calls)
  <2>1. ASSUME NEW k \in 1 .. n + Len(t)
        PROVE  (r \o t)[k].fn = "body" <=> k \in Bodies(r)
    <3>1. CASE k <= n
      BY <1>1, <1>2, <1>3, <3>1 DEF Bodies
    <3>2. CASE k > n
      <4>1. k - n \in 1 .. Len(t) /\ (r \o t)[k] = t[k - n]
        BY <1>1, <1>3, <3>2
      <4>2. k \notin Bodies(r)
        BY <1>1, <1>2, <3>2 DEF Bodies
      <4> QED BY <4>1, <4>2
    <3> QED BY <1>1, <1>3, <3>1, <3>2
  <2>2. 1 .. n \subseteq 1 .. n + Len(t)
    BY <1>1, <1>3
  <2> QED BY <1>2, <1>3, <1>6, <2>1, <2>2 DEF Bodies
<1>8. \A k \in Bodies(calls) :
         /\ Front(calls)[k] = calls[k] /\ r[k] = calls[k]
         /\ (r \o t)[k] = calls[k]
  BY <1>1, <1>2, <1>3, <1>4, SMTT(30)
<1> QED BY <1>5, <1>6, <1>7, <1>8 DEF SameBodies, r

\* The item that is created, on the do stack.
LEMMA NewItemIsDoing ==
    ASSUME StackInv, DoInv, RoomForItem,
           stack' = Push(stack, DoStack, created + 1),
           \/ /\ batch' = batch
              /\ calls' = Append(calls, MkFrame("body", "do", created + 1, "running", 0))
           \/ batch' = batch \cup {created + 1} /\ calls' = calls
    PROVE  DoInv' /\ (WillBeStranded <=> IsStranded)
<1> DEFINE i == created + 1
           n == Len(stack[DoStack])
           g == MkFrame("body", "do", i, "running", 0)
<1>1. /\ TypeOK /\ stack \in Stacks /\ created \in Nat /\ calls \in Seq(Frame)
      /\ batch \subseteq 1 .. created /\ Len(calls) \in Nat
      /\ \A j : IsHeld(stack, j) => j \in 1 .. created
  BY StackInvFacts DEF StackInv, TypeOK
<1>2. i \in Item /\ i \notin batch
  BY <1>1, BoundsAssumption DEF RoomForItem, Item
<1>3. \A m \in 1 .. n : stack[DoStack][m] \in 1 .. created /\ stack[DoStack][m] < i
  <2>1. \A m \in 1 .. n : stack[DoStack][m] \in 1 .. created
    BY <1>1, StackIds DEF IsHeld
  <2> QED BY <1>1, <2>1
<1>4. g \in Frame /\ g.fn = "body" /\ g.item = i
  BY <1>1, <1>2, NewFrames DEF MkFrame
<1> HIDE DEF g
<1>5. Nested(stack')
  <2> HIDE DEF i
  <2> QED BY <1>1, <1>2, <1>3, StackIds, PushNested DEF DoInv, i
<1>6. /\ Len(stack'[DoStack]) = n + 1 /\ n \in Nat /\ stack'[DoStack][n + 1] = i
      /\ \A m \in 1 .. n : stack'[DoStack][m] = stack[DoStack][m]
  <2>1. stack[DoStack] \in Seq(Item) /\ stack'[DoStack] = Append(stack[DoStack], i)
    BY <1>1, StackIds DEF Stacks, Push
  <2> QED BY <1>2, <2>1, AppendProperties
<1>7. ASSUME NEW k \in Bodies(calls) PROVE calls[k].item < i
  <2>1. PICK m \in Doing(stack, batch) : stack[DoStack][m] = calls[k].item
    BY DEF DoInv, BodiesAreDoing
  <2> QED BY <1>3, <2>1 DEF Doing
<1> HIDE DEF i, n
<1>8. CASE batch' = batch /\ calls' = Append(calls, g)
  <2>1. /\ Len(calls') = Len(calls) + 1 /\ calls'[Len(calls) + 1] = g
        /\ \A k \in 1 .. Len(calls) : calls'[k] = calls[k]
    BY <1>1, <1>4, <1>8, AppendProperties
  <2>2. /\ Bodies(calls') = Bodies(calls) \cup {Len(calls) + 1}
        /\ \A k \in Bodies(calls) : calls'[k] = calls[k] /\ k < Len(calls) + 1
    BY <1>1, <1>4, <2>1 DEF Bodies
  <2>3. /\ Doing(stack', batch') = Doing(stack, batch) \cup {n + 1}
        /\ \A m \in Doing(stack, batch) : stack'[DoStack][m] = stack[DoStack][m]
    BY <1>2, <1>6, <1>8, SMTT(30) DEF Doing, n
  <2>4. BodiesRise(calls')
    <3> SUFFICES ASSUME NEW j \in Bodies(calls'), NEW k \in Bodies(calls'), j < k
                 PROVE  calls'[j].item < calls'[k].item
      BY DEF BodiesRise
    <3>1. j \in Bodies(calls)
      <4>1. CASE j = Len(calls) + 1
        BY <1>1, <2>2, <4>1 DEF Bodies
      <4> QED BY <2>2, <4>1
    <3>2. CASE k \in Bodies(calls)
      BY <2>2, <3>1, <3>2 DEF DoInv, BodiesRise
    <3>3. CASE k = Len(calls) + 1
      BY <1>4, <1>7, <2>1, <2>2, <3>1, <3>3
    <3> QED BY <2>2, <3>2, <3>3
  <2>5. ASSUME NEW k \in Bodies(calls')
        PROVE  \E m \in Doing(stack', batch') : stack'[DoStack][m] = calls'[k].item
    <3>1. CASE k = Len(calls) + 1
      BY <1>4, <1>6, <2>1, <2>3, <3>1
    <3>2. CASE k \in Bodies(calls)
      <4>1. PICK m \in Doing(stack, batch) : stack[DoStack][m] = calls[k].item
        BY <3>2 DEF DoInv, BodiesAreDoing
      <4> QED BY <2>2, <2>3, <3>2, <4>1
    <3> QED BY <2>2, <3>1, <3>2
  <2>6. WillBeStranded <=> IsStranded
    <3>1. \A m \in Doing(stack, batch) : stack[DoStack][m] # i
      BY <1>1, <1>3, SMTT(30) DEF Doing, n, i
    <3>2. ASSUME NEW m \in Doing(stack, batch)
          PROVE  (\A k \in Bodies(calls') : calls'[k].item # stack'[DoStack][m])
                 <=> \A k \in Bodies(calls) : calls[k].item # stack[DoStack][m]
      BY <1>4, <2>1, <2>2, <2>3, <3>1
    <3>3. \E k \in Bodies(calls') : calls'[k].item = stack'[DoStack][n + 1]
      BY <1>4, <1>6, <2>1, <2>2
    <3> QED BY <2>3, <3>2, <3>3 DEF WillBeStranded, IsStranded, Stranded
  <2>7. BodiesAreDoing(calls', stack', batch')
    BY <2>5 DEF BodiesAreDoing
  <2> QED BY <1>5, <2>4, <2>6, <2>7, DoInvNext
<1>9. CASE batch' = batch \cup {i} /\ calls' = calls
  <2>1. /\ Doing(stack', batch') = Doing(stack, batch)
        /\ \A m \in Doing(stack, batch) : stack'[DoStack][m] = stack[DoStack][m]
    <3>1. \A m \in 1 .. n : stack[DoStack][m] # i
      BY <1>1, <1>3 DEF n, i
    <3> QED BY <1>6, <1>9, <3>1, SMTT(30) DEF Doing, n
  <2>2. BodiesRise(calls')
    BY <1>9 DEF DoInv
  <2>3. BodiesAreDoing(calls, stack', batch')
    BY <2>1 DEF DoInv, BodiesAreDoing
  <2>4. WillBeStranded <=> IsStranded
    BY <1>9, <2>1 DEF WillBeStranded, IsStranded, Stranded
  <2> QED BY <1>5, <1>9, <2>2, <2>3, <2>4, DoInvNext
<1> QED BY <1>8, <1>9 DEF g, i

\* No item is on the do stack twice.
LEMMA StrandedApart ==
    ASSUME stack \in Stacks, Nested(stack), NEW j \in Doing(stack, batch),
           NEW m \in Doing(stack, batch), j # m
    PROVE  stack[DoStack][j] # stack[DoStack][m]
<1>1. j \in 1 .. Len(stack[DoStack]) /\ m \in 1 .. Len(stack[DoStack])
  BY DEF Doing
<1>2. stack[DoStack][j] \in Nat /\ stack[DoStack][m] \in Nat
  BY <1>1, StackIds, StackNumbers
<1>3. j < m \/ m < j
  BY <1>1
<1> QED BY <1>1, <1>2, <1>3 DEF Nested

\* The last item of the do stack goes: a batch that ends, or whatever is on top when a
\* doTransaction() returns.  If that is a batch the transaction itself stays.
LEMMA EndedItemIsDone ==
    ASSUME StackInv, DoInv, stack[DoStack] # <<>>,
           EndTransaction(Peek(DoStack)) \/ stack' = Pop(stack, DoStack),
           batch' = batch,
           \/ Peek(DoStack) \in batch /\ calls' = calls
           \/ Running /\ Callee.fn = "body" /\ calls' = Front(calls)
    PROVE  /\ DoInv'
           /\ calls' = calls => (WillBeStranded <=> IsStranded)
           /\ calls' # calls => (WillBeStranded <=> IsStranded \/ BatchOpen)
<1> DEFINE n == Len(stack[DoStack])
           c == Len(calls)
           last == Peek(DoStack)
<1>1. /\ TypeOK /\ stack \in Stacks /\ calls \in Seq(Frame) /\ c \in Nat
      /\ Nested(stack)
  BY StackInvFacts DEF StackInv, TypeOK, DoInv
<1>2. Nested(stack') /\ Popped(stack')
  <2>1. CASE EndTransaction(Peek(DoStack))
    BY <1>1, <2>1, EndTransactionNested
  <2>2. CASE stack' = Pop(stack, DoStack)
    <3>1. Shrunk(stack', stack) /\ Popped(stack')
      BY <1>1, <2>2, TopLevel, PopShrinks DEF Popped
    <3> QED BY <1>1, <3>1, ShrunkNested
  <2> QED BY <2>1, <2>2
<1>3. n \in Nat /\ n \in 1 .. n /\ last = stack[DoStack][n]
  BY <1>1, TopLevel, PopShrinks, StackNumbers DEF Peek, Last
<1>4. ASSUME NEW m \in 1 .. n
      PROVE  /\ stack[DoStack][m] <= last /\ stack[DoStack][m] \in Nat /\ last \in Nat
             /\ m # n => stack[DoStack][m] < last
  <2>1. stack[DoStack][m] \in Nat /\ last \in Nat
    BY <1>1, <1>3, StackIds, StackNumbers
  <2>2. m # n => stack[DoStack][m] < last
    BY <1>1, <1>3 DEF Nested
  <2> QED BY <1>3, <2>1, <2>2
<1>5. /\ Doing(stack', batch') = Doing(stack, batch) \ {n}
      /\ \A m \in Doing(stack, batch) \ {n} : stack'[DoStack][m] = stack[DoStack][m]
  <2> HIDE DEF last
  <2>1. 1 .. n - 1 = (1 .. n) \ {n}
    BY <1>3
  <2> QED BY <1>2, <2>1 DEF Popped, Doing
<1>6. /\ n \in Doing(stack, batch) <=> ~ BatchOpen
      /\ \A m \in Doing(stack, batch) : m \in 1 .. n
  BY <1>3 DEF Doing, BatchOpen
<1> HIDE DEF last, n
<1>7. CASE Peek(DoStack) \in batch /\ calls' = calls
  <2>1. n \notin Doing(stack, batch)
    BY <1>6, <1>7 DEF BatchOpen
  <2>2. BodiesRise(calls') /\ BodiesAreDoing(calls', stack', batch')
    BY <1>5, <1>7, <2>1 DEF DoInv, BodiesRise, BodiesAreDoing
  <2>3. WillBeStranded <=> IsStranded
    BY <1>5, <1>7, <2>1 DEF WillBeStranded, IsStranded, Stranded
  <2> QED BY <1>2, <1>7, <2>2, <2>3, DoInvNext
<1>8. CASE Running /\ Callee.fn = "body" /\ calls' = Front(calls)
  <2>1. /\ c >= 1 /\ Callee = calls[c] /\ Len(calls') = c - 1
        /\ \A k \in 1 .. c - 1 : calls'[k] = calls[k]
    BY <1>1, <1>8, CalleeType
  <2>2. calls' # calls
    BY <1>1, <2>1
  <2> HIDE DEF c
  <2>3. /\ Bodies(calls') = Bodies(calls) \ {c} /\ c \in Bodies(calls)
        /\ \A k \in Bodies(calls) \ {c} : calls'[k] = calls[k] /\ k < c
    BY <1>1, <1>8, <2>1 DEF Bodies, c
  <2>4. PICK own1 \in Doing(stack, batch) : stack[DoStack][own1] = Callee.item
    BY <2>1, <2>3 DEF DoInv, BodiesAreDoing
  <2>5. ASSUME NEW k \in Bodies(calls) \ {c}
        PROVE  calls[k].item < Callee.item /\ calls[k].item # last
    <3>1. calls[k].item < calls[c].item
      BY <2>3 DEF DoInv, BodiesRise
    <3>2. calls[k].item \in Nat /\ calls[c].item \in Nat
      BY <1>1, <2>3, FrameNumbers DEF Bodies
    <3>3. Callee.item <= last /\ last \in Nat
      BY <1>4, <1>6, <2>4
    <3> QED BY <2>1, <3>1, <3>2, <3>3
  <2>6. BodiesRise(calls')
    BY <2>3 DEF DoInv, BodiesRise
  <2>7. ASSUME NEW k \in Bodies(calls')
        PROVE  \E m \in Doing(stack', batch') : stack'[DoStack][m] = calls'[k].item
    <3>1. PICK m \in Doing(stack, batch) : stack[DoStack][m] = calls[k].item
      BY <2>3 DEF DoInv, BodiesAreDoing
    <3>2. m # n
      BY <1>3, <2>3, <2>5, <3>1
    <3> QED BY <1>5, <2>3, <3>1, <3>2
  <2>8. ASSUME own1 # n PROVE WillBeStranded
    <3>1. own1 \in Doing(stack', batch') /\ stack'[DoStack][own1] = Callee.item
      BY <1>5, <2>4, <2>8
    <3>2. ASSUME NEW k \in Bodies(calls') PROVE calls'[k].item # Callee.item
      <4>1. calls[k].item < Callee.item /\ calls'[k] = calls[k]
        BY <2>3, <2>5
      <4>2. calls[k].item \in Nat /\ Callee.item \in Nat
        BY <1>1, <2>1, <2>3, FrameNumbers DEF Bodies
      <4> QED BY <4>1, <4>2
    <3> QED BY <3>1, <3>2 DEF WillBeStranded, Stranded
  <2>9. WillBeStranded <=> IsStranded \/ BatchOpen
    <3>1. ASSUME BatchOpen PROVE WillBeStranded
      BY <1>6, <2>4, <2>8, <3>1
    <3>2. ASSUME IsStranded PROVE WillBeStranded
      <4>1. PICK m \in Doing(stack, batch) :
              \A k \in Bodies(calls) : calls[k].item # stack[DoStack][m]
        BY <3>2 DEF IsStranded, Stranded
      <4>2. CASE m = n
        <5>1. own1 # n
          BY <2>1, <2>3, <2>4, <4>1, <4>2
        <5> QED BY <2>8, <5>1
      <4>3. CASE m # n
        BY <1>5, <2>3, <4>1, <4>3 DEF WillBeStranded, Stranded
      <4> QED BY <4>2, <4>3
    <3>3. ASSUME WillBeStranded, ~ BatchOpen PROVE IsStranded
      <4>1. PICK m \in Doing(stack, batch) \ {n} :
              \A k \in Bodies(calls) \ {c} : calls[k].item # stack[DoStack][m]
        BY <1>5, <2>3, <3>3 DEF WillBeStranded, Stranded
      <4>2. CASE own1 = m
        <5>1. n \in Doing(stack, batch)
          BY <1>6, <3>3
        <5>2. \A k \in Bodies(calls) : calls[k].item # stack[DoStack][n]
          <6>1. Callee.item < last /\ Callee.item \in Nat /\ last \in Nat
            BY <1>4, <1>6, <2>4, <4>1, <4>2
          <6> QED BY <1>3, <2>1, <2>5, <6>1
        <5> QED BY <5>1, <5>2 DEF IsStranded, Stranded
      <4>3. CASE own1 # m
        <5>1. calls[c].item # stack[DoStack][m]
          BY <1>1, <2>1, <2>4, <4>1, <4>3, StrandedApart
        <5> QED BY <2>3, <4>1, <5>1 DEF IsStranded, Stranded
      <4> QED BY <4>2, <4>3
    <3> QED BY <3>1, <3>2, <3>3
  <2> QED BY <1>2, <2>2, <2>6, <2>7, <2>9, DoInvNext DEF BodiesAreDoing
<1> QED BY <1>7, <1>8

\* Clearing and pruning the history leaves the do stack alone.
LEMMA HistoryCut ==
    ASSUME StackInv, Nested(stack), ClearHistory \/ SetMaxTransactionCount
    PROVE  Nested(stack') /\ stack'[DoStack] = stack[DoStack]
<1>1. stack \in Stacks
  BY StackInvFacts
<1>2. CASE ClearHistory
  <2> DEFINE noRedo == Clear(stack, <<"redo", 0>>)
  <2>1. stack' = Clear(noRedo, <<"undo", 0>>)
    BY <1>2 DEF ClearHistory
  <2>2. Shrunk(noRedo, stack) /\ noRedo \in Stacks /\ noRedo[DoStack] = stack[DoStack]
    BY <1>1, TopLevel, ClearShrinks, SMTT(30) DEF Shrunk, Clear, Stacks
  <2> HIDE DEF noRedo
  <2>3. Shrunk(stack', noRedo) /\ stack'[DoStack] = stack[DoStack]
    BY <2>1, <2>2, TopLevel, ClearShrinks DEF Clear, Stacks
  <2> QED BY <1>1, <2>2, <2>3, ShrunkNested
<1>3. CASE SetMaxTransactionCount
  <2>1. CASE stack' = stack
    BY <2>1
  <2>2. CASE stack' # stack
    <3> DEFINE undos == Len(stack[<<"undo", 0>>])
               redos == Len(stack[<<"redo", 0>>])
               left(n) == IF undos + redos <= n THEN undos
                          ELSE IF redos < n THEN n - redos ELSE 0
    <3>1. PICK n \in Counts :
            /\ ~ (n < 0)
            /\ stack' = Prune(Prune(stack, <<"undo", 0>>, left(n)),
                              <<"redo", 0>>, n - left(n))
      BY <1>3, <2>2 DEF SetMaxTransactionCount
    <3>2. n \in Nat /\ undos \in Nat /\ redos \in Nat
      BY <1>1, <3>1, CountsAssumption, TopLevel, StackNumbers
    <3>3. left(n) \in Nat /\ n - left(n) \in Nat
      <4> HIDE DEF undos, redos
      <4> QED BY <3>2
    <3>4. PICK a \in Nat, b \in Nat :
            stack' = Prune(Prune(stack, <<"undo", 0>>, a), <<"redo", 0>>, b)
      BY <3>1, <3>3
    <3> DEFINE mid == Prune(stack, <<"undo", 0>>, a)
    <3>5. /\ Shrunk(mid, stack)
          /\ \A t \in StackId \ {<<"undo", 0>>} : mid[t] = stack[t]
      BY <1>1, TopLevel, PruneShrinks
    <3>6. stack' = Prune(mid, <<"redo", 0>>, b)
      BY <3>4
    <3> HIDE DEF mid
    <3>7. mid \in Stacks /\ Nested(mid) /\ mid[DoStack] = stack[DoStack]
      BY <1>1, <3>5, TopLevel, ShrunkNested DEF Shrunk
    <3>8. /\ Shrunk(stack', mid)
          /\ \A t \in StackId \ {<<"redo", 0>>} : stack'[t] = mid[t]
      BY <3>6, <3>7, TopLevel, PruneShrinks
    <3> QED BY <3>7, <3>8, TopLevel, ShrunkNested
  <2> QED BY <2>1, <2>2
<1> QED BY <1>2, <1>3

LEMMA ClientDoing ==
    ASSUME StackInv, DoInv, Client
    PROVE  DoInv' /\ (WillBeStranded <=> IsStranded)
<1>1. /\ TypeOK /\ stack \in Stacks /\ calls \in Seq(Frame) /\ Len(calls) \in Nat
      /\ Nested(stack)
  BY StackInvFacts DEF StackInv, TypeOK, DoInv
<1>2. SameBodies(calls, calls)
  BY DEF SameBodies
<1>3. CASE Vetoed
  BY <1>1, <1>2, <1>3, SameDoing DEF Vetoed
<1>4. CASE DoTransaction \/ BeginBatch
  <2>1. /\ RoomForItem /\ stack' = Push(stack, DoStack, created + 1)
        /\ \/ /\ batch' = batch
              /\ calls' = Append(calls, MkFrame("body", "do", created + 1, "running", 0))
           \/ batch' = batch \cup {created + 1} /\ calls' = calls
    BY <1>4 DEF DoTransaction, BeginBatch
  <2> QED BY <2>1, NewItemIsDoing
<1>5. CASE EndBatch
  <2>1. CASE stack' = stack
    BY <1>1, <1>2, <1>5, <2>1, SameDoing DEF EndBatch
  <2>2. CASE BatchOpen /\ EndTransaction(Peek(DoStack))
    <3>1. /\ stack[DoStack] # <<>> /\ Peek(DoStack) \in batch
          /\ batch' = batch /\ calls' = calls
      BY <1>5, <2>2 DEF EndBatch, BatchOpen
    <3> QED BY <2>2, <3>1, EndedItemIsDone
  <2> QED BY <1>5, <2>1, <2>2 DEF EndBatch
<1>6. CASE ClearHistory \/ SetMaxTransactionCount
  <2>1. calls' = calls /\ batch' = batch
    BY <1>6 DEF ClearHistory, SetMaxTransactionCount
  <2> QED BY <1>1, <1>2, <1>6, <2>1, HistoryCut, SameDoing
<1>7. ASSUME NEW dir \in Direction, UndoOrRedo(dir)
      PROVE  DoInv' /\ (WillBeStranded <=> IsStranded)
  <2> DEFINE g == MkFrame("kids", dir, 0, "loop", 1)
  <2>1. /\ UNCHANGED <<stack, batch>>
        /\ calls' = calls \/ calls' = Append(calls, g)
    BY <1>7 DEF UndoOrRedo
  <2>2. g \in Frame /\ g.fn = "kids"
    BY <1>1, NewFrames, StackIds DEF MkFrame
  <2> HIDE DEF g
  <2>3. SameBodies(calls, Append(calls, g))
    <3>1. /\ Len(Append(calls, g)) = Len(calls) + 1 /\ Append(calls, g)[Len(calls) + 1] = g
          /\ \A k \in 1 .. Len(calls) : Append(calls, g)[k] = calls[k]
      BY <1>1, <2>2, AppendProperties
    <3>2. 1 .. Len(calls) + 1 = 1 .. Len(calls) \cup {Len(calls) + 1}
      BY <1>1
    <3> QED BY <2>2, <3>1, <3>2 DEF SameBodies, Bodies
  <2> QED BY <1>1, <1>2, <2>1, <2>3, SameDoing
<1> QED BY <1>3, <1>4, <1>5, <1>6, <1>7 DEF Client

\* If nobody is stranded and no batch is on top, it is the innermost call's own item.
LEMMA TopIsCallee ==
    ASSUME StackInv, DoInv, DoReturns \/ DoFails, ~ IsStranded, ~ BatchOpen
    PROVE  Peek(DoStack) = Callee.item
<1> DEFINE n == Len(stack[DoStack])
<1>1. /\ Running /\ Callee.fn = "body" /\ stack[DoStack] # <<>>
      /\ stack \in Stacks /\ calls \in Seq(Frame) /\ TypeOK /\ Nested(stack)
  BY StackInvFacts DEF DoReturns, DoFails, BodyReturns, In, StackInv, TypeOK, DoInv
<1>2. /\ Len(calls) \in 1 .. Len(calls) /\ Callee = calls[Len(calls)]
      /\ Len(calls) \in Bodies(calls)
  BY <1>1, CalleeType DEF Bodies
<1>3. n \in 1 .. n /\ Peek(DoStack) = stack[DoStack][n]
  BY <1>1, TopLevel, PopShrinks DEF Peek, Last
<1>4. n \in Doing(stack, batch)
  BY <1>1, <1>3 DEF Doing, BatchOpen
<1>5. PICK k \in Bodies(calls) : calls[k].item = Peek(DoStack)
  BY <1>3, <1>4 DEF IsStranded, Stranded
<1>6. PICK m \in Doing(stack, batch) : stack[DoStack][m] = Callee.item
  BY <1>2 DEF DoInv, BodiesAreDoing
<1>7. Callee.item <= Peek(DoStack) /\ Peek(DoStack) \in Nat
  BY <1>1, <1>6, TopIsLatest DEF Doing
<1>8. CASE k = Len(calls)
  BY <1>2, <1>5, <1>8
<1>9. CASE k # Len(calls)
  <2>1. k < Len(calls) /\ k \in 1 .. Len(calls)
    BY <1>2, <1>9 DEF Bodies
  <2>2. calls[k].item < Callee.item
    BY <1>2, <2>1 DEF DoInv, BodiesRise
  <2>3. calls[k].item \in Nat /\ Callee.item \in Nat
    BY <1>1, <1>2, <2>1, FrameNumbers
  <2> QED BY <1>5, <1>7, <2>2, <2>3
<1> QED BY <1>8, <1>9

LEMMA BodyStrands ==
    ASSUME StackInv, DoInv, DoReturns \/ DoFails
    PROVE  DoInv' /\ (WillBeStranded <=> IsStranded \/ BatchOpen)
<1>1. TypeOK
  BY DEF StackInv
<1>2. /\ Running /\ Callee.fn = "body" /\ calls' = Front(calls)
      /\ stack[DoStack] # <<>> /\ batch' = batch
      /\ EndTransaction(Peek(DoStack)) \/ stack' = Pop(stack, DoStack)
  BY DEF DoReturns, DoFails, BodyReturns, In, Return
<1>3. calls' # calls
  <2>1. Len(Front(calls)) = Len(calls) - 1 /\ Len(calls) \in Nat
    BY <1>1, <1>2, CalleeType
  <2> QED BY <1>2, <2>1
<1> QED BY <1>2, <1>3, EndedItemIsDone

\* A doTransaction() strands its transaction if it returns with a batch open, and
\* only then; it stays there.
LEMMA ProgressDoing ==
    ASSUME StackInv, DoInv, Progress
    PROVE  /\ DoInv'
           /\ \/ WillBeStranded <=> IsStranded
              \/ /\ DoReturns \/ DoFails
                 /\ WillBeStranded <=> IsStranded \/ BatchOpen
<1> DEFINE Steady == DoInv' /\ (WillBeStranded <=> IsStranded)
<1>1. /\ TypeOK /\ stack \in Stacks /\ calls \in Seq(Frame) /\ Nested(stack)
  BY StackInvFacts DEF StackInv, TypeOK, DoInv
<1>2. ASSUME Running, Callee.fn # "body", NEW r, Return(r), UNCHANGED <<stack, batch>>
      PROVE  Steady
  <2>1. Callee \in Frame /\ <<>> \in Seq(Frame) /\ \A k \in 1 .. Len(<<>>) : <<>>[k].fn # "body"
    BY <1>1, <1>2, CalleeType
  <2>2. SameBodies(calls, calls')
    BY <1>1, <1>2, <2>1, TailBodies DEF Return
  <2> QED BY <1>1, <1>2, <2>2, SameDoing
<1>3. ASSUME Running, Callee.fn = "item", UNCHANGED <<stack, batch>>,
             NEW at \in {"kids", "calling", "recover"}, NEW dir \in Direction,
             NEW t \in {<<>>, <<Kids(dir, Callee.item)>>}, GoOn(at, t)
      PROVE  Steady
  <2> DEFINE f == [Callee EXCEPT !.at = at]
             g == Kids(dir, Callee.item)
  <2>1. Callee \in Frame /\ Callee.item \in Holder
    BY <1>1, <1>3, CalleeType, StackIds, FrameFields
  <2>2. f \in Frame /\ f.fn = Callee.fn
    BY <1>3, <2>1, ChangedFrames DEF Frame
  <2>3. g \in Frame /\ g.fn = "kids"
    BY <1>1, <2>1, NewFrames DEF Kids, MkFrame
  <2> HIDE DEF g
  <2>4. t \in Seq(Frame) /\ \A k \in 1 .. Len(t) : t[k].fn # "body"
    <3>1. CASE t = <<>>
      BY <3>1
    <3>2. CASE t = <<g>>
      <4>1. t \in Seq(Frame) /\ Len(t) = 1 /\ t[1] = g
        BY <2>3, <3>2
      <4> QED BY <2>3, <4>1
    <3> QED BY <1>3, <3>1, <3>2 DEF g
  <2>5. calls' = Append(Front(calls), f) \o t
    BY <1>3 DEF GoOn
  <2> HIDE DEF f
  <2>6. SameBodies(calls, calls')
    BY <1>1, <1>3, <2>2, <2>4, <2>5, TailBodies
  <2> QED BY <1>1, <1>3, <2>6, SameDoing
<1>4. "undo" \in Direction /\ "redo" \in Direction
  BY StackIds
<1>5. CASE DoReturns \/ DoFails
  BY <1>5, BodyStrands
<1>6. CASE Running /\ BatchOpen /\ EndBatch
  BY <1>6, ClientDoing DEF Client
<1>7. CASE KidsEnd \/ KidsVetoed
  BY <1>2, <1>7 DEF KidsEnd, KidsVetoed, In
<1>8. CASE KidsCall
  <2> DEFINE f == Waiting(Callee)
             t == Entered(Callee.dir, Peek(Source))
  <2>1. /\ Running /\ Callee.fn = "kids" /\ Callee.left > 0 /\ stack[Source] # <<>>
        /\ calls' = Append(Front(calls), f) \o t /\ UNCHANGED <<stack, batch>>
    BY <1>8 DEF KidsCall, In
  <2>2. Callee \in Frame /\ Callee.dir \in Direction /\ Callee.item \in Holder
    BY <1>1, <2>1, CalleeType, FrameFields
  <2>3. f \in Frame /\ f.fn = Callee.fn
    BY <2>1, <2>2, ChangedFrames DEF Waiting, Frame
  <2>4. Peek(Source) \in Item
    BY <1>1, <2>1, <2>2, StackIds, PopShrinks DEF Source, Peek
  <2>5. t \in Seq(Frame) /\ \A k \in 1 .. Len(t) : t[k].fn # "body"
    BY <1>1, <2>2, <2>4, EnteredType DEF Entered, Kids, MkFrame
  <2> HIDE DEF f, t
  <2>6. SameBodies(calls, calls')
    BY <1>1, <2>1, <2>3, <2>5, TailBodies
  <2> QED BY <1>1, <2>1, <2>6, SameDoing
<1>9. CASE KidsMove
  <2>1. PICK res \in DidNotify(ret) :
          calls' = Append(Front(calls), [Callee EXCEPT !.at = "loop", !.res = res])
    BY <1>9 DEF KidsMove
  <2>2. /\ Running /\ Callee.fn = "kids" /\ batch' = batch
        /\ stack' = stack \/ stack' = PopPush(stack, Source, Target)
    BY <1>9 DEF KidsMove, In
  <2>3. Callee \in Frame /\ Callee.dir \in Direction /\ Callee.item \in Holder
    BY <1>1, <2>2, CalleeType, FrameFields
  <2> DEFINE f == [Callee EXCEPT !.at = "loop", !.res = res]
  <2>4. f \in Frame /\ f.fn = Callee.fn /\ <<>> \in Seq(Frame) /\ Len(<<>>) = 0
    <3>1. res \in Result
      BY <1>1, <2>1 DEF DidNotify, TypeOK, Result
    <3>2. f \in Frame
      BY <2>2, <2>3, <3>1, ChangedFrames
    <3>3. f.fn = Callee.fn
      BY <2>3 DEF Frame
    <3> QED BY <3>2, <3>3
  <2> HIDE DEF f
  <2>5. SameBodies(calls, calls')
    <3>1. calls' = Append(Front(calls), f)
      BY <2>1 DEF f
    <3>2. \A k \in 1 .. Len(<<>>) : <<>>[k].fn # "body"
      BY <2>4
    <3> QED BY <1>1, <2>2, <2>4, <3>1, <3>2, TailBodies
  <2>6. Nested(stack') /\ stack'[DoStack] = stack[DoStack]
    <3>1. CASE stack' = stack
      BY <1>1, <3>1
    <3>2. CASE stack' = PopPush(stack, Source, Target)
      BY <1>1, <2>3, <3>2, MoveNested DEF Source, Target
    <3> QED BY <2>2, <3>1, <3>2
  <2> QED BY <2>2, <2>5, <2>6, SameDoing
<1>10. CASE UndoItemKidsDone
  <2>1. /\ Running /\ Callee.fn = "item" /\ UNCHANGED <<stack, batch>>
        /\ \/ Return("ok")
           \/ GoOn("calling", <<>>)
           \/ GoOn("recover", <<Kids("redo", Callee.item)>>)
    BY <1>10 DEF UndoItemKidsDone, In, RecoverFromUndoError
  <2> QED BY <1>2, <1>3, <1>4, <2>1
<1>11. CASE UndoItemCalled
  <2>1. /\ Running /\ Callee.fn = "item" /\ UNCHANGED <<stack, batch>>
        /\ Return("ok") \/ GoOn("recover", <<Kids("redo", Callee.item)>>)
    BY <1>11 DEF UndoItemCalled, In, RecoverFromUndoError
  <2> QED BY <1>2, <1>3, <1>4, <2>1
<1>12. CASE UndoItemRecovered \/ RedoItemRecovered
  BY <1>2, <1>12 DEF UndoItemRecovered, RedoItemRecovered, In
<1>13. CASE RedoItemCalled
  <2>1. /\ Running /\ Callee.fn = "item" /\ UNCHANGED <<stack, batch>>
        /\ Return("fail") \/ GoOn("kids", <<Kids("redo", Callee.item)>>)
    BY <1>13 DEF RedoItemCalled, In
  <2> QED BY <1>2, <1>3, <1>4, <2>1
<1>14. CASE RedoItemKidsDone
  <2>1. /\ Running /\ Callee.fn = "item" /\ UNCHANGED <<stack, batch>>
        /\ Return("ok") \/ GoOn("recover", <<Kids("undo", Callee.item)>>)
    BY <1>14 DEF RedoItemKidsDone, In, RecoverFromRedoError
  <2> QED BY <1>2, <1>3, <1>4, <2>1
<1> QED BY <1>5, <1>6, <1>7, <1>8, <1>9, <1>10, <1>11, <1>12, <1>13, <1>14 DEF Progress

LEMMA BodiesAreInOrder ==
    ASSUME StackInv, DoInv PROVE DoStackIsTheCallStack <=> ~ IsStranded
<1> DEFINE bodies == {k \in 1 .. Len(calls) : calls[k].fn = "body"}
           doing == {m \in 1 .. Len(stack[DoStack]) : stack[DoStack][m] \notin batch}
<1>1. bodies = Bodies(calls) /\ doing = Doing(stack, batch)
  BY DEF Bodies, Doing
<1>2. {calls[k].item : k \in bodies} = {stack[DoStack][m] : m \in doing}
      <=> ~ IsStranded
  <2>1. \A k \in bodies : \E m \in doing : stack[DoStack][m] = calls[k].item
    BY <1>1 DEF DoInv, BodiesAreDoing
  <2>2. ~ IsStranded <=> \A m \in doing : \E k \in bodies : calls[k].item = stack[DoStack][m]
    BY <1>1 DEF IsStranded, Stranded
  <2> HIDE DEF bodies, doing
  <2>3. (\A m \in doing : \E k \in bodies : calls[k].item = stack[DoStack][m])
        => {calls[k].item : k \in bodies} = {stack[DoStack][m] : m \in doing}
    BY <2>1
  <2>4. ASSUME {calls[k].item : k \in bodies} = {stack[DoStack][m] : m \in doing},
               NEW m \in doing
        PROVE  \E k \in bodies : calls[k].item = stack[DoStack][m]
    <3>1. stack[DoStack][m] \in {calls[k].item : k \in bodies}
      BY <2>4
    <3> QED BY <3>1
  <2> QED BY <2>2, <2>3, <2>4
<1>3. ASSUME NEW j \in bodies, NEW k \in bodies, NEW m \in doing, NEW n \in doing,
             calls[j].item = stack[DoStack][m], calls[k].item = stack[DoStack][n]
      PROVE  j < k <=> m < n
  <2>1. /\ calls[j].item \in Nat /\ calls[k].item \in Nat /\ j \in Nat /\ k \in Nat
        /\ m \in Nat /\ n \in Nat
    BY StackInvFacts, StackIds, StackNumbers, <1>3
  <2>2. /\ j < k => calls[j].item < calls[k].item
        /\ k < j => calls[k].item < calls[j].item
    BY <1>1 DEF DoInv, BodiesRise
  <2>3. /\ m < n => stack[DoStack][m] < stack[DoStack][n]
        /\ n < m => stack[DoStack][n] < stack[DoStack][m]
    BY DEF DoInv, Nested
  <2>4. j = k => calls[j].item = calls[k].item
    OBVIOUS
  <2>5. m = n => stack[DoStack][m] = stack[DoStack][n]
    OBVIOUS
  <2> HIDE DEF bodies, doing
  <2> QED BY <1>3, <2>1, <2>2, <2>3, <2>4, <2>5
<1> QED BY <1>2, <1>3 DEF DoStackIsTheCallStack

LEMMA DoInvInit ==
    ASSUME Init PROVE DoInv /\ ~ IsStranded
<1>1. Nested(stack) /\ calls = <<>> /\ stack[DoStack] = <<>> /\ Len(<<>>) = 0
  BY CallsInvInit, StackIds DEF CallsInv, Init
<1> QED BY <1>1 DEF DoInv, BodiesRise, BodiesAreDoing, Bodies, Doing, IsStranded, Stranded

LEMMA StrandedNext == IsStranded' <=> WillBeStranded
BY DEF IsStranded, WillBeStranded, Stranded, Doing, Bodies

LEMMA DoInvStep ==
    ASSUME StackInv, DoInv, [Next]_vars
    PROVE  /\ DoInv'
           /\ IsStranded => WillBeStranded
           /\ WillBeStranded => IsStranded \/ (BatchOpen /\ (DoReturns \/ DoFails))
<1>1. CASE UNCHANGED vars
  <2>1. UNCHANGED <<stack, batch, calls>>
    BY <1>1 DEF vars
  <2> QED BY <2>1, SameDoing DEF SameBodies, DoInv
<1> QED BY <1>1, ClientDoing, ProgressDoing DEF Next

\* Whatever clients and listeners do, and also when what is undone or redone calls
\* the manager: as long as the transactions on the do stack are those whose
\* doTransaction() runs they stay so, until a doTransaction() returns with a batch of its
\* own still open.  The manager, which pops what is on top, then takes the batch for the
\* transaction.  No refusal by a listener at another place, no failure and no nesting
\* does this.
THEOREM DoStackFollowsTheCalls == Spec => OnlyOpenBatchesStrand
<1>1. Init => DoInv
  BY DoInvInit
<1>2. StackInv /\ DoInv /\ [Next]_vars => DoInv'
  BY DoInvStep
<1>3. StackInv /\ DoInv => (DoStackIsTheCallStack <=> ~ IsStranded)
  BY BodiesAreInOrder
<1>4. StackInv /\ DoInv /\ [Next]_vars
      => (~ IsStranded => \/ ~ IsStranded'
                          \/ In("body", "running") /\ BatchOpen /\ calls' = Front(calls))
  <2> SUFFICES ASSUME StackInv, DoInv, [Next]_vars, ~ IsStranded, IsStranded'
               PROVE  In("body", "running") /\ BatchOpen /\ calls' = Front(calls)
    OBVIOUS
  <2>1. BatchOpen /\ (DoReturns \/ DoFails)
    BY DoInvStep, StrandedNext
  <2> QED BY <2>1 DEF DoReturns, DoFails, BodyReturns, Return
<1> QED BY <1>1, <1>2, <1>3, <1>4, StackInvariance, PTL DEF Spec, OnlyOpenBatchesStrand

\* Where every doTransaction() closes the batches it opens, the transactions on the do
\* stack are always those whose doTransaction() runs, in the order of the calls.
THEOREM NobodyStaysOnTheDoStack ==
    ASSUME "openBatch" \notin Env
    PROVE  Spec => []DoStackIsTheCallStack
<1>1. Init => DoInv /\ ~ IsStranded
  BY DoInvInit
<1>2. StackInv /\ DoInv /\ ~ IsStranded /\ [Next]_vars => DoInv' /\ ~ IsStranded'
  BY DoInvStep, StrandedNext DEF DoReturns, DoFails, BodyReturns
<1>3. StackInv /\ DoInv /\ ~ IsStranded => DoStackIsTheCallStack
  BY BodiesAreInOrder
<1> QED BY <1>1, <1>2, <1>3, StackInvariance, PTL DEF Spec

----------------------------------------------------------------------------
(***************************************************************************)
(* The results of the loops over the children, where failures last and no  *)
(* listener has a part in them.                                            *)
(***************************************************************************)

\* The children of item i that an undo or a redo of it has still to go through.
Due(st, dir, i) == st[<<dir, i>>]

\* Each of the items W fails to undo (or redo) by itself, or because another of
\* them is a child that is to be undone with it.
Doom(dir, W, st, bt, fs) ==
    \A w \in W : \/ w \notin bt /\ <<dir, w>> \in fs
                 \/ \E m \in 1 .. Len(Due(st, dir, w)) : Due(st, dir, w)[m] \in W

\* UndoTransaction() or RedoTransaction() of item i fails, however often it is called.
Doomed(dir, i, st, bt, fs) == \E W \in SUBSET Item : i \in W /\ Doom(dir, W, st, bt, fs)

\* The next child of h to be undone or redone cannot be.
Stuck(dir, h, st, bt, fs) ==
    Due(st, dir, h) # <<>> /\ Doomed(dir, Last(Due(st, dir, h)), st, bt, fs)

\* What a frame says of the stacks: a loop that has met no failure has as many
\* children left as it counts, and one that has is at a child that fails again.
Honest(f, st, bt, fs) ==
    /\ f.fn = "kids" /\ f.item # 0 =>
          \/ /\ f.res = "ok"
             /\ Len(Due(st, f.dir, f.item)) = IF f.at = "loop" THEN f.left ELSE f.left + 1
          \/ f.res = "fail" /\ Stuck(f.dir, f.item, st, bt, fs)
    /\ f.fn = "item" /\ f.at = "calling" =>
          f.item \notin bt /\ (f.dir = "undo" => Due(st, "undo", f.item) = <<>>)
    /\ f.fn = "item" /\ f.at = "kids" /\ f.dir = "redo" =>
          f.item \in bt \/ <<"redo", f.item>> \notin fs
    /\ f.fn = "item" /\ f.at = "recover" => Doomed(f.dir, f.item, st, bt, fs)

\* What the result r of the loop over the children of h says of them.
Ends(dir, h, st, bt, fs, r) ==
    /\ r = "ok" => Due(st, dir, h) = <<>>
    /\ r = "fail" => Stuck(dir, h, st, bt, fs)

\* What the result r of the call that f waited for says of the stacks.
Answered(f, st, bt, fs, r) ==
    /\ f.fn = "kids" /\ f.at = "wait" =>
          (r = "fail" <=> Stuck(f.dir, f.item, st, bt, fs))
    /\ f.fn = "item" /\ f.at = "kids" => Ends(f.dir, f.item, st, bt, fs, r)
    /\ f.fn = "item" /\ f.at = "recover" => Ends(Other(f.dir), f.item, st, bt, fs, r)

\* While f waits for g.
Links(f, g) ==
    /\ f.fn = "kids" => f.at = "wait" /\ g.dir = f.dir
    /\ f.fn = "item" => \/ f.at = "kids" /\ g.dir = f.dir
                        \/ f.at = "recover" /\ g.dir = Other(f.dir)

Linked(q) == \A k \in 1 .. Len(q) - 1 : Links(q[k], q[k + 1])

Results(q, st, bt, fs, r) ==
    /\ Linked(q)
    /\ \A k \in 1 .. Len(q) : Honest(q[k], st, bt, fs)
    /\ q # <<>> => Answered(q[Len(q)], st, bt, fs, r)

ResultsInv == Results(calls, stack, batch, faults, ret)

\* Children can be failed by their own undoTransaction() or redoTransaction() alone,
\* which fails for good.
FailuresLast == {"reenter", "flaky", "vetoChild", "didFail"} \cap Env = {}

LEMMA ResultsInvNext ==
    ASSUME Results(calls', stack', batch', faults', ret') PROVE ResultsInv'
BY DEF ResultsInv, Results, Linked, Links, Honest, Answered, Ends, Stuck, Doomed, Doom, Due

\* No items are doomed less when they lose no doomed child.
LEMMA DoomLasts ==
    ASSUME NEW dir, NEW st, NEW st2, NEW bt, NEW fs, NEW fs2, fs \subseteq fs2,
           NEW i, Doomed(dir, i, st, bt, fs),
           \A w \in Item : \A m \in 1 .. Len(Due(st, dir, w)) :
              Doomed(dir, Due(st, dir, w)[m], st, bt, fs) =>
                 \E n \in 1 .. Len(Due(st2, dir, w)) : Due(st2, dir, w)[n] = Due(st, dir, w)[m]
    PROVE  Doomed(dir, i, st2, bt, fs2)
<1>1. PICK W \in SUBSET Item : i \in W /\ Doom(dir, W, st, bt, fs)
  BY DEF Doomed
<1>2. ASSUME NEW w \in W
      PROVE  \/ w \notin bt /\ <<dir, w>> \in fs2
             \/ \E n \in 1 .. Len(Due(st2, dir, w)) : Due(st2, dir, w)[n] \in W
  <2>1. CASE w \notin bt /\ <<dir, w>> \in fs
    BY <2>1
  <2>2. ASSUME NEW m \in 1 .. Len(Due(st, dir, w)), Due(st, dir, w)[m] \in W
        PROVE  \E n \in 1 .. Len(Due(st2, dir, w)) : Due(st2, dir, w)[n] \in W
    <3>1. Doomed(dir, Due(st, dir, w)[m], st, bt, fs)
      BY <1>1, <2>2 DEF Doomed
    <3>2. PICK n \in 1 .. Len(Due(st2, dir, w)) : Due(st2, dir, w)[n] = Due(st, dir, w)[m]
      BY <1>1, <3>1
    <3> QED BY <2>2, <3>2
  <2> QED BY <1>1, <2>1, <2>2 DEF Doom
<1> QED BY <1>1, <1>2 DEF Doomed, Doom

\* While the stacks stay.
LEMMA MoreFaults ==
    ASSUME NEW st, NEW bt, NEW fs, NEW fs2, fs \subseteq fs2
    PROVE  /\ \A d, i : Doomed(d, i, st, bt, fs) => Doomed(d, i, st, bt, fs2)
           /\ \A d, h : Stuck(d, h, st, bt, fs) => Stuck(d, h, st, bt, fs2)
<1>1. \A d, i : Doomed(d, i, st, bt, fs) => Doomed(d, i, st, bt, fs2)
  BY DoomLasts
<1> QED BY <1>1 DEF Stuck

LEMMA StuckDooms ==
    ASSUME NEW st \in Stacks, NEW bt, NEW fs, NEW dir \in Direction, NEW h \in Item,
           Stuck(dir, h, st, bt, fs)
    PROVE  Doomed(dir, h, st, bt, fs)
<1>1. <<dir, h>> \in StackId /\ Due(st, dir, h) # <<>>
  BY TopLevel, StackIds DEF Stuck
<1>2. Len(Due(st, dir, h)) \in 1 .. Len(Due(st, dir, h))
  BY <1>1, PopShrinks DEF Due
<1>3. PICK W \in SUBSET Item : Last(Due(st, dir, h)) \in W /\ Doom(dir, W, st, bt, fs)
  BY DEF Stuck, Doomed
<1>4. Doom(dir, W \cup {h}, st, bt, fs)
  BY <1>2, <1>3 DEF Doom, Last
<1> QED BY <1>3, <1>4 DEF Doomed

LEMMA NotDoomed ==
    ASSUME NEW dir, NEW st, NEW bt, NEW fs, NEW i, Due(st, dir, i) = <<>>,
           i \in bt \/ <<dir, i>> \notin fs
    PROVE  ~ Doomed(dir, i, st, bt, fs)
BY DEF Doomed, Doom

----------------------------------------------------------------------------
\* The innermost call goes on as f.
LEMMA GoesOnLinked ==
    ASSUME TypeOK, Running, Linked(calls), NEW f \in Frame, f.dir = Callee.dir
    PROVE  LET r == Append(Front(calls), f)
           IN /\ r \in Seq(Frame) /\ Len(r) = Len(calls) /\ r[Len(r)] = f /\ r # <<>>
              /\ \A k \in 1 .. Len(calls) - 1 : r[k] = calls[k]
              /\ Linked(r)
<1> DEFINE n == Len(calls)
           r == Append(Front(calls), f)
<1>1. /\ n \in Nat /\ n >= 1 /\ Callee = calls[n]
      /\ Front(calls) \in Seq(Frame) /\ Len(Front(calls)) = n - 1
      /\ \A k \in 1 .. n - 1 : Front(calls)[k] = calls[k]
  BY CalleeType
<1>2. /\ r \in Seq(Frame) /\ Len(r) = n /\ r[n] = f
      /\ \A k \in 1 .. n - 1 : r[k] = calls[k]
  <2>1. /\ r \in Seq(Frame) /\ Len(r) = n - 1 + 1 /\ r[n - 1 + 1] = f
        /\ \A k \in 1 .. n - 1 : r[k] = Front(calls)[k]
    BY <1>1, AppendProperties
  <2> QED BY <1>1, <2>1
<1> HIDE DEF r
<1>3. r # <<>>
  BY <1>1, <1>2
<1>4. ASSUME NEW k \in 1 .. n - 1 PROVE Links(r[k], r[k + 1])
  <2>1. Links(calls[k], calls[k + 1])
    BY DEF Linked
  <2>2. r[k + 1] = calls[k + 1] \/ (r[k + 1] = f /\ calls[k + 1] = Callee)
    BY <1>1, <1>2
  <2>3. r[k + 1].dir = calls[k + 1].dir
    BY <2>2
  <2> QED BY <1>2, <2>1, <2>3 DEF Links
<1> QED BY <1>2, <1>3, <1>4 DEF Linked, r

LEMMA CallLinked ==
    ASSUME NEW q \in Seq(Frame), q # <<>>, Linked(q), NEW g \in Frame, Links(q[Len(q)], g)
    PROVE  LET r == Append(q, g)
           IN /\ r \in Seq(Frame) /\ Len(r) = Len(q) + 1 /\ r[Len(r)] = g /\ r # <<>>
              /\ \A k \in 1 .. Len(q) : r[k] = q[k]
              /\ Linked(r)
<1> DEFINE n == Len(q)
           r == Append(q, g)
<1>1. /\ r \in Seq(Frame) /\ Len(r) = n + 1 /\ r[n + 1] = g /\ n \in Nat
      /\ \A k \in 1 .. n : r[k] = q[k]
  BY AppendProperties
<1> HIDE DEF r
<1>2. r # <<>> /\ r[Len(r)] = g
  BY <1>1
<1>3. ASSUME NEW k \in 1 .. n PROVE Links(r[k], r[k + 1])
  <2>1. CASE k = n
    BY <1>1, <2>1
  <2>2. CASE k # n
    <3>1. k \in 1 .. n - 1 /\ k + 1 \in 1 .. n
      BY <1>1, <2>2
    <3> QED BY <1>1, <3>1 DEF Linked
  <2> QED BY <2>1, <2>2
<1> QED BY <1>1, <1>2, <1>3 DEF Linked, r

\* Of two items being undone or redone the one called later is a descendant.
LEMMA ItemsDescend ==
    ASSUME StackInv, CallsInv, NEW j \in 1 .. Len(calls), NEW k \in 1 .. Len(calls), j < k,
           calls[j].fn = "item", calls[k].fn = "item"
    PROVE  calls[j].item < calls[k].item
<1>1. Len(calls) \in Nat /\ calls \in Seq(Frame)
  BY LenProperties DEF StackInv, TypeOK
<1>2. j \in 1 .. Len(calls) - 1 /\ j + 1 \in 1 .. Len(calls)
  BY <1>1
<1>3. Fits(calls[j], calls[j + 1], stack)
  BY <1>2 DEF CallsInv, Orderly, Chained
<1>4. calls[j + 1].fn = "kids" /\ calls[j + 1].item = calls[j].item
  BY <1>3 DEF Fits
<1>5. j + 1 # k /\ j + 1 < k
  BY <1>1, <1>4
<1>6. calls[j + 1].item < calls[k].item
  BY <1>2, <1>4, <1>5 DEF CallsInv, Orderly, Descends
<1> QED BY <1>4, <1>6

\* The calls below the innermost one stay honest when their stacks stay and no
\* item is doomed less.
LEMMA OthersHonest ==
    ASSUME StackInv, CallsInv, ResultsInv, NEW st2, NEW fs2,
           \A d, i : Doomed(d, i, stack, batch, faults) => Doomed(d, i, st2, batch, fs2),
           NEW k \in 1 .. Len(calls) - 1,
           calls[k].fn = "kids" =>
              Due(st2, calls[k].dir, calls[k].item) = Due(stack, calls[k].dir, calls[k].item),
           calls[k].fn = "item" /\ <<"redo", calls[k].item>> \in fs2 =>
              <<"redo", calls[k].item>> \in faults
    PROVE  Honest(calls[k], st2, batch, fs2)
<1>1. k \in 1 .. Len(calls) /\ Len(calls) \in Nat
  BY LenProperties DEF StackInv, TypeOK
<1>2. Honest(calls[k], stack, batch, faults) /\ Links(calls[k], calls[k + 1])
  BY <1>1 DEF ResultsInv, Results, Linked
<1>3. CASE calls[k].fn = "kids"
  <2>1. Stuck(calls[k].dir, calls[k].item, stack, batch, faults) =>
        Stuck(calls[k].dir, calls[k].item, st2, batch, fs2)
    BY <1>3 DEF Stuck
  <2> QED BY <1>2, <1>3, <2>1 DEF Honest
<1>4. CASE calls[k].fn = "item"
  <2>1. calls[k].at # "calling"
    BY <1>2, <1>4 DEF Links
  <2> QED BY <1>2, <1>4, <2>1 DEF Honest
<1>5. CASE calls[k].fn \notin {"kids", "item"}
  BY <1>5 DEF Honest
<1> QED BY <1>3, <1>4, <1>5

\* They do when the innermost one, of an item, has failed or not.
LEMMA OthersHonestStill ==
    ASSUME StackInv, CallsInv, ResultsInv, Running, Callee.fn = "item",
           faults \subseteq faults',
           \A f \in faults' : f \in faults \/ f[2] = Callee.item
    PROVE  \A k \in 1 .. Len(calls) - 1 : Honest(calls[k], stack, batch, faults')
<1> SUFFICES ASSUME NEW k \in 1 .. Len(calls) - 1
             PROVE  Honest(calls[k], stack, batch, faults')
  OBVIOUS
<1> DEFINE n == Len(calls)
           fs2 == faults'
<1>1. /\ n \in Nat /\ n >= 1 /\ Callee = calls[n] /\ calls \in Seq(Frame)
      /\ n \in 1 .. n /\ k \in 1 .. n /\ k < n
  BY CalleeType DEF StackInv, TypeOK
<1>2. \A d, i : Doomed(d, i, stack, batch, faults) => Doomed(d, i, stack, batch, fs2)
  BY MoreFaults
<1>3. calls[k].fn = "item" /\ <<"redo", calls[k].item>> \in fs2 =>
         <<"redo", calls[k].item>> \in faults
  <2> SUFFICES ASSUME calls[k].fn = "item" PROVE calls[k].item # Callee.item
    OBVIOUS
  <2>1. calls[k].item < Callee.item
    BY <1>1, ItemsDescend
  <2>2. calls[k].item \in Nat
    BY <1>1, FrameNumbers
  <2> QED BY <2>1, <2>2
<1> HIDE DEF fs2
<1>4. Honest(calls[k], stack, batch, fs2)
  BY <1>2, <1>3, OthersHonest
<1> QED BY <1>4 DEF fs2

\* No undo or redo is in progress.
LEMMA BodiesHonest ==
    ASSUME NEW q \in Seq(Frame), \A k \in 1 .. Len(q) : q[k].fn = "body",
           NEW st, NEW bt, NEW fs, NEW r
    PROVE  Results(q, st, bt, fs, r)
<1>1. Len(q) \in Nat
  BY LenProperties
<1>2. \A k \in 1 .. Len(q) - 1 : k \in 1 .. Len(q)
  BY <1>1
<1>3. q # <<>> => Len(q) \in 1 .. Len(q)
  BY <1>1, EmptySeq
<1> QED BY <1>2, <1>3 DEF Results, Linked, Links, Honest, Answered

\* UndoTransaction() or RedoTransaction() of an item returns to the loop.
LEMMA ItemReturns ==
    ASSUME StackInv, CallsInv, ResultsInv, Running, Callee.fn = "item",
           calls' = Front(calls), UNCHANGED <<stack, batch>>, faults \subseteq faults',
           \A f \in faults' : f \in faults \/ f[2] = Callee.item,
           ret' = "fail" <=> Doomed(Callee.dir, Callee.item, stack, batch, faults')
    PROVE  ResultsInv'
<1> DEFINE n == Len(calls)
<1>1. /\ TypeOK /\ n \in Nat /\ n >= 1 /\ Callee = calls[n]
      /\ calls' \in Seq(Frame) /\ Len(calls') = n - 1
      /\ \A k \in 1 .. n - 1 : calls'[k] = calls[k]
  BY CalleeType DEF StackInv
<1>3. \A k \in 1 .. n - 1 : Honest(calls[k], stack, batch, faults')
  BY OthersHonestStill
<1>4. Linked(calls')
  <2>1. \A k \in 1 .. n - 2 : k \in 1 .. n - 1 /\ k + 1 \in 1 .. n - 1
    BY <1>1
  <2> QED BY <1>1, <2>1 DEF ResultsInv, Results, Linked
<1>5. ASSUME calls' # <<>>
      PROVE  Answered(calls'[n - 1], stack, batch, faults', ret')
  <2>1. n - 1 \in 1 .. n - 1 /\ (n - 1) + 1 = n
    BY <1>1, <1>5, EmptySeq
  <2> DEFINE f == calls[n - 1]
  <2>2. Fits(f, Callee, stack) /\ Links(f, Callee) /\ calls'[n - 1] = f
    BY <1>1, <2>1 DEF CallsInv, Orderly, Chained, ResultsInv, Results, Linked
  <2>3. /\ f.fn = "kids" /\ f.dir = Callee.dir
        /\ stack[<<f.dir, f.item>>] # <<>> /\ Last(stack[<<f.dir, f.item>>]) = Callee.item
    BY <2>2 DEF Fits, Links
  <2> HIDE DEF f
  <2> QED BY <2>2, <2>3 DEF Answered, Stuck, Due
<1>6. Results(calls', stack, batch, faults', ret')
  BY <1>1, <1>3, <1>4, <1>5 DEF Results
<1> QED BY <1>6, ResultsInvNext

\* It goes on, by itself or in a loop over its children.
LEMMA ItemGoesHonestlyOn ==
    ASSUME StackInv, CallsInv, ResultsInv, Running, Callee.fn = "item",
           UNCHANGED <<stack, batch>>, faults \subseteq faults',
           \A f \in faults' : f \in faults \/ f[2] = Callee.item,
           NEW at \in {"kids", "calling", "recover"},
           \/ at = "calling" /\ Callee.dir = "undo" /\ GoOn(at, <<>>)
           \/ at = "kids" /\ GoOn(at, <<Kids(Callee.dir, Callee.item)>>)
           \/ at = "recover" /\ GoOn(at, <<Kids(Other(Callee.dir), Callee.item)>>),
           at = "calling" =>
              Due(stack, "undo", Callee.item) = <<>> /\ Callee.item \notin batch,
           at = "kids" /\ Callee.dir = "redo" => <<"redo", Callee.item>> \notin faults',
           at = "recover" => Doomed(Callee.dir, Callee.item, stack, batch, faults')
    PROVE  ResultsInv'
<1> DEFINE n == Len(calls)
           f == [Callee EXCEPT !.at = at]
           r == Append(Front(calls), f)
<1>1. /\ TypeOK /\ n \in Nat /\ n >= 1 /\ Callee = calls[n] /\ Callee \in Frame
      /\ Linked(calls)
  BY CalleeType DEF StackInv, ResultsInv, Results
<1>2. /\ f \in Frame /\ f.fn = "item" /\ f.dir = Callee.dir /\ f.item = Callee.item
      /\ f.at = at
  BY <1>1, ChangedFrames DEF Frame
<1> HIDE DEF f
<1>3. /\ r \in Seq(Frame) /\ Len(r) = n /\ r[Len(r)] = f /\ r # <<>>
      /\ \A k \in 1 .. n - 1 : r[k] = calls[k]
      /\ Linked(r)
  BY <1>1, <1>2, GoesOnLinked
<1> HIDE DEF r
<1>4. \A k \in 1 .. n : Honest(r[k], stack, batch, faults')
  <2>1. \A k \in 1 .. n - 1 : Honest(calls[k], stack, batch, faults')
    BY OthersHonestStill
  <2>2. Honest(f, stack, batch, faults')
    BY <1>2 DEF Honest
  <2>3. \A k \in 1 .. n : k \in 1 .. n - 1 \/ k = n
    BY <1>1
  <2> QED BY <1>3, <2>1, <2>2, <2>3
<1>5. CASE at = "calling" /\ GoOn(at, <<>>)
  <2>1. calls' = r
    <3>1. calls' = r \o <<>>
      BY <1>5 DEF GoOn, r, f
    <3> QED BY <1>3, <3>1, ConcatEmptySeq
  <2>2. Answered(f, stack, batch, faults', ret')
    BY <1>2, <1>5 DEF Answered
  <2>3. Results(calls', stack, batch, faults', ret')
    BY <1>3, <1>4, <2>1, <2>2 DEF Results
  <2> QED BY <2>3, ResultsInvNext
<1>6. ASSUME NEW dir \in Direction, GoOn(at, <<Kids(dir, Callee.item)>>),
             \/ at = "kids" /\ dir = Callee.dir
             \/ at = "recover" /\ dir = Other(Callee.dir)
      PROVE  ResultsInv'
  <2> DEFINE g == Kids(dir, Callee.item)
             q == Append(r, g)
  <2>1. /\ g \in Frame /\ g.fn = "kids" /\ g.item = Callee.item /\ g.dir = dir
        /\ g.at = "loop" /\ g.res = "ok" /\ g.left = Len(stack[<<dir, Callee.item>>])
    <3>1. Callee.item \in Holder
      BY <1>1, StackIds, FrameFields
    <3> QED BY <1>1, <3>1, NewFrames DEF Kids, MkFrame
  <2>2. calls' = r \o <<g>>
    BY <1>6 DEF GoOn, r, f
  <2> HIDE DEF g
  <2>3. Links(f, g)
    BY <1>2, <1>6, <2>1 DEF Links
  <2>4. /\ q \in Seq(Frame) /\ Len(q) = n + 1 /\ q[Len(q)] = g /\ q # <<>>
        /\ \A k \in 1 .. n : q[k] = r[k]
        /\ Linked(q)
    BY <1>3, <2>1, <2>3, CallLinked
  <2>5. calls' = q
    BY <1>3, <2>1, <2>2, AppendIsConcat
  <2> HIDE DEF q
  <2>6. Honest(g, stack, batch, faults') /\ Answered(g, stack, batch, faults', ret')
    BY <2>1 DEF Honest, Answered, Due
  <2>7. \A k \in 1 .. n + 1 : k \in 1 .. n \/ k = Len(q)
    BY <1>1, <2>4
  <2>8. Results(calls', stack, batch, faults', ret')
    BY <1>4, <2>4, <2>5, <2>6, <2>7 DEF Results
  <2> QED BY <2>8, ResultsInvNext
<1>7. Callee.dir \in Direction /\ Other(Callee.dir) \in Direction
  BY <1>1, FrameFields, StackIds
<1> QED BY <1>5, <1>6, <1>7

\* A loop ends.
LEMMA KidsEndResults ==
    ASSUME StackInv, CallsInv, ResultsInv, KidsEnd PROVE ResultsInv'
<1> DEFINE n == Len(calls)
<1>1. /\ TypeOK /\ n \in Nat /\ n >= 1 /\ Callee = calls[n] /\ Callee \in Frame
      /\ Running /\ Callee.fn = "kids" /\ Callee.at = "loop"
      /\ calls' = Front(calls) /\ UNCHANGED <<stack, batch, faults>>
      /\ calls' \in Seq(Frame) /\ Len(calls') = n - 1
      /\ \A k \in 1 .. n - 1 : calls'[k] = calls[k]
      /\ Linked(calls)
  BY CalleeType DEF StackInv, KidsEnd, In, Return, ResultsInv, Results
<1>2. \/ Callee.left = 0 /\ ret' = Callee.res
      \/ Callee.left > 0 /\ stack[Source] = <<>> /\ ret' = "fail"
  BY DEF KidsEnd, Return
<1>3. \A k \in 1 .. n - 1 : Honest(calls'[k], stack, batch, faults)
  <2> SUFFICES ASSUME NEW k \in 1 .. n - 1 PROVE Honest(calls[k], stack, batch, faults)
    BY <1>1
  <2> QED BY OthersHonest
<1>4. Linked(calls')
  <2>1. \A k \in 1 .. n - 2 : k \in 1 .. n - 1 /\ k + 1 \in 1 .. n - 1
    BY <1>1
  <2> QED BY <1>1, <2>1 DEF Linked
<1>5. ASSUME calls' # <<>>
      PROVE  Answered(calls'[n - 1], stack, batch, faults, ret')
  <2> DEFINE f == calls[n - 1]
             d == Callee.dir
  <2>1. n - 1 \in 1 .. n - 1 /\ (n - 1) + 1 = n /\ n - 1 \in 1 .. n
    BY <1>1, <1>5, EmptySeq
  <2>2. Fits(f, Callee, stack) /\ Links(f, Callee) /\ calls'[n - 1] = f /\ f \in Frame
    BY <1>1, <2>1, ElementOfSeq
       DEF CallsInv, Orderly, Chained, ResultsInv, Results, Linked, StackInv, TypeOK
  <2>3. f.fn = "item" /\ f.item = Callee.item
    BY <1>1, <2>2 DEF Fits
  <2> HIDE DEF f
  <2>4. f.item \in Item /\ Callee.item # 0
    BY <2>2, <2>3, FrameFields DEF Item
  <2> SUFFICES Ends(d, f.item, stack, batch, faults, ret')
    <3>1. \/ f.at = "kids" /\ d = f.dir
          \/ f.at = "recover" /\ d = Other(f.dir)
      BY <2>2, <2>3 DEF Links
    <3> QED BY <2>2, <2>3, <3>1 DEF Answered
  <2>6. n \in 1 .. n
    BY <1>1
  <2>7. Honest(Callee, stack, batch, faults)
    BY <1>1, <2>6 DEF ResultsInv, Results
  <2>8. \/ Callee.res = "ok" /\ Len(Due(stack, d, f.item)) = Callee.left
        \/ Callee.res = "fail" /\ Stuck(d, f.item, stack, batch, faults)
    BY <1>1, <2>3, <2>4, <2>7 DEF Honest
  <2>9. stack[Source] = Due(stack, d, f.item)
    BY <2>3 DEF Source, Due
  <2>10. stack \in Stacks /\ <<d, f.item>> \in StackId
    BY <1>1, <2>4, StackInvFacts, StackIds, FrameFields
  <2>11. Due(stack, d, f.item) \in Seq(Item)
    BY <2>10 DEF Due, Stacks
  <2>12. Stuck(d, f.item, stack, batch, faults) => Due(stack, d, f.item) # <<>>
    BY DEF Stuck
  <2>13. Len(Due(stack, d, f.item)) = 0 <=> Due(stack, d, f.item) = <<>>
    BY <2>11, EmptySeq
  <2> HIDE DEF n, d
  <2> QED BY <1>2, <2>8, <2>9, <2>12, <2>13 DEF Ends
<1>6. Results(calls', stack, batch, faults, ret')
  BY <1>1, <1>3, <1>4, <1>5 DEF Results
<1> QED BY <1>1, <1>6, ResultsInvNext

\* A loop calls a child.
LEMMA KidsCallResults ==
    ASSUME StackInv, CallsInv, ResultsInv, KidsCall PROVE ResultsInv'
<1> DEFINE n == Len(calls)
           i == Last(stack[Source])
           f == Waiting(Callee)
           r == Append(Front(calls), f)
<1>1. /\ TypeOK /\ n \in Nat /\ n >= 1 /\ Callee = calls[n] /\ Callee \in Frame
      /\ Running /\ Callee.fn = "kids" /\ Callee.at = "loop" /\ Callee.left > 0
      /\ stack[Source] # <<>> /\ Linked(calls)
      /\ calls' = r \o Entered(Callee.dir, i) /\ UNCHANGED <<stack, batch, faults, ret>>
  BY CalleeType DEF StackInv, KidsCall, In, Peek, ResultsInv, Results
<1>2. Callee.dir \in Direction /\ Callee.item \in Holder /\ Callee.left \in Nat
  BY <1>1, FrameFields
<1>3. /\ f \in Frame /\ f.fn = "kids" /\ f.dir = Callee.dir /\ f.item = Callee.item
      /\ f.at = "wait" /\ f.left = Callee.left - 1 /\ f.res = Callee.res
  BY <1>1, <1>2, ChangedFrames DEF Waiting, Frame
<1>4. i \in Item /\ i \in Holder
  <2>1. Source \in StackId
    BY <1>2, StackIds DEF Source
  <2> QED BY <1>1, <2>1, StackInvFacts, PopShrinks, StackIds
<1> HIDE DEF f, i
<1>5. /\ r \in Seq(Frame) /\ Len(r) = n /\ r[Len(r)] = f /\ r # <<>>
      /\ \A k \in 1 .. n - 1 : r[k] = calls[k]
      /\ Linked(r)
  BY <1>1, <1>3, GoesOnLinked
<1> HIDE DEF r
<1>6. \A k \in 1 .. n : Honest(r[k], stack, batch, faults)
  <2>1. \A k \in 1 .. n - 1 : Honest(calls[k], stack, batch, faults)
    BY OthersHonest
  <2>2. Honest(f, stack, batch, faults)
    <3>1. n \in 1 .. n
      BY <1>1
    <3>2. Honest(Callee, stack, batch, faults)
      BY <1>1, <3>1 DEF ResultsInv, Results
    <3>3. f.left + 1 = Callee.left
      BY <1>2, <1>3
    <3> QED BY <1>1, <1>3, <3>2, <3>3 DEF Honest
  <2>3. \A k \in 1 .. n : k \in 1 .. n - 1 \/ k = n
    BY <1>1
  <2> QED BY <1>5, <2>1, <2>2, <2>3
<1>7. PICK at \in {"kids", "calling"} :
        \/ /\ at = "calling" /\ Callee.dir = "redo" /\ i \notin batch
           /\ Entered(Callee.dir, i) = <<MkFrame("item", Callee.dir, i, at, 0)>>
        \/ /\ at = "kids" /\ (Callee.dir = "redo" => i \in batch)
           /\ Entered(Callee.dir, i)
                = <<MkFrame("item", Callee.dir, i, at, 0), Kids(Callee.dir, i)>>
  BY <1>2 DEF Entered, Direction
<1> DEFINE g == MkFrame("item", Callee.dir, i, at, 0)
           h == Kids(Callee.dir, i)
           q == Append(r, g)
<1>8. /\ g \in Frame /\ g.fn = "item" /\ g.dir = Callee.dir /\ g.at = at /\ g.item = i
      /\ h \in Frame /\ h.fn = "kids" /\ h.dir = Callee.dir /\ h.item = i
      /\ h.at = "loop" /\ h.res = "ok" /\ h.left = Len(stack[<<Callee.dir, i>>])
  <2>1. g \in Frame /\ h \in Frame
    BY <1>1, <1>2, <1>4, NewFrames
  <2> QED BY <2>1 DEF MkFrame, Kids
<1>9. Links(f, g)
  BY <1>3, <1>8 DEF Links
<1> HIDE DEF g, h
<1>10. /\ q \in Seq(Frame) /\ Len(q) = n + 1 /\ q[Len(q)] = g /\ q # <<>>
       /\ \A k \in 1 .. n : q[k] = r[k]
       /\ Linked(q)
  BY <1>5, <1>8, <1>9, CallLinked
<1>11. /\ Honest(h, stack, batch, faults) /\ Answered(h, stack, batch, faults, ret)
  BY <1>8 DEF Honest, Answered, Due
<1>12. CASE at = "calling" /\ Callee.dir = "redo" /\ i \notin batch /\ calls' = r \o <<g>>
  <2>1. calls' = q
    BY <1>5, <1>8, <1>12, AppendIsConcat
  <2> HIDE DEF q
  <2>2. Honest(g, stack, batch, faults) /\ Answered(g, stack, batch, faults, ret)
    BY <1>8, <1>12 DEF Honest, Answered
  <2>3. \A k \in 1 .. n + 1 : k \in 1 .. n \/ k = Len(q)
    BY <1>1, <1>10
  <2>4. Results(calls', stack, batch, faults, ret)
    BY <1>6, <1>10, <2>1, <2>2, <2>3 DEF Results
  <2> QED BY <1>1, <2>4, ResultsInvNext
<1>13. CASE /\ at = "kids" /\ (Callee.dir = "redo" => i \in batch)
            /\ calls' = r \o <<g, h>>
  <2> DEFINE p == Append(q, h)
  <2>1. calls' = p
    BY <1>5, <1>8, <1>13, AppendTwo
  <2>2. Honest(g, stack, batch, faults)
    BY <1>8, <1>13 DEF Honest
  <2>3. Links(g, h)
    BY <1>8, <1>13 DEF Links
  <2> HIDE DEF q
  <2>4. /\ p \in Seq(Frame) /\ Len(p) = n + 2 /\ p[Len(p)] = h /\ p # <<>>
        /\ \A k \in 1 .. n + 1 : p[k] = q[k]
        /\ Linked(p)
    <3>1. /\ p \in Seq(Frame) /\ Len(p) = Len(q) + 1 /\ p[Len(p)] = h /\ p # <<>>
          /\ \A k \in 1 .. Len(q) : p[k] = q[k]
          /\ Linked(p)
      BY <1>8, <1>10, <2>3, CallLinked
    <3> QED BY <1>1, <1>10, <3>1
  <2> HIDE DEF p
  <2>5. \A k \in 1 .. n + 2 : k \in 1 .. n \/ k = Len(q) \/ k = Len(p)
    BY <1>1, <1>10, <2>4
  <2>6. \A k \in 1 .. Len(p) : Honest(p[k], stack, batch, faults)
    <3>1. \A k \in 1 .. n : k \in 1 .. n + 1
      BY <1>1
    <3>2. Len(q) \in 1 .. n + 1
      BY <1>1, <1>10
    <3> QED BY <1>6, <1>10, <1>11, <2>2, <2>4, <2>5, <3>1, <3>2
  <2>7. Results(calls', stack, batch, faults, ret)
    BY <1>11, <2>1, <2>4, <2>6 DEF Results
  <2> QED BY <1>1, <2>7, ResultsInvNext
<1> QED BY <1>1, <1>7, <1>12, <1>13 DEF g, h

\* The children after the one on top has moved to the other stack.
LEMMA MovedDues ==
    ASSUME NEW st \in Stacks, NEW dir \in Direction, NEW h \in Holder,
           Due(st, dir, h) # <<>>
    PROVE  LET st2 == PopPush(st, <<dir, h>>, <<Other(dir), h>>)
               c == Last(Due(st, dir, h))
           IN /\ st2 \in Stacks /\ c \in Item
              /\ st2[DoStack] = st[DoStack]
              /\ \A d \in Direction, w \in Holder : w # h => Due(st2, d, w) = Due(st, d, w)
              /\ Len(Due(st, dir, h)) \in Nat \ {0}
              /\ Len(Due(st2, dir, h)) = Len(Due(st, dir, h)) - 1
              /\ \A m \in 1 .. Len(Due(st, dir, h)) - 1 :
                    Due(st2, dir, h)[m] = Due(st, dir, h)[m]
              /\ Due(st2, Other(dir), h) = Append(Due(st, Other(dir), h), c)
<1> DEFINE s == <<dir, h>>
           t == <<Other(dir), h>>
           i == Last(st[s])
           st2 == PopPush(st, s, t)
<1>1. /\ s \in StackId /\ t \in StackId /\ s # t /\ s # DoStack /\ t # DoStack
      /\ DoStack \in StackId
      /\ \A d \in Direction, w \in Holder :
            /\ <<d, w>> \in StackId
            /\ w # h => <<d, w>> # s /\ <<d, w>> # t
  BY StackIds DEF Direction, Other
<1>2. st[s] # <<>>
  BY DEF Due
<1>3. /\ Shrunk(Pop(st, s), st) /\ i \in Item
      /\ \A u \in StackId \ {s} : Pop(st, s)[u] = st[u]
      /\ Len(Pop(st, s)[s]) = Len(st[s]) - 1
      /\ \A k \in 1 .. Len(st[s]) - 1 : Pop(st, s)[s][k] = st[s][k]
  BY <1>1, <1>2, PopShrinks
<1>4. Pop(st, s) \in Stacks
  BY <1>3 DEF Shrunk
<1>5. st2 = [Pop(st, s) EXCEPT ![t] = Append(@, i)]
  BY <1>2 DEF PopPush, Push
<1>6. /\ st2[t] = Append(st[t], i) /\ st2[s] = Pop(st, s)[s]
      /\ \A u \in StackId \ {s, t} : st2[u] = st[u]
  <2> HIDE DEF s, t, i
  <2> QED BY <1>1, <1>3, <1>4, <1>5 DEF Stacks
<1>7. Append(Pop(st, s)[t], i) \in Seq(Item)
  <2>1. Pop(st, s)[t] \in Seq(Item)
    BY <1>1, <1>4 DEF Stacks
  <2> HIDE DEF s, t, i
  <2> QED BY <1>3, <2>1, AppendProperties
<1>8. st2 \in Stacks
  <2> HIDE DEF s, t, i
  <2> QED BY <1>1, <1>4, <1>5, <1>7 DEF Stacks
<1>9. Len(st[s]) \in Nat \ {0}
  <2>1. st[s] \in Seq(Item)
    BY <1>1 DEF Stacks
  <2> HIDE DEF s
  <2> QED BY <1>2, <2>1, EmptySeq
<1>10. \A d \in Direction, w \in Holder : w # h => Due(st2, d, w) = Due(st, d, w)
  <2> HIDE DEF s, t, i, st2
  <2> QED BY <1>1, <1>6 DEF Due
<1>11. st2[DoStack] = st[DoStack]
  <2> HIDE DEF s, t, i, st2
  <2> QED BY <1>1, <1>6
<1>12. /\ Due(st, dir, h) = st[s] /\ Due(st2, dir, h) = st2[s]
       /\ Due(st, Other(dir), h) = st[t] /\ Due(st2, Other(dir), h) = st2[t]
  BY DEF Due
<1> HIDE DEF s, t, st2
<1> QED BY <1>3, <1>6, <1>8, <1>9, <1>10, <1>11, <1>12 DEF s, t, st2

\* A child has returned to its loop: only one that is not doomed has moved.
LEMMA KidsMoveResults ==
    ASSUME StackInv, CallsInv, ResultsInv, FailuresLast, KidsMove PROVE ResultsInv'
<1> DEFINE n == Len(calls)
           h == Callee.item
           dir == Callee.dir
           f == [Callee EXCEPT !.at = "loop", !.res = ret]
           D(d, w) == Due(stack, d, w)
           E(d, w) == Due(stack', d, w)
<1>1. /\ TypeOK /\ n \in Nat /\ n >= 1 /\ Callee = calls[n] /\ Callee \in Frame
      /\ Running /\ Callee.fn = "kids" /\ Callee.at = "wait"
      /\ Linked(calls) /\ Orderly(calls, stack, batch) /\ calls \in Seq(Frame)
      /\ UNCHANGED <<batch, faults, ret>> /\ ret \in Result /\ stack \in Stacks
  BY CalleeType, StackInvFacts
     DEF StackInv, TypeOK, KidsMove, In, CallsInv, ResultsInv, Results
<1>2. /\ calls' = Append(Front(calls), f)
      /\ \/ ret = "ok" /\ stack' = PopPush(stack, Source, Target)
         \/ ret = "fail" /\ stack' = stack
  <2>1. DidNotify(ret) = {ret}
    BY DEF DidNotify, FailuresLast
  <2> QED BY <1>1, <2>1 DEF KidsMove, Result
<1>3. dir \in Direction /\ h \in Holder /\ Callee.left \in Nat /\ h \in Nat
  BY <1>1, FrameFields, BoundsAssumption DEF Holder
<1>4. /\ f \in Frame /\ f.fn = "kids" /\ f.dir = dir /\ f.item = h
      /\ f.at = "loop" /\ f.left = Callee.left /\ f.res = ret
  BY <1>1, ChangedFrames DEF Frame
<1> HIDE DEF f
<1>5. /\ calls' \in Seq(Frame) /\ Len(calls') = n /\ calls'[n] = f /\ calls' # <<>>
      /\ \A k \in 1 .. n - 1 : calls'[k] = calls[k]
      /\ Linked(calls')
  BY <1>1, <1>2, <1>4, GoesOnLinked
<1>6. /\ n \in 1 .. n
      /\ Honest(Callee, stack, batch, faults) /\ Answered(Callee, stack, batch, faults, ret)
  <2>1. n \in 1 .. n /\ calls # <<>>
    BY <1>1 DEF Running
  <2> QED BY <1>1, <2>1 DEF ResultsInv, Results
<1>7. /\ ret = "ok" => ~ Stuck(dir, h, stack, batch, faults)
      /\ ret = "fail" => Stuck(dir, h, stack, batch, faults)
      /\ ret = "ok" /\ h # 0 => Len(D(dir, h)) = Callee.left + 1 /\ D(dir, h) # <<>>
  <2>1. ret = "fail" <=> Stuck(dir, h, stack, batch, faults)
    BY <1>1, <1>6 DEF Answered
  <2>2. ret = "ok" /\ h # 0 => Len(D(dir, h)) = Callee.left + 1
    BY <1>1, <1>6, <2>1 DEF Honest
  <2>3. D(dir, h) \in Seq(Item)
    BY <1>1, <1>3, StackIds DEF Due, Stacks
  <2>4. Len(D(dir, h)) = Callee.left + 1 => D(dir, h) # <<>>
    BY <1>3, <2>3, EmptySeq
  <2> QED BY <2>1, <2>2, <2>4
<1>8. ASSUME ret = "ok", D(dir, h) # <<>>
      PROVE  /\ \A d \in Direction, w \in Holder : w # h => E(d, w) = D(d, w)
             /\ Len(D(dir, h)) \in Nat \ {0}
             /\ Len(E(dir, h)) = Len(D(dir, h)) - 1
             /\ \A m \in 1 .. Len(D(dir, h)) - 1 : E(dir, h)[m] = D(dir, h)[m]
             /\ \A m \in 1 .. Len(D(Other(dir), h)) :
                   /\ m \in 1 .. Len(E(Other(dir), h))
                   /\ E(Other(dir), h)[m] = D(Other(dir), h)[m]
  <2> DEFINE st2 == PopPush(stack, <<dir, h>>, <<Other(dir), h>>)
             c == Last(Due(stack, dir, h))
  <2>1. stack' = st2
    BY <1>2, <1>8 DEF Source, Target
  <2>2. dir \in Direction /\ h \in Holder /\ stack \in Stacks /\ Other(dir) \in Direction
    BY <1>1, <1>3, StackIds
  <2> HIDE DEF dir, h
  <2>3. /\ c \in Item
        /\ \A d \in Direction, w \in Holder : w # h => Due(st2, d, w) = Due(stack, d, w)
        /\ Len(Due(stack, dir, h)) \in Nat \ {0}
        /\ Len(Due(st2, dir, h)) = Len(Due(stack, dir, h)) - 1
        /\ \A m \in 1 .. Len(Due(stack, dir, h)) - 1 :
              Due(st2, dir, h)[m] = Due(stack, dir, h)[m]
        /\ Due(st2, Other(dir), h) = Append(Due(stack, Other(dir), h), c)
    BY <1>8, <2>2, MovedDues
  <2>4. D(Other(dir), h) \in Seq(Item)
    BY <2>2, StackIds DEF Due, Stacks
  <2> HIDE DEF c
  <2>5. \A m \in 1 .. Len(D(Other(dir), h)) :
           /\ m \in 1 .. Len(Append(D(Other(dir), h), c))
           /\ Append(D(Other(dir), h), c)[m] = D(Other(dir), h)[m]
    <3>1. /\ Len(Append(D(Other(dir), h), c)) = Len(D(Other(dir), h)) + 1
          /\ Len(D(Other(dir), h)) \in Nat
          /\ \A m \in 1 .. Len(D(Other(dir), h)) :
                Append(D(Other(dir), h), c)[m] = D(Other(dir), h)[m]
      BY <2>3, <2>4, AppendProperties
    <3> QED BY <3>1
  <2> HIDE DEF st2
  <2> QED BY <2>1, <2>3, <2>5
<1>9. ret = "ok" /\ D(dir, h) = <<>> => stack' = stack
  BY <1>2 DEF PopPush, Source, Due
<1> HIDE DEF h, dir
<1>10. ASSUME NEW d \in Direction, NEW w \in Item, NEW m \in 1 .. Len(D(d, w)),
              Doomed(d, D(d, w)[m], stack, batch, faults)
       PROVE  \E k \in 1 .. Len(E(d, w)) : E(d, w)[k] = D(d, w)[m]
  <2>1. w \in Holder
    BY StackIds
  <2>2. CASE stack' = stack
    BY <2>2
  <2>3. CASE ret = "ok" /\ D(dir, h) # <<>>
    <3>1. CASE w # h
      <4>1. E(d, w) = D(d, w)
        BY <1>8, <2>1, <2>3, <3>1
      <4> QED BY <4>1
    <3>2. CASE w = h /\ d = dir
      <4>1. m # Len(D(dir, h))
        BY <1>7, <1>10, <2>3, <3>2 DEF Stuck, Last
      <4>2. m \in 1 .. Len(D(dir, h)) - 1 /\ m \in 1 .. Len(E(dir, h))
        BY <1>8, <2>3, <3>2, <4>1
      <4>3. E(dir, h)[m] = D(dir, h)[m]
        BY <1>8, <2>3, <4>2
      <4> QED BY <3>2, <4>2, <4>3
    <3>3. CASE w = h /\ d = Other(dir)
      BY <1>8, <2>3, <3>3
    <3> QED BY <1>3, <3>1, <3>2, <3>3 DEF Direction, Other
  <2> QED BY <1>2, <1>9, <2>2, <2>3
<1>11. ASSUME NEW d \in Direction
       PROVE  \A i : Doomed(d, i, stack, batch, faults) => Doomed(d, i, stack', batch, faults)
  BY <1>10, DoomLasts
<1>12. \A d, i : Doomed(d, i, stack, batch, faults) /\ d \in Direction
                    => Doomed(d, i, stack', batch, faults)
  BY <1>11
<1>13. ASSUME NEW k \in 1 .. n - 1
       PROVE  Honest(calls'[k], stack', batch, faults)
  <2>1. k \in 1 .. n /\ k < n
    BY <1>1
  <2>2. /\ calls[k].item \in Nat /\ calls[k] \in Frame
        /\ calls[k].fn # "body" => calls[k].dir \in Direction
        /\ calls[k].fn = "kids" => calls[k].item \in Holder
        /\ calls[k].fn \in {"body", "kids", "item"}
    BY <1>1, <2>1, FrameNumbers
  <2>3. Honest(calls[k], stack, batch, faults) /\ Links(calls[k], calls[k + 1])
    BY <1>1, <2>1 DEF ResultsInv, Results, Linked
  <2>4. CASE calls[k].fn = "kids"
    <3>1. calls[k].item < calls[n].item
      BY <1>1, <1>6, <2>1, <2>4 DEF Orderly, Descends
    <3>2. calls[k].item # h
      BY <1>1, <1>3, <2>2, <3>1 DEF h
    <3>3. E(calls[k].dir, calls[k].item) = D(calls[k].dir, calls[k].item)
      <4>1. CASE stack' = stack
        BY <4>1
      <4>2. CASE ret = "ok" /\ D(dir, h) # <<>>
        BY <1>8, <2>2, <2>4, <3>2, <4>2
      <4> QED BY <1>2, <1>9, <4>1, <4>2
    <3>4. Stuck(calls[k].dir, calls[k].item, stack, batch, faults)
             => Stuck(calls[k].dir, calls[k].item, stack', batch, faults)
      BY <1>12, <2>2, <2>4, <3>3 DEF Stuck
    <3>5. Honest(calls[k], stack', batch, faults)
      BY <2>3, <2>4, <3>3, <3>4 DEF Honest
    <3> QED BY <1>5, <3>5
  <2>5. CASE calls[k].fn = "item"
    <3>1. calls[k].at # "calling"
      BY <2>3, <2>5 DEF Links
    <3>2. Honest(calls[k], stack', batch, faults)
      BY <1>12, <2>2, <2>3, <2>5, <3>1 DEF Honest
    <3> QED BY <1>5, <3>2
  <2>6. CASE calls[k].fn = "body"
    BY <1>5, <2>6 DEF Honest
  <2> QED BY <2>2, <2>4, <2>5, <2>6
<1>14. Honest(f, stack', batch, faults)
  <2> SUFFICES ASSUME h # 0
               PROVE  \/ ret = "ok" /\ Len(E(dir, h)) = Callee.left
                      \/ ret = "fail" /\ Stuck(dir, h, stack', batch, faults)
    BY <1>4 DEF Honest
  <2>1. CASE ret = "ok"
    <3>1. Len(E(dir, h)) = Len(D(dir, h)) - 1
      BY <1>7, <1>8, <2>1
    <3>2. Len(D(dir, h)) = Callee.left + 1
      BY <1>7, <2>1
    <3> QED BY <1>3, <2>1, <3>1, <3>2
  <2>2. CASE ret = "fail" /\ stack' = stack
    BY <1>7, <2>2
  <2> QED BY <1>2, <2>1, <2>2
<1>15. Answered(f, stack', batch, faults, ret)
  BY <1>4 DEF Answered
<1>16. \A k \in 1 .. n : k \in 1 .. n - 1 \/ k = n
  BY <1>1
<1>17. Results(calls', stack', batch, faults, ret)
  BY <1>5, <1>13, <1>14, <1>15, <1>16 DEF Results
<1> QED BY <1>1, <1>17, ResultsInvNext

\* A failure of an item is always that of one that has failed by itself.
LEMMA DoomIsAFault ==
    ASSUME NEW st \in Stacks, Nested(st), NEW dir \in Direction, NEW i,
           NEW bt, NEW fs, Doomed(dir, i, st, bt, fs)
    PROVE  \E j \in Item : <<dir, j>> \in fs
<1>1. PICK W \in SUBSET Item : i \in W /\ Doom(dir, W, st, bt, fs)
  BY DEF Doomed
<1> SUFFICES ASSUME \A j \in Item : <<dir, j>> \notin fs PROVE FALSE
  OBVIOUS
<1>2. ASSUME NEW w \in W PROVE \E v \in W : v > w
  <2>1. PICK m \in 1 .. Len(Due(st, dir, w)) : Due(st, dir, w)[m] \in W
    BY <1>1 DEF Doom
  <2>2. <<dir, w>> \in StackId \ {DoStack}
    BY StackIds
  <2>3. Due(st, dir, w)[m] > w
    BY <2>2 DEF Nested, Due
  <2> QED BY <2>1, <2>3
<1> DEFINE T == {n \in Nat : \A w \in W : w + n <= MaxItems}
<1>3. MaxItems \in Nat /\ W \subseteq 1 .. MaxItems
  BY BoundsAssumption DEF Item
<1>4. 0 \in T
  BY <1>3
<1>5. ASSUME NEW n \in T PROVE n + 1 \in T
  <2>1. ASSUME NEW w \in W PROVE w + (n + 1) <= MaxItems
    <3>1. PICK v \in W : v > w
      BY <1>2
    <3>2. v + n <= MaxItems /\ n \in Nat /\ v \in Nat /\ w \in Nat
      BY <1>3
    <3> QED BY <1>3, <3>1, <3>2
  <2> QED BY <2>1
<1>6. T = Nat
  BY <1>4, <1>5, AllNaturals
<1>7. i + MaxItems <= MaxItems /\ i \in 1 .. MaxItems
  BY <1>1, <1>3, <1>6
<1> QED BY <1>3, <1>7

LEMMA ProgressResults ==
    ASSUME StackInv, CallsInv, ResultsInv, FailuresLast, Progress
    PROVE  ResultsInv'
<1>1. /\ TypeOK /\ "reenter" \notin Env /\ "flaky" \notin Env /\ "vetoChild" \notin Env
      /\ calls \in Seq(Frame) /\ ret \in Result /\ stack \in Stacks
  BY StackInvFacts DEF StackInv, TypeOK, FailuresLast
<1>2. ASSUME Running
      PROVE  /\ Callee \in Frame
             /\ Callee.fn = "item" => Callee.item \in Item
             /\ Honest(Callee, stack, batch, faults)
             /\ Answered(Callee, stack, batch, faults, ret)
  <2>1. /\ Len(calls) \in 1 .. Len(calls) /\ Callee = calls[Len(calls)] /\ Callee \in Frame
        /\ calls # <<>>
    BY <1>1, <1>2, CalleeType DEF Running
  <2> QED BY <2>1, FrameFields DEF ResultsInv, Results
<1>3. Other("undo") = "redo" /\ Other("redo") = "undo"
  BY DEF Other
<1>4. CASE DoReturns \/ DoFails \/ (Running /\ BatchOpen /\ EndBatch)
  <2>1. Running /\ ClientRuns
    BY <1>4 DEF DoReturns, DoFails, BodyReturns, EndBatch, ClientRuns, In
  <2>2. \A k \in 1 .. Len(calls) : calls[k].fn = "body"
    BY <1>1, <2>1, OnlyBodies
  <2>3. calls' = calls \/ calls' = Front(calls)
    BY <1>4 DEF DoReturns, DoFails, EndBatch, Return
  <2>4. calls' \in Seq(Frame) /\ \A k \in 1 .. Len(calls') : calls'[k].fn = "body"
    <3>1. CASE calls' = calls
      BY <1>1, <2>2, <3>1
    <3>2. CASE calls' = Front(calls)
      <4>1. /\ calls' \in Seq(Frame) /\ Len(calls') = Len(calls) - 1 /\ Len(calls) \in Nat
            /\ \A k \in 1 .. Len(calls) - 1 : calls'[k] = calls[k]
        BY <1>1, <2>1, <3>2, CalleeType
      <4>2. \A k \in 1 .. Len(calls) - 1 : k \in 1 .. Len(calls)
        BY <4>1
      <4> QED BY <2>2, <4>1, <4>2
    <3> QED BY <2>3, <3>1, <3>2
  <2>5. Results(calls', stack', batch', faults', ret')
    BY <2>4, BodiesHonest
  <2> QED BY <2>5, ResultsInvNext
<1>5. CASE KidsEnd \/ KidsCall \/ KidsMove
  BY <1>5, KidsEndResults, KidsCallResults, KidsMoveResults
<1>6. ~ KidsVetoed
  BY <1>1 DEF KidsVetoed
<1>7. CASE UndoItemKidsDone
  <2>1. /\ Running /\ Callee.fn = "item" /\ Callee.at = "kids" /\ Callee.dir = "undo"
        /\ UNCHANGED <<stack, batch, faults>>
    BY <1>7 DEF UndoItemKidsDone, In
  <2>2. /\ ret = "ok" => Due(stack, "undo", Callee.item) = <<>>
        /\ ret = "fail" => Doomed("undo", Callee.item, stack, batch, faults)
    BY <1>1, <1>2, <2>1, StuckDooms, StackIds DEF Answered, Ends
  <2>3. \/ ret = "fail" /\ GoOn("recover", <<Kids("redo", Callee.item)>>)
        \/ ret = "ok" /\ Callee.item \in batch /\ Return("ok")
        \/ ret = "ok" /\ Callee.item \notin batch /\ GoOn("calling", <<>>)
    BY <1>7 DEF UndoItemKidsDone, RecoverFromUndoError
  <2>4. CASE ret = "fail" /\ GoOn("recover", <<Kids("redo", Callee.item)>>)
    BY <1>3, <2>1, <2>2, <2>4, ItemGoesHonestlyOn
  <2>5. CASE ret = "ok" /\ Callee.item \in batch /\ Return("ok")
    <3>1. ~ Doomed("undo", Callee.item, stack, batch, faults')
      BY <2>2, <2>5, NotDoomed
    <3> QED BY <2>1, <2>5, <3>1, ItemReturns DEF Return
  <2>6. CASE ret = "ok" /\ Callee.item \notin batch /\ GoOn("calling", <<>>)
    BY <2>1, <2>2, <2>6, ItemGoesHonestlyOn
  <2> QED BY <2>3, <2>4, <2>5, <2>6
<1>8. CASE UndoItemCalled
  <2>1. /\ Running /\ Callee.fn = "item" /\ Callee.at = "calling" /\ Callee.dir = "undo"
        /\ UNCHANGED <<stack, batch>>
    BY <1>8 DEF UndoItemCalled, In
  <2>2. Due(stack, "undo", Callee.item) = <<>> /\ Callee.item \notin batch
    BY <1>2, <2>1 DEF Honest
  <2>3. CASE Succeeds("undo", Callee.item) /\ Return("ok")
    <3>1. <<"undo", Callee.item>> \notin faults' /\ faults' = faults
      BY <2>3 DEF Succeeds
    <3>2. ~ Doomed("undo", Callee.item, stack, batch, faults')
      BY <2>2, <3>1, NotDoomed
    <3> QED BY <2>1, <2>3, <3>1, <3>2, ItemReturns DEF Return
  <2>4. CASE Fails("undo", Callee.item) /\ GoOn("recover", <<Kids("redo", Callee.item)>>)
    <3>1. faults' = faults \cup {<<"undo", Callee.item>>}
      BY <1>1, <2>4 DEF Fails
    <3>2. Doomed("undo", Callee.item, stack, batch, faults')
      <4>1. {Callee.item} \in SUBSET Item
        BY <1>2, <2>1
      <4>2. Doom("undo", {Callee.item}, stack, batch, faults')
        BY <2>2, <3>1 DEF Doom
      <4> QED BY <4>1, <4>2 DEF Doomed
    <3> QED BY <1>3, <2>1, <2>4, <3>1, <3>2, ItemGoesHonestlyOn
  <2> QED BY <1>8, <2>3, <2>4 DEF UndoItemCalled, RecoverFromUndoError
<1>9. CASE UndoItemRecovered
  <2>1. /\ Running /\ Callee.fn = "item" /\ Callee.at = "recover" /\ Callee.dir = "undo"
        /\ UNCHANGED <<stack, batch, faults>> /\ calls' = Front(calls) /\ ret' = "fail"
    BY <1>9 DEF UndoItemRecovered, In, Return
  <2>2. Doomed("undo", Callee.item, stack, batch, faults')
    BY <1>2, <2>1 DEF Honest
  <2> QED BY <2>1, <2>2, ItemReturns
<1>10. CASE RedoItemCalled
  <2>1. /\ Running /\ Callee.fn = "item" /\ Callee.at = "calling" /\ Callee.dir = "redo"
        /\ UNCHANGED <<stack, batch>>
    BY <1>10 DEF RedoItemCalled, In
  <2>2. Callee.item \notin batch
    BY <1>2, <2>1 DEF Honest
  <2>3. CASE Succeeds("redo", Callee.item) /\ GoOn("kids", <<Kids("redo", Callee.item)>>)
    <3>1. <<"redo", Callee.item>> \notin faults' /\ faults' = faults
      BY <2>3 DEF Succeeds
    <3> QED BY <2>1, <2>3, <3>1, ItemGoesHonestlyOn
  <2>4. CASE Fails("redo", Callee.item) /\ Return("fail")
    <3>1. faults' = faults \cup {<<"redo", Callee.item>>}
      BY <1>1, <2>4 DEF Fails
    <3>2. Doomed("redo", Callee.item, stack, batch, faults')
      <4>1. {Callee.item} \in SUBSET Item
        BY <1>2, <2>1
      <4>2. Doom("redo", {Callee.item}, stack, batch, faults')
        BY <2>2, <3>1 DEF Doom
      <4> QED BY <4>1, <4>2 DEF Doomed
    <3> QED BY <2>1, <2>4, <3>1, <3>2, ItemReturns DEF Return
  <2> QED BY <1>10, <2>3, <2>4 DEF RedoItemCalled
<1>11. CASE RedoItemKidsDone
  <2>1. /\ Running /\ Callee.fn = "item" /\ Callee.at = "kids" /\ Callee.dir = "redo"
        /\ UNCHANGED <<stack, batch, faults>>
    BY <1>11 DEF RedoItemKidsDone, In
  <2>2. /\ ret = "ok" => Due(stack, "redo", Callee.item) = <<>>
        /\ ret = "fail" => Doomed("redo", Callee.item, stack, batch, faults)
        /\ Callee.item \in batch \/ <<"redo", Callee.item>> \notin faults
    BY <1>1, <1>2, <2>1, StuckDooms, StackIds DEF Answered, Ends, Honest
  <2>3. CASE ret = "ok" /\ Return("ok")
    <3>1. ~ Doomed("redo", Callee.item, stack, batch, faults')
      BY <2>1, <2>2, <2>3, NotDoomed
    <3> QED BY <2>1, <2>3, <3>1, ItemReturns DEF Return
  <2>4. CASE ret = "fail" /\ GoOn("recover", <<Kids("undo", Callee.item)>>)
    BY <1>3, <2>1, <2>2, <2>4, ItemGoesHonestlyOn
  <2> QED BY <1>11, <2>3, <2>4 DEF RedoItemKidsDone, RecoverFromRedoError
<1>12. CASE RedoItemRecovered
  <2>1. /\ Running /\ Callee.fn = "item" /\ Callee.at = "recover" /\ Callee.dir = "redo"
        /\ UNCHANGED <<stack, batch>> /\ faults \subseteq faults'
        /\ \A f \in faults' : f \in faults \/ f[2] = Callee.item
        /\ calls' = Front(calls) /\ ret' = "fail"
    BY <1>12 DEF RedoItemRecovered, In, Succeeds, Fails, Return
  <2>2. Doomed("redo", Callee.item, stack, batch, faults)
    BY <1>2, <2>1 DEF Honest
  <2>3. Doomed("redo", Callee.item, stack, batch, faults')
    BY <2>1, <2>2, MoreFaults
  <2> QED BY <2>1, <2>3, ItemReturns
<1> QED
  BY <1>4, <1>5, <1>6, <1>7, <1>8, <1>9, <1>10, <1>11, <1>12 DEF Progress

LEMMA ClientResults ==
    ASSUME StackInv, CallsInv, ResultsInv, FailuresLast, Client
    PROVE  ResultsInv'
<1>1. /\ TypeOK /\ calls \in Seq(Frame) /\ Len(calls) \in Nat /\ "reenter" \notin Env
      /\ created \in Nat
  BY StackInvFacts DEF StackInv, TypeOK, FailuresLast
<1>2. /\ \A k \in 1 .. Len(calls) : calls[k].fn = "body"
      /\ Running => Busy
  <2>1. ClientRuns
    BY DEF Client, Vetoed, DoTransaction, BeginBatch, EndBatch, ClearHistory,
           SetMaxTransactionCount, UndoOrRedo
  <2> QED BY <1>1, <2>1, OnlyBodies
<1>3. ASSUME calls' = calls PROVE ResultsInv'
  <2>1. Results(calls', stack', batch', faults', ret')
    BY <1>1, <1>2, <1>3, BodiesHonest
  <2> QED BY <2>1, ResultsInvNext
<1>4. CASE DoTransaction
  <2> DEFINE g == MkFrame("body", "do", created + 1, "running", 0)
  <2>1. calls' = Append(calls, g) /\ created + 1 \in Item
    BY <1>1, <1>4, BoundsAssumption DEF DoTransaction, RoomForItem, Item
  <2>2. g \in Frame /\ g.fn = "body"
    BY <1>1, <2>1, NewFrames DEF MkFrame
  <2> HIDE DEF g
  <2>3. /\ calls' \in Seq(Frame) /\ Len(calls') = Len(calls) + 1
        /\ calls'[Len(calls) + 1] = g /\ \A k \in 1 .. Len(calls) : calls'[k] = calls[k]
    BY <1>1, <2>1, <2>2, AppendProperties
  <2>4. \A k \in 1 .. Len(calls') : calls'[k].fn = "body"
    BY <1>1, <1>2, <2>2, <2>3
  <2>5. Results(calls', stack', batch', faults', ret')
    BY <2>3, <2>4, BodiesHonest
  <2> QED BY <2>5, ResultsInvNext
<1>5. ASSUME NEW dir \in Direction, UndoOrRedo(dir), calls' # calls PROVE ResultsInv'
  <2> DEFINE g == MkFrame("kids", dir, 0, "loop", 1)
  <2>1. ~ Busy /\ calls' = Append(calls, g)
    BY <1>5 DEF UndoOrRedo
  <2>2. calls = <<>>
    BY <1>2, <2>1 DEF Running
  <2>3. /\ g \in Frame /\ g.fn = "kids" /\ g.item = 0 /\ g.at = "loop"
    BY <1>1, NewFrames, StackIds DEF MkFrame
  <2> HIDE DEF g
  <2>4. Len(calls') = 1 /\ calls'[1] = g
    BY <2>1, <2>2, <2>3
  <2>5. Results(calls', stack', batch', faults', ret')
    BY <2>3, <2>4 DEF Results, Linked, Honest, Answered
  <2> QED BY <2>5, ResultsInvNext
<1>6. CASE Vetoed \/ BeginBatch \/ EndBatch \/ ClearHistory \/ SetMaxTransactionCount
  <2>1. calls' = calls
    BY <1>6 DEF Vetoed, BeginBatch, EndBatch, ClearHistory, SetMaxTransactionCount
  <2> QED BY <1>3, <2>1
<1> QED BY <1>3, <1>4, <1>5, <1>6 DEF Client

LEMMA ResultsInvInit ==
    ASSUME Init PROVE CallsInv /\ ResultsInv
<1>1. calls = <<>> /\ Len(calls) = 0
  BY DEF Init
<1> QED BY <1>1, CallsInvInit DEF ResultsInv, Results, Linked

LEMMA ResultsInvStep ==
    ASSUME StackInv, CallsInv, ResultsInv, FailuresLast, [Next]_vars
    PROVE  CallsInv' /\ ResultsInv'
<1>1. CallsInv'
  BY CallsInvStep DEF FailuresLast
<1>2. CASE Client
  BY <1>1, <1>2, ClientResults
<1>3. CASE Progress
  BY <1>1, <1>3, ProgressResults
<1>4. CASE UNCHANGED vars
  <2>1. UNCHANGED <<calls, stack, batch, faults, ret>>
    BY <1>4 DEF vars
  <2>2. Results(calls', stack', batch', faults', ret')
    BY <2>1 DEF ResultsInv
  <2> QED BY <1>1, <2>2, ResultsInvNext
<1> QED BY <1>2, <1>3, <1>4 DEF Next

\* When the undoTransaction() of an item is called all its children have been undone,
\* whatever fails on the way: a loop over children goes on after a failure and
\* returns what the last call in it returned, which is right because what failed is
\* still on top and fails again.  It is not where a failure does not last ("flaky"),
\* where a listener interrupts a loop ("vetoChild") or its own failure replaces the
\* result ("didFail"), or where what is undone calls the manager ("reenter").
THEOREM ParentsAreUndoneLast ==
    ASSUME {"reenter", "flaky", "vetoChild", "didFail"} \cap Env = {}
    PROVE  Spec => []ChildrenUndoneFirst
<1>1. FailuresLast
  BY DEF FailuresLast
<1>2. Init => CallsInv /\ ResultsInv
  BY ResultsInvInit
<1>3. StackInv /\ CallsInv /\ ResultsInv /\ [Next]_vars => CallsInv' /\ ResultsInv'
  BY <1>1, ResultsInvStep
<1>4. ResultsInv => ChildrenUndoneFirst
  BY DEF ResultsInv, Results, Honest, Due, ChildrenUndoneFirst
<1> QED BY <1>2, <1>3, <1>4, StackInvariance, PTL DEF Spec

----------------------------------------------------------------------------
(***************************************************************************)
(* The document.  A chart says what the document is before and after each  *)
(* item is done, and where each holder's children have got to: between     *)
(* those in its undo stack and those in its redo stack.                    *)
(***************************************************************************)
Doc == Seq(Item)

Chart == [pre : [Item -> Doc], post : [Item -> Doc], at : [Holder -> Doc]]

\* The document before the children of item i.
Start(m, i, bt, ow) == IF i \in bt THEN m.pre[i] ELSE m.pre[i] \o ow[i]

\* Where an item on top of the stack of dir leaves the document, and where the
\* children in the stacks of dir begin.
Edge(m, dir, i) == IF dir = "undo" THEN m.post[i] ELSE m.pre[i]
Base(m, dir, h, bt, ow) == IF dir = "undo" THEN Start(m, h, bt, ow) ELSE m.post[h]

\* The items s lead from document b to document a.
Path(m, dir, s, b, a) ==
    IF s = <<>> THEN a = b
    ELSE /\ Edge(m, Other(dir), s[1]) = b /\ Edge(m, dir, s[Len(s)]) = a
         /\ \A k \in 1 .. Len(s) - 1 : Edge(m, dir, s[k]) = Edge(m, Other(dir), s[k + 1])

\* The top level may have forgotten where it began.
Line(m, dir, h, st, bt, ow) ==
    \E b : /\ h # 0 => b = Base(m, dir, h, bt, ow)
           /\ Path(m, dir, Due(st, dir, h), b, m.at[h])

Laid(m, st, bt, ow, bf) ==
    /\ \A dir \in Direction, h \in Holder : Line(m, dir, h, st, bt, ow)
    /\ \A i \in Item \ bt : m.pre[i] = bf[i]

\* A loop of q waits for the child of h on top of the stack of dir.
Awaited(q, dir, h) ==
    \E k \in 1 .. Len(q) : /\ q[k].fn = "kids" /\ q[k].at = "wait"
                           /\ q[k].dir = dir /\ q[k].item = h

\* An item that is not being undone or redone is done or undone altogether.
Resting(st, q) ==
    /\ \A dir \in Direction, h \in Holder : \A k \in 1 .. Len(Due(st, dir, h)) :
          \/ Due(st, Other(dir), Due(st, dir, h)[k]) = <<>>
          \/ k = Len(Due(st, dir, h)) /\ Awaited(q, dir, h)
    /\ \A k \in 1 .. Len(st[DoStack]) : Due(st, "redo", st[DoStack][k]) = <<>>

\* Where the items being done have got to.
Place(m, s) == IF s = <<>> THEN m.at[0] ELSE m.at[Last(s)]

DoLine(m, s) ==
    /\ s # <<>> => m.pre[s[1]] = m.at[0]
    /\ \A k \in 1 .. Len(s) - 1 : m.pre[s[k + 1]] = m.at[s[k]]

\* Where the document dc is when f is the innermost call, and r was returned to it.
Here(m, f, st, r, dc) ==
    /\ f.fn = "kids" /\ f.at = "loop" => dc = m.at[f.item]
    /\ f.fn = "kids" /\ f.at = "wait" =>
          LET s == Due(st, f.dir, f.item) IN
          /\ s # <<>>
          /\ r = "ok" => /\ dc = Edge(m, Other(f.dir), Last(s))
                         /\ Due(st, f.dir, Last(s)) = <<>>
          /\ r = "fail" => /\ dc = m.at[f.item]
                           /\ Due(st, Other(f.dir), Last(s)) = <<>>
    /\ f.fn = "item" /\ f.at # "calling" => dc = m.at[f.item]
    /\ f.fn = "item" /\ f.at = "calling" =>
          /\ Due(st, "undo", f.item) = <<>>
          /\ dc = IF f.dir = "undo" THEN m.at[f.item] ELSE m.pre[f.item]

Undoing(q) == \E k \in 1 .. Len(q) : q[k].fn # "body"

\* While undo is disabled what is done is not recorded.
There(m, q, st, r, dc, mx) ==
    IF Undoing(q) THEN Here(m, q[Len(q)], st, r, dc)
    ELSE \/ mx = 0 /\ st[DoStack] # <<>>
         \/ dc = Place(m, st[DoStack]) /\ DoLine(m, st[DoStack])

\* The document when the calls of q began.
Began(m, q) ==
    \A k \in 2 .. Len(q) : q[k].fn = "item" => q[k].doc0 = m.at[q[k - 1].item]

Charted(m, st, bt, ow, bf, q, r, dc, mx) ==
    /\ m \in Chart
    /\ Laid(m, st, bt, ow, bf) /\ Resting(st, q)
    /\ There(m, q, st, r, dc, mx) /\ Began(m, q)

\* Effects have the numbers of the items they came from, which exist, and what was
\* done before item i has a lower one.
Numbered(ow, bf, dc, n) ==
    /\ \A i \in Item : /\ \A k \in 1 .. Len(ow[i]) : ow[i][k] >= i /\ ow[i][k] <= n
                       /\ \A k \in 1 .. Len(bf[i]) : bf[i][k] < i
    /\ \A k \in 1 .. Len(dc) : dc[k] <= n

\* What is in the history was created before what is being done.
Older(st) ==
    \A dir \in Direction : \A k \in 1 .. Len(Due(st, dir, 0)), l \in 1 .. Len(st[DoStack]) :
        Due(st, dir, 0)[k] < st[DoStack][l]

\* Undo and redo begin at the top level.
Rooted(q) ==
    q # <<>> => (q[1].fn = "body" \/ (q[1].fn = "kids" /\ q[1].item = 0))

DocInv ==
    /\ Numbered(own, before, doc, created)
    /\ Older(stack)
    /\ Rooted(calls)
    /\ Undoing(calls) => stack[DoStack] = <<>>

\* Nothing is said once a transaction is stranded: undo is refused for good.
ChartInv ==
    RollbackWorks /\ ~ IsStranded =>
       \E m : Charted(m, stack, batch, own, before, calls, ret, doc, maxCount)

LEMMA ChartInvNext ==
    ASSUME NEW m,
           Charted(m, stack', batch', own', before', calls', ret', doc', maxCount')
    PROVE  ChartInv'
<1>1. Laid(m, stack, batch, own, before)'
  BY DEF Charted, Laid, Line, Path, Edge, Base, Start, Due, Other
<1>2. Resting(stack, calls)'
  BY DEF Charted, Resting, Awaited, Due, Other, DoStack
<1>3. Undoing(calls') <=> Undoing(calls)'
  BY DEF Undoing
<1>4. Here(m, calls[Len(calls)], stack, ret, doc)' <=>
      Here(m, calls'[Len(calls')], stack', ret', doc')
  BY DEF Here, Edge, Due, Other, Last
<1>5. /\ Place(m, stack'[DoStack]) = Place(m, stack[DoStack])'
      /\ DoLine(m, stack'[DoStack]) <=> DoLine(m, stack[DoStack])'
  BY DEF Place, DoLine, DoStack, Last
<1>6. There(m, calls, stack, ret, doc, maxCount)'
  BY <1>3, <1>4, <1>5 DEF Charted, There, DoStack
<1>7. Began(m, calls)'
  BY DEF Charted, Began
<1> QED BY <1>1, <1>2, <1>6, <1>7 DEF ChartInv, Charted

----------------------------------------------------------------------------
LEMMA PathGrows ==
    ASSUME NEW m, NEW dir, NEW s \in Seq(Item), NEW b, NEW a, Path(m, dir, s, b, a),
           NEW i \in Item, Edge(m, Other(dir), i) = a
    PROVE  Path(m, dir, Append(s, i), b, Edge(m, dir, i))
<1> DEFINE t == Append(s, i)
           n == Len(s)
<1>1. /\ Len(t) = n + 1 /\ t[n + 1] = i /\ n \in Nat /\ t # <<>>
      /\ \A k \in 1 .. n : t[k] = s[k]
  BY AppendProperties
<1>2. CASE s = <<>>
  <2>1. n = 0 /\ a = b
    BY <1>2 DEF Path
  <2> HIDE DEF t, n
  <2> QED BY <1>1, <2>1 DEF Path, t
<1>3. CASE s # <<>>
  <2>1. /\ Edge(m, Other(dir), s[1]) = b /\ Edge(m, dir, s[n]) = a
        /\ \A k \in 1 .. n - 1 : Edge(m, dir, s[k]) = Edge(m, Other(dir), s[k + 1])
    BY <1>3 DEF Path
  <2>2. n >= 1 /\ t[1] = s[1]
    BY <1>1, <1>3, EmptySeq
  <2>3. ASSUME NEW k \in 1 .. n
        PROVE  Edge(m, dir, t[k]) = Edge(m, Other(dir), t[k + 1])
    <3>1. CASE k = n
      <4>1. t[k] = s[n] /\ t[k + 1] = i
        BY <1>1, <3>1
      <4> QED BY <2>1, <4>1
    <3>2. CASE k # n
      <4>1. k \in 1 .. n - 1 /\ t[k] = s[k] /\ t[k + 1] = s[k + 1]
        BY <1>1, <3>2
      <4> QED BY <2>1, <4>1
    <3> QED BY <3>1, <3>2
  <2> HIDE DEF t, n
  <2>4. Len(t) - 1 = n
    BY <1>1
  <2> QED BY <1>1, <2>1, <2>2, <2>3, <2>4 DEF Path, t
<1> QED BY <1>2, <1>3

\* t is s without its last item.
LEMMA PathShrinks ==
    ASSUME NEW m, NEW dir, NEW s \in Seq(Item), NEW b, NEW a, Path(m, dir, s, b, a),
           s # <<>>, NEW t \in Seq(Item), Len(t) = Len(s) - 1,
           \A k \in 1 .. Len(s) - 1 : t[k] = s[k]
    PROVE  /\ Path(m, dir, t, b, Edge(m, Other(dir), Last(s)))
           /\ Edge(m, dir, Last(s)) = a
<1> DEFINE n == Len(s)
<1>1. /\ Edge(m, Other(dir), s[1]) = b /\ Edge(m, dir, s[n]) = a
      /\ \A k \in 1 .. n - 1 : Edge(m, dir, s[k]) = Edge(m, Other(dir), s[k + 1])
  BY DEF Path
<1>2. n \in Nat /\ n >= 1 /\ Last(s) = s[n]
  BY EmptySeq DEF Last
<1>3. CASE n = 1
  <2>1. t = <<>>
    BY <1>3, EmptySeq
  <2> QED BY <1>1, <1>2, <1>3, <2>1 DEF Path
<1>4. CASE n # 1
  <2>1. t # <<>> /\ Len(t) = n - 1 /\ n - 1 \in 1 .. n - 1 /\ 1 \in 1 .. n - 1
    BY <1>2, <1>4, EmptySeq
  <2>2. t[1] = s[1] /\ t[n - 1] = s[n - 1] /\ (n - 1) + 1 = n
    BY <1>2, <2>1
  <2>3. Edge(m, dir, s[n - 1]) = Edge(m, Other(dir), s[n])
    BY <1>1, <2>1, <2>2
  <2>4. \A k \in 1 .. n - 2 : /\ k \in 1 .. n - 1 /\ t[k] = s[k] /\ t[k + 1] = s[k + 1]
                              /\ Edge(m, dir, s[k]) = Edge(m, Other(dir), s[k + 1])
    BY <1>1, <1>2
  <2>5. Len(t) - 1 = n - 2
    BY <1>2
  <2> HIDE DEF n
  <2> QED BY <1>1, <1>2, <2>1, <2>2, <2>3, <2>4, <2>5 DEF Path
<1> QED BY <1>3, <1>4

\* t is what is left of s when j items are taken off its bottom.
LEMMA PathCut ==
    ASSUME NEW m, NEW dir, NEW s \in Seq(Item), NEW b, NEW a, Path(m, dir, s, b, a),
           NEW t \in Seq(Item), NEW j \in Nat, Len(t) = Len(s) - j,
           \A k \in 1 .. Len(t) : t[k] = s[k + j]
    PROVE  \E c : Path(m, dir, t, c, a)
<1>1. CASE t = <<>>
  BY <1>1 DEF Path
<1>2. CASE t # <<>>
  <2> DEFINE n == Len(s)
             l == Len(t)
  <2>1. n \in Nat /\ l \in Nat /\ l >= 1 /\ l = n - j
    BY <1>2, EmptySeq
  <2>2. s # <<>>
    BY <2>1, EmptySeq
  <2>3. /\ Edge(m, dir, s[n]) = a
        /\ \A k \in 1 .. n - 1 : Edge(m, dir, s[k]) = Edge(m, Other(dir), s[k + 1])
    BY <2>2 DEF Path
  <2>4. t[l] = s[n]
    BY <2>1
  <2>5. ASSUME NEW k \in 1 .. l - 1
        PROVE  Edge(m, dir, t[k]) = Edge(m, Other(dir), t[k + 1])
    <3>0. k \in 1 .. Len(t) /\ k + 1 \in 1 .. Len(t)
      BY <2>1
    <3>1. k + j \in 1 .. n - 1 /\ t[k] = s[k + j] /\ t[k + 1] = s[(k + 1) + j]
      BY <2>1, <3>0
    <3>2. (k + 1) + j = (k + j) + 1
      BY <2>1
    <3> QED BY <2>3, <3>1, <3>2
  <2>6. Path(m, dir, t, Edge(m, Other(dir), t[1]), a)
    BY <1>2, <2>3, <2>4, <2>5 DEF Path
  <2> QED BY <2>6
<1> QED BY <1>1, <1>2

LEMMA PathSame ==
    ASSUME NEW m, NEW m2, NEW dir, NEW s \in Seq(Item), NEW b, NEW a,
           Path(m, dir, s, b, a),
           \A k \in 1 .. Len(s) : \A e : Edge(m2, e, s[k]) = Edge(m, e, s[k])
    PROVE  Path(m2, dir, s, b, a)
<1>1. Len(s) \in Nat /\ (s # <<>> => 1 \in 1 .. Len(s) /\ Len(s) \in 1 .. Len(s))
  BY EmptySeq
<1>2. \A k \in 1 .. Len(s) - 1 : k \in 1 .. Len(s) /\ k + 1 \in 1 .. Len(s)
  BY <1>1
<1> QED BY <1>1, <1>2 DEF Path

----------------------------------------------------------------------------
(***************************************************************************)
(* How a chart changes.                                                    *)
(***************************************************************************)

ChartNow(m) == Charted(m, stack, batch, own, before, calls, ret, doc, maxCount)
ChartNext(m) ==
    Charted(m, stack', batch', own', before', calls', ret', doc', maxCount')

\* Holder h has got to document d, and item i leads to it.
MoveTo(m, h, d) == [m EXCEPT !.at = [m.at EXCEPT ![h] = d]]
EndAt(m, i, d)  == [m EXCEPT !.post = [m.post EXCEPT ![i] = d]]
StartAt(m, i, d) == [m EXCEPT !.pre = [m.pre EXCEPT ![i] = d]]

LEMMA Charts ==
    ASSUME NEW m \in Chart, NEW d \in Doc
    PROVE  /\ \A h \in Holder : m.at[h] \in Doc
           /\ \A i \in Item : m.pre[i] \in Doc /\ m.post[i] \in Doc
           /\ \A h \in Holder :
                 LET m2 == MoveTo(m, h, d) IN
                 /\ m2 \in Chart /\ m2.pre = m.pre /\ m2.post = m.post /\ m2.at[h] = d
                 /\ \A g \in Holder \ {h} : m2.at[g] = m.at[g]
           /\ \A i \in Item :
                 LET m2 == EndAt(m, i, d) IN
                 /\ m2 \in Chart /\ m2.pre = m.pre /\ m2.at = m.at /\ m2.post[i] = d
                 /\ \A g \in Item \ {i} : m2.post[g] = m.post[g]
           /\ \A i \in Item :
                 LET m2 == StartAt(m, i, d) IN
                 /\ m2 \in Chart /\ m2.post = m.post /\ m2.at = m.at /\ m2.pre[i] = d
                 /\ \A g \in Item \ {i} : m2.pre[g] = m.pre[g]
BY DEF Chart, MoveTo, EndAt, StartAt

LEMMA LineSame ==
    ASSUME NEW m, NEW m2, NEW dir, NEW h, NEW st, NEW st2, NEW bt, NEW bt2, NEW ow, NEW ow2,
           Due(st, dir, h) \in Seq(Item), Line(m, dir, h, st, bt, ow),
           Due(st2, dir, h) = Due(st, dir, h), m2.at[h] = m.at[h],
           h # 0 => Base(m2, dir, h, bt2, ow2) = Base(m, dir, h, bt, ow),
           \A k \in 1 .. Len(Due(st, dir, h)) : \A e :
              Edge(m2, e, Due(st, dir, h)[k]) = Edge(m, e, Due(st, dir, h)[k])
    PROVE  Line(m2, dir, h, st2, bt2, ow2)
<1>1. PICK b : /\ h # 0 => b = Base(m, dir, h, bt, ow)
               /\ Path(m, dir, Due(st, dir, h), b, m.at[h])
  BY DEF Line
<1>2. Path(m2, dir, Due(st, dir, h), b, m.at[h])
  BY <1>1, PathSame
<1> QED BY <1>1, <1>2 DEF Line

\* A holder without children in a direction is where they begin.
LEMMA NoneDue ==
    ASSUME NEW m, NEW dir, NEW h, h # 0, NEW st, NEW bt, NEW ow, Due(st, dir, h) = <<>>
    PROVE  Line(m, dir, h, st, bt, ow) <=> m.at[h] = Base(m, dir, h, bt, ow)
BY DEF Line, Path

LEMMA NoneDueAtTop ==
    ASSUME NEW m, NEW dir, NEW st, NEW bt, NEW ow, Due(st, dir, 0) = <<>>
    PROVE  Line(m, dir, 0, st, bt, ow)
BY DEF Line, Path

\* A holder is where its top child leaves the document.
LEMMA TopDue ==
    ASSUME NEW m, NEW dir, NEW h, NEW st, NEW bt, NEW ow, Due(st, dir, h) # <<>>,
           Line(m, dir, h, st, bt, ow)
    PROVE  Edge(m, dir, Last(Due(st, dir, h))) = m.at[h]
BY DEF Line, Path, Last

LEMMA Others ==
    /\ \A dir \in Direction : /\ Other(dir) \in Direction /\ Other(dir) # dir
                              /\ Other(Other(dir)) = dir
                              /\ \A e \in Direction : e = dir \/ e = Other(dir)
    /\ Other("undo") = "redo" /\ Other("redo") = "undo"
    /\ "undo" \in Direction /\ "redo" \in Direction
BY DEF Direction, Other

\* What is due is what the stacks hold.
LEMMA Dues ==
    ASSUME NEW st \in Stacks
    PROVE  /\ \A dir \in Direction, h \in Holder : Due(st, dir, h) \in Seq(Item)
           /\ st[DoStack] \in Seq(Item)
BY StackIds DEF Due, Stacks

\* An item is undone or redone: it moves to the other stack of its holder.
LEMMA MovedLaid ==
    ASSUME NEW st \in Stacks, NEW m \in Chart, NEW bt, NEW ow, NEW bf,
           Laid(m, st, bt, ow, bf), NEW dir \in Direction, NEW h \in Holder,
           Due(st, dir, h) # <<>>
    PROVE  LET st2 == PopPush(st, <<dir, h>>, <<Other(dir), h>>)
               m2  == MoveTo(m, h, Edge(m, Other(dir), Last(Due(st, dir, h))))
           IN m2 \in Chart /\ Laid(m2, st2, bt, ow, bf)
<1> DEFINE st2 == PopPush(st, <<dir, h>>, <<Other(dir), h>>)
           c   == Last(Due(st, dir, h))
           d   == Edge(m, Other(dir), c)
           m2  == MoveTo(m, h, d)
           op  == Other(dir)
<1>1. /\ st2 \in Stacks /\ c \in Item
      /\ \A e \in Direction, w \in Holder : w # h => Due(st2, e, w) = Due(st, e, w)
      /\ Len(Due(st, dir, h)) \in Nat \ {0}
      /\ Len(Due(st2, dir, h)) = Len(Due(st, dir, h)) - 1
      /\ \A k \in 1 .. Len(Due(st, dir, h)) - 1 : Due(st2, dir, h)[k] = Due(st, dir, h)[k]
      /\ Due(st2, op, h) = Append(Due(st, op, h), c)
  BY MovedDues, SMTT(30)
<1>2. d \in Doc
  BY <1>1, Charts, EmptySeq DEF Edge, Doc
<1>3. /\ m2 \in Chart /\ m2.pre = m.pre /\ m2.post = m.post /\ m2.at[h] = d
      /\ \A g \in Holder \ {h} : m2.at[g] = m.at[g]
  BY <1>2, Charts
<1>4. /\ \A e, i : Edge(m2, e, i) = Edge(m, e, i)
      /\ \A e, g : Base(m2, e, g, bt, ow) = Base(m, e, g, bt, ow)
  BY <1>3 DEF Edge, Base, Start
<1>5. /\ op \in Direction /\ Other(op) = dir /\ \A e \in Direction : e = dir \/ e = op
  BY Others
<1> HIDE DEF st2, c, d, m2, op
<1>6. ASSUME NEW e \in Direction, NEW g \in Holder
      PROVE  Line(m2, e, g, st2, bt, ow)
  <2>1. Line(m, e, g, st, bt, ow)
    BY DEF Laid
  <2>2. CASE g # h
    <3>1. Due(st, e, g) \in Seq(Item) /\ Due(st2, e, g) = Due(st, e, g) /\ m2.at[g] = m.at[g]
      BY <1>1, <1>3, <2>2, Dues
    <3> QED BY <1>4, <2>1, <3>1, LineSame
  <2>3. CASE g = h
    <3>1. PICK b : /\ h # 0 => b = Base(m, e, h, bt, ow)
                   /\ Path(m, e, Due(st, e, h), b, m.at[h])
      BY <2>1, <2>3 DEF Line
    <3>2. Edge(m, dir, c) = m.at[h]
      <4>1. Line(m, dir, h, st, bt, ow)
        BY DEF Laid
      <4> QED BY <4>1, TopDue DEF c
    <3>3. Path(m, e, Due(st2, e, h), b, d)
      <4>1. CASE e = dir
        <5>1. Due(st, dir, h) \in Seq(Item) /\ Due(st2, dir, h) \in Seq(Item)
          BY <1>1, Dues
        <5> QED BY <1>1, <3>1, <4>1, <5>1, PathShrinks DEF c, d
      <4>2. CASE e = op
        <5>1. Due(st, op, h) \in Seq(Item)
          BY <1>5, Dues
        <5>2. Edge(m, Other(op), c) = m.at[h]
          BY <1>5, <3>2
        <5>3. Path(m, op, Append(Due(st, op, h), c), b, Edge(m, op, c))
          BY <1>1, <3>1, <4>2, <5>1, <5>2, PathGrows
        <5>4. d = Edge(m, op, c)
          BY DEF d, op
        <5> QED BY <1>1, <4>2, <5>3, <5>4
      <4> QED BY <1>5, <4>1, <4>2
    <3>4. Due(st2, e, h) \in Seq(Item)
      BY <1>1, Dues
    <3>5. Path(m2, e, Due(st2, e, h), b, d)
      BY <1>4, <3>3, <3>4, PathSame
    <3> QED BY <1>3, <1>4, <2>3, <3>1, <3>5 DEF Line
  <2> QED BY <2>2, <2>3
<1>7. \A i \in Item \ bt : m2.pre[i] = bf[i]
  BY <1>3 DEF Laid
<1> QED BY <1>3, <1>6, <1>7 DEF Laid, m2, st2, d, c

----------------------------------------------------------------------------
(***************************************************************************)
(* The chart and the calls in progress.                                    *)
(***************************************************************************)

\* Loops go on waiting.
LEMMA RestingStays ==
    ASSUME NEW st, NEW q, NEW q2, Resting(st, q),
           \A k \in 1 .. Len(q) : q[k].fn = "kids" /\ q[k].at = "wait" =>
              k \in 1 .. Len(q2) /\ q2[k] = q[k]
    PROVE  Resting(st, q2)
<1>1. \A dir, h : Awaited(q, dir, h) => Awaited(q2, dir, h)
  BY DEF Awaited
<1> QED BY <1>1 DEF Resting

\* The loop that waits for the undo or redo of an item.
LEMMA CallerOfItem ==
    ASSUME StackInv, CallsInv, ResultsInv, DocInv, NEW m, ChartNow(m),
           Running, Callee.fn = "item"
    PROVE  LET n == Len(calls)
               g == calls[n - 1]
           IN /\ n \in Nat /\ n - 1 \in 1 .. n - 1 /\ g \in Frame
              /\ g.fn = "kids" /\ g.at = "wait" /\ g.dir = Callee.dir
              /\ Callee.item \in Item /\ g.dir \in Direction /\ g.item \in Holder
              /\ Due(stack, g.dir, g.item) # <<>>
              /\ Last(Due(stack, g.dir, g.item)) = Callee.item
              /\ Edge(m, g.dir, Callee.item) = m.at[g.item]
              /\ Callee.doc0 = m.at[g.item]
<1> DEFINE n == Len(calls)
           g == calls[n - 1]
<1>1. /\ TypeOK /\ n \in Nat /\ n >= 1 /\ Callee = calls[n] /\ Callee \in Frame
      /\ calls \in Seq(Frame) /\ calls # <<>> /\ Rooted(calls) /\ Linked(calls)
      /\ Chained(calls, stack) /\ Began(m, calls) /\ Laid(m, stack, batch, own, before)
  BY CalleeType DEF StackInv, TypeOK, ResultsInv, Results, CallsInv, Orderly, DocInv,
                    ChartNow, Charted, Running
<1>2. n \in Nat /\ n >= 1 /\ n # 1
  BY <1>1 DEF Rooted
<1>3. n - 1 \in 1 .. n - 1 /\ n - 1 \in 1 .. n /\ (n - 1) + 1 = n /\ n \in 2 .. n
  <2> HIDE DEF n
  <2> QED BY <1>2
<1>4. Fits(g, Callee, stack) /\ Links(g, Callee) /\ g \in Frame
  BY <1>1, <1>3, ElementOfSeq DEF Chained, Linked
<1>5. Callee.doc0 = m.at[g.item]
  BY <1>1, <1>3 DEF Began
<1> HIDE DEF n, g
<1>6. /\ g.fn = "kids" /\ g.at = "wait" /\ g.dir = Callee.dir
      /\ Due(stack, g.dir, g.item) # <<>>
      /\ Last(Due(stack, g.dir, g.item)) = Callee.item
  BY <1>1, <1>4 DEF Fits, Links, Due
<1>7. g.dir \in Direction /\ g.item \in Holder /\ Callee.item \in Item
  BY <1>1, <1>4, <1>6, FrameFields
<1>8. Edge(m, g.dir, Callee.item) = m.at[g.item]
  <2>1. Line(m, g.dir, g.item, stack, batch, own)
    BY <1>1, <1>7 DEF Laid
  <2> QED BY <1>6, <2>1, TopDue
<1> QED BY <1>1, <1>3, <1>4, <1>5, <1>6, <1>7, <1>8 DEF n, g

\* The item whose children a loop goes through.
LEMMA CallerOfKids ==
    ASSUME StackInv, CallsInv, ResultsInv, DocInv, Running, Callee.fn = "kids",
           Len(calls) # 1
    PROVE  LET n == Len(calls)
               g == calls[n - 1]
           IN /\ n \in Nat /\ n - 1 \in 1 .. n - 1 /\ g \in Frame
              /\ g.fn = "item" /\ g.item = Callee.item /\ g.at \in {"kids", "recover"}
<1> DEFINE n == Len(calls)
           g == calls[n - 1]
<1>1. /\ TypeOK /\ n \in Nat /\ n >= 1 /\ Callee = calls[n]
      /\ calls \in Seq(Frame) /\ Linked(calls) /\ Chained(calls, stack)
  BY CalleeType DEF StackInv, TypeOK, ResultsInv, Results, CallsInv, Orderly
<1>2. n - 1 \in 1 .. n - 1 /\ n - 1 \in 1 .. n /\ (n - 1) + 1 = n
  <2>1. n \in Nat /\ n >= 1 /\ n # 1
    BY <1>1
  <2> HIDE DEF n
  <2> QED BY <2>1
<1>3. Fits(g, Callee, stack) /\ Links(g, Callee) /\ g \in Frame
  BY <1>1, <1>2, ElementOfSeq DEF Chained, Linked
<1> HIDE DEF n, g
<1> QED BY <1>1, <1>2, <1>3 DEF Fits, Links, n, g

\* The innermost call returns: what must be known of its caller.
LEMMA CalleeReturns ==
    ASSUME StackInv, NEW m, ChartNow(m), Running, calls' = Front(calls),
           UNCHANGED <<stack, batch, own, before, maxCount>>,
           ~ (Callee.fn = "kids" /\ Callee.at = "wait"),
           LET g == calls[Len(calls) - 1] IN
              /\ Len(calls) # 1
              /\ g.fn # "body" /\ Here(m, g, stack, ret', doc')
    PROVE  ChartNext(m)
<1> DEFINE n == Len(calls)
<1>1. /\ TypeOK /\ n \in Nat /\ n >= 1 /\ Callee = calls[n]
      /\ calls' \in Seq(Frame) /\ Len(calls') = n - 1
      /\ \A k \in 1 .. n - 1 : calls'[k] = calls[k]
      /\ Laid(m, stack, batch, own, before) /\ Resting(stack, calls) /\ Began(m, calls)
      /\ m \in Chart
  BY CalleeType DEF StackInv, ChartNow, Charted
<1>2. Resting(stack, calls')
  <2>1. \A k \in 1 .. n : k = n \/ k \in 1 .. Len(calls')
    BY <1>1
  <2> QED BY <1>1, <2>1, RestingStays
<1>3. Began(m, calls')
  <2>1. \A k \in 2 .. n - 1 : k \in 2 .. n /\ k \in 1 .. n - 1 /\ k - 1 \in 1 .. n - 1
    BY <1>1
  <2> QED BY <1>1, <2>1 DEF Began
<1>4. /\ Len(calls') \in 1 .. Len(calls') /\ calls'[Len(calls')] = calls[n - 1]
  BY <1>1
<1>5. There(m, calls', stack, ret', doc', maxCount)
  BY <1>4 DEF There, Undoing
<1> QED BY <1>1, <1>2, <1>3, <1>5 DEF ChartNext, Charted

\* UndoTransaction() or RedoTransaction() of an item returns.
LEMMA ItemReturnsHere ==
    ASSUME StackInv, CallsInv, ResultsInv, DocInv, NEW m, ChartNow(m),
           Running, Callee.fn = "item", calls' = Front(calls),
           UNCHANGED <<stack, batch, own, before, maxCount>>,
           LET dir == Callee.dir
               i   == Callee.item
           IN /\ ret' = "ok" => doc' = Edge(m, Other(dir), i) /\ Due(stack, dir, i) = <<>>
              /\ ret' = "fail" => doc' = Edge(m, dir, i) /\ Due(stack, Other(dir), i) = <<>>
    PROVE  ChartNext(m)
<1> DEFINE n == Len(calls)
           g == calls[n - 1]
<1>1. /\ n \in Nat /\ n - 1 \in 1 .. n - 1 /\ g \in Frame
      /\ g.fn = "kids" /\ g.at = "wait" /\ g.dir = Callee.dir
      /\ Due(stack, g.dir, g.item) # <<>>
      /\ Last(Due(stack, g.dir, g.item)) = Callee.item
      /\ Edge(m, g.dir, Callee.item) = m.at[g.item]
  BY CallerOfItem
<1>2. n # 1
  <2>1. n \in Nat /\ n - 1 \in 1 .. n - 1
    BY <1>1
  <2> HIDE DEF n
  <2> QED BY <2>1
<1> HIDE DEF g
<1>3. Here(m, g, stack, ret', doc')
  BY <1>1 DEF Here
<1> QED BY <1>1, <1>2, <1>3, CalleeReturns DEF g

\* The innermost call goes on as f, the loops that wait being the same ones.
LEMMA CalleeGoesOnHere ==
    ASSUME StackInv, ResultsInv, NEW m, ChartNow(m), Running,
           Callee.fn = "item", NEW f \in Frame, f.fn = "item", f.dir = Callee.dir,
           f.item = Callee.item, f.doc0 = Callee.doc0,
           NEW g \in Frame, g.fn = "kids", NEW q,
           q = Append(Front(calls), f) \/ q = Append(Front(calls), f) \o <<g>>,
           Here(m, q[Len(q)], stack, ret', doc'), calls' = q,
           UNCHANGED <<stack, batch, own, before, maxCount>>
    PROVE  ChartNext(m)
<1> DEFINE n == Len(calls)
           r == Append(Front(calls), f)
<1>1. /\ TypeOK /\ n \in Nat /\ n >= 1 /\ Callee = calls[n] /\ Linked(calls)
      /\ Laid(m, stack, batch, own, before) /\ Resting(stack, calls) /\ Began(m, calls)
      /\ m \in Chart
  BY CalleeType DEF StackInv, ChartNow, Charted, ResultsInv, Results
<1>2. /\ r \in Seq(Frame) /\ Len(r) = n /\ r[Len(r)] = f /\ r # <<>>
      /\ \A k \in 1 .. n - 1 : r[k] = calls[k]
  BY <1>1, GoesOnLinked
<1> HIDE DEF r
<1>3. /\ Len(q) \in {n, n + 1} /\ q[n] = f
      /\ \A k \in 1 .. n - 1 : q[k] = calls[k]
      /\ Len(q) = n + 1 => q[n + 1] = g
  <2>1. CASE q = r
    BY <1>2, <2>1
  <2>2. CASE q = r \o <<g>>
    <3>1. q = Append(r, g)
      BY <1>2, <2>2, AppendIsConcat
    <3>2. /\ Len(q) = n + 1 /\ q[n + 1] = g /\ \A k \in 1 .. n : q[k] = r[k]
      BY <1>2, <3>1, AppendProperties
    <3>3. \A k \in 1 .. n - 1 : k \in 1 .. n
      BY <1>1
    <3>4. n \in 1 .. n
      BY <1>1
    <3> QED BY <1>2, <3>2, <3>3, <3>4
  <2> QED BY <2>1, <2>2 DEF r
<1>4. Resting(stack, q)
  <2>1. \A k \in 1 .. n : k = n \/ (k \in 1 .. n - 1 /\ k \in 1 .. Len(q))
    BY <1>1, <1>3
  <2> QED BY <1>1, <1>3, <2>1, RestingStays
<1>5. Began(m, q)
  <2>1. ASSUME NEW k \in 2 .. Len(q), q[k].fn = "item"
        PROVE  q[k].doc0 = m.at[q[k - 1].item]
    <3>1. k # n + 1
      BY <1>3, <2>1
    <3>2. k \in 2 .. n /\ k - 1 \in 1 .. n - 1
      BY <1>1, <1>3, <3>1
    <3>3. q[k - 1] = calls[k - 1]
      BY <1>3, <3>2
    <3>4. calls[k].fn = "item" /\ q[k].doc0 = calls[k].doc0
      <4>1. CASE k = n
        BY <1>1, <1>3, <4>1
      <4>2. CASE k # n
        <5>1. k \in 1 .. n - 1
          BY <1>1, <3>2, <4>2
        <5> QED BY <1>3, <2>1, <5>1
      <4> QED BY <4>1, <4>2
    <3> QED BY <1>1, <3>2, <3>3, <3>4 DEF Began
  <2> QED BY <2>1 DEF Began
<1>6. There(m, q, stack, ret', doc', maxCount)
  <2>1. n \in 1 .. Len(q) /\ q[n].fn = "item"
    BY <1>1, <1>3
  <2> QED BY <2>1 DEF There, Undoing
<1> QED BY <1>1, <1>4, <1>5, <1>6 DEF ChartNext, Charted

LEMMA ItemGoesOnHere ==
    ASSUME StackInv, ResultsInv, NEW m, ChartNow(m), Running, Callee.fn = "item",
           UNCHANGED <<stack, batch, own, before, maxCount>>,
           doc' = m.at[Callee.item],
           \/ /\ GoOn("calling", <<>>)
              /\ Callee.dir = "undo" /\ Due(stack, "undo", Callee.item) = <<>>
           \/ \E at \in {"kids", "recover"}, dir \in Direction :
                 GoOn(at, <<Kids(dir, Callee.item)>>)
    PROVE  ChartNext(m)
<1>1. TypeOK /\ Callee \in Frame /\ Front(calls) \in Seq(Frame)
  BY CalleeType DEF StackInv
<1>2. Callee.item \in Item /\ Callee.item \in Holder
  BY <1>1, FrameFields, StackIds
<1>3. ASSUME NEW at \in {"kids", "calling", "recover"}
      PROVE  LET f == [Callee EXCEPT !.at = at] IN
             /\ f \in Frame /\ f.fn = "item" /\ f.dir = Callee.dir /\ f.item = Callee.item
             /\ f.doc0 = Callee.doc0 /\ f.at = at
  BY <1>1, ChangedFrames DEF Frame
<1>4. \A dir \in Direction :
         LET g == Kids(dir, Callee.item) IN
         g \in Frame /\ g.fn = "kids" /\ g.at = "loop" /\ g.item = Callee.item
  BY <1>1, <1>2, NewFrames DEF Kids, MkFrame
<1>5. CASE /\ GoOn("calling", <<>>)
           /\ Callee.dir = "undo" /\ Due(stack, "undo", Callee.item) = <<>>
  <2> DEFINE f == [Callee EXCEPT !.at = "calling"]
             q == Append(Front(calls), f)
             g == Kids("undo", Callee.item)
  <2>1. /\ f \in Frame /\ f.fn = "item" /\ f.dir = Callee.dir /\ f.item = Callee.item
        /\ f.doc0 = Callee.doc0 /\ f.at = "calling"
    BY <1>3
  <2>2. g \in Frame /\ g.fn = "kids"
    BY <1>4, Others
  <2>3. calls' = q \o <<>>
    BY <1>5 DEF GoOn
  <2> HIDE DEF f, g
  <2>4. q \in Seq(Frame) /\ q[Len(q)] = f
    BY <1>1, <2>1, AppendProperties
  <2>5. calls' = q
    BY <2>3, <2>4, ConcatEmptySeq
  <2>6. Here(m, q[Len(q)], stack, ret', doc')
    BY <1>5, <2>1, <2>4 DEF Here
  <2> QED BY <2>1, <2>2, <2>5, <2>6, CalleeGoesOnHere
<1>6. ASSUME NEW at \in {"kids", "recover"}, NEW dir \in Direction,
             GoOn(at, <<Kids(dir, Callee.item)>>)
      PROVE  ChartNext(m)
  <2> DEFINE f == [Callee EXCEPT !.at = at]
             g == Kids(dir, Callee.item)
             q == Append(Front(calls), f) \o <<g>>
  <2>1. /\ f \in Frame /\ f.fn = "item" /\ f.dir = Callee.dir /\ f.item = Callee.item
        /\ f.doc0 = Callee.doc0
    BY <1>3
  <2>2. g \in Frame /\ g.fn = "kids" /\ g.at = "loop" /\ g.item = Callee.item
    BY <1>4
  <2>3. calls' = q
    BY <1>6 DEF GoOn
  <2> HIDE DEF f, g
  <2>4. q[Len(q)] = g
    <3>1. Append(Front(calls), f) \in Seq(Frame)
      BY <1>1, <2>1, AppendProperties
    <3>2. q = Append(Append(Front(calls), f), g)
      BY <2>2, <3>1, AppendIsConcat
    <3> QED BY <2>2, <3>1, <3>2, AppendProperties
  <2>5. Here(m, q[Len(q)], stack, ret', doc')
    BY <2>2, <2>4 DEF Here
  <2> QED BY <2>1, <2>2, <2>3, <2>5, CalleeGoesOnHere
<1> QED BY <1>5, <1>6

----------------------------------------------------------------------------
\* The effects e, the last in force, can be undone, which leaves those before them.
LEMMA LastInForce ==
    ASSUME NEW p \in Seq(Item), NEW e \in Seq(Item)
    PROVE  /\ IsSuffix(e, p \o e)
           /\ SubSeq(p \o e, 1, Len(p \o e) - Len(e)) = p
<1> DEFINE d == p \o e
           a == Len(p)
           b == Len(e)
<1>1. /\ d \in Seq(Item) /\ a \in Nat /\ b \in Nat /\ Len(d) = a + b
      /\ \A k \in 1 .. a + b : d[k] = IF k <= a THEN p[k] ELSE e[k - a]
  BY ConcatProperties, LenProperties
<1>2. /\ Reverse(d) \in Seq(Item) /\ Reverse(e) \in Seq(Item)
      /\ Len(Reverse(d)) = a + b /\ Len(Reverse(e)) = b
  BY <1>1, Reversed
<1>3. /\ \A k \in 1 .. a + b : Reverse(d)[k] = d[(a + b) - k + 1]
      /\ \A k \in 1 .. b : Reverse(e)[k] = e[b - k + 1]
  BY <1>1 DEF Reverse
<1> HIDE DEF d
<1>4. SubSeq(Reverse(e), 1, b) = SubSeq(Reverse(d), 1, b)
  <2> DEFINE s == SubSeq(Reverse(e), 1, b)
             t == SubSeq(Reverse(d), 1, b)
  <2>1. s \in Seq(Item) /\ Len(s) = b /\ \A k \in 1 .. b : s[k] = Reverse(e)[k]
    BY <1>1, <1>2, SubSeqOfSeq
  <2>2. t \in Seq(Item) /\ Len(t) = b /\ \A k \in 1 .. b : t[k] = Reverse(d)[k]
    BY <1>1, <1>2, SubSeqOfSeq
  <2> HIDE DEF s, t
  <2>3. ASSUME NEW k \in 1 .. b PROVE s[k] = t[k]
    <3>1. (a + b) - k + 1 \in 1 .. a + b /\ ~ ((a + b) - k + 1 <= a)
      BY <1>1
    <3>2. ((a + b) - k + 1) - a = b - k + 1 /\ k \in 1 .. a + b
      BY <1>1
    <3>3. d[(a + b) - k + 1] = e[b - k + 1]
      BY <1>1, <3>1, <3>2
    <3>4. s[k] = e[b - k + 1]
      BY <1>3, <2>1
    <3>5. t[k] = d[(a + b) - k + 1]
      BY <1>3, <2>2, <3>2
    <3> QED BY <3>3, <3>4, <3>5
  <2>4. s = t
    BY <2>1, <2>2, <2>3, SeqEqual
  <2> QED BY <2>4 DEF s, t
<1>5. IsSuffix(e, d)
  <2>1. b <= a + b
    BY <1>1
  <2> QED BY <1>2, <1>4, <2>1 DEF IsSuffix, IsPrefix
<1>6. SubSeq(d, 1, (a + b) - b) = p
  <2> DEFINE s == SubSeq(d, 1, a)
  <2>1. s \in Seq(Item) /\ Len(s) = a /\ \A k \in 1 .. a : s[k] = d[k]
    BY <1>1, SubSeqOfSeq
  <2>2. \A k \in 1 .. a : d[k] = p[k]
    BY <1>1
  <2> HIDE DEF s
  <2>3. s = p
    BY <2>1, <2>2, SeqEqual
  <2>4. (a + b) - b = a
    BY <1>1
  <2> QED BY <2>3, <2>4 DEF s
<1> QED BY <1>1, <1>5, <1>6 DEF d

\* Where an item is before and after its children are undone.
LEMMA ItemEnds ==
    ASSUME NEW m, Laid(m, stack, batch, own, before), NEW i \in Item
    PROVE  /\ Due(stack, "undo", i) = <<>> =>
                /\ i \in batch => m.at[i] = m.pre[i]
                /\ i \notin batch => m.at[i] = m.pre[i] \o own[i]
           /\ Due(stack, "redo", i) = <<>> => m.at[i] = m.post[i]
           /\ i \notin batch => m.pre[i] = before[i]
<1>1. i \in Holder /\ i # 0 /\ "undo" \in Direction /\ "redo" \in Direction
  BY StackIds DEF Item
<1>2. Line(m, "undo", i, stack, batch, own) /\ Line(m, "redo", i, stack, batch, own)
  BY <1>1 DEF Laid
<1>3. /\ Due(stack, "undo", i) = <<>> => m.at[i] = Base(m, "undo", i, batch, own)
      /\ Due(stack, "redo", i) = <<>> => m.at[i] = Base(m, "redo", i, batch, own)
  BY <1>1, <1>2, NoneDue
<1> QED BY <1>3 DEF Base, Start, Laid

LEMMA CalleeHere ==
    ASSUME StackInv, NEW m, ChartNow(m), Running, Callee.fn # "body"
    PROVE  Here(m, Callee, stack, ret, doc) /\ Undoing(calls)
<1>1. Callee = calls[Len(calls)] /\ Len(calls) \in 1 .. Len(calls)
  BY CalleeType DEF StackInv
<1>2. Undoing(calls)
  BY <1>1 DEF Undoing
<1> QED BY <1>1, <1>2 DEF ChartNow, Charted, There

\* What fails in both directions has failed by itself in both.
LEMMA DoomedBothWays ==
    ASSUME StackInv, CallsInv, NEW i, NEW j, NEW fs,
           Doomed("undo", i, stack, batch, fs), Doomed("redo", j, stack, batch, fs)
    PROVE  \E k, l \in Item : <<"undo", k>> \in fs /\ <<"redo", l>> \in fs
<1>1. stack \in Stacks /\ Nested(stack)
  BY StackInvFacts DEF CallsInv
<1>2. /\ \E k \in Item : <<"undo", k>> \in fs
      /\ \E l \in Item : <<"redo", l>> \in fs
  BY <1>1, DoomIsAFault, StackIds
<1> QED BY <1>2

LEMMA ItemStepsHere ==
    ASSUME StackInv, CallsInv, ResultsInv, DocInv, FailuresLast, RollbackWorks',
           NEW m, ChartNow(m),
           \/ UndoItemKidsDone \/ UndoItemCalled \/ UndoItemRecovered
           \/ RedoItemCalled \/ RedoItemKidsDone \/ RedoItemRecovered
    PROVE  ChartNext(m)
<1> DEFINE i == Callee.item
           dir == Callee.dir
<1>1. /\ Running /\ Callee.fn = "item" /\ UNCHANGED <<stack, batch, own, before, maxCount>>
      /\ "flaky" \notin Env
  BY DEF UndoItemKidsDone, UndoItemCalled, UndoItemRecovered, RedoItemCalled,
         RedoItemKidsDone, RedoItemRecovered, In, docVars, FailuresLast
<1>2. /\ Honest(Callee, stack, batch, faults)
      /\ Answered(Callee, stack, batch, faults, ret)
      /\ Callee \in Frame /\ i \in Item /\ dir \in Direction
      /\ own[i] \in Seq(Item) /\ doc \in Seq(Item) /\ ret \in Result
  <2>1. /\ Len(calls) \in 1 .. Len(calls) /\ Callee = calls[Len(calls)] /\ Callee \in Frame
        /\ calls # <<>>
    BY <1>1, CalleeType DEF Running, StackInv
  <2>2. i \in Item /\ dir \in Direction
    BY <1>1, <2>1, FrameFields
  <2> QED BY <2>1, <2>2 DEF ResultsInv, Results, StackInv, TypeOK
<1>3. /\ Laid(m, stack, batch, own, before) /\ m \in Chart
      /\ m.pre[i] \in Seq(Item)
  BY <1>2 DEF ChartNow, Charted, Chart, Doc
<1>4. /\ Due(stack, "undo", i) = <<>> =>
           /\ i \in batch => m.at[i] = m.pre[i]
           /\ i \notin batch => m.at[i] = m.pre[i] \o own[i]
      /\ Due(stack, "redo", i) = <<>> => m.at[i] = m.post[i]
      /\ i \notin batch => m.pre[i] = before[i]
  <2>1. i \in Item /\ Laid(m, stack, batch, own, before)
    BY <1>2, <1>3
  <2> HIDE DEF i
  <2> QED BY <2>1, ItemEnds
<1>5. /\ Callee.at # "calling" => doc = m.at[i]
      /\ Callee.at = "calling" => /\ Due(stack, "undo", i) = <<>>
                                  /\ doc = IF dir = "undo" THEN m.at[i] ELSE m.pre[i]
  <2>1. Here(m, Callee, stack, ret, doc)
    BY <1>1, CalleeHere
  <2> QED BY <1>1, <2>1 DEF Here
<1>6. Due(stack, "undo", i) = <<>> /\ i \notin batch /\ doc = m.at[i]
         => Without(own[i]) = m.pre[i]
  <2>1. /\ IsSuffix(own[i], m.pre[i] \o own[i])
        /\ SubSeq(m.pre[i] \o own[i], 1, Len(m.pre[i] \o own[i]) - Len(own[i])) = m.pre[i]
    BY <1>2, <1>3, LastInForce
  <2> QED BY <1>4, <2>1 DEF Without
<1>7. ASSUME Callee.at = "recover"
      PROVE  ret = "ok" /\ Due(stack, Other(dir), i) = <<>>
  <2>1. Doomed(dir, i, stack, batch, faults)
    BY <1>1, <1>2, <1>7 DEF Honest
  <2>2. /\ ret = "ok" => Due(stack, Other(dir), i) = <<>>
        /\ ret = "fail" => Stuck(Other(dir), i, stack, batch, faults)
    BY <1>1, <1>2, <1>7 DEF Answered, Ends
  <2>3. ret = "fail" => Doomed(Other(dir), i, stack, batch, faults)
    BY <1>2, <2>2, StuckDooms, StackInvFacts, StackIds
  <2>4. faults \subseteq faults'
    BY <1>1, <1>7 DEF UndoItemKidsDone, UndoItemCalled, UndoItemRecovered, RedoItemCalled,
         RedoItemKidsDone, RedoItemRecovered, In, Succeeds, Fails
  <2>5. ASSUME ret = "fail" PROVE FALSE
    <3>1. \E d \in {"undo", "redo"} : d = dir
      BY <1>2 DEF Direction
    <3>2. \E k, l \in Item : <<"undo", k>> \in faults /\ <<"redo", l>> \in faults
      <4>1. CASE dir = "undo"
        <5>1. Other(dir) = "redo"
          BY <4>1 DEF Other
        <5> HIDE DEF i, dir
        <5> QED BY <2>1, <2>3, <2>5, <4>1, <5>1, DoomedBothWays
      <4>2. CASE dir = "redo"
        <5>1. Other(dir) = "undo"
          BY <4>2 DEF Other
        <5> HIDE DEF i, dir
        <5> QED BY <2>1, <2>3, <2>5, <4>2, <5>1, DoomedBothWays
      <4> QED BY <3>1, <4>1, <4>2
    <3> QED BY <2>4, <3>2 DEF RollbackWorks
  <2> QED BY <1>2, <2>2, <2>5 DEF Result
<1>8. Other("undo") = "redo" /\ Other("redo") = "undo"
  BY DEF Other
<1>9. \A r \in Result : Return(r) => calls' = Front(calls) /\ ret' = r
  BY DEF Return
<1>10. /\ \A d \in Direction, at \in {"kids", "recover"} :
            GoOn(at, <<Kids(d, i)>>) /\ doc' = m.at[i] => ChartNext(m)
       /\ /\ GoOn("calling", <<>>) /\ dir = "undo" /\ Due(stack, "undo", i) = <<>>
          /\ doc' = m.at[i]
          => ChartNext(m)
  BY <1>1, ItemGoesOnHere
<1>11. ASSUME calls' = Front(calls),
              ret' = "ok" => doc' = Edge(m, Other(dir), i) /\ Due(stack, dir, i) = <<>>,
              ret' = "fail" => doc' = Edge(m, dir, i) /\ Due(stack, Other(dir), i) = <<>>
       PROVE  ChartNext(m)
  BY <1>1, <1>11, ItemReturnsHere
<1>12. Edge(m, "undo", i) = m.post[i] /\ Edge(m, "redo", i) = m.pre[i]
  BY DEF Edge
<1> HIDE DEF i, dir
<1>13. CASE UndoItemKidsDone
  <2>1. Callee.at = "kids" /\ dir = "undo" /\ doc' = doc
    BY <1>13 DEF UndoItemKidsDone, In, docVars, dir
  <2>2. ret = "ok" => Due(stack, "undo", i) = <<>>
    BY <1>1, <1>2, <2>1 DEF Answered, Ends, i, dir
  <2>3. \/ GoOn("recover", <<Kids("redo", i)>>)
        \/ ret = "ok" /\ i \in batch /\ calls' = Front(calls) /\ ret' = "ok"
        \/ ret = "ok" /\ GoOn("calling", <<>>)
    BY <1>13 DEF UndoItemKidsDone, RecoverFromUndoError, Return, i
  <2> QED BY <1>4, <1>5, <1>8, <1>10, <1>11, <1>12, <2>1, <2>2, <2>3, Others
<1>14. CASE UndoItemCalled
  <2>1. Callee.at = "calling" /\ dir = "undo"
    BY <1>14 DEF UndoItemCalled, In, dir
  <2>2. \/ doc' = Without(own[i]) /\ calls' = Front(calls) /\ ret' = "ok"
        \/ GoOn("recover", <<Kids("redo", i)>>) /\ doc' = doc
    BY <1>14 DEF UndoItemCalled, RecoverFromUndoError, Return, i
  <2>3. i \notin batch
    BY <1>1, <1>2, <2>1 DEF Honest, i
  <2> QED BY <1>5, <1>6, <1>8, <1>10, <1>11, <1>12, <2>1, <2>2, <2>3, Others
<1>15. CASE UndoItemRecovered
  <2>1. Callee.at = "recover" /\ dir = "undo" /\ doc' = doc
        /\ calls' = Front(calls) /\ ret' = "fail"
    BY <1>15 DEF UndoItemRecovered, In, dir, docVars, Return
  <2> QED BY <1>4, <1>5, <1>7, <1>8, <1>11, <1>12, <2>1
<1>16. CASE RedoItemCalled
  <2>1. Callee.at = "calling" /\ dir = "redo"
    BY <1>16 DEF RedoItemCalled, In, dir
  <2>2. \/ doc' = With(own[i]) /\ GoOn("kids", <<Kids("redo", i)>>)
        \/ doc' = doc /\ calls' = Front(calls) /\ ret' = "fail"
    BY <1>16 DEF RedoItemCalled, Return, i
  <2>3. i \notin batch
    BY <1>1, <1>2, <2>1 DEF Honest, i
  <2>4. doc = m.pre[i] /\ doc = before[i] /\ Due(stack, "undo", i) = <<>>
    BY <1>4, <1>5, <2>1, <2>3
  <2>5. With(own[i]) = doc \o own[i]
    <3>1. ASSUME NEW k \in 1 .. Len(doc), Contains(own[i], doc[k])
          PROVE  FALSE
      <4>1. PICK l \in 1 .. Len(own[i]) : own[i][l] = doc[k]
        BY <3>1 DEF Contains
      <4>2. doc[k] \in Item /\ own[i][l] >= i /\ doc[k] < i
        BY <1>2, <2>4, ElementOfSeq DEF DocInv, Numbered
      <4> QED BY <1>2, <4>1, <4>2 DEF Item
    <3> QED BY <3>1 DEF With
  <2> QED BY <1>4, <1>8, <1>10, <1>11, <1>12, <2>1, <2>2, <2>3, <2>4, <2>5, Others
<1>17. CASE RedoItemKidsDone
  <2>1. Callee.at = "kids" /\ dir = "redo" /\ doc' = doc
    BY <1>17 DEF RedoItemKidsDone, In, docVars, dir
  <2>2. ret = "ok" => Due(stack, "redo", i) = <<>>
    BY <1>1, <1>2, <2>1 DEF Answered, Ends, i, dir
  <2>3. \/ GoOn("recover", <<Kids("undo", i)>>)
        \/ ret = "ok" /\ calls' = Front(calls) /\ ret' = "ok"
    BY <1>17 DEF RedoItemKidsDone, RecoverFromRedoError, Return, i
  <2> QED BY <1>4, <1>5, <1>8, <1>10, <1>11, <1>12, <2>1, <2>2, <2>3, Others
<1>18. CASE RedoItemRecovered
  <2>1. Callee.at = "recover" /\ dir = "redo" /\ calls' = Front(calls) /\ ret' = "fail"
    BY <1>18 DEF RedoItemRecovered, In, dir, Return
  <2>2. ret = "ok" /\ Due(stack, "undo", i) = <<>> /\ doc = m.at[i]
    BY <1>5, <1>7, <1>8, <2>1
  <2>3. doc' = m.pre[i]
    <3>1. CASE i \in batch /\ doc' = doc
      BY <1>4, <2>2, <3>1
    <3>2. CASE i \notin batch /\ doc' = Without(own[i])
      BY <1>6, <2>2, <3>2
    <3>3. CASE Fails("undo", i)
      <4>1. <<"undo", i>> \in faults' /\ faults \subseteq faults'
        BY <1>1, <3>3 DEF Fails
      <4>2. Doomed("redo", i, stack, batch, faults)
        BY <1>1, <1>2, <2>1 DEF Honest, i, dir
      <4>3. PICK l \in Item : <<"redo", l>> \in faults
        BY <4>2, DoomIsAFault, StackInvFacts, StackIds DEF CallsInv
      <4> QED BY <1>2, <4>1, <4>3 DEF RollbackWorks
    <3>4. \/ i \in batch /\ doc' = doc
          \/ i \notin batch /\ doc' = Without(own[i])
          \/ Fails("undo", i)
      BY <1>18, <2>2 DEF RedoItemRecovered, docVars, i
    <3> QED BY <3>1, <3>2, <3>3, <3>4
  <2> QED BY <1>8, <1>11, <1>12, <2>1, <2>2, <2>3
<1> QED BY <1>13, <1>14, <1>15, <1>16, <1>17, <1>18

----------------------------------------------------------------------------
\* A loop ends.
LEMMA KidsEndHere ==
    ASSUME StackInv, CallsInv, ResultsInv, DocInv, NEW m, ChartNow(m), KidsEnd
    PROVE  ChartNext(m)
<1> DEFINE n == Len(calls)
<1>1. /\ TypeOK /\ n \in Nat /\ n >= 1 /\ Callee = calls[n] /\ calls # <<>>
      /\ Running /\ Callee.fn = "kids" /\ Callee.at = "loop"
      /\ calls' = Front(calls) /\ UNCHANGED <<stack, batch, own, before, maxCount>>
      /\ doc' = doc
      /\ calls' \in Seq(Frame) /\ Len(calls') = n - 1
      /\ \A k \in 1 .. n - 1 : calls'[k] = calls[k]
      /\ m \in Chart /\ Laid(m, stack, batch, own, before) /\ Resting(stack, calls)
  BY CalleeType DEF StackInv, KidsEnd, In, Return, docVars, ChartNow, Charted, Running
<1>2. doc = m.at[Callee.item] /\ Undoing(calls)
  BY <1>1, CalleeHere DEF Here
<1>3. CASE n = 1
  <2>1. calls' = <<>> /\ Len(calls') = 0
    BY <1>1, <1>3, EmptySeq
  <2>2. Callee.item = 0 /\ stack[DoStack] = <<>>
    BY <1>1, <1>2, <1>3 DEF DocInv, Rooted
  <2>3. Resting(stack, calls')
    <3>1. \A k \in 1 .. n : k = n
      BY <1>3
    <3> QED BY <1>1, <3>1, RestingStays
  <2>4. Began(m, calls') /\ ~ Undoing(calls')
    BY <2>1 DEF Began, Undoing
  <2>5. There(m, calls', stack, ret', doc', maxCount)
    BY <1>1, <1>2, <2>2, <2>4 DEF There, Place, DoLine
  <2> QED BY <1>1, <2>3, <2>4, <2>5 DEF ChartNext, Charted
<1>4. CASE n # 1
  <2> DEFINE g == calls[n - 1]
  <2>1. g.fn = "item" /\ g.item = Callee.item /\ g.at \in {"kids", "recover"}
    BY <1>1, <1>4, CallerOfKids
  <2> HIDE DEF g
  <2>2. Here(m, g, stack, ret', doc')
    BY <1>1, <1>2, <2>1 DEF Here
  <2> QED BY <1>1, <1>4, <2>1, <2>2, CalleeReturns DEF g
<1> QED BY <1>3, <1>4

\* The loops that wait below the innermost one are those of other holders.
LEMMA OthersAwait ==
    ASSUME StackInv, CallsInv, Running, Callee.fn = "kids", NEW k \in 1 .. Len(calls),
           k # Len(calls), calls[k].fn = "kids"
    PROVE  calls[k].item # Callee.item
<1>1. /\ Len(calls) \in Nat /\ Callee = calls[Len(calls)] /\ calls \in Seq(Frame)
      /\ Orderly(calls, stack, batch)
  BY CalleeType DEF StackInv, TypeOK, CallsInv
<1>2. k < Len(calls) /\ Len(calls) \in 1 .. Len(calls)
  BY <1>1
<1>3. calls[k].item < Callee.item
  BY <1>1, <1>2 DEF Orderly, Descends
<1>4. calls[k].item \in Nat /\ Callee.item \in Nat
  BY <1>1, <1>2, FrameNumbers
<1> QED BY <1>3, <1>4

\* A loop calls the child on top.
LEMMA KidsCallHere ==
    ASSUME StackInv, CallsInv, ResultsInv, NEW m, ChartNow(m), KidsCall
    PROVE  ChartNext(m)
<1> DEFINE n == Len(calls)
           h == Callee.item
           dir == Callee.dir
           i == Last(stack[Source])
           f == Waiting(Callee)
           r == Append(Front(calls), f)
<1>1. /\ TypeOK /\ n \in Nat /\ n >= 1 /\ Callee = calls[n] /\ Callee \in Frame
      /\ Running /\ Callee.fn = "kids" /\ Callee.at = "loop" /\ Callee.left > 0
      /\ stack[Source] # <<>> /\ Linked(calls)
      /\ calls' = r \o Entered(dir, i)
      /\ UNCHANGED <<stack, batch, own, before, maxCount, ret>> /\ doc' = doc
      /\ m \in Chart /\ Laid(m, stack, batch, own, before) /\ Resting(stack, calls)
      /\ Began(m, calls)
  BY CalleeType DEF StackInv, KidsCall, In, Peek, ResultsInv, Results, ChartNow, Charted,
                    docVars
<1>2. dir \in Direction /\ h \in Holder /\ Callee.left \in Nat
  BY <1>1, FrameFields
<1>3. /\ f \in Frame /\ f.fn = "kids" /\ f.dir = dir /\ f.item = h /\ f.at = "wait"
  BY <1>1, <1>2, ChangedFrames DEF Waiting, Frame
<1>4. /\ i \in Item /\ i \in Holder /\ Due(stack, dir, h) # <<>>
      /\ Last(Due(stack, dir, h)) = i /\ Len(Due(stack, dir, h)) \in 1 .. Len(Due(stack, dir, h))
  <2>1. Source \in StackId /\ stack[Source] = Due(stack, dir, h)
    BY <1>2, StackIds DEF Source, Due
  <2> QED BY <1>1, <2>1, StackInvFacts, PopShrinks, StackIds
<1>5. doc = m.at[h]
  BY <1>1, CalleeHere DEF Here
<1>6. Edge(m, dir, i) = m.at[h]
  <2>1. Line(m, dir, h, stack, batch, own)
    BY <1>1, <1>2 DEF Laid
  <2> QED BY <1>4, <2>1, TopDue
<1>7. Due(stack, Other(dir), i) = <<>>
  <2>1. ~ Awaited(calls, dir, h)
    <3> SUFFICES ASSUME NEW k \in 1 .. Len(calls), calls[k].fn = "kids",
                        calls[k].at = "wait", calls[k].item = h
                 PROVE  FALSE
      BY DEF Awaited
    <3>1. k # Len(calls)
      BY <1>1
    <3> QED BY <1>1, <3>1, OthersAwait
  <2> QED BY <1>1, <1>2, <1>4, <2>1 DEF Resting, Last
<1>8. /\ Due(stack, "undo", i) = <<>> =>
           /\ i \in batch => m.at[i] = m.pre[i]
           /\ i \notin batch => m.at[i] = m.pre[i] \o own[i]
      /\ Due(stack, "redo", i) = <<>> => m.at[i] = m.post[i]
  <2> HIDE DEF i
  <2> QED BY <1>1, <1>4, ItemEnds
<1> HIDE DEF f, i, h, dir
<1>9. /\ r \in Seq(Frame) /\ Len(r) = n /\ r[n] = f /\ r # <<>>
      /\ \A k \in 1 .. n - 1 : r[k] = calls[k]
  <2>1. f.dir = Callee.dir
    BY <1>3 DEF dir
  <2> QED BY <1>1, <1>3, <2>1, GoesOnLinked
<1> HIDE DEF r
<1>10. PICK at \in {"kids", "calling"} :
        \/ /\ at = "calling" /\ dir = "redo" /\ i \notin batch
           /\ Entered(dir, i) = <<MkFrame("item", dir, i, at, 0)>>
        \/ /\ at = "kids" /\ (dir = "redo" => i \in batch)
           /\ Entered(dir, i) = <<MkFrame("item", dir, i, at, 0), Kids(dir, i)>>
  BY <1>2 DEF Entered, Direction
<1> DEFINE g == MkFrame("item", dir, i, at, 0)
           l == Kids(dir, i)
           q == Append(r, g)
           p == Append(q, l)
<1>11. /\ g \in Frame /\ g.fn = "item" /\ g.dir = dir /\ g.at = at /\ g.item = i
       /\ g.doc0 = doc
       /\ l \in Frame /\ l.fn = "kids" /\ l.item = i /\ l.at = "loop"
  <2>1. g \in Frame /\ l \in Frame
    BY <1>1, <1>2, <1>4, NewFrames
  <2> QED BY <2>1 DEF MkFrame, Kids
<1> HIDE DEF g, l
<1>12. /\ q \in Seq(Frame) /\ Len(q) = n + 1 /\ q[n + 1] = g
       /\ \A k \in 1 .. n : q[k] = r[k]
       /\ p \in Seq(Frame) /\ Len(p) = n + 2 /\ p[n + 2] = l
       /\ \A k \in 1 .. n + 1 : p[k] = q[k]
  <2>1. /\ q \in Seq(Frame) /\ Len(q) = n + 1 /\ q[n + 1] = g
        /\ \A k \in 1 .. n : q[k] = r[k]
    BY <1>9, <1>11, AppendProperties
  <2> HIDE DEF q
  <2>2. /\ p \in Seq(Frame) /\ Len(p) = (n + 1) + 1 /\ p[(n + 1) + 1] = l
        /\ \A k \in 1 .. n + 1 : p[k] = q[k]
    BY <1>11, <2>1, AppendProperties
  <2>3. (n + 1) + 1 = n + 2
    BY <1>1
  <2> QED BY <2>1, <2>2, <2>3
<1>13. \/ calls' = q /\ at = "calling" /\ dir = "redo" /\ i \notin batch
       \/ calls' = p /\ at = "kids" /\ (dir = "redo" => i \in batch)
  <2>1. r \o <<g>> = q /\ r \o <<g, l>> = p
    BY <1>9, <1>11, AppendIsConcat, AppendTwo
  <2> QED BY <1>1, <1>10, <2>1 DEF g, l
<1> HIDE DEF q, p
<1>14. /\ Len(calls') \in {n + 1, n + 2} /\ calls'[n] = f /\ calls'[n + 1] = g
       /\ \A k \in 1 .. n - 1 : calls'[k] = calls[k]
       /\ calls'[Len(calls')] \in {g, l}
       /\ calls'[Len(calls')] = g => at = "calling" /\ dir = "redo" /\ i \notin batch
       /\ calls'[Len(calls')] = l /\ dir = "redo" => i \in batch
       /\ Len(calls') = n + 2 => calls'[n + 2] = l
  <2>1. n \in 1 .. n /\ n \in 1 .. n + 1 /\ n + 1 \in 1 .. n + 1
    BY <1>1
  <2>2. \A k \in 1 .. n - 1 : k \in 1 .. n /\ k \in 1 .. n + 1
    BY <1>1
  <2>3. CASE calls' = q /\ at = "calling" /\ dir = "redo" /\ i \notin batch
    BY <1>9, <1>11, <1>12, <2>1, <2>2, <2>3
  <2>4. CASE calls' = p /\ at = "kids" /\ (dir = "redo" => i \in batch)
    BY <1>9, <1>11, <1>12, <2>1, <2>2, <2>4
  <2> QED BY <1>13, <2>3, <2>4
<1>15. Resting(stack, calls')
  <2>1. \A k \in 1 .. n : k = n \/ (k \in 1 .. n - 1 /\ k \in 1 .. Len(calls'))
    BY <1>1, <1>14
  <2> QED BY <1>1, <1>14, <2>1, RestingStays
<1>16. Began(m, calls')
  <2>1. ASSUME NEW k \in 2 .. Len(calls'), calls'[k].fn = "item"
        PROVE  calls'[k].doc0 = m.at[calls'[k - 1].item]
    <3>1. k # n /\ k # n + 2
      BY <1>3, <1>11, <1>14, <2>1
    <3>2. CASE k = n + 1
      <4>1. k - 1 = n
        BY <1>1, <3>2
      <4> QED BY <1>3, <1>5, <1>11, <1>14, <3>2, <4>1
    <3>3. CASE k # n + 1
      <4>1. k \in 1 .. n - 1 /\ k - 1 \in 1 .. n - 1 /\ k \in 2 .. n
        BY <1>1, <1>14, <3>1, <3>3, SMTT(30)
      <4> QED BY <1>1, <1>14, <2>1, <4>1 DEF Began
    <3> QED BY <3>2, <3>3
  <2> QED BY <2>1 DEF Began
<1>17. Here(m, calls'[Len(calls')], stack, ret', doc')
  <2>1. CASE calls'[Len(calls')] = g
    <3>1. at = "calling" /\ dir = "redo"
      BY <1>14, <2>1
    <3>2. Due(stack, "undo", i) = <<>> /\ doc = m.pre[i]
      BY <1>5, <1>6, <1>7, <3>1 DEF Other, Edge
    <3> QED BY <1>1, <1>11, <2>1, <3>1, <3>2 DEF Here
  <2>2. CASE calls'[Len(calls')] = l
    <3>1. doc = m.at[i]
      <4>1. CASE dir = "undo"
        BY <1>5, <1>6, <1>7, <1>8, <4>1 DEF Other, Edge
      <4>2. CASE dir = "redo"
        BY <1>5, <1>6, <1>7, <1>8, <1>14, <2>2, <4>2 DEF Other, Edge
      <4> QED BY <1>2, <4>1, <4>2 DEF Direction
    <3> QED BY <1>1, <1>11, <2>2, <3>1 DEF Here
  <2> QED BY <1>14, <2>1, <2>2
<1>18. There(m, calls', stack, ret', doc', maxCount)
  <2>1. n \in 1 .. Len(calls') /\ calls'[n].fn = "kids"
    BY <1>1, <1>3, <1>14
  <2> QED BY <1>17, <2>1 DEF There, Undoing
<1> QED BY <1>1, <1>15, <1>16, <1>18 DEF ChartNext, Charted

----------------------------------------------------------------------------
\* The loop that waits for the item whose children the innermost one goes through.
LEMMA LoopAbove ==
    ASSUME StackInv, CallsInv, ResultsInv, DocInv, Running, Callee.fn = "kids",
           Callee.item # 0
    PROVE  \E k \in 1 .. Len(calls) - 1 :
              /\ calls[k].fn = "kids" /\ calls[k].at = "wait"
              /\ calls[k].dir \in Direction /\ calls[k].item \in Holder
              /\ Due(stack, calls[k].dir, calls[k].item) # <<>>
              /\ Last(Due(stack, calls[k].dir, calls[k].item)) = Callee.item
<1> DEFINE n == Len(calls)
           g == calls[n - 1]
           l == calls[n - 2]
<1>1. /\ n \in Nat /\ n >= 1 /\ Callee = calls[n] /\ calls \in Seq(Frame) /\ calls # <<>>
      /\ Rooted(calls) /\ Linked(calls) /\ Chained(calls, stack)
  BY CalleeType DEF StackInv, TypeOK, ResultsInv, Results, CallsInv, Orderly, DocInv,
                    Running
<1>2. n # 1
  BY <1>1 DEF Rooted
<1>3. g.fn = "item" /\ g.item = Callee.item
  BY <1>2, CallerOfKids
<1>4. n - 1 # 1
  <2>1. n - 1 = 1 => g = calls[1]
    OBVIOUS
  <2> QED BY <1>1, <1>3, <2>1 DEF Rooted
<1>5. n - 2 \in 1 .. n - 1 /\ (n - 2) + 1 = n - 1 /\ n - 2 \in 1 .. n
  <2>1. n \in Nat /\ n >= 1 /\ n # 1 /\ n - 1 # 1
    BY <1>1, <1>2, <1>4
  <2> HIDE DEF n
  <2> QED BY <2>1
<1>6. Fits(l, g, stack) /\ Links(l, g) /\ l \in Frame
  BY <1>1, <1>5, ElementOfSeq DEF Chained, Linked
<1> HIDE DEF l, g
<1>7. /\ l.fn = "kids" /\ l.at = "wait"
      /\ Due(stack, l.dir, l.item) # <<>> /\ Last(Due(stack, l.dir, l.item)) = g.item
  BY <1>3, <1>6 DEF Fits, Links, Due
<1>8. l.dir \in Direction /\ l.item \in Holder
  BY <1>6, <1>7, FrameFields
<1> QED BY <1>3, <1>5, <1>7, <1>8 DEF l

\* A child has returned to its loop.
LEMMA KidsMoveHere ==
    ASSUME StackInv, CallsInv, ResultsInv, DocInv, FailuresLast, NEW m, ChartNow(m), KidsMove
    PROVE  \E m2 : ChartNext(m2)
<1> DEFINE n == Len(calls)
           h == Callee.item
           dir == Callee.dir
           op == Other(dir)
           c == Last(Due(stack, dir, h))
           f == [Callee EXCEPT !.at = "loop", !.res = ret]
           m2 == MoveTo(m, h, Edge(m, op, c))
<1>1. /\ TypeOK /\ n \in Nat /\ n >= 1 /\ Callee = calls[n] /\ Callee \in Frame
      /\ Running /\ Callee.fn = "kids" /\ Callee.at = "wait" /\ n \in 1 .. n
      /\ Linked(calls) /\ Orderly(calls, stack, batch) /\ calls \in Seq(Frame)
      /\ UNCHANGED <<batch, ret, own, before, maxCount>> /\ doc' = doc
      /\ ret \in Result /\ stack \in Stacks /\ Distinct(stack) /\ Nested(stack)
      /\ m \in Chart /\ Laid(m, stack, batch, own, before) /\ Resting(stack, calls)
      /\ Began(m, calls)
  BY CalleeType, StackInvFacts
     DEF StackInv, TypeOK, KidsMove, In, CallsInv, ResultsInv, Results, ChartNow, Charted,
         docVars
<1>2. /\ calls' = Append(Front(calls), f)
      /\ \/ ret = "ok" /\ stack' = PopPush(stack, Source, Target)
         \/ ret = "fail" /\ stack' = stack
  <2>1. DidNotify(ret) = {ret}
    BY DEF DidNotify, FailuresLast
  <2> QED BY <1>1, <2>1 DEF KidsMove, Result
<1>3. dir \in Direction /\ h \in Holder /\ h \in Nat /\ op \in Direction
  BY <1>1, FrameFields, BoundsAssumption, StackIds DEF Holder
<1>4. f \in Frame /\ f.fn = "kids" /\ f.dir = dir /\ f.item = h /\ f.at = "loop"
  BY <1>1, ChangedFrames DEF Frame
<1>5. /\ Due(stack, dir, h) # <<>>
      /\ ret = "ok" => doc = Edge(m, op, c) /\ Due(stack, dir, c) = <<>>
      /\ ret = "fail" => doc = m.at[h] /\ Due(stack, op, c) = <<>>
  <2>1. Here(m, Callee, stack, ret, doc)
    BY <1>1, CalleeHere
  <2> QED BY <1>1, <2>1 DEF Here
<1>6. stack[DoStack] = <<>>
  BY <1>1, CalleeHere DEF DocInv
<1> HIDE DEF f
<1>7. /\ calls' \in Seq(Frame) /\ Len(calls') = n /\ calls'[n] = f
      /\ \A k \in 1 .. n - 1 : calls'[k] = calls[k]
  BY <1>1, <1>2, <1>4, GoesOnLinked
<1>8. ASSUME NEW d, NEW g, Awaited(calls, d, g)
      PROVE  (d = dir /\ g = h) \/ (g # h /\ Awaited(calls', d, g))
  <2>1. PICK k \in 1 .. n : /\ calls[k].fn = "kids" /\ calls[k].at = "wait"
                            /\ calls[k].dir = d /\ calls[k].item = g
    BY <1>8 DEF Awaited
  <2>2. CASE k = n
    BY <1>1, <2>1, <2>2
  <2>3. CASE k # n
    <3>1. g # h
      BY <1>1, <2>1, <2>3, OthersAwait
    <3>2. k \in 1 .. n - 1 /\ k \in 1 .. Len(calls')
      BY <1>1, <1>7, <2>3
    <3> QED BY <1>7, <2>1, <3>1, <3>2 DEF Awaited
  <2> QED BY <2>2, <2>3
<1>9. ASSUME NEW m3, Here(m3, f, stack', ret', doc')
      PROVE  There(m3, calls', stack', ret', doc', maxCount')
  <2>1. n \in 1 .. Len(calls') /\ calls'[Len(calls')] = f /\ calls'[n].fn # "body"
    BY <1>1, <1>4, <1>7
  <2> QED BY <1>9, <2>1 DEF There, Undoing
<1>10. ASSUME NEW k \in 2 .. Len(calls'), calls'[k].fn = "item"
       PROVE  /\ k \in 2 .. Len(calls) /\ calls[k].fn = "item" /\ calls'[k] = calls[k]
              /\ calls'[k - 1] = calls[k - 1] /\ calls[k - 1].item \in Holder
              /\ calls[k - 1].item # h
  <2>1. k # n
    BY <1>4, <1>7, <1>10
  <2>2. k \in 1 .. n - 1 /\ k - 1 \in 1 .. n - 1 /\ k \in 2 .. n /\ k < n
        /\ k \in 1 .. n /\ k - 1 \in 1 .. n /\ (k - 1) + 1 = k
    BY <1>1, <1>7, <2>1
  <2>3. calls'[k] = calls[k] /\ calls'[k - 1] = calls[k - 1] /\ calls[k].fn = "item"
    BY <1>7, <1>10, <2>2
  <2>4. Fits(calls[k - 1], calls[k], stack)
    BY <1>1, <2>2 DEF Orderly, Chained
  <2>5. calls[k - 1].fn = "kids" /\ calls[k - 1].item < calls[k].item
    BY <2>3, <2>4 DEF Fits
  <2>6. calls[k].item <= h
    BY <1>1, <2>2 DEF Orderly, Descends
  <2>7. calls[k - 1].item \in Holder /\ calls[k - 1].item \in Nat /\ calls[k].item \in Nat
    BY <1>1, <2>2, <2>5, FrameNumbers
  <2>8. calls[k - 1].item # h
    BY <1>3, <2>5, <2>6, <2>7
  <2> QED BY <2>2, <2>3, <2>7, <2>8
<1>11. CASE ret = "fail" /\ stack' = stack
  <2>1. Resting(stack, calls')
    <3>1. ASSUME NEW d \in Direction, NEW g \in Holder, NEW k \in 1 .. Len(Due(stack, d, g))
          PROVE  \/ Due(stack, Other(d), Due(stack, d, g)[k]) = <<>>
                 \/ k = Len(Due(stack, d, g)) /\ Awaited(calls', d, g)
      <4>1. CASE k = Len(Due(stack, d, g)) /\ Awaited(calls, d, g)
        <5>1. CASE d = dir /\ g = h
          <6>1. Due(stack, d, g)[k] = c
            BY <4>1, <5>1 DEF Last
          <6> QED BY <1>5, <1>11, <5>1, <6>1
        <5> QED BY <1>8, <4>1, <5>1
      <4> QED BY <1>1, <4>1 DEF Resting
    <3> QED BY <1>1, <3>1 DEF Resting
  <2>2. Began(m, calls')
    BY <1>1, <1>10 DEF Began
  <2>3. Here(m, f, stack', ret', doc')
    BY <1>1, <1>4, <1>5, <1>11 DEF Here
  <2>4. ChartNext(m)
    BY <1>1, <1>9, <1>11, <2>1, <2>2, <2>3 DEF ChartNext, Charted
  <2> QED BY <2>4
<1>12. CASE ret = "ok" /\ stack' = PopPush(stack, Source, Target)
  <2>1. stack' = PopPush(stack, <<dir, h>>, <<op, h>>)
    BY <1>12 DEF Source, Target
  <2> HIDE DEF h, dir
  <2>2. /\ stack' \in Stacks /\ c \in Item
        /\ \A d \in Direction, w \in Holder : w # h => Due(stack', d, w) = Due(stack, d, w)
        /\ Len(Due(stack, dir, h)) \in Nat \ {0}
        /\ Len(Due(stack', dir, h)) = Len(Due(stack, dir, h)) - 1
        /\ \A k \in 1 .. Len(Due(stack, dir, h)) - 1 :
              Due(stack', dir, h)[k] = Due(stack, dir, h)[k]
        /\ Due(stack', op, h) = Append(Due(stack, op, h), c)
        /\ stack'[DoStack] = stack[DoStack]
    <3> DEFINE st2 == PopPush(stack, <<dir, h>>, <<Other(dir), h>>)
    <3>1. /\ st2 \in Stacks /\ c \in Item
          /\ st2[DoStack] = stack[DoStack]
          /\ \A d \in Direction, w \in Holder : w # h => Due(st2, d, w) = Due(stack, d, w)
          /\ Len(Due(stack, dir, h)) \in Nat \ {0}
          /\ Len(Due(st2, dir, h)) = Len(Due(stack, dir, h)) - 1
          /\ \A k \in 1 .. Len(Due(stack, dir, h)) - 1 :
                Due(st2, dir, h)[k] = Due(stack, dir, h)[k]
          /\ Due(st2, Other(dir), h) = Append(Due(stack, Other(dir), h), c)
      BY <1>1, <1>3, <1>5, MovedDues
    <3> HIDE DEF st2, c
    <3> QED BY <2>1, <3>1 DEF st2
  <2>3. m2 \in Chart /\ Laid(m2, stack', batch, own, before)
    BY <1>1, <1>3, <1>5, <2>1, MovedLaid
  <2>4. /\ m2.at[h] = Edge(m, op, c)
        /\ \A g \in Holder : g # h => m2.at[g] = m.at[g]
    <3>1. m \in Chart /\ Edge(m, op, c) \in Doc
      BY <1>1, <2>2, Charts, EmptySeq DEF Edge, Doc
    <3> HIDE DEF c, op
    <3> QED BY <1>3, <3>1, Charts
  <2>5. Nested(stack')
    <3>1. CallsInv'
      BY KidsMoveCalls
    <3> QED BY <3>1 DEF CallsInv, Nested
  <2>6. /\ op # dir /\ Other(op) = dir /\ Other(dir) = op
        /\ \A d \in Direction : d = dir \/ d = op
    BY <1>3, Others
  <2> HIDE DEF op, m2, c
  <2>7. ASSUME NEW d \in Direction, NEW g \in Holder, NEW k \in 1 .. Len(Due(stack', d, g))
        PROVE  \/ Due(stack', Other(d), Due(stack', d, g)[k]) = <<>>
               \/ k = Len(Due(stack', d, g)) /\ Awaited(calls', d, g)
    <3> DEFINE w == Due(stack', d, g)[k]
    <3>1. w \in Item /\ w \in Holder /\ w > g /\ Other(d) \in Direction
      <4>1. <<d, g>> \in StackId /\ <<d, g>> # DoStack /\ <<d, g>>[2] = g
        BY StackIds
      <4>2. w > g
        BY <2>5, <4>1 DEF Nested, Due
      <4>3. Due(stack', d, g) \in Seq(Item)
        BY <2>2, Dues
      <4> QED BY <4>2, <4>3, ElementOfSeq, StackIds
    <3>2. CASE g = h
      <4>1. w # h
        BY <1>3, <3>1, <3>2
      <4>2. Due(stack', Other(d), w) = Due(stack, Other(d), w)
        BY <2>2, <3>1, <4>1
      <4>3. Due(stack, Other(d), w) = <<>>
        <5>1. CASE d = dir
          <6>1. k \in 1 .. Len(Due(stack, dir, h)) /\ k # Len(Due(stack, dir, h))
                /\ w = Due(stack, dir, h)[k]
            BY <2>2, <3>2, <5>1
          <6> QED BY <1>1, <1>3, <5>1, <6>1 DEF Resting
        <5>2. CASE d = op
          <6>1. /\ Due(stack, op, h) \in Seq(Item) /\ Len(Due(stack, op, h)) \in Nat
                /\ Len(Due(stack', op, h)) = Len(Due(stack, op, h)) + 1
                /\ Due(stack', op, h)[Len(Due(stack, op, h)) + 1] = c
                /\ \A j \in 1 .. Len(Due(stack, op, h)) :
                      Due(stack', op, h)[j] = Due(stack, op, h)[j]
            <7>1. Due(stack, op, h) \in Seq(Item)
              BY <1>1, <1>3, Dues
            <7> QED BY <2>2, <7>1, AppendProperties
          <6>2. CASE k = Len(Due(stack, op, h)) + 1
            BY <1>5, <1>12, <2>6, <3>2, <5>2, <6>1, <6>2
          <6>3. CASE k # Len(Due(stack, op, h)) + 1
            <7>1. k \in 1 .. Len(Due(stack, op, h)) /\ w = Due(stack, op, h)[k]
              BY <3>2, <5>2, <6>1, <6>3
            <7>2. ~ Awaited(calls, op, h)
              BY <1>8, <2>6
            <7> QED BY <1>1, <1>3, <5>2, <7>1, <7>2 DEF Resting
          <6> QED BY <6>2, <6>3
        <5> QED BY <2>6, <5>1, <5>2
      <4> QED BY <4>2, <4>3
    <3>3. CASE g # h
      <4>1. Due(stack', d, g) = Due(stack, d, g)
        BY <2>2, <3>3
      <4>2. \/ Due(stack, Other(d), w) = <<>>
            \/ k = Len(Due(stack, d, g)) /\ Awaited(calls, d, g)
        BY <1>1, <4>1 DEF Resting
      <4>3. CASE k = Len(Due(stack, d, g)) /\ Awaited(calls, d, g)
        BY <1>8, <3>3, <4>1, <4>3
      <4>4. CASE Due(stack, Other(d), w) = <<>> /\ w # h
        <5>1. Due(stack', Other(d), w) = Due(stack, Other(d), w)
          BY <2>2, <3>1, <4>4
        <5> QED BY <4>4, <5>1
      <4>5. CASE w = h
        <5>1. Callee.item # 0
          BY <3>1, <4>5 DEF h, Item
        <5>2. PICK j \in 1 .. Len(calls) - 1 :
                 /\ calls[j].fn = "kids" /\ calls[j].at = "wait"
                 /\ calls[j].dir \in Direction /\ calls[j].item \in Holder
                 /\ Due(stack, calls[j].dir, calls[j].item) # <<>>
                 /\ Last(Due(stack, calls[j].dir, calls[j].item)) = h
          BY <1>1, <5>1, LoopAbove DEF h
        <5> DEFINE e == calls[j].dir
                   p == calls[j].item
        <5>3. Awaited(calls', e, p)
          <6>1. j \in 1 .. Len(calls') /\ calls'[j] = calls[j]
            BY <1>1, <1>7
          <6> QED BY <5>2, <6>1 DEF Awaited
        <5>4. /\ e \in Direction /\ p \in Holder /\ Due(stack, e, p) # <<>>
              /\ Last(Due(stack, e, p)) = h
          BY <5>2
        <5> HIDE DEF e, p
        <5>5. /\ <<e, p>> \in StackId /\ <<d, g>> \in StackId
              /\ Len(stack[<<e, p>>]) \in 1 .. Len(stack[<<e, p>>])
              /\ stack[<<e, p>>][Len(stack[<<e, p>>])] = h
          <6>1. <<e, p>> \in StackId /\ <<d, g>> \in StackId
            BY <5>4, StackIds
          <6>2. Len(stack[<<e, p>>]) \in 1 .. Len(stack[<<e, p>>])
            BY <1>1, <5>4, <6>1, PopShrinks DEF Due
          <6> QED BY <5>4, <6>1, <6>2 DEF Due, Last
        <5>6. k \in 1 .. Len(stack[<<d, g>>]) /\ stack[<<d, g>>][k] = h
          BY <4>1, <4>5 DEF Due
        <5>7. <<d, g>> = <<e, p>> /\ k = Len(stack[<<e, p>>])
          <6> DEFINE s == <<d, g>>
                     t == <<e, p>>
                     l == Len(stack[t])
          <6>1. s \in StackId /\ t \in StackId /\ k \in 1 .. Len(stack[s])
                /\ l \in 1 .. Len(stack[t]) /\ stack[s][k] = stack[t][l]
            BY <5>5, <5>6
          <6> HIDE DEF s, t, l
          <6>2. s = t /\ k = l
            BY <1>1, <6>1 DEF Distinct
          <6> QED BY <6>2 DEF s, t, l
        <5>8. d = e /\ g = p /\ k = Len(Due(stack', d, g))
          <6>1. Due(stack', d, g) = stack[<<d, g>>]
            BY <4>1 DEF Due
          <6>2. k = Len(stack[<<d, g>>])
            BY <5>7
          <6>3. d = e /\ g = p
            BY <5>7
          <6> QED BY <6>1, <6>2, <6>3
        <5> QED BY <5>3, <5>8
      <4> QED BY <4>2, <4>3, <4>4, <4>5
    <3> QED BY <3>2, <3>3
  <2>8. Len(stack'[DoStack]) = 0
    BY <1>6, <2>2, EmptySeq
  <2>9. Resting(stack', calls')
    BY <2>7, <2>8 DEF Resting
  <2>10. Began(m2, calls')
    <3>1. ASSUME NEW k \in 2 .. Len(calls'), calls'[k].fn = "item"
          PROVE  calls'[k].doc0 = m2.at[calls'[k - 1].item]
      <4>1. /\ k \in 2 .. Len(calls) /\ calls[k].fn = "item" /\ calls'[k] = calls[k]
            /\ calls'[k - 1] = calls[k - 1] /\ calls[k - 1].item \in Holder
            /\ calls[k - 1].item # h
        BY <1>10, <3>1
      <4>2. calls[k].doc0 = m.at[calls[k - 1].item]
        BY <1>1, <4>1 DEF Began
      <4> QED BY <2>4, <4>1, <4>2
    <3> QED BY <3>1 DEF Began
  <2>11. Here(m2, f, stack', ret', doc')
    BY <1>1, <1>4, <1>5, <1>12, <2>4 DEF Here
  <2>12. ChartNext(m2)
    BY <1>1, <1>9, <2>3, <2>9, <2>10, <2>11 DEF ChartNext, Charted
  <2> QED BY <2>12
<1> QED BY <1>2, <1>11, <1>12

\* The undo or redo of an item that fails has left the document as it was.
LEMMA FailedHere ==
    ASSUME StackInv, CallsInv, ResultsInv, DocInv, NEW m, ChartNow(m), ChartNext(m),
           Running, Callee.fn = "item", calls' = Front(calls), ret' = "fail"
    PROVE  doc' = Callee.doc0
<1> DEFINE n == Len(calls)
           g == calls[n - 1]
<1>1. /\ n \in Nat /\ n - 1 \in 1 .. n - 1 /\ g.fn = "kids" /\ g.at = "wait"
      /\ Callee.doc0 = m.at[g.item]
  BY CallerOfItem
<1>2. Len(calls') = n - 1 /\ \A k \in 1 .. n - 1 : calls'[k] = calls[k]
  BY CalleeType DEF StackInv
<1>3. Len(calls') \in 1 .. Len(calls') /\ calls'[Len(calls')] = g
  BY <1>1, <1>2
<1> HIDE DEF g
<1>4. Here(m, g, stack', ret', doc')
  <2>1. Undoing(calls')
    BY <1>1, <1>3 DEF Undoing
  <2> QED BY <1>3, <2>1 DEF ChartNext, Charted, There
<1> QED BY <1>1, <1>4 DEF Here

----------------------------------------------------------------------------
(***************************************************************************)
(* The chart while no undo or redo is in progress.                         *)
(***************************************************************************)

\* What is in the history is done or undone altogether.
AllRest(st) ==
    /\ \A dir \in Direction, h \in Holder : \A k \in 1 .. Len(Due(st, dir, h)) :
          Due(st, Other(dir), Due(st, dir, h)[k]) = <<>>
    /\ \A k \in 1 .. Len(st[DoStack]) : Due(st, "redo", st[DoStack][k]) = <<>>

Doings(m, st, dc, mx) ==
    \/ mx = 0 /\ st[DoStack] # <<>>
    \/ dc = Place(m, st[DoStack]) /\ DoLine(m, st[DoStack])

Still(m, st, bt, ow, bf, dc, mx) ==
    m \in Chart /\ Laid(m, st, bt, ow, bf) /\ AllRest(st) /\ Doings(m, st, dc, mx)

StillNow(m) == Still(m, stack, batch, own, before, doc, maxCount)
StillNext(m) == Still(m, stack', batch', own', before', doc', maxCount')

LEMMA BodiesStill ==
    ASSUME NEW m, NEW st, NEW bt, NEW ow, NEW bf, NEW q, NEW r, NEW dc, NEW mx,
           \A k \in 1 .. Len(q) : q[k].fn = "body", Len(q) \in Nat
    PROVE  Charted(m, st, bt, ow, bf, q, r, dc, mx) <=> Still(m, st, bt, ow, bf, dc, mx)
<1>1. ~ Undoing(q) /\ \A dir, h : ~ Awaited(q, dir, h)
  BY DEF Undoing, Awaited
<1>2. Began(m, q)
  <2>1. \A k \in 2 .. Len(q) : k \in 1 .. Len(q)
    OBVIOUS
  <2> QED BY <2>1 DEF Began
<1> QED BY <1>1, <1>2 DEF Charted, Still, There, Doings, Resting, AllRest

\* The children of a holder when the chart changes for the items of X only.
LEMMA LineElsewhere ==
    ASSUME NEW st \in Stacks, NEW st2, NEW m, NEW m2, NEW bt, NEW bt2, NEW ow, NEW ow2,
           NEW bf, Laid(m, st, bt, ow, bf), NEW dir \in Direction, NEW g \in Holder, NEW X,
           \A i \in Item \ X : /\ m2.pre[i] = m.pre[i] /\ m2.post[i] = m.post[i]
                               /\ ow2[i] = ow[i] /\ (i \in bt2 <=> i \in bt),
           Due(st2, dir, g) = Due(st, dir, g), m2.at[g] = m.at[g], g \notin X,
           \A k \in 1 .. Len(Due(st, dir, g)) : Due(st, dir, g)[k] \notin X
    PROVE  Line(m2, dir, g, st2, bt2, ow2)
<1>1. Line(m, dir, g, st, bt, ow) /\ Due(st, dir, g) \in Seq(Item)
  BY Dues DEF Laid
<1>2. ASSUME g # 0 PROVE Base(m2, dir, g, bt2, ow2) = Base(m, dir, g, bt, ow)
  <2>1. g \in Item
    BY <1>2, BoundsAssumption DEF Holder, Item
  <2> QED BY <2>1 DEF Base, Start
<1>3. \A k \in 1 .. Len(Due(st, dir, g)) : \A e :
         Edge(m2, e, Due(st, dir, g)[k]) = Edge(m, e, Due(st, dir, g)[k])
  <2>1. \A k \in 1 .. Len(Due(st, dir, g)) : Due(st, dir, g)[k] \in Item \ X
    BY <1>1, ElementOfSeq
  <2> QED BY <2>1 DEF Edge
<1> QED BY <1>1, <1>2, <1>3, LineSame

\* What is on one stack is not on another one.
LEMMA NotDue ==
    ASSUME NEW st \in Stacks, Distinct(st), NEW s \in StackId, NEW k \in 1 .. Len(st[s]),
           NEW dir \in Direction, NEW g \in Holder
    PROVE  \A j \in 1 .. Len(Due(st, dir, g)) :
              Due(st, dir, g)[j] = st[s][k] => <<dir, g>> = s /\ j = k
<1>1. <<dir, g>> \in StackId
  BY StackIds
<1> QED BY <1>1 DEF Distinct, Due

\* The last of the items being done.
LEMMA LastDoing ==
    ASSUME NEW st \in Stacks, st[DoStack] # <<>>
    PROVE  LET s    == st[DoStack]
               rest == Pop(st, DoStack)[DoStack]
           IN /\ Pop(st, DoStack) \in Stacks /\ s \in Seq(Item) /\ rest \in Seq(Item)
              /\ Len(s) \in Nat /\ Len(s) >= 1 /\ Len(rest) = Len(s) - 1
              /\ \A k \in 1 .. Len(rest) : rest[k] = s[k]
              /\ s[Len(s)] = Last(s) /\ Last(s) \in Item
              /\ \A dir \in Direction, h \in Holder :
                    Due(Pop(st, DoStack), dir, h) = Due(st, dir, h)
              /\ rest = <<>> => Len(s) = 1
              /\ rest # <<>> => Len(s) - 1 \in 1 .. Len(s) - 1 /\ Last(rest) = s[Len(s) - 1]
<1> DEFINE s == st[DoStack]
           p == Pop(st, DoStack)
           rest == p[DoStack]
<1>1. /\ p \in Stacks
      /\ \A t \in StackId \ {DoStack} : p[t] = st[t]
      /\ Len(rest) = Len(s) - 1
      /\ \A k \in 1 .. Len(s) - 1 : rest[k] = s[k]
      /\ Len(s) \in 1 .. Len(s) /\ Last(s) \in Item
  BY PopShrinks, StackIds DEF Shrunk
<1>2. s \in Seq(Item) /\ rest \in Seq(Item)
  BY <1>1, Dues
<1>3. \A dir \in Direction, h \in Holder : Due(p, dir, h) = Due(st, dir, h)
  BY <1>1, StackIds DEF Due
<1> HIDE DEF p
<1>4. Len(s) \in Nat /\ Len(s) >= 1 /\ s[Len(s)] = Last(s)
  BY <1>1, <1>2, EmptySeq DEF Last
<1>5. /\ rest = <<>> => Len(s) = 1
      /\ rest # <<>> => Len(s) - 1 \in 1 .. Len(s) - 1 /\ Last(rest) = s[Len(s) - 1]
  <2>1. rest = <<>> => Len(rest) = 0
    BY EmptySeq
  <2>2. rest # <<>> => Len(rest) >= 1
    BY <1>2, EmptySeq
  <2>3. rest # <<>> => Len(s) - 1 \in 1 .. Len(s) - 1
    BY <1>1, <1>4, <2>2
  <2> QED BY <1>1, <1>4, <2>1, <2>3 DEF Last
<1> QED BY <1>1, <1>2, <1>3, <1>4, <1>5 DEF p

LEMMA DoLineShrinks ==
    ASSUME NEW m, NEW st \in Stacks, st[DoStack] # <<>>, DoLine(m, st[DoStack])
    PROVE  LET rest == Pop(st, DoStack)[DoStack] IN
           DoLine(m, rest) /\ m.pre[Last(st[DoStack])] = Place(m, rest)
<1> DEFINE s == st[DoStack]
           rest == Pop(st, DoStack)[DoStack]
<1>1. /\ s \in Seq(Item) /\ rest \in Seq(Item) /\ s # <<>>
      /\ Len(s) \in Nat /\ Len(s) >= 1 /\ Len(rest) = Len(s) - 1
      /\ \A k \in 1 .. Len(rest) : rest[k] = s[k]
      /\ s[Len(s)] = Last(s)
      /\ rest = <<>> => Len(s) = 1
      /\ rest # <<>> => Len(s) - 1 \in 1 .. Len(s) - 1 /\ Last(rest) = s[Len(s) - 1]
  BY LastDoing
<1>2. /\ s # <<>> => m.pre[s[1]] = m.at[0]
      /\ \A k \in 1 .. Len(s) - 1 : m.pre[s[k + 1]] = m.at[s[k]]
  BY DEF DoLine
<1> HIDE DEF s, rest
<1>3. m.pre[Last(s)] = Place(m, rest)
  <2>1. CASE rest = <<>>
    BY <1>1, <1>2, <2>1 DEF Place
  <2>2. CASE rest # <<>>
    <3>1. (Len(s) - 1) + 1 = Len(s)
      BY <1>1
    <3> QED BY <1>1, <1>2, <2>2, <3>1 DEF Place
  <2> QED BY <2>1, <2>2
<1>4. DoLine(m, rest)
  <2>1. rest # <<>> => 1 \in 1 .. Len(rest)
    BY <1>1
  <2>2. \A k \in 1 .. Len(rest) - 1 : k \in 1 .. Len(rest) /\ k + 1 \in 1 .. Len(rest)
                                      /\ k \in 1 .. Len(s) - 1
    BY <1>1
  <2> QED BY <1>1, <1>2, <2>1, <2>2 DEF DoLine
<1> QED BY <1>3, <1>4 DEF s, rest

\* An item that ends is where its children have left the document.
LEMMA AtTheEnd ==
    ASSUME NEW m, StackInv, StillNow(m), stack[DoStack] # <<>>, maxCount # 0
    PROVE  LET i    == Peek(DoStack)
               rest == Pop(stack, DoStack)[DoStack]
           IN /\ i \in Item /\ Due(stack, "redo", i) = <<>>
              /\ doc = m.at[i] /\ doc = m.post[i]
              /\ m.pre[i] = Place(m, rest) /\ DoLine(m, rest)
              /\ Due(stack, "undo", i) = <<>> =>
                   doc = IF i \in batch THEN m.pre[i] ELSE m.pre[i] \o own[i]
<1> DEFINE s == stack[DoStack]
           i == Peek(DoStack)
<1>1. stack \in Stacks
  BY StackInvFacts
<1>2. /\ i \in Item /\ s[Len(s)] = i /\ Len(s) \in 1 .. Len(s) /\ i = Last(s)
  <2>1. /\ Last(s) \in Item /\ Len(s) \in Nat /\ Len(s) >= 1 /\ s[Len(s)] = Last(s)
    BY <1>1, LastDoing
  <2> QED BY <2>1 DEF Peek
<1>3. doc = m.at[i] /\ DoLine(m, s) /\ AllRest(stack) /\ Laid(m, stack, batch, own, before)
  BY <1>2 DEF StillNow, Still, Doings, Place, Peek
<1>4. m.pre[i] = Place(m, Pop(stack, DoStack)[DoStack])
      /\ DoLine(m, Pop(stack, DoStack)[DoStack])
  BY <1>1, <1>2, <1>3, DoLineShrinks
<1>5. Due(stack, "redo", i) = <<>>
  BY <1>2, <1>3 DEF AllRest
<1> HIDE DEF i
<1>6. /\ Due(stack, "undo", i) = <<>> =>
           /\ i \in batch => m.at[i] = m.pre[i]
           /\ i \notin batch => m.at[i] = m.pre[i] \o own[i]
      /\ m.at[i] = m.post[i]
  BY <1>2, <1>3, <1>5, ItemEnds
<1> QED BY <1>2, <1>3, <1>4, <1>5, <1>6 DEF i

----------------------------------------------------------------------------
LEMMA ChartOfNew ==
    ASSUME NEW m \in Chart, NEW i \in Item, NEW a \in Doc, NEW d \in Doc
    PROVE  LET m2 == MoveTo(EndAt(StartAt(m, i, a), i, d), i, d) IN
           /\ m2 \in Chart /\ m2.pre[i] = a /\ m2.post[i] = d /\ m2.at[i] = d
           /\ \A g \in Item \ {i} : m2.pre[g] = m.pre[g] /\ m2.post[g] = m.post[g]
           /\ \A g \in Holder \ {i} : m2.at[g] = m.at[g]
<1> DEFINE ma == StartAt(m, i, a)
           mb == EndAt(ma, i, d)
           m2 == MoveTo(mb, i, d)
<1>1. /\ ma \in Chart /\ ma.pre[i] = a /\ ma.post = m.post /\ ma.at = m.at
      /\ \A g \in Item \ {i} : ma.pre[g] = m.pre[g]
  BY Charts
<1> HIDE DEF ma
<1>2. /\ mb \in Chart /\ mb.pre = ma.pre /\ mb.post[i] = d /\ mb.at = ma.at
      /\ \A g \in Item \ {i} : mb.post[g] = ma.post[g]
  <2>1. ma \in Chart
    BY <1>1
  <2> QED BY <2>1 DEF Chart, EndAt
<1> HIDE DEF mb
<1>3. /\ m2 \in Chart /\ m2.pre = mb.pre /\ m2.post = mb.post /\ m2.at[i] = d
      /\ \A g \in Holder \ {i} : m2.at[g] = mb.at[g]
  <2>1. mb \in Chart /\ i \in Holder
    BY <1>2, StackIds
  <2> QED BY <2>1 DEF Chart, MoveTo
<1> HIDE DEF m2
<1>4. /\ m2 \in Chart /\ m2.pre[i] = a /\ m2.post[i] = d /\ m2.at[i] = d
      /\ \A g \in Item \ {i} : m2.pre[g] = m.pre[g] /\ m2.post[g] = m.post[g]
      /\ \A g \in Holder \ {i} : m2.at[g] = m.at[g]
  BY <1>1, <1>2, <1>3
<1> QED BY <1>4 DEF m2, mb, ma

\* An item is created.
LEMMA StillNew ==
    ASSUME NEW m, StackInv, Nested(stack), StillNow(m), RoomForItem,
           stack' = Push(stack, DoStack, created + 1), maxCount' = maxCount,
           \/ /\ batch' = batch /\ doc' = Append(doc, created + 1)
              /\ own' = [own EXCEPT ![created + 1] = <<created + 1>>]
              /\ before' = [before EXCEPT ![created + 1] = doc]
           \/ batch' = batch \cup {created + 1} /\ UNCHANGED docVars
    PROVE  \E m2 : StillNext(m2)
<1> DEFINE i == created + 1
           s == stack[DoStack]
           t == stack'[DoStack]
           m2 == MoveTo(EndAt(StartAt(m, i, doc), i, doc'), i, doc')
<1>1. /\ stack \in Stacks /\ created \in Nat /\ i \in Item /\ i \in Holder /\ i # 0
      /\ i \notin batch /\ ~ IsHeld(stack, i) /\ doc \in Seq(Item) /\ doc' \in Seq(Item)
      /\ own \in [Item -> Seq(Item)] /\ before \in [Item -> Seq(Item)]
      /\ \A j : IsHeld(stack, j) => j \in 1 .. created
  <2>1. /\ stack \in Stacks /\ created \in Nat /\ \A j : IsHeld(stack, j) => j \in 1 .. created
        /\ batch \subseteq 1 .. created /\ doc \in Seq(Item)
        /\ own \in [Item -> Seq(Item)] /\ before \in [Item -> Seq(Item)]
    BY StackInvFacts DEF StackInv, TypeOK
  <2>2. i \in Item /\ i \notin 1 .. created /\ i # 0
    BY <2>1, BoundsAssumption DEF RoomForItem, Item
  <2>3. doc' \in Seq(Item)
    <3>1. Append(doc, i) \in Seq(Item)
      <4> HIDE DEF i
      <4> QED BY <2>1, <2>2, AppendProperties
    <3> QED BY <2>1, <3>1 DEF docVars
  <2> QED BY <2>1, <2>2, <2>3, StackIds
<1>2. /\ stack' \in Stacks
      /\ \A dir \in Direction, h \in Holder : Due(stack', dir, h) = Due(stack, dir, h)
      /\ t = Append(s, i) /\ s \in Seq(Item)
  <2>1. /\ \A u \in StackId \ {DoStack} : stack'[u] = stack[u]
        /\ t = Append(s, i) /\ s \in Seq(Item) /\ stack' \in Stacks
    BY <1>1, StackIds, AppendProperties, Dues DEF Push, Stacks
  <2> QED BY <2>1, StackIds DEF Due
<1>3. \A dir \in Direction, h \in Holder :
         \A k \in 1 .. Len(Due(stack, dir, h)) :
            /\ Due(stack, dir, h)[k] # i /\ Due(stack, dir, h)[k] \in 1 .. created
            /\ Due(stack, dir, h)[k] > h
  <2> TAKE dir \in Direction, h \in Holder
  <2> TAKE k \in 1 .. Len(Due(stack, dir, h))
  <2>1. <<dir, h>> \in StackId /\ <<dir, h>> # DoStack /\ <<dir, h>>[2] = h
    BY StackIds
  <2>2. IsHeld(stack, Due(stack, dir, h)[k])
    BY <2>1 DEF IsHeld, Due
  <2> QED BY <1>1, <2>1, <2>2 DEF Nested, Due
<1>4. \A dir \in Direction : Due(stack, dir, i) = <<>>
  <2> TAKE dir \in Direction
  <2>1. Due(stack, dir, i) \in Seq(Item)
    BY <1>1, Dues
  <2>2. ASSUME 1 \in 1 .. Len(Due(stack, dir, i)) PROVE FALSE
    <3>1. Due(stack, dir, i)[1] \in 1 .. created /\ Due(stack, dir, i)[1] > i
      BY <1>1, <1>3, <2>2
    <3> QED BY <1>1, <3>1
  <2> QED BY <2>1, <2>2, EmptySeq
<1> HIDE DEF i
<1>5. /\ m \in Chart /\ Laid(m, stack, batch, own, before) /\ AllRest(stack)
      /\ Doings(m, stack, doc, maxCount)
  BY DEF StillNow, Still
<1>6. /\ m2 \in Chart /\ m2.pre[i] = doc /\ m2.post[i] = doc' /\ m2.at[i] = doc'
      /\ \A g \in Item \ {i} : m2.pre[g] = m.pre[g] /\ m2.post[g] = m.post[g]
      /\ \A g \in Holder \ {i} : m2.at[g] = m.at[g]
  <2>1. doc \in Doc /\ doc' \in Doc
    BY <1>1 DEF Doc
  <2> QED BY <1>1, <1>5, <2>1, ChartOfNew
<1> HIDE DEF m2
<1>7. /\ i \in batch' => doc' = doc
      /\ i \notin batch' => doc' = doc \o own'[i] /\ before'[i] = doc
      /\ \A g \in Item \ {i} : /\ own'[g] = own[g] /\ before'[g] = before[g]
                               /\ g \in batch' <=> g \in batch
  <2>1. Append(doc, i) = doc \o <<i>>
    BY <1>1, AppendIsConcat
  <2> QED BY <1>1, <2>1 DEF docVars, i
<1>8. Laid(m2, stack', batch', own', before')
  <2>1. ASSUME NEW dir \in Direction, NEW g \in Holder
        PROVE  Line(m2, dir, g, stack', batch', own')
    <3>1. CASE g = i
      <4>1. Due(stack', dir, i) = <<>>
        BY <1>1, <1>2, <1>4
      <4>2. m2.at[i] = Base(m2, dir, i, batch', own')
        BY <1>6, <1>7 DEF Base, Start
      <4> QED BY <1>1, <3>1, <4>1, <4>2, NoneDue
    <3>2. CASE g # i
      <4> DEFINE X == {i}
      <4>1. /\ \A j \in Item \ X : /\ m2.pre[j] = m.pre[j] /\ m2.post[j] = m.post[j]
                                   /\ own'[j] = own[j] /\ (j \in batch' <=> j \in batch)
            /\ Due(stack', dir, g) = Due(stack, dir, g) /\ m2.at[g] = m.at[g] /\ g \notin X
            /\ \A k \in 1 .. Len(Due(stack, dir, g)) : Due(stack, dir, g)[k] \notin X
        BY <1>2, <1>3, <1>6, <1>7, <3>2
      <4> HIDE DEF X
      <4>2. stack \in Stacks /\ Laid(m, stack, batch, own, before)
        BY <1>1, <1>5
      <4> QED BY <4>1, <4>2, LineElsewhere
    <3> QED BY <3>1, <3>2
  <2>2. \A g \in Item \ batch' : m2.pre[g] = before'[g]
    BY <1>5, <1>6, <1>7 DEF Laid
  <2> QED BY <2>1, <2>2 DEF Laid
<1>9. /\ Len(s) \in Nat /\ Len(t) = Len(s) + 1 /\ t[Len(s) + 1] = i /\ t # <<>> /\ Last(t) = i
      /\ \A k \in 1 .. Len(s) : t[k] = s[k] /\ s[k] \in Item /\ s[k] # i
  <2>3. \A k \in 1 .. Len(s) : s[k] # i
    BY <1>1, StackIds DEF IsHeld
  <2>4. i \in Item /\ s \in Seq(Item) /\ t = Append(s, i)
    BY <1>1, <1>2
  <2> HIDE DEF s, t
  <2>1. /\ Len(s) \in Nat /\ Len(t) = Len(s) + 1 /\ t[Len(s) + 1] = i
        /\ \A k \in 1 .. Len(s) : t[k] = s[k] /\ s[k] \in Item
    BY <2>4, AppendProperties, ElementOfSeq
  <2>2. t # <<>> /\ Last(t) = i
    BY <2>4, Appended
  <2> QED BY <2>1, <2>2, <2>3
<1>10. AllRest(stack')
  <2>1. ASSUME NEW dir \in Direction, NEW h \in Holder, NEW k \in 1 .. Len(Due(stack', dir, h))
        PROVE  Due(stack', Other(dir), Due(stack', dir, h)[k]) = <<>>
    <3>1. Due(stack', dir, h) = Due(stack, dir, h) /\ Other(dir) \in Direction
      BY <1>2, StackIds
    <3>2. Due(stack, dir, h)[k] \in Holder
      BY <1>1, <3>1, Dues, ElementOfSeq, StackIds
    <3> QED BY <1>2, <1>5, <3>1, <3>2 DEF AllRest
  <2>2. ASSUME NEW k \in 1 .. Len(t)
        PROVE  Due(stack', "redo", t[k]) = <<>>
    <3>1. CASE k = Len(s) + 1
      BY <1>1, <1>2, <1>4, <1>9, <3>1, StackIds
    <3>2. CASE k # Len(s) + 1
      <4>1. k \in 1 .. Len(s)
        BY <1>9, <3>2
      <4> QED BY <1>2, <1>5, <1>9, <4>1, StackIds DEF AllRest
    <3> QED BY <3>1, <3>2
  <2> QED BY <2>1, <2>2 DEF AllRest
<1>11. Doings(m2, stack', doc', maxCount')
  <2>1. CASE maxCount = 0
    BY <1>9, <2>1 DEF Doings
  <2>2. CASE maxCount # 0
    <3>1. doc = Place(m, s) /\ DoLine(m, s)
      BY <1>5, <2>2 DEF Doings
    <3>2. Place(m2, t) = doc'
      BY <1>6, <1>9 DEF Place
    <3>3. m2.at[0] = m.at[0]
      BY <1>1, <1>6, StackIds
    <3>4. \A k \in 1 .. Len(s) : m2.pre[s[k]] = m.pre[s[k]] /\ m2.at[s[k]] = m.at[s[k]]
      BY <1>6, <1>9, StackIds
    <3>5. CASE s = <<>>
      <4>1. Len(s) = 0
        BY <3>5, EmptySeq
      <4>2. Len(t) - 1 = 0 /\ t[1] = i
        BY <1>9, <4>1
      <4> QED BY <1>6, <3>1, <3>2, <3>3, <3>5, <4>2 DEF Doings, DoLine, Place
    <3>6. CASE s # <<>>
      <4>1. Len(s) \in 1 .. Len(s) /\ 1 \in 1 .. Len(s) /\ Last(s) = s[Len(s)]
        BY <1>2, <3>6, EmptySeq DEF Last
      <4>2. doc = m.at[s[Len(s)]]
        BY <3>1, <3>6, <4>1 DEF Place
      <4>3. m2.pre[t[1]] = m2.at[0]
        BY <1>9, <3>1, <3>3, <3>4, <3>6, <4>1 DEF DoLine
      <4>4. ASSUME NEW k \in 1 .. Len(t) - 1
            PROVE  m2.pre[t[k + 1]] = m2.at[t[k]]
        <5>1. k \in 1 .. Len(s)
          BY <1>9
        <5>2. CASE k = Len(s)
          <6>1. m2.pre[t[k + 1]] = doc
            BY <1>6, <1>9, <5>2
          <6>2. m2.at[t[k]] = m.at[s[k]]
            BY <1>9, <3>4, <5>1
          <6> QED BY <4>2, <5>2, <6>1, <6>2
        <5>3. CASE k # Len(s)
          <6>1. k \in 1 .. Len(s) - 1 /\ k + 1 \in 1 .. Len(s)
            BY <1>9, <5>1, <5>3
          <6>2. m.pre[s[k + 1]] = m.at[s[k]]
            BY <3>1, <6>1 DEF DoLine
          <6> QED BY <1>9, <3>4, <5>1, <6>1, <6>2
        <5> QED BY <5>2, <5>3
      <4>5. DoLine(m2, t)
        BY <4>3, <4>4 DEF DoLine
      <4> QED BY <3>2, <4>5 DEF Doings
    <3> QED BY <3>5, <3>6
  <2> QED BY <2>1, <2>2
<1> QED BY <1>6, <1>8, <1>10, <1>11 DEF StillNext, Still

\* The history of the top level is cut: what it was before does not matter.
TopOf(t, s) ==
    /\ t \in Seq(Item)
    /\ \E j \in Nat : Len(t) = Len(s) - j /\ \A k \in 1 .. Len(t) : t[k] = s[k + j]

LEMMA CutLine ==
    ASSUME NEW m, NEW dir \in Direction, NEW st \in Stacks, NEW st2, NEW bt, NEW ow,
           Line(m, dir, 0, st, bt, ow), TopOf(Due(st2, dir, 0), Due(st, dir, 0))
    PROVE  Line(m, dir, 0, st2, bt, ow)
<1>1. PICK b : Path(m, dir, Due(st, dir, 0), b, m.at[0])
  BY DEF Line
<1>2. PICK j \in Nat : /\ Len(Due(st2, dir, 0)) = Len(Due(st, dir, 0)) - j
                       /\ \A k \in 1 .. Len(Due(st2, dir, 0)) :
                             Due(st2, dir, 0)[k] = Due(st, dir, 0)[k + j]
  BY DEF TopOf
<1>3. Due(st, dir, 0) \in Seq(Item) /\ Due(st2, dir, 0) \in Seq(Item)
  BY Dues, StackIds DEF TopOf
<1>4. \E c : Path(m, dir, Due(st2, dir, 0), c, m.at[0])
  BY <1>1, <1>2, <1>3, PathCut
<1> QED BY <1>4 DEF Line

\* The history is cut and the items being done are the same.
LEMMA StillCut ==
    ASSUME NEW m, NEW st \in Stacks, NEW st2, NEW bt, NEW ow, NEW bf, NEW dc, NEW mx, NEW mx2,
           Still(m, st, bt, ow, bf, dc, mx), st2[DoStack] = st[DoStack],
           \A dir \in Direction, h \in Holder : h # 0 => Due(st2, dir, h) = Due(st, dir, h),
           \A dir \in Direction : TopOf(Due(st2, dir, 0), Due(st, dir, 0)),
           mx2 = mx \/ st[DoStack] = <<>>
    PROVE  Still(m, st2, bt, ow, bf, dc, mx2)
<1>1. m \in Chart /\ Laid(m, st, bt, ow, bf) /\ AllRest(st) /\ Doings(m, st, dc, mx)
  BY DEF Still
<1>2. Laid(m, st2, bt, ow, bf)
  <2>1. ASSUME NEW dir \in Direction, NEW h \in Holder
        PROVE  Line(m, dir, h, st2, bt, ow)
    <3>1. Line(m, dir, h, st, bt, ow) /\ Due(st, dir, h) \in Seq(Item)
      BY <1>1, Dues DEF Laid
    <3>2. CASE h = 0
      BY <3>1, <3>2, CutLine
    <3>3. CASE h # 0
      BY <3>1, <3>3, LineSame
    <3> QED BY <3>2, <3>3
  <2> QED BY <1>1, <2>1 DEF Laid
<1>3. AllRest(st2)
  <2>1. ASSUME NEW dir \in Direction, NEW h \in Holder, NEW k \in 1 .. Len(Due(st2, dir, h))
        PROVE  Due(st2, Other(dir), Due(st2, dir, h)[k]) = <<>>
    <3>1. Other(dir) \in Direction /\ Due(st, dir, h) \in Seq(Item)
      BY StackIds, Dues
    <3>2. \E j \in 1 .. Len(Due(st, dir, h)) : Due(st2, dir, h)[k] = Due(st, dir, h)[j]
      <4>1. CASE h # 0
        BY <4>1
      <4>2. CASE h = 0
        <5>1. PICK j \in Nat : /\ Len(Due(st2, dir, 0)) = Len(Due(st, dir, 0)) - j
                               /\ \A l \in 1 .. Len(Due(st2, dir, 0)) :
                                     Due(st2, dir, 0)[l] = Due(st, dir, 0)[l + j]
          BY DEF TopOf
        <5>2. Len(Due(st, dir, 0)) \in Nat
          BY <3>1, <4>2, EmptySeq
        <5>3. k + j \in 1 .. Len(Due(st, dir, 0))
          BY <4>2, <5>1, <5>2
        <5> QED BY <4>2, <5>1, <5>3
      <4> QED BY <4>1, <4>2
    <3>3. PICK j \in 1 .. Len(Due(st, dir, h)) : Due(st2, dir, h)[k] = Due(st, dir, h)[j]
      BY <3>2
    <3>4. Due(st, dir, h)[j] \in Item
      BY <3>1, ElementOfSeq
    <3>5. Due(st, dir, h)[j] \in Holder /\ Due(st, dir, h)[j] # 0
      BY <3>4, StackIds DEF Item
    <3>6. Due(st, Other(dir), Due(st, dir, h)[j]) = <<>>
      BY <1>1 DEF AllRest
    <3> QED BY <3>1, <3>3, <3>5, <3>6
  <2>2. ASSUME NEW k \in 1 .. Len(st2[DoStack])
        PROVE  Due(st2, "redo", st2[DoStack][k]) = <<>>
    <3>1. st[DoStack][k] \in Item
      BY Dues, ElementOfSeq
    <3>2. st[DoStack][k] \in Holder /\ st[DoStack][k] # 0
      BY <3>1, StackIds DEF Item
    <3> QED BY <1>1, <3>2, StackIds DEF AllRest
  <2> QED BY <2>1, <2>2 DEF AllRest
<1>4. Doings(m, st2, dc, mx2)
  BY <1>1 DEF Doings
<1> QED BY <1>1, <1>2, <1>3, <1>4 DEF Still

----------------------------------------------------------------------------
(***************************************************************************)
(* An item ends.                                                           *)
(***************************************************************************)

\* What is on the do stack is on it once, and is held nowhere.
LEMMA DoingOnce ==
    ASSUME NEW st \in Stacks, Distinct(st), st[DoStack] # <<>>
    PROVE  LET s    == st[DoStack]
               rest == Pop(st, DoStack)[DoStack]
           IN /\ \A k \in 1 .. Len(s) : /\ s[k] \in Item
                                        /\ \A l \in 1 .. Len(s) : s[k] = s[l] => k = l
                                        /\ \A dir \in Direction, g \in Holder :
                                              \A j \in 1 .. Len(Due(st, dir, g)) :
                                                 Due(st, dir, g)[j] # s[k]
              /\ \A k \in 1 .. Len(rest) : rest[k] # Last(s) /\ rest[k] = s[k]
              /\ rest # <<>> => /\ Last(rest) \in Item /\ Last(rest) # Last(s)
                                /\ \A k \in 1 .. Len(rest) - 1 : rest[k] # Last(rest)
                                /\ \A dir \in Direction, g \in Holder :
                                      \A j \in 1 .. Len(Due(st, dir, g)) :
                                         Due(st, dir, g)[j] # Last(rest)
<1> DEFINE s == st[DoStack]
           rest == Pop(st, DoStack)[DoStack]
<1>1. /\ s \in Seq(Item) /\ rest \in Seq(Item)
      /\ Len(s) \in Nat /\ Len(s) >= 1 /\ Len(rest) = Len(s) - 1
      /\ \A k \in 1 .. Len(rest) : rest[k] = s[k]
      /\ s[Len(s)] = Last(s)
      /\ rest # <<>> => Len(s) - 1 \in 1 .. Len(s) - 1 /\ Last(rest) = s[Len(s) - 1]
  BY LastDoing
<1>2. \A k \in 1 .. Len(s), l \in 1 .. Len(s) : s[k] = s[l] => k = l
  BY StackIds DEF Distinct
<1>3. ASSUME NEW k \in 1 .. Len(s), NEW dir \in Direction, NEW g \in Holder,
             NEW j \in 1 .. Len(Due(st, dir, g))
      PROVE  Due(st, dir, g)[j] # s[k]
  <2>1. <<dir, g>> # DoStack /\ DoStack \in StackId
    BY StackIds
  <2> QED BY <2>1, NotDue
<1>4. \A k \in 1 .. Len(s) : s[k] \in Item
  BY <1>1, ElementOfSeq
<1> HIDE DEF s, rest
<1>5. \A k \in 1 .. Len(rest) : rest[k] # Last(s)
  <2>1. \A k \in 1 .. Len(rest) : k \in 1 .. Len(s) /\ Len(s) \in 1 .. Len(s) /\ k # Len(s)
    BY <1>1
  <2> QED BY <1>1, <1>2, <2>1
<1>6. ASSUME rest # <<>>
      PROVE  /\ Last(rest) \in Item /\ Last(rest) # Last(s)
             /\ \A k \in 1 .. Len(rest) - 1 : rest[k] # Last(rest)
             /\ \A dir \in Direction, g \in Holder :
                   \A j \in 1 .. Len(Due(st, dir, g)) : Due(st, dir, g)[j] # Last(rest)
  <2>1. Last(rest) = s[Len(s) - 1] /\ Len(s) - 1 \in 1 .. Len(s) /\ Len(s) \in 1 .. Len(s)
    BY <1>1, <1>6
  <2>2. \A k \in 1 .. Len(rest) - 1 : k \in 1 .. Len(rest) /\ k \in 1 .. Len(s) /\ k # Len(s) - 1
    BY <1>1
  <2>3. Len(s) - 1 # Len(s)
    BY <1>1
  <2>4. Last(rest) \in Item /\ Last(rest) # Last(s)
    BY <1>1, <1>2, <1>4, <2>1, <2>3
  <2>5. \A k \in 1 .. Len(rest) - 1 : rest[k] # Last(rest)
    <3> TAKE k \in 1 .. Len(rest) - 1
    <3>1. rest[k] = s[k] /\ k \in 1 .. Len(s) /\ k # Len(s) - 1
      BY <1>1, <2>2
    <3> QED BY <1>2, <2>1, <3>1
  <2> QED BY <1>3, <2>1, <2>4, <2>5
<1> QED BY <1>1, <1>2, <1>3, <1>4, <1>5, <1>6 DEF s, rest

\* It becomes the last child of the one in which it was begun, or of the top level.
LEMMA StillPushed ==
    ASSUME NEW m, NEW st \in Stacks, Distinct(st), NEW bt, NEW ow, NEW bf,
           NEW dc \in Doc, NEW mx,
           Still(m, st, bt, ow, bf, dc, mx), st[DoStack] # <<>>,
           NEW rest, rest = Pop(st, DoStack)[DoStack],
           NEW i, i = Last(st[DoStack]),
           NEW h, h = (IF rest = <<>> THEN 0 ELSE Last(rest)),
           m.pre[i] = m.at[h], m.post[i] = dc, DoLine(m, rest),
           Due(st, "redo", i) = <<>>, Due(st, "redo", h) = <<>>,
           NEW st2, st2[DoStack] = rest,
           Due(st2, "undo", h) = Append(Due(st, "undo", h), i),
           \A dir \in Direction, g \in Holder :
              (dir = "undo" /\ g = h) \/ Due(st2, dir, g) = Due(st, dir, g)
    PROVE  \E m2 : Still(m2, st2, bt, ow, bf, dc, mx)
<1> DEFINE m1 == IF h = 0 THEN m ELSE EndAt(m, h, dc)
           m2 == MoveTo(m1, h, dc)
           s  == Due(st, "undo", h)
           t  == Append(s, i)
<1>1. /\ m \in Chart /\ Laid(m, st, bt, ow, bf) /\ AllRest(st) /\ Doings(m, st, dc, mx)
  BY DEF Still
<1>2. /\ i \in Item /\ rest \in Seq(Item) /\ Len(rest) \in Nat
      /\ h \in Holder /\ (h # 0 => h \in Item) /\ i # h /\ i # 0
      /\ h = 0 <=> rest = <<>>
      /\ \A k \in 1 .. Len(rest) : rest[k] # i /\ rest[k] \in Item
      /\ rest # <<>> => Last(rest) = h /\ \A k \in 1 .. Len(rest) - 1 : rest[k] # h
      /\ \A dir \in Direction, g \in Holder :
            \A j \in 1 .. Len(Due(st, dir, g)) :
               /\ Due(st, dir, g)[j] \in Item
               /\ Due(st, dir, g)[j] # i
               /\ h # 0 => Due(st, dir, g)[j] # h
  <2>1. /\ i \in Item /\ rest \in Seq(Item)
        /\ Len(st[DoStack]) \in Nat /\ Len(st[DoStack]) >= 1
        /\ st[DoStack][Len(st[DoStack])] = i
    BY LastDoing
  <2>2. /\ \A k \in 1 .. Len(st[DoStack]) :
              \A dir \in Direction, g \in Holder :
                 \A j \in 1 .. Len(Due(st, dir, g)) : Due(st, dir, g)[j] # st[DoStack][k]
        /\ \A k \in 1 .. Len(rest) : rest[k] # i
        /\ rest # <<>> => /\ Last(rest) \in Item /\ Last(rest) # i
                          /\ \A k \in 1 .. Len(rest) - 1 : rest[k] # Last(rest)
                          /\ \A dir \in Direction, g \in Holder :
                                \A j \in 1 .. Len(Due(st, dir, g)) :
                                   Due(st, dir, g)[j] # Last(rest)
    BY DoingOnce
  <2>3. Len(st[DoStack]) \in 1 .. Len(st[DoStack])
    BY <2>1
  <2>4. \A k \in 1 .. Len(rest) : rest[k] \in Item
    BY <2>1, ElementOfSeq
  <2>5. \A dir \in Direction, g \in Holder : \A j \in 1 .. Len(Due(st, dir, g)) :
           Due(st, dir, g)[j] \in Item
    BY Dues, ElementOfSeq
  <2>6. Item \subseteq Holder /\ 0 \in Holder /\ 0 \notin Item /\ Len(rest) \in Nat
    BY <2>1, StackIds, EmptySeq DEF Item
  <2>7. \A dir \in Direction, g \in Holder : \A j \in 1 .. Len(Due(st, dir, g)) :
           Due(st, dir, g)[j] # i
    BY <2>1, <2>2, <2>3
  <2>8. CASE rest = <<>>
    BY <2>1, <2>2, <2>4, <2>5, <2>6, <2>7, <2>8
  <2>9. CASE rest # <<>>
    <3>1. h = Last(rest) /\ h \in Item /\ h # 0 /\ h # i
      BY <2>2, <2>6, <2>9
    <3>2. /\ \A k \in 1 .. Len(rest) - 1 : rest[k] # h
          /\ \A dir \in Direction, g \in Holder :
                \A j \in 1 .. Len(Due(st, dir, g)) : Due(st, dir, g)[j] # h
      BY <2>2, <2>9, <3>1
    <3> QED BY <2>1, <2>2, <2>4, <2>5, <2>6, <2>7, <2>9, <3>1, <3>2
  <2> QED BY <2>8, <2>9
<1>3. /\ m2 \in Chart /\ m2.pre = m.pre /\ m2.at[h] = dc
      /\ h # 0 => m2.post[h] = dc
      /\ \A g \in Item : g # h => m2.post[g] = m.post[g]
      /\ \A g \in Holder : g # h => m2.at[g] = m.at[g]
  <2>1. /\ m1 \in Chart /\ m1.pre = m.pre /\ m1.at = m.at
        /\ h # 0 => m1.post[h] = dc
        /\ \A g \in Item : g # h => m1.post[g] = m.post[g]
    BY <1>1, <1>2 DEF Chart, EndAt
  <2> HIDE DEF m1
  <2>2. /\ m2 \in Chart /\ m2.pre = m1.pre /\ m2.post = m1.post /\ m2.at[h] = dc
        /\ \A g \in Holder : g # h => m2.at[g] = m1.at[g]
    BY <1>2, <2>1 DEF Chart, MoveTo
  <2> QED BY <2>1, <2>2
<1> HIDE DEF m2
<1>4. s \in Seq(Item) /\ t \in Seq(Item) /\ Line(m, "undo", h, st, bt, ow)
  <2>1. s \in Seq(Item) /\ Line(m, "undo", h, st, bt, ow)
    BY <1>1, <1>2, Others, Dues DEF Laid
  <2> HIDE DEF s
  <2> QED BY <1>2, <2>1, AppendProperties
<1>5. \A k \in 1 .. Len(t) : /\ t[k] \in Item /\ t[k] # h
                             /\ t[k] = i \/ \E j \in 1 .. Len(s) : t[k] = s[j]
  <2>1. \A j \in 1 .. Len(s) : s[j] \in Item /\ s[j] # h
    BY <1>2, Others DEF Item
  <2> HIDE DEF s
  <2>2. Len(t) = Len(s) + 1 /\ t[Len(s) + 1] = i /\ \A j \in 1 .. Len(s) : t[j] = s[j]
    BY <1>2, <1>4, AppendProperties
  <2>3. Len(s) \in Nat
    BY <1>4, EmptySeq
  <2> HIDE DEF t
  <2>4. ASSUME NEW k \in 1 .. Len(t), k # Len(s) + 1
        PROVE  k \in 1 .. Len(s)
    BY <2>2, <2>3, <2>4
  <2>5. i \in Item /\ i # h
    BY <1>2
  <2> QED BY <2>1, <2>2, <2>4, <2>5
<1>6. Line(m2, "undo", h, st2, bt, ow)
  <2>1. PICK b : /\ h # 0 => b = Base(m, "undo", h, bt, ow)
                 /\ Path(m, "undo", s, b, m.at[h])
    BY <1>4 DEF Line
  <2>2. Edge(m, Other("undo"), i) = m.at[h] /\ Edge(m, "undo", i) = dc
    BY Others DEF Edge
  <2>3. Path(m, "undo", t, b, dc)
    <3> HIDE DEF s
    <3> QED BY <1>2, <1>4, <2>1, <2>2, PathGrows
  <2>4. \A k \in 1 .. Len(t) : \A e : Edge(m2, e, t[k]) = Edge(m, e, t[k])
    BY <1>3, <1>5 DEF Edge
  <2>5. Path(m2, "undo", t, b, dc)
    <3> HIDE DEF t
    <3> QED BY <1>4, <2>3, <2>4, PathSame
  <2>6. Base(m2, "undo", h, bt, ow) = Base(m, "undo", h, bt, ow)
    BY <1>3 DEF Base, Start
  <2> QED BY <1>3, <2>1, <2>5, <2>6 DEF Line
<1>7. Line(m2, "redo", h, st2, bt, ow)
  <2>1. Due(st2, "redo", h) = <<>>
    BY <1>2, Others
  <2>2. CASE h = 0
    BY <2>1, <2>2, NoneDueAtTop
  <2>3. CASE h # 0
    <3>1. m2.at[h] = Base(m2, "redo", h, bt, ow)
      BY <1>3, <2>3 DEF Base
    <3> QED BY <2>1, <2>3, <3>1, NoneDue
  <2> QED BY <2>2, <2>3
<1>8. ASSUME NEW dir \in Direction, NEW g \in Holder, g # h
      PROVE  Line(m2, dir, g, st2, bt, ow)
  <2> DEFINE X == IF h = 0 THEN {} ELSE {h}
  <2>1. \A j \in Item \ X : /\ m2.pre[j] = m.pre[j] /\ m2.post[j] = m.post[j]
                            /\ ow[j] = ow[j] /\ (j \in bt <=> j \in bt)
    BY <1>2, <1>3 DEF Item
  <2>2. /\ Due(st2, dir, g) = Due(st, dir, g) /\ m2.at[g] = m.at[g] /\ g \notin X
        /\ \A k \in 1 .. Len(Due(st, dir, g)) : Due(st, dir, g)[k] \notin X
    BY <1>2, <1>3, <1>8
  <2> HIDE DEF X
  <2> QED BY <1>1, <2>1, <2>2, LineElsewhere
<1>9. Laid(m2, st2, bt, ow, bf)
  <2>1. \A dir \in Direction, g \in Holder : Line(m2, dir, g, st2, bt, ow)
    BY <1>6, <1>7, <1>8, Others
  <2>2. \A g \in Item \ bt : m2.pre[g] = bf[g]
    BY <1>1, <1>3 DEF Laid
  <2> QED BY <2>1, <2>2 DEF Laid
<1>10. AllRest(st2)
  <2>0. ASSUME NEW dir \in Direction, NEW g \in Item, Due(st, dir, g) = <<>>, g # h
        PROVE  Due(st2, dir, g) = <<>>
    BY <1>2, <2>0, StackIds
  <2>1. ASSUME NEW dir \in Direction, NEW g \in Holder, NEW k \in 1 .. Len(Due(st2, dir, g))
        PROVE  Due(st2, Other(dir), Due(st2, dir, g)[k]) = <<>>
    <3>1. Other(dir) \in Direction
      BY Others
    <3>2. CASE Due(st2, dir, g) = Due(st, dir, g)
      <4>1. /\ Due(st, dir, g)[k] \in Item /\ Due(st, dir, g)[k] # h
            /\ Due(st, Other(dir), Due(st, dir, g)[k]) = <<>>
        BY <1>1, <1>2, <3>2 DEF AllRest, Item
      <4> QED BY <2>0, <3>1, <3>2, <4>1
    <3>3. CASE dir = "undo" /\ g = h
      <4>1. Due(st2, dir, g) = t
        BY <3>3
      <4>2. Due(st2, dir, g)[k] = t[k] /\ k \in 1 .. Len(t)
        BY <4>1
      <4> HIDE DEF t
      <4>3. CASE t[k] = i
        <5>1. Other(dir) = "redo"
          BY <3>3, Others
        <5> QED BY <1>2, <2>0, <3>1, <4>2, <4>3, <5>1
      <4>4. CASE \E j \in 1 .. Len(s) : t[k] = s[j]
        <5>1. PICK j \in 1 .. Len(s) : t[k] = s[j]
          BY <4>4
        <5>2. Due(st, Other(dir), s[j]) = <<>>
          BY <1>1, <1>2, <3>3 DEF AllRest
        <5>3. t[k] \in Item /\ t[k] # h
          BY <1>5, <4>2
        <5> QED BY <2>0, <3>1, <4>2, <5>1, <5>2, <5>3
      <4> QED BY <1>5, <4>2, <4>3, <4>4
    <3> QED BY <3>2, <3>3
  <2>2. ASSUME NEW k \in 1 .. Len(rest)
        PROVE  Due(st2, "redo", rest[k]) = <<>>
    <3>1. rest[k] = st[DoStack][k] /\ k \in 1 .. Len(st[DoStack]) /\ rest[k] \in Item
      <4>1. /\ Len(rest) = Len(st[DoStack]) - 1 /\ Len(st[DoStack]) \in Nat
            /\ \A l \in 1 .. Len(rest) : rest[l] = st[DoStack][l]
        BY LastDoing
      <4> QED BY <1>2, <4>1
    <3>2. Due(st, "redo", rest[k]) = <<>>
      BY <1>1, <3>1 DEF AllRest
    <3>3. CASE rest[k] = h
      BY <1>2, <3>3, Others
    <3>4. CASE rest[k] # h
      BY <2>0, <3>1, <3>2, <3>4, Others
    <3> QED BY <3>3, <3>4
  <2> QED BY <2>1, <2>2 DEF AllRest
<1>11. Doings(m2, st2, dc, mx)
  <2>1. dc = Place(m2, rest)
    BY <1>2, <1>3 DEF Place
  <2>2. DoLine(m2, rest)
    <3>1. CASE rest = <<>>
      <4>1. Len(rest) = 0
        BY <3>1, EmptySeq
      <4> QED BY <3>1, <4>1 DEF DoLine
    <3>2. CASE rest # <<>>
      <4>1. m.pre[rest[1]] = m.at[0] /\ m2.at[0] = m.at[0]
        BY <1>2, <1>3, <3>2, StackIds DEF DoLine
      <4>2. ASSUME NEW k \in 1 .. Len(rest) - 1
            PROVE  m2.pre[rest[k + 1]] = m2.at[rest[k]]
        <5>1. k \in 1 .. Len(rest)
          BY <1>2
        <5>2. rest[k] \in Holder /\ rest[k] # h
          BY <1>2, <3>2, <5>1, StackIds
        <5> QED BY <1>3, <5>2 DEF DoLine
      <4> QED BY <1>3, <4>1, <4>2 DEF DoLine
    <3> QED BY <3>1, <3>2
  <2> QED BY <2>1, <2>2 DEF Doings
<1> QED BY <1>3, <1>9, <1>10, <1>11 DEF Still

\* It is dropped: the document is where the item began it.
LEMMA StillDropped ==
    ASSUME NEW m, StackInv, StillNow(m), stack[DoStack] # <<>>,
           stack' = Pop(stack, DoStack), UNCHANGED <<batch, maxCount, own, before>>,
           doc' \in Doc, maxCount # 0 => doc' = m.pre[Peek(DoStack)]
    PROVE  \E m2 : StillNext(m2)
<1> DEFINE rest == stack'[DoStack]
           m2   == IF maxCount = 0 /\ rest = <<>> THEN MoveTo(m, 0, doc') ELSE m
<1>1. /\ stack \in Stacks /\ m \in Chart /\ Laid(m, stack, batch, own, before)
      /\ AllRest(stack) /\ Doings(m, stack, doc, maxCount)
  BY StackInvFacts DEF StillNow, Still
<1>2. /\ \A dir \in Direction, h \in Holder : Due(stack', dir, h) = Due(stack, dir, h)
      /\ rest \in Seq(Item) /\ Len(rest) = Len(stack[DoStack]) - 1 /\ Len(stack[DoStack]) \in Nat
      /\ \A k \in 1 .. Len(rest) : rest[k] = stack[DoStack][k]
  BY <1>1, LastDoing
<1>3. /\ m2 \in Chart /\ m2.pre = m.pre /\ m2.post = m.post
      /\ \A g \in Holder : g # 0 => m2.at[g] = m.at[g]
      /\ maxCount = 0 /\ rest = <<>> => m2.at[0] = doc'
      /\ ~ (maxCount = 0 /\ rest = <<>>) => m2 = m
  BY <1>1, StackIds DEF Chart, MoveTo
<1> HIDE DEF m2
<1>4. ASSUME NEW dir \in Direction, NEW h \in Holder
      PROVE  Line(m2, dir, h, stack', batch, own)
  <2>1. Line(m, dir, h, stack, batch, own) /\ Due(stack, dir, h) \in Seq(Item)
    BY <1>1, Dues DEF Laid
  <2>2. /\ Base(m2, dir, h, batch, own) = Base(m, dir, h, batch, own)
        /\ \A e, i : Edge(m2, e, i) = Edge(m, e, i)
        /\ Due(stack', dir, h) = Due(stack, dir, h)
    BY <1>2, <1>3 DEF Base, Start, Edge
  <2>3. CASE m2.at[h] = m.at[h]
    BY <2>1, <2>2, <2>3, LineSame
  <2>4. CASE maxCount = 0 /\ h = 0
    <3>1. Within(stack) /\ \A d \in Direction : Due(stack, d, 0) \in Seq(Item)
      BY <1>1, Dues, StackIds DEF StackInv
    <3>2. \A d \in Direction : Len(Due(stack, d, 0)) \in Nat
      BY <3>1, EmptySeq
    <3>3. \A d \in Direction : Len(Due(stack, d, 0)) = 0
      <4>0. 0 >= 0
        OBVIOUS
      <4>1. Len(Due(stack, "undo", 0)) + Len(Due(stack, "redo", 0)) <= 0
        BY <2>4, <3>1, <4>0 DEF Within, Due
      <4>2. Len(Due(stack, "undo", 0)) \in Nat /\ Len(Due(stack, "redo", 0)) \in Nat
        BY <3>2, Others
      <4>3. Len(Due(stack, "undo", 0)) = 0 /\ Len(Due(stack, "redo", 0)) = 0
        BY <4>1, <4>2
      <4> QED BY <4>3 DEF Direction
    <3>4. Due(stack, dir, 0) = <<>>
      BY <3>1, <3>3, EmptySeq
    <3> QED BY <2>2, <2>4, <3>4, NoneDueAtTop
  <2> QED BY <1>3, <2>3, <2>4
<1>5. Laid(m2, stack', batch', own', before')
  BY <1>1, <1>3, <1>4 DEF Laid
<1>6. AllRest(stack')
  <2>1. ASSUME NEW dir \in Direction, NEW h \in Holder, NEW k \in 1 .. Len(Due(stack', dir, h))
        PROVE  Due(stack', Other(dir), Due(stack', dir, h)[k]) = <<>>
    <3>1. Due(stack, dir, h)[k] \in Holder /\ Other(dir) \in Direction
      BY <1>1, <1>2, Dues, ElementOfSeq, StackIds
    <3> QED BY <1>1, <1>2, <3>1 DEF AllRest
  <2>2. ASSUME NEW k \in 1 .. Len(rest)
        PROVE  Due(stack', "redo", rest[k]) = <<>>
    <3>1. rest[k] \in Holder /\ k \in 1 .. Len(stack[DoStack]) /\ rest[k] = stack[DoStack][k]
      <4> HIDE DEF rest
      <4>1. rest[k] \in Item
        BY <1>2, ElementOfSeq
      <4> QED BY <1>2, <4>1, StackIds
    <3> QED BY <1>1, <1>2, <3>1, Others DEF AllRest
  <2> QED BY <2>1, <2>2 DEF AllRest
<1>7. Doings(m2, stack', doc', maxCount')
  <2>1. CASE maxCount = 0 /\ rest = <<>>
    <3>1. Len(rest) = 0
      BY <2>1, EmptySeq
    <3> QED BY <1>3, <2>1, <3>1 DEF Doings, Place, DoLine
  <2>2. CASE maxCount = 0 /\ rest # <<>>
    BY <2>2 DEF Doings
  <2>3. CASE maxCount # 0
    <3>1. DoLine(m, rest) /\ doc' = Place(m, rest)
      BY <1>1, <2>3, DoLineShrinks DEF Doings, Peek
    <3> QED BY <1>3, <2>3, <3>1 DEF Doings
  <2> QED BY <2>1, <2>2, <2>3
<1> QED BY <1>3, <1>5, <1>6, <1>7 DEF StillNext, Still

\* The transaction on top of the history absorbs it.
LEMMA StillMerged ==
    ASSUME NEW m, NEW st \in Stacks, Distinct(st), NEW bt, NEW bf, NEW dc \in Doc, NEW mx,
           NEW ow \in [Item -> Seq(Item)], NEW es \in Seq(Item), NEW top, NEW ow2,
           m \in Chart, Laid(m, st, bt, ow, bf), AllRest(st),
           top \in Item \ bt, Due(st, "undo", 0) # <<>>, top = Last(Due(st, "undo", 0)),
           Due(st, "undo", top) = <<>>, Due(st, "redo", top) = <<>>,
           dc = m.at[0] \o es, ow2 = [ow EXCEPT ![top] = @ \o es],
           NEW st2, st2[DoStack] = <<>>, Due(st2, "redo", 0) = <<>>,
           \A dir \in Direction, g \in Holder :
              (dir = "redo" /\ g = 0) \/ Due(st2, dir, g) = Due(st, dir, g)
    PROVE  \E m2 : Still(m2, st2, bt, ow2, bf, dc, mx)
<1> DEFINE m1 == MoveTo(EndAt(m, top, dc), top, dc)
           m2 == MoveTo(m1, 0, dc)
           s  == Due(st, "undo", 0)
           n  == Len(s)
           t  == Front(s)
<1>1. /\ s \in Seq(Item) /\ n \in Nat /\ n >= 1 /\ s[n] = top /\ top # 0 /\ top \in Holder
      /\ top \in Item
      /\ t \in Seq(Item) /\ Len(t) = n - 1 /\ s = Append(t, top)
      /\ \A k \in 1 .. n - 1 : t[k] = s[k]
      /\ \A dir \in Direction, g \in Holder : \A j \in 1 .. Len(Due(st, dir, g)) :
            Due(st, dir, g)[j] = top => dir = "undo" /\ g = 0 /\ j = n
  <2>1. s \in Seq(Item) /\ s # <<>>
    BY Dues, StackIds
  <2>2. /\ n \in Nat /\ n >= 1 /\ s[n] = top
    <3> HIDE DEF s
    <3> QED BY <2>1, EmptySeq DEF Last, s
  <2>3. t \in Seq(Item) /\ s = Append(t, top)
    <3> HIDE DEF s
    <3> QED BY <2>1, ReplaceLast DEF s
  <2>4. Len(t) = n - 1 /\ \A k \in 1 .. n - 1 : t[k] = s[k]
    <3>1. /\ Len(Append(t, top)) = Len(t) + 1 /\ Len(t) \in Nat
          /\ \A k \in 1 .. Len(t) : Append(t, top)[k] = t[k]
      <4> HIDE DEF t
      <4> QED BY <2>3, AppendProperties
    <3> HIDE DEF t, s
    <3> QED BY <2>3, <3>1
  <2>5. ASSUME NEW dir \in Direction, NEW g \in Holder, NEW j \in 1 .. Len(Due(st, dir, g)),
               Due(st, dir, g)[j] = top
        PROVE  dir = "undo" /\ g = 0 /\ j = n
    <3>1. <<"undo", 0>> \in StackId /\ n \in 1 .. Len(st[<<"undo", 0>>])
      BY <2>2, StackIds DEF Due
    <3>2. st[<<"undo", 0>>][n] = top
      BY <2>2 DEF Due
    <3>3. <<dir, g>> = <<"undo", 0>> /\ j = n
      <4> HIDE DEF n
      <4> QED BY <2>5, <3>1, <3>2, NotDue
    <3> QED BY <3>3
  <2>6. top # 0 /\ top \in Holder /\ top \in Item
    BY StackIds DEF Item
  <2> QED BY <2>1, <2>2, <2>3, <2>4, <2>5, <2>6
<1>2. /\ m2 \in Chart /\ m2.pre = m.pre /\ m2.at[0] = dc /\ m2.at[top] = dc
      /\ m2.post[top] = dc
      /\ \A g \in Item : g # top => m2.post[g] = m.post[g]
      /\ \A g \in Holder : g # top /\ g # 0 => m2.at[g] = m.at[g]
  <2>1. /\ m1 \in Chart /\ m1.pre = m.pre /\ m1.at[top] = dc /\ m1.post[top] = dc
        /\ \A g \in Item : g # top => m1.post[g] = m.post[g]
        /\ \A g \in Holder : g # top => m1.at[g] = m.at[g]
    BY <1>1 DEF Chart, EndAt, MoveTo
  <2> HIDE DEF m1
  <2> QED BY <1>1, <2>1, StackIds DEF Chart, MoveTo
<1> HIDE DEF m2
<1>3. /\ Line(m, "undo", 0, st, bt, ow) /\ Line(m, "undo", top, st, bt, ow)
      /\ Line(m, "redo", top, st, bt, ow)
  BY <1>1, StackIds DEF Laid
<1>4. /\ m.at[0] = m.post[top] /\ m.at[top] = m.post[top] /\ m.at[top] = m.pre[top] \o ow[top]
      /\ m.pre[top] \in Doc
  <2>1. Edge(m, "undo", top) = m.at[0]
    BY <1>3, TopDue
  <2>2. m.at[top] = Base(m, "undo", top, bt, ow) /\ m.at[top] = Base(m, "redo", top, bt, ow)
    BY <1>1, <1>3, NoneDue, SMTT(30)
  <2> QED BY <1>1, <2>1, <2>2 DEF Edge, Base, Start, Chart
<1>5. dc = m.pre[top] \o (ow[top] \o es) /\ ow2[top] = ow[top] \o es
      /\ \A g \in Item : g # top => ow2[g] = ow[g]
  <2>1. ow[top] \in Seq(Item) /\ m.pre[top] \in Seq(Item)
    BY <1>1, <1>4 DEF Doc
  <2>2. (m.pre[top] \o ow[top]) \o es = m.pre[top] \o (ow[top] \o es)
    <3> DEFINE a == m.pre[top]
               b == ow[top]
    <3>1. a \in Seq(Item) /\ b \in Seq(Item) /\ es \in Seq(Item)
      BY <2>1
    <3> HIDE DEF a, b
    <3>2. (a \o b) \o es = a \o (b \o es)
      BY ONLY <3>1, ConcatAssociative, SMTT(30)
    <3> QED BY <3>2 DEF a, b
  <2>3. m.at[0] = m.pre[top] \o ow[top]
    BY <1>4
  <2>4. ow2[top] = ow[top] \o es /\ \A g \in Item : g # top => ow2[g] = ow[g]
    BY <1>1
  <2>5. dc = (m.pre[top] \o ow[top]) \o es
    BY <2>3
  <2> QED BY <2>2, <2>4, <2>5
<1>6. Line(m2, "undo", 0, st2, bt, ow2)
  <2>1. PICK b : Path(m, "undo", s, b, m.at[0])
    BY <1>3 DEF Line
  <2>2. Path(m, "undo", t, b, Edge(m, Other("undo"), top))
    <3>1. s # <<>> /\ Last(s) = top
      OBVIOUS
    <3>2. /\ s \in Seq(Item) /\ t \in Seq(Item) /\ Len(t) = Len(s) - 1
          /\ \A k \in 1 .. Len(s) - 1 : t[k] = s[k]
      BY <1>1
    <3> HIDE DEF s, t
    <3>3. Path(m, "undo", t, b, Edge(m, Other("undo"), Last(s)))
      BY <2>1, <3>1, <3>2, PathShrinks
    <3> QED BY <3>1, <3>3
  <2>3. \A k \in 1 .. Len(t) : \A e : Edge(m2, e, t[k]) = Edge(m, e, t[k])
    <3> TAKE k \in 1 .. Len(t)
    <3>1. k \in 1 .. Len(s) /\ k # n /\ t[k] = s[k]
      <4> HIDE DEF t, s
      <4> QED BY <1>1 DEF n
    <3>2. s[k] # top /\ s[k] \in Item
      <4>1. s[k] \in Item
        <5> HIDE DEF s
        <5> QED BY <1>1, <3>1, ElementOfSeq
      <4> QED BY <1>1, <3>1, <4>1, StackIds
    <3> HIDE DEF t, s
    <3> QED BY <1>2, <3>1, <3>2 DEF Edge
  <2>4. Path(m2, "undo", t, b, Edge(m, Other("undo"), top))
    <3> HIDE DEF t
    <3> QED BY <1>1, <2>2, <2>3, PathSame
  <2>5. Edge(m2, Other("undo"), top) = Edge(m, Other("undo"), top) /\ Edge(m2, "undo", top) = dc
    BY <1>2, Others DEF Edge
  <2>6. Path(m2, "undo", Append(t, top), b, Edge(m2, "undo", top))
    <3> HIDE DEF t
    <3> QED BY <1>1, <2>4, <2>5, PathGrows
  <2>7. Path(m2, "undo", s, b, m2.at[0])
    BY <1>1, <1>2, <2>5, <2>6
  <2>8. Due(st2, "undo", 0) = s
    BY Others, StackIds
  <2> QED BY <2>7, <2>8 DEF Line
<1>7. Line(m2, "undo", top, st2, bt, ow2) /\ Line(m2, "redo", top, st2, bt, ow2)
  <2>1. Due(st2, "undo", top) = <<>> /\ Due(st2, "redo", top) = <<>>
    BY <1>1, Others
  <2>2. m2.at[top] = Base(m2, "undo", top, bt, ow2)
    BY <1>2, <1>5 DEF Base, Start
  <2>3. m2.at[top] = Base(m2, "redo", top, bt, ow2)
    BY <1>2 DEF Base
  <2> QED BY <1>1, <2>1, <2>2, <2>3, NoneDue, SMTT(30)
<1>8. Line(m2, "redo", 0, st2, bt, ow2)
  BY NoneDueAtTop
<1>9. ASSUME NEW dir \in Direction, NEW g \in Holder, g # 0, g # top
      PROVE  Line(m2, dir, g, st2, bt, ow2)
  <2> DEFINE X == {top}
  <2>1. \A j \in Item \ X : /\ m2.pre[j] = m.pre[j] /\ m2.post[j] = m.post[j]
                            /\ ow2[j] = ow[j] /\ (j \in bt <=> j \in bt)
    BY <1>2, <1>5
  <2>2. /\ Due(st2, dir, g) = Due(st, dir, g) /\ m2.at[g] = m.at[g] /\ g \notin X
        /\ \A k \in 1 .. Len(Due(st, dir, g)) : Due(st, dir, g)[k] \notin X
    BY <1>1, <1>2, <1>9
  <2>3. st \in Stacks /\ dir \in Direction /\ g \in Holder /\ Laid(m, st, bt, ow, bf)
    OBVIOUS
  <2> HIDE DEF X
  <2> QED BY ONLY <2>1, <2>2, <2>3, LineElsewhere, SMTT(30)
<1>10. Laid(m2, st2, bt, ow2, bf)
  <2>1. \A dir \in Direction, g \in Holder : Line(m2, dir, g, st2, bt, ow2)
    BY <1>6, <1>7, <1>8, <1>9 DEF Direction
  <2>2. \A g \in Item \ bt : m2.pre[g] = bf[g]
    BY <1>2 DEF Laid
  <2> QED BY <2>1, <2>2 DEF Laid
<1>11. AllRest(st2)
  <2>1. ASSUME NEW dir \in Direction, NEW g \in Holder, NEW k \in 1 .. Len(Due(st2, dir, g))
        PROVE  Due(st2, Other(dir), Due(st2, dir, g)[k]) = <<>>
    <3>1. CASE dir = "redo" /\ g = 0
      <4>1. Len(Due(st2, dir, g)) = 0
        BY <3>1, EmptySeq
      <4> QED BY <4>1
    <3>2. CASE ~ (dir = "redo" /\ g = 0)
      <4>1. Due(st2, dir, g) = Due(st, dir, g) /\ Other(dir) \in Direction
        BY <3>2, Others
      <4>2. Due(st, dir, g)[k] \in Item /\ Due(st, Other(dir), Due(st, dir, g)[k]) = <<>>
        BY <4>1, Dues, ElementOfSeq DEF AllRest
      <4>3. Due(st, dir, g)[k] \in Holder /\ Due(st, dir, g)[k] # 0
        BY <4>2, StackIds DEF Item
      <4> QED BY <4>1, <4>2, <4>3
    <3> QED BY <3>1, <3>2
  <2>2. Len(st2[DoStack]) = 0
    BY EmptySeq
  <2>3. \A k \in 1 .. Len(st2[DoStack]) : Due(st2, "redo", st2[DoStack][k]) = <<>>
    BY <2>2
  <2> QED BY ONLY <2>1, <2>3 DEF AllRest
<1>12. Doings(m2, st2, dc, mx)
  <2>1. Len(st2[DoStack]) = 0
    BY EmptySeq
  <2> QED BY <1>2, <2>1 DEF Doings, Place, DoLine
<1> QED BY <1>2, <1>10, <1>11, <1>12 DEF Still

\* An item without children.
LEMMA Childless ==
    ASSUME NEW i \in Holder, stack \in Stacks, Children(i) = 0
    PROVE  Due(stack, "undo", i) = <<>> /\ Due(stack, "redo", i) = <<>>
<1> DEFINE u == Due(stack, "undo", i)
           r == Due(stack, "redo", i)
<1>1. u \in Seq(Item) /\ r \in Seq(Item) /\ Len(u) + Len(r) = 0
  BY Dues, Others DEF Children, Due
<1> HIDE DEF u, r
<1>2. Len(u) \in Nat /\ Len(r) \in Nat
  BY <1>1, EmptySeq
<1>3. Len(u) = 0 /\ Len(r) = 0
  BY <1>1, <1>2
<1>4. u = <<>> /\ r = <<>>
  BY <1>1, <1>3, EmptySeq
<1> QED BY <1>4 DEF u, r

LEMMA Cleared ==
    ASSUME NEW st \in Stacks, NEW s \in StackId
    PROVE  Clear(st, s)[s] = <<>> /\ \A t \in StackId : t # s => Clear(st, s)[t] = st[t]
BY DEF Clear, Stacks

\* The history when it makes room for an item.
LEMMA Pruned ==
    ASSUME NEW st \in Stacks, Distinct(st), NEW over \in BOOLEAN
    PROVE  LET c  == Clear(st, <<"redo", 0>>)
               s2 == IF over THEN PopBottom(c, <<"undo", 0>>) ELSE c
           IN /\ s2 \in Stacks /\ Distinct(s2) /\ s2[DoStack] = st[DoStack]
              /\ Due(s2, "redo", 0) = <<>>
              /\ \A dir \in Direction, h \in Holder : h # 0 => Due(s2, dir, h) = Due(st, dir, h)
              /\ \A dir \in Direction : TopOf(Due(s2, dir, 0), Due(st, dir, 0))
<1> DEFINE c  == Clear(st, <<"redo", 0>>)
           s2 == IF over THEN PopBottom(c, <<"undo", 0>>) ELSE c
           u  == <<"undo", 0>>
           r  == <<"redo", 0>>
<1>1. u \in StackId /\ r \in StackId /\ u # DoStack /\ r # DoStack /\ u # r
      /\ DoStack \in StackId
      /\ \A dir \in Direction, h \in Holder :
            /\ <<dir, h>> \in StackId
            /\ h # 0 => <<dir, h>> # u /\ <<dir, h>> # r
  BY TopLevel, StackIds
<1>2. /\ Shrunk(c, st) /\ c \in Stacks /\ c[r] = <<>>
      /\ \A t \in StackId : t # r => c[t] = st[t]
  <2>1. Shrunk(c, st) /\ c \in Stacks
    BY <1>1, ClearShrinks DEF Shrunk
  <2>2. c[r] = <<>> /\ \A t \in StackId : t # r => c[t] = st[t]
    <3> HIDE DEF r
    <3> QED BY <1>1, Cleared DEF r
  <2> QED BY <2>1, <2>2
<1> HIDE DEF c
<1>3. /\ Shrunk(s2, st) /\ s2 \in Stacks
      /\ \A t \in StackId : t # u => s2[t] = c[t]
      /\ s2[u] = c[u] \/ (c[u] # <<>> /\ s2[u] = Tail(c[u]))
  <2>1. CASE ~ over
    BY <1>2, <2>1
  <2>2. CASE over
    <3>1. /\ Shrunk(PopBottom(c, u), c) /\ PopBottom(c, u) \in Stacks
          /\ \A t \in StackId \ {u} : PopBottom(c, u)[t] = c[t]
      BY <1>1, <1>2, PopBottomShrinks DEF Shrunk
    <3>2. PopBottom(c, u)[u] = c[u] \/ (c[u] # <<>> /\ PopBottom(c, u)[u] = Tail(c[u]))
      BY <1>1, <1>2 DEF PopBottom, Stacks
    <3>3. Shrunk(PopBottom(c, u), st)
      BY <1>2, <3>1, ShrunkTrans
    <3> QED BY <2>2, <3>1, <3>2, <3>3
  <2> QED BY <2>1, <2>2
<1> HIDE DEF s2
<1>4. Distinct(s2)
  BY <1>3, ShrunkKeeps
<1>5. /\ s2[DoStack] = st[DoStack] /\ s2[r] = <<>>
      /\ \A dir \in Direction, h \in Holder : h # 0 => Due(s2, dir, h) = Due(st, dir, h)
  BY <1>1, <1>2, <1>3 DEF Due
<1>6. TopOf(s2[u], st[u])
  <2>1. c[u] = st[u] /\ st[u] \in Seq(Item) /\ s2[u] \in Seq(Item)
    BY <1>1, <1>2, <1>3 DEF Stacks
  <2>2. CASE s2[u] = c[u]
    <3>1. Len(s2[u]) = Len(st[u]) - 0 /\ \A k \in 1 .. Len(s2[u]) : s2[u][k] = st[u][k + 0]
      <4>1. Len(st[u]) \in Nat
        BY <2>1, EmptySeq
      <4> QED BY <2>1, <2>2, <4>1
    <3> QED BY <2>1, <3>1 DEF TopOf
  <2>3. CASE c[u] # <<>> /\ s2[u] = Tail(c[u])
    <3> DEFINE a == st[u]
    <3>1. a \in Seq(Item) /\ a # <<>> /\ s2[u] = Tail(a)
      BY <2>1, <2>3
    <3> HIDE DEF a
    <3>2. Len(s2[u]) = Len(a) - 1 /\ \A k \in 1 .. Len(s2[u]) : s2[u][k] = a[k + 1]
      BY <3>1, HeadTailProperties
    <3> QED BY <2>1, <3>2 DEF TopOf, a
  <2> QED BY <1>3, <2>2, <2>3
<1>7. TopOf(s2[r], st[r])
  <2>1. st[r] \in Seq(Item) /\ s2[r] = <<>>
    BY <1>1, <1>5 DEF Stacks
  <2>2. Len(st[r]) \in Nat /\ Len(s2[r]) = 0 /\ s2[r] \in Seq(Item)
    BY <2>1, EmptySeq
  <2>3. Len(s2[r]) = Len(st[r]) - Len(st[r])
    BY <2>2
  <2>4. \A k \in 1 .. Len(s2[r]) : s2[r][k] = st[r][k + Len(st[r])]
    BY <2>2
  <2> QED BY <2>2, <2>3, <2>4 DEF TopOf
<1>8. /\ \A dir \in Direction : TopOf(Due(s2, dir, 0), Due(st, dir, 0))
      /\ Due(s2, "redo", 0) = <<>>
  BY <1>5, <1>6, <1>7 DEF Due, Direction
<1> QED BY <1>3, <1>4, <1>5, <1>8 DEF s2, c

LEMMA StillEnded ==
    ASSUME NEW m, StackInv, StillNow(m), stack[DoStack] # <<>>,
           EndTransaction(Peek(DoStack)), UNCHANGED <<batch, maxCount, doc, before>>,
           {"transient", "mergeVeto"} \cap Env = {}
    PROVE  \E m2 : StillNext(m2)
<1> DEFINE i    == Peek(DoStack)
           rest == Pop(stack, DoStack)
           u    == <<"undo", 0>>
           r    == <<"redo", 0>>
           over == Overflows(Clear(rest, r))
<1>0. "transient" \notin Env /\ "mergeVeto" \notin Env
  OBVIOUS
<1>1. /\ stack \in Stacks /\ Distinct(stack) /\ m \in Chart
      /\ Still(m, stack, batch, own, before, doc, maxCount)
      /\ doc \in Doc /\ own \in [Item -> Seq(Item)] /\ before \in [Item -> Seq(Item)]
      /\ Laid(m, stack, batch, own, before) /\ AllRest(stack)
  BY StackInvFacts DEF StillNow, Still, StackInv, TypeOK, Doc
<1>2. /\ rest \in Stacks /\ i \in Item /\ i = Last(stack[DoStack])
      /\ rest[DoStack] \in Seq(Item)
      /\ \A dir \in Direction, h \in Holder : Due(rest, dir, h) = Due(stack, dir, h)
      /\ rest[DoStack] # <<>> =>
           Len(stack[DoStack]) - 1 \in 1 .. Len(stack[DoStack]) - 1
           /\ Last(rest[DoStack]) = stack[DoStack][Len(stack[DoStack]) - 1]
           /\ Len(stack[DoStack]) \in Nat
  BY <1>1, LastDoing DEF Peek
<1>3. \A t \in StackId \ {DoStack} : rest[t] = stack[t]
  BY <1>1, StackIds, PopShrinks
<1>4. maxCount # 0 =>
         /\ Due(stack, "redo", i) = <<>>
         /\ doc = m.at[i] /\ doc = m.post[i]
         /\ m.pre[i] = Place(m, rest[DoStack]) /\ DoLine(m, rest[DoStack])
         /\ Due(stack, "undo", i) = <<>> =>
              doc = IF i \in batch THEN m.pre[i] ELSE m.pre[i] \o own[i]
  BY AtTheEnd
<1>5. /\ u \in StackId /\ r \in StackId /\ u # DoStack /\ r # DoStack /\ u # r
      /\ DoStack \in StackId
      /\ \A dir \in Direction, h \in Holder :
            /\ <<dir, h>> \in StackId /\ <<dir, h>> # DoStack
            /\ <<dir, h>> = u => dir = "undo" /\ h = 0
            /\ <<dir, h>> = r => dir = "redo" /\ h = 0
  BY TopLevel, StackIds
<1>6. i \in Holder /\ i # 0
  BY <1>2, StackIds DEF Item
<1> HIDE DEF rest, i
<1>7. CASE Dropped(i) /\ stack' = rest /\ UNCHANGED own
  <2>1. maxCount # 0 => doc = m.pre[i]
    <3>1. CASE maxCount # 0
      <4>1. i \in batch /\ Children(i) = 0
        BY <1>0, <1>7, <3>1 DEF Dropped
      <4>2. Due(stack, "undo", i) = <<>>
        BY <1>1, <1>6, <4>1, Childless
      <4> QED BY <1>4, <3>1, <4>1, <4>2
    <3> QED BY <3>1
  <2>2. doc' \in Doc /\ UNCHANGED <<batch, maxCount, own, before>>
        /\ (maxCount # 0 => doc' = m.pre[Peek(DoStack)]) /\ stack' = Pop(stack, DoStack)
    BY <1>1, <1>7, <2>1 DEF rest, i
  <2> QED BY <2>2, StillDropped
<1>8. CASE /\ Kept(i) /\ rest[DoStack] # <<>>
           /\ stack' = Push(rest, <<"undo", Last(rest[DoStack])>>, i) /\ UNCHANGED own
  <2> DEFINE p == Last(rest[DoStack])
             w == <<"undo", p>>
  <2>1. maxCount # 0
    BY <1>8 DEF Kept
  <2>2. p \in Item /\ p \in Holder /\ p # 0
    <3>1. Len(stack[DoStack]) - 1 \in 1 .. Len(stack[DoStack])
      BY <1>2, <1>8
    <3>2. stack[DoStack] \in Seq(Item)
      BY <1>1, Dues
    <3>3. stack[DoStack][Len(stack[DoStack]) - 1] \in Item
      BY <3>1, <3>2, ElementOfSeq
    <3>4. p \in Item
      BY <1>2, <1>8, <3>3
    <3> QED BY <3>4, StackIds DEF Item
  <2>3. w \in StackId /\ w # DoStack
    BY <1>5, <2>2, Others
  <2>4. /\ stack'[w] = Append(rest[w], i)
        /\ \A t \in StackId : t # w => stack'[t] = rest[t]
    BY <1>2, <1>8, <2>3 DEF Push, Stacks
  <2>5. /\ stack'[DoStack] = rest[DoStack]
        /\ Due(stack', "undo", p) = Append(Due(stack, "undo", p), i)
    BY <1>2, <1>3, <1>5, <2>3, <2>4 DEF Due
  <2>6. \A dir \in Direction, g \in Holder :
           (dir = "undo" /\ g = p) \/ Due(stack', dir, g) = Due(stack, dir, g)
    <3> TAKE dir \in Direction, g \in Holder
    <3>1. <<dir, g>> \in StackId /\ <<dir, g>> # DoStack
      BY <1>5
    <3>2. CASE <<dir, g>> = w
      BY <3>2
    <3>3. CASE <<dir, g>> # w
      BY <1>3, <2>4, <3>1, <3>3 DEF Due
    <3> QED BY <3>2, <3>3
  <2>7. m.pre[i] = m.at[p] /\ m.post[i] = doc /\ DoLine(m, rest[DoStack])
        /\ Due(stack, "redo", i) = <<>>
    BY <1>4, <1>8, <2>1 DEF Place
  <2>8. Due(stack, "redo", p) = <<>>
    <3>1. Len(stack[DoStack]) - 1 \in 1 .. Len(stack[DoStack])
      BY <1>2, <1>8
    <3> QED BY <1>1, <1>2, <1>8, <3>1 DEF AllRest
  <2>9. p = (IF rest[DoStack] = <<>> THEN 0 ELSE Last(rest[DoStack]))
    BY <1>8
  <2>10. rest[DoStack] = Pop(stack, DoStack)[DoStack]
    BY DEF rest
  <2>11. \E m2 : Still(m2, stack', batch, own, before, doc, maxCount)
    <3> DEFINE q  == rest[DoStack]
               s2 == stack'
    <3>1. /\ stack \in Stacks /\ Distinct(stack) /\ doc \in Doc
          /\ Still(m, stack, batch, own, before, doc, maxCount)
          /\ stack[DoStack] # <<>> /\ i = Last(stack[DoStack])
      BY <1>1, <1>2
    <3>2. /\ q = Pop(stack, DoStack)[DoStack] /\ DoLine(m, q)
          /\ p = (IF q = <<>> THEN 0 ELSE Last(q))
          /\ m.pre[i] = m.at[p] /\ m.post[i] = doc
          /\ Due(stack, "redo", i) = <<>> /\ Due(stack, "redo", p) = <<>>
      BY <2>7, <2>8, <2>9, <2>10
    <3>3. /\ s2[DoStack] = q /\ Due(s2, "undo", p) = Append(Due(stack, "undo", p), i)
          /\ \A dir \in Direction, g \in Holder :
                (dir = "undo" /\ g = p) \/ Due(s2, dir, g) = Due(stack, dir, g)
      BY <2>5, <2>6
    <3> HIDE DEF p, q, s2
    <3>4. \E m2 : Still(m2, s2, batch, own, before, doc, maxCount)
      BY ONLY <3>1, <3>2, <3>3, StillPushed, SMTT(60)
    <3> QED BY <3>4 DEF s2
  <2> QED BY <1>8, <2>11 DEF StillNext
<1>9. CASE /\ Kept(i) /\ rest[DoStack] = <<>> /\ UNCHANGED own
           /\ stack' = Push(IF over THEN PopBottom(Clear(rest, r), u) ELSE Clear(rest, r), u, i)
  <2> DEFINE c  == Clear(stack, r)
             s2 == IF over THEN PopBottom(c, u) ELSE c
             s3 == IF over THEN PopBottom(Clear(rest, r), u) ELSE Clear(rest, r)
  <2>1. maxCount # 0
    BY <1>9 DEF Kept
  <2>2. /\ s2 \in Stacks /\ Distinct(s2) /\ s2[DoStack] = stack[DoStack]
        /\ Due(s2, "redo", 0) = <<>>
        /\ \A dir \in Direction, h \in Holder : h # 0 => Due(s2, dir, h) = Due(stack, dir, h)
        /\ \A dir \in Direction : TopOf(Due(s2, dir, 0), Due(stack, dir, 0))
    <3>1. over \in BOOLEAN
      BY DEF Overflows
    <3> HIDE DEF over
    <3> QED BY <1>1, <3>1, Pruned
  <2>3. s3 \in [StackId -> Seq(Item)] /\ s3[DoStack] = rest[DoStack]
        /\ \A t \in StackId : t # DoStack => s3[t] = s2[t]
    <3>1. /\ Clear(rest, r) \in Stacks /\ Clear(rest, r)[DoStack] = rest[DoStack]
          /\ \A t \in StackId : t # DoStack => Clear(rest, r)[t] = c[t]
      BY <1>1, <1>2, <1>3, <1>5, ClearShrinks, SMTT(30) DEF Clear, Stacks, Shrunk
    <3>2. c \in Stacks
      BY <1>1, <1>5, ClearShrinks DEF Shrunk
    <3>3. CASE ~ over
      BY <3>1, <3>3 DEF Stacks
    <3>4. CASE over
      <4> DEFINE a == Clear(rest, r)
      <4>0. a \in Stacks /\ a[DoStack] = rest[DoStack] /\ a[u] = c[u]
            /\ \A t \in StackId : t # DoStack => a[t] = c[t]
        BY <1>5, <3>1
      <4> HIDE DEF a, c
      <4>1. /\ PopBottom(a, u) \in Stacks
            /\ \A t \in StackId \ {u} : PopBottom(a, u)[t] = a[t]
            /\ \A t \in StackId \ {u} : PopBottom(c, u)[t] = c[t]
        BY <1>5, <3>2, <4>0, PopBottomShrinks DEF Shrunk
      <4>2. PopBottom(a, u)[u] = PopBottom(c, u)[u]
        BY <1>5, <3>2, <4>0 DEF PopBottom, Stacks
      <4>3. s3 = PopBottom(a, u) /\ s2 = PopBottom(c, u)
        BY <3>4 DEF a
      <4> HIDE DEF s2, s3, over
      <4>4. s3[DoStack] = rest[DoStack]
        BY <1>5, <4>0, <4>1, <4>3
      <4>5. ASSUME NEW t \in StackId, t # DoStack PROVE s3[t] = s2[t]
        BY <4>0, <4>1, <4>2, <4>3, <4>5
      <4> QED BY <4>1, <4>3, <4>4, <4>5 DEF Stacks
    <3> QED BY <3>3, <3>4
  <2>4. stack' = Push(s3, u, i)
    BY <1>9
  <2> HIDE DEF s2, s3, over
  <2>5. /\ stack'[u] = Append(s3[u], i)
        /\ \A t \in StackId : t # u => stack'[t] = s3[t]
    BY <1>5, <2>3, <2>4 DEF Push
  <2>6. /\ stack'[DoStack] = rest[DoStack]
        /\ Due(stack', "undo", 0) = Append(Due(s2, "undo", 0), i)
    BY <1>5, <2>3, <2>5 DEF Due
  <2>7. \A dir \in Direction, g \in Holder :
           (dir = "undo" /\ g = 0) \/ Due(stack', dir, g) = Due(s2, dir, g)
    <3> TAKE dir \in Direction, g \in Holder
    <3>1. <<dir, g>> \in StackId /\ <<dir, g>> # DoStack
      BY <1>5
    <3>2. CASE <<dir, g>> = u
      BY <1>5, <3>2
    <3>3. CASE <<dir, g>> # u
      BY <2>3, <2>5, <3>1, <3>3 DEF Due
    <3> QED BY <3>2, <3>3
  <2>8. m.pre[i] = m.at[0] /\ m.post[i] = doc /\ DoLine(m, rest[DoStack])
    BY <1>4, <1>9, <2>1 DEF Place
  <2>9. Due(s2, "redo", i) = <<>>
    BY <1>4, <1>6, <2>1, <2>2, Others
  <2>10. /\ rest[DoStack] = Pop(s2, DoStack)[DoStack] /\ i = Last(s2[DoStack])
         /\ 0 = (IF rest[DoStack] = <<>> THEN 0 ELSE Last(rest[DoStack]))
         /\ s2[DoStack] # <<>>
    <3>1. Pop(s2, DoStack)[DoStack] = Front(s2[DoStack])
      BY <1>5, <2>2 DEF Pop, Stacks
    <3>2. rest[DoStack] = Front(stack[DoStack])
      BY <1>1, <1>5 DEF Pop, Stacks, rest
    <3> QED BY <1>2, <1>9, <2>2, <3>1, <3>2
  <2>11. Still(m, s2, batch, own, before, doc, maxCount)
    BY <1>1, <2>2, StillCut
  <2>12. \E m2 : Still(m2, stack', batch, own, before, doc, maxCount)
    <3> DEFINE q  == rest[DoStack]
               s4 == stack'
               h  == 0
    <3>1. /\ s2 \in Stacks /\ Distinct(s2) /\ doc \in Doc
          /\ Still(m, s2, batch, own, before, doc, maxCount)
          /\ s2[DoStack] # <<>> /\ i = Last(s2[DoStack])
      BY <1>1, <2>2, <2>10, <2>11
    <3>2. /\ q = Pop(s2, DoStack)[DoStack] /\ DoLine(m, q)
          /\ h = (IF q = <<>> THEN 0 ELSE Last(q))
          /\ m.pre[i] = m.at[h] /\ m.post[i] = doc
          /\ Due(s2, "redo", i) = <<>> /\ Due(s2, "redo", h) = <<>>
      BY <2>2, <2>8, <2>9, <2>10
    <3>3. /\ s4[DoStack] = q /\ Due(s4, "undo", h) = Append(Due(s2, "undo", h), i)
          /\ \A dir \in Direction, g \in Holder :
                (dir = "undo" /\ g = h) \/ Due(s4, dir, g) = Due(s2, dir, g)
      BY <2>6, <2>7
    <3> HIDE DEF h, q, s4
    <3>4. \E m2 : Still(m2, s4, batch, own, before, doc, maxCount)
      BY ONLY <3>1, <3>2, <3>3, StillPushed
    <3> QED BY <3>4 DEF s4
  <2> QED BY <1>9, <2>12 DEF StillNext
<1>10. CASE LET top == Last(Clear(rest, r)[u]) IN
            /\ Kept(i) /\ rest[DoStack] = <<>> /\ i \notin batch
            /\ Clear(rest, r)[u] # <<>> /\ top \notin batch
            /\ Children(i) = 0 /\ Children(top) = 0
            /\ stack' = Clear(rest, r)
            /\ own' = [own EXCEPT ![top] = @ \o own[i]]
  <2> DEFINE top == Last(Clear(rest, r)[u])
  <2>1. maxCount # 0
    BY <1>10 DEF Kept
  <2>2. /\ Clear(rest, r)[u] = Due(stack, "undo", 0)
        /\ stack'[DoStack] = <<>> /\ Due(stack', "redo", 0) = <<>>
        /\ \A dir \in Direction, g \in Holder :
              (dir = "redo" /\ g = 0) \/ Due(stack', dir, g) = Due(stack, dir, g)
    <3>1. /\ stack'[r] = <<>>
          /\ \A t \in StackId : t # r => stack'[t] = rest[t]
      BY <1>2, <1>5, <1>10 DEF Clear, Stacks
    <3>2. stack'[u] = Due(stack, "undo", 0) /\ stack'[DoStack] = <<>>
          /\ Due(stack', "redo", 0) = <<>>
      BY <1>3, <1>5, <1>10, <3>1 DEF Due
    <3>3. ASSUME NEW dir \in Direction, NEW g \in Holder
          PROVE  (dir = "redo" /\ g = 0) \/ Due(stack', dir, g) = Due(stack, dir, g)
      <4>1. <<dir, g>> \in StackId /\ <<dir, g>> # DoStack
        BY <1>5
      <4>2. CASE <<dir, g>> = r
        BY <1>5, <4>2
      <4>3. CASE <<dir, g>> # r
        BY <1>3, <3>1, <4>1, <4>3 DEF Due
      <4> QED BY <4>2, <4>3
    <3> QED BY <1>10, <3>2, <3>3
  <2>3. /\ Due(stack, "undo", 0) # <<>> /\ top = Last(Due(stack, "undo", 0))
        /\ top \in Item /\ top \in Holder /\ top \notin batch
    <3>1. Due(stack, "undo", 0) # <<>> /\ top = Last(Due(stack, "undo", 0)) /\ top \notin batch
      BY <1>10, <2>2
    <3> HIDE DEF top
    <3>2. Due(stack, "undo", 0) \in Seq(Item)
      BY <1>1, Dues, StackIds
    <3>3. top \in Item
      BY <3>1, <3>2, Elements
    <3> QED BY <3>1, <3>3, StackIds
  <2>4. Due(stack, "undo", top) = <<>> /\ Due(stack, "redo", top) = <<>>
    <3>1. Children(top) = 0
      BY <1>10
    <3> HIDE DEF top
    <3> QED BY <1>1, <2>3, <3>1, Childless
  <2>5. doc = m.at[0] \o own[i]
    <3>1. Due(stack, "undo", i) = <<>>
      BY <1>1, <1>6, <1>10, Childless
    <3> QED BY <1>4, <1>10, <2>1, <3>1 DEF Place
  <2>6. own' = [own EXCEPT ![top] = @ \o own[i]] /\ own[i] \in Seq(Item) /\ top \in Item \ batch
    BY <1>1, <1>2, <1>10, <2>3
  <2> HIDE DEF top
  <2>7. \E m2 : Still(m2, stack', batch, own', before, doc, maxCount)
    BY <1>1, <2>2, <2>3, <2>4, <2>5, <2>6, StillMerged
  <2> QED BY <2>7 DEF StillNext
<1> QED BY <1>0, <1>7, <1>8, <1>9, <1>10 DEF EndTransaction, rest, i

----------------------------------------------------------------------------
(***************************************************************************)
(* The steps that leave undo and redo alone.                               *)
(***************************************************************************)

LEMMA Tops ==
    ASSUME NEW st \in Stacks, NEW s \in StackId
    PROVE  /\ TopOf(st[s], st[s]) /\ TopOf(<<>>, st[s])
           /\ \A n \in Nat : TopOf(Prune(st, s, n)[s], st[s])
<1> DEFINE q == st[s]
<1>1. q \in Seq(Item)
  BY DEF Stacks
<1>2. \A n \in Nat : Prune(st, s, n)[s] = IF Len(q) > n THEN SubSeq(q, Len(q) - n + 1, Len(q))
                                                        ELSE q
  BY DEF Prune, Stacks
<1> HIDE DEF q
<1>3. Len(q) \in Nat
  BY <1>1, EmptySeq, SMTT(30)
<1>4. TopOf(q, q)
  <2>1. Len(q) = Len(q) - 0 /\ \A k \in 1 .. Len(q) : q[k] = q[k + 0]
    BY <1>3
  <2> QED BY <1>1, <2>1, Zenon DEF TopOf
<1>5. TopOf(<<>>, q)
  <2>1. <<>> \in Seq(Item) /\ Len(<<>>) = 0
    BY EmptySeq
  <2>2. Len(<<>>) = Len(q) - Len(q) /\ \A k \in 1 .. Len(<<>>) : <<>>[k] = q[k + Len(q)]
    BY <1>3, <2>1
  <2> QED BY <1>3, <2>1, <2>2 DEF TopOf
<1>6. ASSUME NEW n \in Nat, Len(q) > n
      PROVE  TopOf(SubSeq(q, Len(q) - n + 1, Len(q)), q)
  <2> DEFINE a == Len(q) - n + 1
             t == SubSeq(q, a, Len(q))
  <2>1. a \in Nat /\ a >= 1 /\ a <= Len(q) + 1 /\ Len(q) - a + 1 = n /\ a - 1 = Len(q) - n
        /\ a - 1 \in Nat
    BY <1>3, <1>6
  <2> HIDE DEF a
  <2>2. /\ t \in Seq(Item) /\ Len(t) = Len(q) - a + 1
        /\ \A k \in 1 .. Len(q) - a + 1 : t[k] = q[k + (a - 1)]
    BY <1>1, <1>3, <2>1, SubSeqOfSeq
  <2> HIDE DEF t
  <2>3. Len(t) = Len(q) - (a - 1)
    BY <1>3, <2>1, <2>2
  <2>4. TopOf(t, q)
    BY <2>1, <2>2, <2>3 DEF TopOf
  <2> QED BY <2>4 DEF t, a
<1> QED BY <1>2, <1>4, <1>5, <1>6 DEF q

\* The history is cleared or pruned.
LEMMA HistoryIsCut ==
    ASSUME StackInv, ClearHistory \/ SetMaxTransactionCount
    PROVE  /\ stack'[DoStack] = stack[DoStack]
           /\ \A dir \in Direction, h \in Holder : h # 0 => Due(stack', dir, h) = Due(stack, dir, h)
           /\ \A dir \in Direction : TopOf(Due(stack', dir, 0), Due(stack, dir, 0))
           /\ maxCount' = maxCount \/ stack[DoStack] = <<>>
           /\ UNCHANGED <<created, batch, own, before, doc, calls>>
<1> DEFINE u == <<"undo", 0>>
           r == <<"redo", 0>>
           Goal == /\ stack'[DoStack] = stack[DoStack]
                   /\ \A dir \in Direction, h \in Holder :
                         h # 0 => Due(stack', dir, h) = Due(stack, dir, h)
                   /\ \A dir \in Direction : TopOf(Due(stack', dir, 0), Due(stack, dir, 0))
                   /\ maxCount' = maxCount \/ stack[DoStack] = <<>>
                   /\ UNCHANGED <<created, batch, own, before, doc, calls>>
<1>1. stack \in Stacks
  BY StackInvFacts
<1>2. /\ u \in StackId /\ r \in StackId /\ u # DoStack /\ r # DoStack /\ u # r
      /\ DoStack \in StackId
      /\ \A dir \in Direction, h \in Holder : h # 0 =>
            <<dir, h>> \in StackId /\ <<dir, h>> # u /\ <<dir, h>> # r
  BY TopLevel, StackIds
<1>3. ASSUME TopOf(stack'[u], stack[u]), TopOf(stack'[r], stack[r]),
             \A t \in StackId : t # u /\ t # r => stack'[t] = stack[t],
             maxCount' = maxCount \/ stack[DoStack] = <<>>,
             UNCHANGED <<created, batch, own, before, doc, calls>>
      PROVE  Goal
  BY <1>2, <1>3 DEF Due, Direction
<1>4. TopOf(stack[u], stack[u]) /\ TopOf(stack[r], stack[r])
      /\ TopOf(<<>>, stack[u]) /\ TopOf(<<>>, stack[r])
  BY <1>1, <1>2, Tops
<1> HIDE DEF Goal
<1>5. ASSUME ClearHistory PROVE Goal
  <2> DEFINE c == Clear(stack, r)
  <2>1. c \in Stacks /\ c[r] = <<>> /\ \A t \in StackId : t # r => c[t] = stack[t]
    <3> HIDE DEF r
    <3> QED BY <1>1, <1>2, Cleared, ClearShrinks DEF Shrunk
  <2>2. stack' = Clear(c, u)
    BY <1>5 DEF ClearHistory
  <2> HIDE DEF c
  <2>3. stack'[u] = <<>> /\ \A t \in StackId : t # u => stack'[t] = c[t]
    <3> HIDE DEF u
    <3> QED BY <1>2, <2>1, <2>2, Cleared
  <2>4. UNCHANGED <<created, batch, own, before, doc, calls, maxCount>>
    BY <1>5 DEF ClearHistory, docVars
  <2> HIDE DEF u, r
  <2> QED BY <1>2, <1>3, <1>4, <2>1, <2>3, <2>4
<1>6. ASSUME SetMaxTransactionCount PROVE Goal
  <2>1. UNCHANGED <<created, batch, own, before, doc, calls>>
    BY <1>6 DEF SetMaxTransactionCount, docVars
  <2>2. CASE stack' = stack /\ (maxCount' = maxCount \/ stack[DoStack] = <<>>)
    BY <1>3, <1>4, <2>1, <2>2
  <2>3. CASE /\ stack[DoStack] = <<>>
             /\ \E a, b \in Nat : stack' = Prune(Prune(stack, u, a), r, b)
    <3>1. PICK a \in Nat, b \in Nat : stack' = Prune(Prune(stack, u, a), r, b)
      BY <2>3
    <3> DEFINE p == Prune(stack, u, a)
    <3>2. /\ p \in Stacks /\ TopOf(p[u], stack[u])
          /\ \A t \in StackId : t # u => p[t] = stack[t]
      <4> HIDE DEF u
      <4>1. Shrunk(p, stack) /\ \A t \in StackId \ {u} : p[t] = stack[t]
        BY <1>1, <1>2, PruneShrinks
      <4>2. TopOf(p[u], stack[u])
        BY <1>1, <1>2, Tops
      <4>3. p \in Stacks
        BY <4>1 DEF Shrunk
      <4> HIDE DEF p
      <4> QED BY <4>1, <4>2, <4>3
    <3>3. stack' = Prune(p, r, b)
      BY <3>1
    <3> HIDE DEF p
    <3>4. /\ TopOf(stack'[r], p[r])
          /\ \A t \in StackId : t # r => stack'[t] = p[t]
      <4> HIDE DEF r
      <4> QED BY <1>2, <3>2, <3>3, PruneShrinks, Tops
    <3> HIDE DEF u, r
    <3> QED BY <1>2, <1>3, <2>1, <2>3, <3>2, <3>4
  <2>4. \/ stack' = stack /\ (maxCount' = maxCount \/ stack[DoStack] = <<>>)
        \/ /\ stack[DoStack] = <<>>
           /\ \E a, b \in Nat : stack' = Prune(Prune(stack, u, a), r, b)
    <3>1. CASE Busy /\ UNCHANGED <<stack, maxCount>>
      BY <3>1
    <3>2. CASE ~ Busy
      <4> DEFINE a == Len(stack[u])
                 b == Len(stack[r])
      <4>1. PICK n \in Counts :
               LET l == IF a + b <= n THEN a ELSE IF b < n THEN n - b ELSE 0 IN
               stack' = IF n < 0 \/ n > a + b THEN stack
                        ELSE Prune(Prune(stack, u, l), r, n - l)
        BY <1>6, <3>2 DEF SetMaxTransactionCount
      <4>2. a \in Nat /\ b \in Nat /\ n \in Int
        <5>1. stack[u] \in Seq(Item) /\ stack[r] \in Seq(Item)
          BY <1>1, <1>2 DEF Stacks
        <5>2. n \in Int
          BY CountsAssumption
        <5> HIDE DEF u, r
        <5> QED BY <5>1, <5>2, EmptySeq
      <4>3. CASE n < 0 \/ n > a + b
        BY <3>2, <4>1, <4>3 DEF Busy
      <4>4. CASE ~ (n < 0 \/ n > a + b)
        <5> DEFINE l == IF a + b <= n THEN a ELSE IF b < n THEN n - b ELSE 0
        <5>1. stack' = Prune(Prune(stack, u, l), r, n - l)
          BY <4>1, <4>4
        <5> HIDE DEF a, b
        <5>2. l \in Nat /\ n - l \in Nat
          BY <4>2, <4>4
        <5> HIDE DEF l, u, r
        <5> QED BY <3>2, <5>1, <5>2 DEF Busy
      <4> QED BY <4>3, <4>4
    <3> QED BY <1>6, <3>1, <3>2 DEF SetMaxTransactionCount
  <2> QED BY <2>2, <2>3, <2>4
<1>7. Goal
  BY <1>5, <1>6
<1> QED BY <1>7 DEF Goal

LEMMA StillHistory ==
    ASSUME NEW m, StackInv, StillNow(m), ClearHistory \/ SetMaxTransactionCount
    PROVE  StillNext(m)
<1> DEFINE s2 == stack'
           x2 == maxCount'
<1>1. stack \in Stacks /\ Still(m, stack, batch, own, before, doc, maxCount)
  BY StackInvFacts DEF StillNow
<1>2. /\ s2[DoStack] = stack[DoStack]
      /\ \A dir \in Direction, h \in Holder : h # 0 => Due(s2, dir, h) = Due(stack, dir, h)
      /\ \A dir \in Direction : TopOf(Due(s2, dir, 0), Due(stack, dir, 0))
      /\ x2 = maxCount \/ stack[DoStack] = <<>>
      /\ UNCHANGED <<batch, own, before, doc>>
  BY HistoryIsCut
<1> HIDE DEF s2, x2
<1>3. Still(m, s2, batch, own, before, doc, x2)
  BY ONLY <1>1, <1>2, StillCut
<1> QED BY <1>2, <1>3 DEF StillNext, s2, x2

\* Nothing but what has been listed makes the document and its history part.
Harmless == FailuresLast /\ {"transient", "mergeVeto"} \cap Env = {}

LEMMA StepsStill ==
    ASSUME NEW m, StackInv, CallsInv, StillNow(m), Harmless,
           DoFails => Peek(DoStack) = Callee.item,
           \/ Vetoed \/ DoTransaction \/ BeginBatch \/ EndBatch
           \/ ClearHistory \/ SetMaxTransactionCount \/ DoReturns \/ DoFails
    PROVE  \E m2 : StillNext(m2)
<1>1. ASSUME UNCHANGED <<stack, batch, own, before, doc, maxCount>>
      PROVE  \E m2 : StillNext(m2)
  BY <1>1 DEF StillNow, StillNext
<1>2. CASE Vetoed
  BY <1>1, <1>2 DEF Vetoed, docVars
<1>3. CASE DoTransaction
  <2>1. /\ RoomForItem /\ stack' = Push(stack, DoStack, created + 1) /\ maxCount' = maxCount
        /\ batch' = batch /\ doc' = Append(doc, created + 1)
        /\ own' = [own EXCEPT ![created + 1] = <<created + 1>>]
        /\ before' = [before EXCEPT ![created + 1] = doc]
    BY <1>3 DEF DoTransaction
  <2>2. Nested(stack)
    BY DEF CallsInv
  <2> QED BY <2>1, <2>2, StillNew
<1>4. CASE BeginBatch
  <2>1. /\ RoomForItem /\ stack' = Push(stack, DoStack, created + 1) /\ maxCount' = maxCount
        /\ batch' = batch \cup {created + 1} /\ UNCHANGED docVars
    BY <1>4 DEF BeginBatch
  <2>2. Nested(stack)
    BY DEF CallsInv
  <2> QED BY <2>1, <2>2, StillNew
<1>5. {"transient", "mergeVeto"} \cap Env = {}
  BY DEF Harmless
<1>6. CASE EndBatch
  <2>1. CASE UNCHANGED <<stack, own>>
    BY <1>1, <1>6, <2>1 DEF EndBatch
  <2>2. CASE BatchOpen /\ EndTransaction(Peek(DoStack))
    <3>1. stack[DoStack] # <<>> /\ EndTransaction(Peek(DoStack))
          /\ UNCHANGED <<batch, maxCount, doc, before>>
      BY <1>6, <2>2 DEF EndBatch, BatchOpen
    <3> QED BY <1>5, <3>1, StillEnded
  <2> QED BY <1>6, <2>1, <2>2 DEF EndBatch
<1>7. CASE ClearHistory \/ SetMaxTransactionCount
  BY <1>7, StillHistory
<1>8. CASE DoReturns
  <2>1. stack[DoStack] # <<>> /\ EndTransaction(Peek(DoStack))
        /\ UNCHANGED <<batch, maxCount, doc, before>>
    BY <1>8 DEF DoReturns, BodyReturns
  <2> QED BY <1>5, <2>1, StillEnded
<1>9. CASE DoFails
  <2> DEFINE i == Callee.item
  <2>1. /\ In("body", "running") /\ stack[DoStack] # <<>> /\ Peek(DoStack) = i
        /\ stack' = Pop(stack, DoStack) /\ doc' = before[i]
        /\ UNCHANGED <<batch, maxCount, own, before>>
    BY <1>9 DEF DoFails, BodyReturns
  <2>2. i \in Item /\ i \notin batch
    <3>1. /\ Len(calls) \in 1 .. Len(calls) /\ Callee = calls[Len(calls)] /\ Callee \in Frame
      BY <2>1, CalleeType DEF StackInv, In
    <3>2. Callee.fn = "body"
      BY <2>1 DEF In
    <3> QED BY <3>1, <3>2, FrameFields DEF CallsInv, Orderly, BodiesAreDone
  <2>3. m.pre[i] = before[i] /\ doc' \in Doc
    BY <2>1, <2>2 DEF StillNow, Still, Laid, StackInv, TypeOK, Doc
  <2> HIDE DEF i
  <2> QED BY <2>1, <2>3, StillDropped
<1> QED BY <1>2, <1>3, <1>4, <1>6, <1>7, <1>8, <1>9

----------------------------------------------------------------------------
(***************************************************************************)
(* Effects keep the numbers of their items, and the history is older than  *)
(* what is being done.                                                     *)
(***************************************************************************)

LEMMA DocInvNext ==
    ASSUME Numbered(own', before', doc', created'), Older(stack'), Rooted(calls'),
           Undoing(calls') => stack'[DoStack] = <<>>
    PROVE  DocInv'
<1>1. Numbered(own, before, doc, created)'
  BY DEF Numbered
<1>2. Older(stack)'
  BY DEF Older, Due, DoStack
<1>3. Rooted(calls)' /\ (Undoing(calls) => stack[DoStack] = <<>>)'
  BY DEF Rooted, Undoing, DoStack
<1> QED BY <1>1, <1>2, <1>3 DEF DocInv

\* The document after an effect is undone or redone.
LEMMA EffectsNumbered ==
    ASSUME TypeOK, Numbered(own, before, doc, created), NEW i \in Item,
           doc' \in {doc, Without(own[i]), With(own[i])},
           UNCHANGED <<own, before, created>>
    PROVE  Numbered(own', before', doc', created')
<1> DEFINE es == own[i]
           n  == Len(doc) - Len(es)
<1>1. doc \in Seq(Item) /\ es \in Seq(Item)
  BY DEF TypeOK
<1>2. /\ \A k \in 1 .. Len(doc) : doc[k] <= created
      /\ \A k \in 1 .. Len(es) : es[k] <= created
  BY DEF Numbered
<1> HIDE DEF es
<1>3. n \in Int /\ n <= Len(doc)
  BY <1>1, EmptySeq
<1>4. \A k \in 1 .. Len(SubSeq(doc, 1, n)) : SubSeq(doc, 1, n)[k] <= created
  <2> DEFINE t == SubSeq(doc, 1, n)
  <2> HIDE DEF n
  <2>1. t \in Seq(Item) /\ Range(t) \subseteq Range(doc)
    BY <1>1, <1>3, PartOf
  <2> HIDE DEF t
  <2>2. ASSUME NEW k \in 1 .. Len(t) PROVE t[k] <= created
    <3>1. t[k] \in Range(doc)
      BY <2>1, Elements
    <3>2. \E j \in 1 .. Len(doc) : t[k] = doc[j]
      BY <1>1, <3>1, Elements
    <3> QED BY <1>2, <3>2
  <2> QED BY <2>2 DEF t
<1>5. \A k \in 1 .. Len(doc \o es) : (doc \o es)[k] <= created
  <2> DEFINE t == doc \o es
  <2>1. /\ Len(t) = Len(doc) + Len(es) /\ Len(doc) \in Nat /\ Len(es) \in Nat
        /\ \A k \in 1 .. Len(doc) : t[k] = doc[k]
        /\ \A k \in 1 .. Len(es) : t[Len(doc) + k] = es[k]
    BY <1>1, ConcatProperties, EmptySeq
  <2> HIDE DEF t
  <2>2. ASSUME NEW k \in 1 .. Len(t) PROVE t[k] <= created
    <3>1. CASE k \in 1 .. Len(doc)
      BY <1>2, <2>1, <3>1
    <3>2. CASE k \notin 1 .. Len(doc)
      <4>1. k - Len(doc) \in 1 .. Len(es) /\ Len(doc) + (k - Len(doc)) = k
        BY <2>1, <3>2
      <4> QED BY <1>2, <2>1, <4>1
    <3> QED BY <3>1, <3>2
  <2> QED BY <2>2 DEF t
<1>6. \A k \in 1 .. Len(doc') : doc'[k] <= created
  <2>1. doc' \in {doc, SubSeq(doc, 1, n), doc \o es}
    BY DEF Without, With, es, n
  <2> QED BY <1>2, <1>4, <1>5, <2>1
<1> QED BY <1>6 DEF Numbered

\* Where the calls began.
LEMMA RootedStays ==
    ASSUME TypeOK, Running, Rooted(calls), NEW f \in Frame, Alike(f, Callee),
           NEW t \in Seq(Frame), NEW q,
           q \in {Front(calls), Append(Front(calls), f), Append(Front(calls), f) \o t}
    PROVE  Rooted(q)
<1> DEFINE r == Append(Front(calls), f)
           n == Len(calls)
           p == Front(calls)
<1>1. n \in Nat /\ n >= 1 /\ Callee = calls[n] /\ p \in Seq(Frame) /\ Len(p) = n - 1
      /\ \A k \in 1 .. n - 1 : p[k] = calls[k]
  BY CalleeType
<1>2. calls[1].fn = "body" \/ (calls[1].fn = "kids" /\ calls[1].item = 0)
  BY DEF Rooted, Running
<1> HIDE DEF p
<1>3. Rooted(p)
  <2>1. p # <<>> => p[1] = calls[1]
    <3>1. p # <<>> => Len(p) \in Nat /\ Len(p) >= 1
      BY <1>1, EmptySeq
    <3> QED BY <1>1, <3>1
  <2> QED BY <1>2, <2>1 DEF Rooted
<1>4. r \in Seq(Frame) /\ Len(r) = n /\ Alike(r[1], calls[1])
  <2>1. r \in Seq(Frame) /\ Len(r) = n /\ r[n] = f /\ \A k \in 1 .. n - 1 : r[k] = p[k]
    BY <1>1, AppendProperties DEF p
  <2>2. CASE n = 1
    BY <1>1, <2>1, <2>2
  <2>3. CASE n # 1
    <3>1. 1 \in 1 .. n - 1
      BY <1>1, <2>3
    <3> QED BY <1>1, <2>1, <3>1 DEF Alike
  <2> QED BY <2>1, <2>2, <2>3
<1> HIDE DEF r, n
<1>5. Rooted(r)
  BY <1>2, <1>4 DEF Rooted, Alike
<1>6. Rooted(r \o t)
  <2>1. (r \o t)[1] = r[1]
    <3>1. 1 \in 1 .. Len(r)
      BY <1>1, <1>4
    <3> QED BY <1>4, <3>1, ConcatProperties
  <2> QED BY <1>2, <1>4, <2>1 DEF Rooted, Alike
<1> QED BY <1>3, <1>5, <1>6 DEF r, p

\* The innermost call, of an undo or redo, returns, goes on or calls.
LEMMA UndoingDoc ==
    ASSUME StackInv, DocInv, Running, Callee.fn # "body",
           stack'[DoStack] = stack[DoStack], Numbered(own', before', doc', created'),
           Rooted(calls')
    PROVE  DocInv'
<1>1. Undoing(calls)
  <2>1. Len(calls) \in 1 .. Len(calls) /\ Callee = calls[Len(calls)]
    BY CalleeType DEF StackInv
  <2> QED BY <2>1 DEF Undoing
<1>2. stack'[DoStack] = <<>> /\ Len(stack'[DoStack]) = 0
  BY <1>1, EmptySeq DEF DocInv
<1>3. Older(stack')
  BY <1>2 DEF Older
<1> QED BY <1>2, <1>3, DocInvNext

LEMMA ProgressDoc ==
    ASSUME StackInv, CallsInv, DocInv, Progress, ~ (DoReturns \/ DoFails \/ EndBatch)
    PROVE  DocInv'
<1>1. TypeOK /\ Numbered(own, before, doc, created) /\ Rooted(calls)
  BY DEF StackInv, DocInv
<1>2. ASSUME UNCHANGED <<own, before, doc, created>>
      PROVE  Numbered(own', before', doc', created')
  BY <1>1, <1>2
<1>3. ASSUME Running, NEW f \in Frame, Alike(f, Callee), NEW t \in Seq(Frame),
             calls' \in {Front(calls), Append(Front(calls), f), Append(Front(calls), f) \o t}
      PROVE  Rooted(calls')
  BY <1>1, <1>3, RootedStays
<1>4. ASSUME Running, Callee.fn # "body" PROVE Callee \in Frame /\ Alike(Callee, Callee)
  BY <1>1, <1>4, CalleeType DEF Alike
<1>5. \A dir \in Direction, h \in Holder : Kids(dir, h) \in Frame
  BY <1>1, NewFrames
<1>6. ASSUME Running, Callee.fn # "body", stack' = stack,
             UNCHANGED <<created, own, before>>,
             \/ doc' = doc
             \/ \E i \in Item : doc' = Without(own[i]) \/ doc' = With(own[i]),
             \/ \E r : Return(r)
             \/ /\ Callee.fn = "item"
                /\ \E at \in {"kids", "calling", "recover"} :
                      \/ GoOn(at, <<>>)
                      \/ \E dir \in Direction : GoOn(at, <<Kids(dir, Callee.item)>>)
      PROVE  DocInv'
  <2>1. Numbered(own', before', doc', created')
    BY <1>1, <1>2, <1>6, EffectsNumbered
  <2>2. Rooted(calls')
    <3>1. CASE \E r : Return(r)
      BY <1>3, <1>4, <1>6, <3>1, EmptySeq DEF Return
    <3>2. CASE /\ Callee.fn = "item"
               /\ \E at \in {"kids", "calling", "recover"} :
                     \/ GoOn(at, <<>>)
                     \/ \E dir \in Direction : GoOn(at, <<Kids(dir, Callee.item)>>)
      <4>1. PICK at \in {"kids", "calling", "recover"} :
               \/ GoOn(at, <<>>)
               \/ \E dir \in Direction : GoOn(at, <<Kids(dir, Callee.item)>>)
        BY <3>2
      <4> DEFINE f == [Callee EXCEPT !.at = at]
      <4>2. Callee \in Frame /\ Callee.fn = "item"
        BY <1>4, <1>6, <3>2
      <4>3. f \in Frame /\ Alike(f, Callee) /\ Callee.item \in Holder
        <5>1. f \in Frame
          BY <4>2, ChangedFrames
        <5>2. Alike(f, Callee)
          BY <4>2 DEF Alike, Frame
        <5>3. Callee.item \in Holder
          BY <4>2, FrameFields, StackIds
        <5> QED BY <5>1, <5>2, <5>3
      <4>4. \E t \in Seq(Frame) : calls' = Append(Front(calls), f) \o t
        <5>1. <<>> \in Seq(Frame) /\ \A g \in Frame : <<g>> \in Seq(Frame)
          OBVIOUS
        <5> QED BY <1>5, <4>1, <4>3, <5>1 DEF GoOn
      <4> HIDE DEF f
      <4> QED BY <1>3, <1>6, <4>3, <4>4
    <3> QED BY <1>6, <3>1, <3>2
  <2> QED BY <1>6, <2>1, <2>2, UndoingDoc
<1>7. CASE KidsEnd \/ KidsVetoed
  <2>1. Running /\ Callee.fn # "body" /\ stack' = stack
        /\ UNCHANGED <<created, own, before, doc>> /\ \E r : Return(r)
    BY <1>7 DEF KidsEnd, KidsVetoed, In, docVars
  <2> QED BY <1>6, <2>1
<1>8. CASE KidsCall
  <2>1. /\ Running /\ Callee.fn = "kids" /\ Callee.left > 0 /\ stack' = stack
        /\ stack[Source] # <<>>
        /\ UNCHANGED <<created, own, before, doc>>
        /\ calls' = Append(Front(calls), Waiting(Callee)) \o Entered(Callee.dir, Peek(Source))
    BY <1>8 DEF KidsCall, In, docVars
  <2>2. Callee \in Frame /\ Callee.dir \in Direction /\ Callee.item \in Holder
    BY <1>4, <2>1, FrameFields
  <2>3. Waiting(Callee) \in Frame /\ Alike(Waiting(Callee), Callee)
    <3>1. Waiting(Callee) \in Frame
      BY <2>1, <2>2, ChangedFrames
    <3>2. Alike(Waiting(Callee), Callee)
      BY <2>2 DEF Alike, Waiting, Frame
    <3> QED BY <3>1, <3>2
  <2>4. Peek(Source) \in Item
    <3>1. stack[Source] \in Seq(Item)
      BY <1>1, <2>2, StackIds DEF TypeOK, Source
    <3> QED BY <2>1, <3>1, Elements DEF Peek
  <2>5. Entered(Callee.dir, Peek(Source)) \in Seq(Frame)
    BY <1>1, <2>2, <2>4, EnteredType
  <2>6. Rooted(calls')
    BY <1>3, <2>1, <2>3, <2>5
  <2> QED BY <1>2, <2>1, <2>6, UndoingDoc
<1>9. CASE KidsMove
  <2>1. /\ Running /\ Callee.fn = "kids" /\ UNCHANGED <<created, own, before, doc>>
        /\ stack' = IF ret = "ok" THEN PopPush(stack, Source, Target) ELSE stack
        /\ \E r \in DidNotify(ret) :
              calls' = Append(Front(calls), [Callee EXCEPT !.at = "loop", !.res = r])
    BY <1>9 DEF KidsMove, In, docVars
  <2>2. Callee \in Frame /\ Callee.dir \in Direction /\ Callee.item \in Holder
    BY <1>4, <2>1, FrameFields
  <2>3. stack'[DoStack] = stack[DoStack]
    <3>1. stack \in Stacks /\ Nested(stack)
      BY StackInvFacts DEF CallsInv
    <3>2. PopPush(stack, Source, Target)[DoStack] = stack[DoStack]
      BY <2>2, <3>1, MoveNested DEF Source, Target
    <3> QED BY <2>1, <3>2
  <2>4. PICK r \in DidNotify(ret) :
           calls' = Append(Front(calls), [Callee EXCEPT !.at = "loop", !.res = r])
    BY <2>1
  <2>5. r \in Result
    BY <1>1 DEF DidNotify, TypeOK, Result
  <2> DEFINE f == [Callee EXCEPT !.at = "loop", !.res = r]
  <2>6. f \in Frame /\ Alike(f, Callee)
    <3>1. f \in Frame
      BY <2>1, <2>2, <2>5, ChangedFrames
    <3>2. Alike(f, Callee)
      BY <2>2 DEF Alike, Frame
    <3> QED BY <3>1, <3>2
  <2>7. Rooted(calls')
    <3>1. calls' = Append(Front(calls), f) /\ <<>> \in Seq(Frame)
      BY <2>4
    <3> HIDE DEF f
    <3> QED BY <1>3, <2>1, <2>6, <3>1
  <2> QED BY <1>2, <2>1, <2>3, <2>7, UndoingDoc
<1>10. "undo" \in Direction /\ "redo" \in Direction
  BY Others
<1>11. ASSUME Running, Callee.fn = "item" PROVE Callee.item \in Item
  BY <1>4, <1>11, FrameFields
<1>12. CASE UndoItemKidsDone
  <2>1. /\ Running /\ Callee.fn = "item" /\ stack' = stack
        /\ UNCHANGED <<created, own, before, doc>>
        /\ \/ Return("ok")
           \/ GoOn("calling", <<>>)
           \/ GoOn("recover", <<Kids("redo", Callee.item)>>)
    BY <1>12 DEF UndoItemKidsDone, In, RecoverFromUndoError, docVars
  <2> QED BY <1>6, <1>10, <2>1
<1>13. CASE UndoItemCalled
  <2>1. /\ Running /\ Callee.fn = "item" /\ stack' = stack
        /\ UNCHANGED <<created, own, before>>
        /\ doc' = doc \/ doc' = Without(own[Callee.item])
        /\ Return("ok") \/ GoOn("recover", <<Kids("redo", Callee.item)>>)
    BY <1>13 DEF UndoItemCalled, In, RecoverFromUndoError
  <2> QED BY <1>6, <1>10, <1>11, <2>1
<1>14. CASE UndoItemRecovered
  BY <1>6, <1>14 DEF UndoItemRecovered, In, docVars
<1>15. CASE RedoItemRecovered
  <2>1. /\ Running /\ Callee.fn = "item" /\ stack' = stack
        /\ UNCHANGED <<created, own, before>>
        /\ doc' = doc \/ doc' = Without(own[Callee.item])
        /\ Return("fail")
    BY <1>15 DEF RedoItemRecovered, In
  <2> QED BY <1>6, <1>11, <2>1
<1>16. CASE RedoItemCalled
  <2>1. /\ Running /\ Callee.fn = "item" /\ stack' = stack
        /\ UNCHANGED <<created, own, before>>
        /\ doc' = doc \/ doc' = With(own[Callee.item])
        /\ Return("fail") \/ GoOn("kids", <<Kids("redo", Callee.item)>>)
    BY <1>16 DEF RedoItemCalled, In
  <2> QED BY <1>6, <1>10, <1>11, <2>1
<1>17. CASE RedoItemKidsDone
  <2>1. /\ Running /\ Callee.fn = "item" /\ stack' = stack
        /\ UNCHANGED <<created, own, before, doc>>
        /\ Return("ok") \/ GoOn("recover", <<Kids("undo", Callee.item)>>)
    BY <1>17 DEF RedoItemKidsDone, In, RecoverFromRedoError, docVars
  <2> QED BY <1>6, <1>10, <2>1
<1> QED BY <1>7, <1>8, <1>9, <1>12, <1>13, <1>14, <1>15, <1>16, <1>17 DEF Progress

LEMMA BodiesDoc ==
    ASSUME calls' \in Seq(Frame), \A k \in 1 .. Len(calls') : calls'[k].fn = "body",
           Numbered(own', before', doc', created'), Older(stack')
    PROVE  DocInv'
<1>1. ~ Undoing(calls')
  BY DEF Undoing
<1>2. Rooted(calls')
  <2>1. calls' # <<>> => 1 \in 1 .. Len(calls')
    <3> DEFINE q == calls'
    <3>1. q \in Seq(Frame)
      OBVIOUS
    <3> HIDE DEF q
    <3>2. q # <<>> => 1 \in 1 .. Len(q)
      BY <3>1, EmptySeq
    <3> QED BY <3>2 DEF q
  <2> QED BY <2>1 DEF Rooted
<1> QED BY <1>1, <1>2, DocInvNext

\* An item is created: it is younger than all the others.
LEMMA NewItemDoc ==
    ASSUME StackInv, DocInv, RoomForItem, created' = created + 1,
           stack' = Push(stack, DoStack, created + 1),
           \/ /\ doc' = Append(doc, created + 1)
              /\ own' = [own EXCEPT ![created + 1] = <<created + 1>>]
              /\ before' = [before EXCEPT ![created + 1] = doc]
           \/ UNCHANGED docVars
    PROVE  Numbered(own', before', doc', created') /\ Older(stack')
<1> DEFINE i == created + 1
           s == stack[DoStack]
           t == stack'[DoStack]
<1>1. /\ stack \in Stacks /\ created \in Nat /\ i \in Item /\ i \in Nat
      /\ doc \in Seq(Item) /\ own \in [Item -> Seq(Item)] /\ before \in [Item -> Seq(Item)]
      /\ \A j : IsHeld(stack, j) => j \in 1 .. created
  <2>1. /\ stack \in Stacks /\ created \in Nat /\ \A j : IsHeld(stack, j) => j \in 1 .. created
        /\ doc \in Seq(Item)
        /\ own \in [Item -> Seq(Item)] /\ before \in [Item -> Seq(Item)]
    BY StackInvFacts DEF StackInv, TypeOK
  <2>2. i \in Item /\ i \in Nat
    BY <2>1, BoundsAssumption DEF RoomForItem, Item
  <2> QED BY <2>1, <2>2
<1>2. Numbered(own, before, doc, created) /\ Older(stack)
  BY DEF DocInv
<1>3. \A j \in Item : /\ Len(own[j]) \in Nat /\ \A k \in 1 .. Len(own[j]) : own[j][k] \in Nat
                      /\ Len(before[j]) \in Nat
  <2> TAKE j \in Item
  <2>1. own[j] \in Seq(Item) /\ before[j] \in Seq(Item)
    BY <1>1
  <2>2. \A k \in 1 .. Len(own[j]) : own[j][k] \in Item
    BY <2>1, ElementOfSeq
  <2> QED BY <2>1, <2>2, EmptySeq DEF Item
<1>4. \A k \in 1 .. Len(doc) : doc[k] \in Nat /\ doc[k] <= created
  <2>1. \A k \in 1 .. Len(doc) : doc[k] \in Item
    BY <1>1, ElementOfSeq
  <2> QED BY <1>2, <2>1 DEF Item, Numbered
<1>5. Numbered(own', before', doc', i)
  <2>1. \A j \in Item : \A k \in 1 .. Len(own[j]) : own[j][k] >= j /\ own[j][k] <= i
    BY <1>1, <1>2, <1>3, SMTT(30) DEF Numbered
  <2>2. \A k \in 1 .. Len(doc) : doc[k] <= i /\ doc[k] < i
    BY <1>1, <1>4, SMTT(30)
  <2>3. CASE UNCHANGED docVars
    BY <1>2, <2>1, <2>2, <2>3 DEF Numbered, docVars
  <2>4. CASE /\ doc' = Append(doc, i) /\ own' = [own EXCEPT ![i] = <<i>>]
             /\ before' = [before EXCEPT ![i] = doc]
    <3> HIDE DEF i
    <3>1. \A k \in 1 .. Len(Append(doc, i)) : Append(doc, i)[k] <= i
      <4> DEFINE d == Append(doc, i)
      <4>1. /\ Len(d) = Len(doc) + 1 /\ d[Len(doc) + 1] = i /\ Len(doc) \in Nat
            /\ \A k \in 1 .. Len(doc) : d[k] = doc[k]
        BY <1>1, AppendProperties, EmptySeq
      <4> HIDE DEF d
      <4>2. ASSUME NEW k \in 1 .. Len(d) PROVE d[k] <= i
        <5>1. CASE k = Len(doc) + 1
          BY <1>1, <4>1, <5>1
        <5>2. CASE k # Len(doc) + 1
          <6>1. k \in 1 .. Len(doc)
            BY <4>1, <5>2
          <6> QED BY <2>2, <4>1, <6>1
        <5> QED BY <5>1, <5>2
      <4> QED BY <4>2 DEF d
    <3>2. \A k \in 1 .. Len(<<i>>) : <<i>>[k] = i
      OBVIOUS
    <3>3. ASSUME NEW j \in Item
          PROVE  /\ \A k \in 1 .. Len(own'[j]) : own'[j][k] >= j /\ own'[j][k] <= i
                 /\ \A k \in 1 .. Len(before'[j]) : before'[j][k] < j
      <4>1. CASE j = i
        BY <1>1, <2>2, <2>4, <3>2, <4>1
      <4>2. CASE j # i
        <5>1. own'[j] = own[j] /\ before'[j] = before[j]
          BY <1>1, <2>4, <4>2
        <5> QED BY <1>2, <2>1, <5>1 DEF Numbered
      <4> QED BY <4>1, <4>2
    <3> QED BY <2>4, <3>1, <3>3 DEF Numbered
  <2> QED BY <2>3, <2>4
<1>6. Older(stack')
  <2>1. /\ \A dir \in Direction : Due(stack', dir, 0) = Due(stack, dir, 0)
        /\ t = Append(s, i) /\ s \in Seq(Item)
    <3>1. /\ \A w \in StackId \ {DoStack} : stack'[w] = stack[w]
          /\ t = Append(s, i) /\ s \in Seq(Item)
      BY <1>1, StackIds, Dues DEF Push, Stacks
    <3> QED BY <3>1, StackIds DEF Due
  <2> HIDE DEF i, s, t
  <2>2. /\ Len(t) = Len(s) + 1 /\ t[Len(s) + 1] = i /\ Len(s) \in Nat
        /\ \A k \in 1 .. Len(s) : t[k] = s[k]
    BY <1>1, <2>1, AppendProperties, EmptySeq
  <2>3. ASSUME NEW dir \in Direction, NEW k \in 1 .. Len(Due(stack, dir, 0))
        PROVE  Due(stack, dir, 0)[k] < i
    <3>1. IsHeld(stack, Due(stack, dir, 0)[k])
      BY StackIds DEF IsHeld, Due
    <3>2. Due(stack, dir, 0)[k] \in 1 .. created
      BY <1>1, <3>1
    <3> QED BY <1>1, <3>2 DEF i
  <2>4. ASSUME NEW dir \in Direction, NEW k \in 1 .. Len(Due(stack, dir, 0)), NEW l \in 1 .. Len(t)
        PROVE  Due(stack, dir, 0)[k] < t[l]
    <3>1. CASE l = Len(s) + 1
      BY <2>2, <2>3, <3>1
    <3>2. CASE l # Len(s) + 1
      <4>1. l \in 1 .. Len(s)
        BY <2>2, <3>2
      <4>2. Due(stack, dir, 0)[k] < s[l]
        BY <1>2, <4>1 DEF Older, s
      <4> QED BY <2>2, <4>1, <4>2
    <3> QED BY <3>1, <3>2
  <2> QED BY <2>1, <2>4 DEF Older, t
<1> QED BY <1>5, <1>6

\* An item ends: what it is absorbed by is older.
LEMMA EndedDoc ==
    ASSUME StackInv, CallsInv, DocInv, stack[DoStack] # <<>>,
           \/ EndTransaction(Peek(DoStack)) /\ UNCHANGED doc
           \/ /\ stack' = Pop(stack, DoStack) /\ UNCHANGED own
              /\ \E c \in Item : c <= created /\ doc' = before[c],
           UNCHANGED <<created, before>>
    PROVE  Numbered(own', before', doc', created') /\ Older(stack')
<1> DEFINE i    == Peek(DoStack)
           s    == stack[DoStack]
           rest == Pop(stack, DoStack)
           top  == Last(Clear(rest, <<"redo", 0>>)[<<"undo", 0>>])
<1>1. /\ stack \in Stacks /\ Distinct(stack) /\ created \in Nat
      /\ doc \in Seq(Item) /\ own \in [Item -> Seq(Item)] /\ before \in [Item -> Seq(Item)]
      /\ Numbered(own, before, doc, created) /\ Older(stack)
      /\ \A j : IsHeld(stack, j) => j \in 1 .. created
  BY StackInvFacts DEF StackInv, TypeOK, DocInv
<1>2. /\ rest \in Stacks /\ i \in Item /\ i = s[Len(s)] /\ Len(s) \in 1 .. Len(s)
      /\ Len(rest[DoStack]) = Len(s) - 1
      /\ \A k \in 1 .. Len(rest[DoStack]) : rest[DoStack][k] = s[k]
      /\ \A dir \in Direction, h \in Holder : Due(rest, dir, h) = Due(stack, dir, h)
      /\ Len(s) \in Nat
  <2>1. Len(s) \in Nat /\ Len(s) >= 1
    BY <1>1, LastDoing
  <2>2. Len(s) \in 1 .. Len(s)
    BY <2>1
  <2> QED BY <1>1, <2>1, <2>2, LastDoing DEF Peek
<1>3. i \in 1 .. created
  BY <1>1, <1>2, StackIds DEF IsHeld
<1>4. \/ stack'[DoStack] = <<>>
      \/ /\ stack'[DoStack] = rest[DoStack]
         /\ \A dir \in Direction : Due(stack', dir, 0) = Due(stack, dir, 0)
  <2>1. CASE stack' = rest
    BY <1>2, <2>1, StackIds
  <2>2. ASSUME rest[DoStack] # <<>>,
               stack' = Push(rest, <<"undo", Last(rest[DoStack])>>, i)
        PROVE  /\ stack'[DoStack] = rest[DoStack]
               /\ \A dir \in Direction : Due(stack', dir, 0) = Due(stack, dir, 0)
    <3> DEFINE p == Last(rest[DoStack])
    <3>1. p \in Item
      BY <1>1, <2>2, DoingOnce
    <3>2. <<"undo", p>> \in StackId /\ <<"undo", p>> # DoStack
          /\ p # 0 /\ DoStack \in StackId
          /\ \A dir \in Direction : <<dir, 0>> \in StackId /\ <<dir, 0>> # <<"undo", p>>
      BY <3>1, StackIds DEF Item
    <3> HIDE DEF p
    <3>3. \A w \in StackId : w # <<"undo", p>> => stack'[w] = rest[w]
      BY <1>2, <2>2, <3>2 DEF Push, Stacks, p
    <3> QED BY <1>2, <3>2, <3>3, StackIds DEF Due
  <2>3. ASSUME rest[DoStack] = <<>>, NEW c, c \in Stacks, c[DoStack] = rest[DoStack],
               stack' = Push(c, <<"undo", 0>>, i) \/ stack' = c
        PROVE  stack'[DoStack] = <<>>
    BY <2>3, TopLevel DEF Push, Stacks
  <2>4. /\ Clear(rest, <<"redo", 0>>) \in Stacks
        /\ Clear(rest, <<"redo", 0>>)[DoStack] = rest[DoStack]
    BY <1>2, TopLevel, ClearShrinks, Cleared DEF Shrunk
  <2>5. /\ PopBottom(Clear(rest, <<"redo", 0>>), <<"undo", 0>>) \in Stacks
        /\ PopBottom(Clear(rest, <<"redo", 0>>), <<"undo", 0>>)[DoStack] = rest[DoStack]
    BY <2>4, TopLevel, PopBottomShrinks DEF Shrunk
  <2>6. \/ stack' = rest
        \/ rest[DoStack] # <<>> /\ stack' = Push(rest, <<"undo", Last(rest[DoStack])>>, i)
        \/ /\ rest[DoStack] = <<>>
           /\ \E c \in {Clear(rest, <<"redo", 0>>),
                        PopBottom(Clear(rest, <<"redo", 0>>), <<"undo", 0>>)} :
                 stack' = Push(c, <<"undo", 0>>, i) \/ stack' = c
    BY DEF EndTransaction
  <2> HIDE DEF rest, i
  <2> QED BY <2>1, <2>2, <2>3, <2>4, <2>5, <2>6
<1>5. Older(stack')
  <2>1. CASE stack'[DoStack] = <<>>
    <3>1. Len(stack'[DoStack]) = 0
      BY <2>1, EmptySeq
    <3> QED BY <3>1 DEF Older
  <2>2. CASE /\ stack'[DoStack] = rest[DoStack]
             /\ \A dir \in Direction : Due(stack', dir, 0) = Due(stack, dir, 0)
    <3>1. \A l \in 1 .. Len(rest[DoStack]) : l \in 1 .. Len(s) /\ rest[DoStack][l] = s[l]
      BY <1>2
    <3> HIDE DEF rest
    <3> QED BY <1>1, <2>2, <3>1 DEF Older
  <2> QED BY <1>4, <2>1, <2>2
<1>6. Numbered(own', before', doc', created')
  <2>1. CASE UNCHANGED <<own, doc>>
    BY <1>1, <2>1
  <2>2. ASSUME UNCHANGED own, NEW c \in Item, c <= created, doc' = before[c]
        PROVE  Numbered(own', before', doc', created')
    <3>1. \A k \in 1 .. Len(before[c]) : before[c][k] \in Nat
      <4>1. before[c] \in Seq(Item)
        BY <1>1
      <4>2. \A k \in 1 .. Len(before[c]) : before[c][k] \in Item
        BY <4>1, ElementOfSeq
      <4> QED BY <4>2 DEF Item
    <3>2. \A k \in 1 .. Len(before[c]) : before[c][k] <= created
      <4>1. \A k \in 1 .. Len(before[c]) : before[c][k] < c
        BY <1>1 DEF Numbered
      <4> QED BY <1>1, <2>2, <3>1, <4>1 DEF Item
    <3> QED BY <1>1, <2>2, <3>2 DEF Numbered
  <2>3. CASE /\ own' = [own EXCEPT ![top] = @ \o own[i]] /\ UNCHANGED doc
             /\ Clear(rest, <<"redo", 0>>)[<<"undo", 0>>] # <<>>
    <3>1. top = Last(Due(stack, "undo", 0)) /\ Due(stack, "undo", 0) # <<>>
      <4>1. Clear(rest, <<"redo", 0>>)[<<"undo", 0>>] = rest[<<"undo", 0>>]
        BY <1>2, TopLevel, Cleared
      <4>2. rest[<<"undo", 0>>] = Due(stack, "undo", 0)
        BY <1>2, StackIds DEF Due
      <4> HIDE DEF rest
      <4> QED BY <2>3, <4>1, <4>2
    <3>2. top \in Item /\ top < i
      <4> DEFINE q == Due(stack, "undo", 0)
      <4>1. q \in Seq(Item) /\ q # <<>> /\ top = Last(q)
        BY <1>1, <3>1, Dues, StackIds
      <4> HIDE DEF q, top
      <4>2. Len(q) \in 1 .. Len(q) /\ top = q[Len(q)] /\ top \in Item
        <5>1. Len(q) \in Nat \ {0} /\ Last(q) = q[Len(q)] /\ Last(q) \in Item
          BY <4>1, Elements
        <5> QED BY <4>1, <5>1
      <4>3. q[Len(q)] < s[Len(s)]
        BY <1>1, <1>2, <4>2, StackIds DEF Older, q
      <4> QED BY <1>2, <4>2, <4>3
    <3> HIDE DEF top, i
    <3> DEFINE a == own[top]
               b == own[i]
               t == a \o b
    <3>3. a \in Seq(Item) /\ b \in Seq(Item)
      BY <1>1, <1>2, <3>2
    <3>4. /\ \A k \in 1 .. Len(a) : a[k] >= top /\ a[k] <= created
          /\ \A k \in 1 .. Len(b) : b[k] >= i /\ b[k] <= created /\ b[k] \in Item
      BY <1>1, <1>2, <3>2, <3>3, ElementOfSeq DEF Numbered
    <3>5. own'[top] = t /\ \A j \in Item : j # top => own'[j] = own[j]
      BY <1>1, <2>3, <3>2
    <3> HIDE DEF a, b
    <3>6. /\ Len(t) = Len(a) + Len(b) /\ Len(a) \in Nat /\ Len(b) \in Nat
          /\ \A k \in 1 .. Len(a) : t[k] = a[k]
          /\ \A k \in 1 .. Len(b) : t[Len(a) + k] = b[k]
      BY <3>3, ConcatProperties, EmptySeq
    <3> HIDE DEF t
    <3>7. ASSUME NEW k \in 1 .. Len(t) PROVE t[k] >= top /\ t[k] <= created
      <4>1. CASE k \in 1 .. Len(a)
        BY <3>4, <3>6, <4>1
      <4>2. CASE k \notin 1 .. Len(a)
        <5>1. k - Len(a) \in 1 .. Len(b) /\ Len(a) + (k - Len(a)) = k
          BY <3>6, <4>2
        <5>2. t[k] = b[k - Len(a)]
          BY <3>6, <5>1
        <5>3. t[k] >= i /\ t[k] <= created /\ t[k] \in Item
          BY <3>4, <5>1, <5>2
        <5> QED BY <1>2, <3>2, <5>3 DEF Item
      <4> QED BY <4>1, <4>2
    <3> QED BY <1>1, <2>3, <3>5, <3>7 DEF Numbered
  <2>4. \/ UNCHANGED <<own, doc>>
        \/ UNCHANGED own /\ \E c \in Item : c <= created /\ doc' = before[c]
        \/ /\ own' = [own EXCEPT ![top] = @ \o own[i]] /\ UNCHANGED doc
           /\ Clear(rest, <<"redo", 0>>)[<<"undo", 0>>] # <<>>
    BY DEF EndTransaction
  <2> QED BY <2>1, <2>2, <2>3, <2>4
<1> QED BY <1>5, <1>6

LEMMA OlderCut ==
    ASSUME StackInv, Older(stack), stack'[DoStack] = stack[DoStack],
           \A dir \in Direction : TopOf(Due(stack', dir, 0), Due(stack, dir, 0))
    PROVE  Older(stack')
<1> SUFFICES ASSUME NEW dir \in Direction, NEW k \in 1 .. Len(Due(stack', dir, 0)),
                    NEW l \in 1 .. Len(stack[DoStack])
             PROVE  Due(stack', dir, 0)[k] < stack[DoStack][l]
  BY DEF Older
<1> DEFINE q == Due(stack, dir, 0)
           t == Due(stack', dir, 0)
<1>1. q \in Seq(Item) /\ t \in Seq(Item)
  BY StackInvFacts, Dues, StackIds DEF TopOf
<1>2. PICK j \in Nat : Len(t) = Len(q) - j /\ \A n \in 1 .. Len(t) : t[n] = q[n + j]
  BY DEF TopOf
<1>3. k \in 1 .. Len(t) /\ \A n \in 1 .. Len(q) : q[n] < stack[DoStack][l]
  BY DEF Older
<1> HIDE DEF q, t
<1>4. k + j \in 1 .. Len(q)
  <2>1. Len(q) \in Nat
    BY <1>1, EmptySeq
  <2> QED BY <1>2, <1>3, <2>1
<1>5. t[k] < stack[DoStack][l]
  BY <1>2, <1>3, <1>4
<1> QED BY <1>5 DEF t

\* The steps taken while no undo or redo is in progress begin none.
LEMMA BodiesStay ==
    ASSUME StackInv, \A k \in 1 .. Len(calls) : calls[k].fn = "body",
           \/ Vetoed \/ DoTransaction \/ BeginBatch \/ EndBatch
           \/ ClearHistory \/ SetMaxTransactionCount \/ DoReturns \/ DoFails
    PROVE  \A k \in 1 .. Len(calls') : calls'[k].fn = "body"
<1>1. calls \in Seq(Frame) /\ Len(calls) \in Nat
  BY EmptySeq DEF StackInv, TypeOK
<1>2. CASE DoTransaction
  <2> DEFINE g == MkFrame("body", "do", created + 1, "running", 0)
             q == Append(calls, g)
  <2>1. calls' = q
    BY <1>2 DEF DoTransaction
  <2>2. g.fn = "body"
    BY DEF MkFrame
  <2> HIDE DEF g
  <2>3. /\ Len(q) = Len(calls) + 1 /\ q[Len(calls) + 1] = g
        /\ \A k \in 1 .. Len(calls) : q[k] = calls[k]
    <3>1. calls \in Seq(Frame \cup {g}) /\ g \in Frame \cup {g}
      BY <1>1
    <3> HIDE DEF q
    <3> QED BY <3>1, AppendProperties DEF q
  <2> HIDE DEF q
  <2>4. ASSUME NEW k \in 1 .. Len(q) PROVE q[k].fn = "body"
    <3>1. k = Len(calls) + 1 \/ k \in 1 .. Len(calls)
      BY <1>1, <2>3
    <3> QED BY <2>2, <2>3, <3>1
  <2> QED BY <2>1, <2>4
<1>3. CASE DoReturns \/ DoFails
  <2>1. Running /\ calls' = Front(calls)
    BY <1>3 DEF DoReturns, DoFails, BodyReturns, In, Return
  <2>2. Len(Front(calls)) = Len(calls) - 1
        /\ \A k \in 1 .. Len(calls) - 1 : Front(calls)[k] = calls[k]
    BY <2>1, CalleeType DEF StackInv
  <2>3. \A k \in 1 .. Len(calls) - 1 : k \in 1 .. Len(calls)
    BY <1>1
  <2> QED BY <2>1, <2>2, <2>3
<1>4. CASE Vetoed \/ BeginBatch \/ EndBatch \/ ClearHistory \/ SetMaxTransactionCount
  <2>1. calls' = calls
    BY <1>4 DEF Vetoed, BeginBatch, EndBatch, ClearHistory, SetMaxTransactionCount
  <2> QED BY <2>1
<1> QED BY <1>2, <1>3, <1>4

LEMMA OtherStepsDoc ==
    ASSUME StackInv, CallsInv, DocInv, StackInv',
           \A k \in 1 .. Len(calls) : calls[k].fn = "body",
           \/ Vetoed \/ DoTransaction \/ BeginBatch \/ EndBatch
           \/ ClearHistory \/ SetMaxTransactionCount \/ DoReturns \/ DoFails
    PROVE  DocInv'
<1>1. /\ calls' \in Seq(Frame) /\ \A k \in 1 .. Len(calls') : calls'[k].fn = "body"
      /\ Numbered(own, before, doc, created) /\ Older(stack)
  BY BodiesStay DEF StackInv, TypeOK, DocInv
<1>2. Numbered(own', before', doc', created') /\ Older(stack')
  <2>1. CASE Vetoed
    BY <1>1, <2>1 DEF Vetoed, docVars
  <2>2. CASE DoTransaction
    <3>1. /\ RoomForItem /\ created' = created + 1
          /\ stack' = Push(stack, DoStack, created + 1)
          /\ doc' = Append(doc, created + 1)
          /\ own' = [own EXCEPT ![created + 1] = <<created + 1>>]
          /\ before' = [before EXCEPT ![created + 1] = doc]
      BY <2>2 DEF DoTransaction
    <3> QED BY <3>1, NewItemDoc
  <2>3. CASE BeginBatch
    <3>1. /\ RoomForItem /\ created' = created + 1 /\ UNCHANGED docVars
          /\ stack' = Push(stack, DoStack, created + 1)
      BY <2>3 DEF BeginBatch
    <3> QED BY <3>1, NewItemDoc
  <2>4. CASE EndBatch
    <3>1. UNCHANGED <<created, doc, before>>
      BY <2>4 DEF EndBatch
    <3>2. CASE UNCHANGED <<stack, own>>
      BY <1>1, <3>1, <3>2
    <3>3. CASE BatchOpen /\ EndTransaction(Peek(DoStack))
      <4>1. stack[DoStack] # <<>>
        BY <3>3 DEF BatchOpen
      <4> QED BY <3>1, <3>3, <4>1, EndedDoc
    <3> QED BY <2>4, <3>2, <3>3 DEF EndBatch
  <2>5. CASE ClearHistory \/ SetMaxTransactionCount
    <3>1. /\ stack'[DoStack] = stack[DoStack]
          /\ \A dir \in Direction : TopOf(Due(stack', dir, 0), Due(stack, dir, 0))
          /\ UNCHANGED <<created, batch, own, before, doc, calls>>
      BY <2>5, HistoryIsCut
    <3> QED BY <1>1, <3>1, OlderCut
  <2>6. CASE DoReturns \/ DoFails
    <3>1. /\ stack[DoStack] # <<>> /\ UNCHANGED <<created, before>>
          /\ \/ EndTransaction(Peek(DoStack)) /\ UNCHANGED doc
             \/ /\ stack' = Pop(stack, DoStack) /\ UNCHANGED own
                /\ doc' = before[Callee.item]
      BY <2>6 DEF DoReturns, DoFails, BodyReturns
    <3>2. Callee.item \in Item /\ Callee.item <= created
      <4>1. /\ Len(calls) \in 1 .. Len(calls) /\ Callee = calls[Len(calls)]
            /\ Callee.fn = "body" /\ stack \in Stacks /\ created \in Nat
            /\ \A j : IsHeld(stack, j) => j \in 1 .. created
        BY <2>6, CalleeType, StackInvFacts
           DEF StackInv, TypeOK, DoReturns, DoFails, BodyReturns, In
      <4>2. PICK m \in 1 .. Len(stack[DoStack]) : stack[DoStack][m] = Callee.item
        BY <4>1 DEF CallsInv, Orderly, BodiesAreDone
      <4>3. IsHeld(stack, Callee.item)
        BY <4>2, StackIds DEF IsHeld
      <4>4. Callee.item \in Item
        BY <4>1, <4>2, StackIds, StackNumbers
      <4> QED BY <4>1, <4>3, <4>4
    <3> QED BY <3>1, <3>2, EndedDoc
  <2> QED BY <2>1, <2>2, <2>3, <2>4, <2>5, <2>6
<1> QED BY <1>1, <1>2, BodiesDoc

\* An undo or redo begins at the top level, with nothing being done.
LEMMA BeginsDoc ==
    ASSUME StackInv, CallsInv, DocInv, "reenter" \notin Env,
           NEW dir \in Direction, UndoOrRedo(dir)
    PROVE  /\ DocInv'
           /\ \/ calls' = calls
              \/ /\ calls = <<>> /\ stack[DoStack] = <<>>
                 /\ calls' = <<MkFrame("kids", dir, 0, "loop", 1)>>
<1>1. /\ \A k \in 1 .. Len(calls) : calls[k].fn = "body"
      /\ Running => Busy
  <2>1. ClientRuns /\ TypeOK
    BY DEF UndoOrRedo, StackInv
  <2> QED BY <2>1, OnlyBodies
<1>2. UNCHANGED <<stack, created, own, before, doc>>
  BY DEF UndoOrRedo, docVars
<1>3. Numbered(own', before', doc', created') /\ Older(stack')
  BY <1>2 DEF DocInv
<1>4. CASE calls' = calls
  <2>1. Rooted(calls') /\ (Undoing(calls') => stack'[DoStack] = <<>>)
    BY <1>2, <1>4 DEF DocInv
  <2> QED BY <1>3, <1>4, <2>1, DocInvNext
<1>5. CASE ~ Busy /\ calls' = Append(calls, MkFrame("kids", dir, 0, "loop", 1))
  <2> DEFINE g == MkFrame("kids", dir, 0, "loop", 1)
  <2>1. calls = <<>> /\ stack[DoStack] = <<>>
    BY <1>1, <1>5 DEF Running, Busy
  <2>2. calls' = <<g>>
    <3> HIDE DEF g
    <3> QED BY <1>5, <2>1 DEF g
  <2>3. Rooted(calls')
    <3>1. g.fn = "kids" /\ g.item = 0
      BY DEF MkFrame
    <3> HIDE DEF g
    <3> QED BY <2>2, <3>1 DEF Rooted
  <2> QED BY <1>2, <1>3, <2>1, <2>2, <2>3, DocInvNext
<1> QED BY <1>4, <1>5 DEF UndoOrRedo

LEMMA DocInvStep ==
    ASSUME StackInv, CallsInv, DocInv, StackInv', "reenter" \notin Env, [Next]_vars
    PROVE  DocInv'
<1>1. TypeOK
  BY DEF StackInv
<1>2. ASSUME In("body", "running") \/ ClientRuns
      PROVE  \A k \in 1 .. Len(calls) : calls[k].fn = "body"
  BY <1>1, <1>2, OnlyBodies DEF ClientRuns
<1>3. CASE Client
  <2>1. CASE \E dir \in Direction : UndoOrRedo(dir)
    BY <2>1, BeginsDoc
  <2>2. CASE ~ \E dir \in Direction : UndoOrRedo(dir)
    <3>1. \/ Vetoed \/ DoTransaction \/ BeginBatch \/ EndBatch
          \/ ClearHistory \/ SetMaxTransactionCount
      BY <1>3, <2>2 DEF Client
    <3>2. ClientRuns
      BY <3>1 DEF Vetoed, DoTransaction, BeginBatch, EndBatch, ClearHistory,
                  SetMaxTransactionCount
    <3> QED BY <1>2, <3>1, <3>2, OtherStepsDoc
  <2> QED BY <2>1, <2>2
<1>4. CASE DoReturns \/ DoFails \/ EndBatch
  <2>1. In("body", "running") \/ ClientRuns
    BY <1>4 DEF DoReturns, DoFails, BodyReturns, EndBatch
  <2> QED BY <1>2, <1>4, <2>1, OtherStepsDoc
<1>5. CASE Progress /\ ~ (DoReturns \/ DoFails \/ EndBatch)
  BY <1>5, ProgressDoc
<1>6. CASE UNCHANGED vars
  <2>1. /\ Numbered(own', before', doc', created') /\ Older(stack') /\ Rooted(calls')
        /\ Undoing(calls') => stack'[DoStack] = <<>>
    BY <1>6 DEF vars, DocInv
  <2> QED BY <2>1, DocInvNext
<1> QED BY <1>3, <1>4, <1>5, <1>6 DEF Next

LEMMA DocInvInit ==
    ASSUME Init PROVE DocInv
<1>1. /\ calls = <<>> /\ Len(calls) = 0 /\ stack[DoStack] = <<>> /\ Len(stack[DoStack]) = 0
      /\ doc = <<>> /\ Len(doc) = 0
      /\ \A i \in Item : Len(own[i]) = 0 /\ Len(before[i]) = 0
  BY StackIds DEF Init
<1> QED BY <1>1 DEF DocInv, Numbered, Older, Rooted, Undoing

----------------------------------------------------------------------------
(***************************************************************************)
(* There is a chart as long as a rollback works.                           *)
(***************************************************************************)
LEMMA RollbackWorked ==
    ASSUME [Next]_vars, RollbackWorks' PROVE RollbackWorks
<1>1. faults \subseteq faults'
  <2>1. CASE UndoItemCalled \/ RedoItemCalled \/ RedoItemRecovered
    BY <2>1 DEF UndoItemCalled, RedoItemCalled, RedoItemRecovered, Succeeds, Fails
  <2>2. CASE ~ (UndoItemCalled \/ RedoItemCalled \/ RedoItemRecovered)
    BY <2>2 DEF Next, Client, Progress, vars, Vetoed, DoTransaction, BeginBatch, EndBatch,
                ClearHistory, SetMaxTransactionCount, UndoOrRedo, DoReturns, DoFails,
                KidsEnd, KidsVetoed, KidsCall, KidsMove, UndoItemKidsDone,
                UndoItemRecovered, RedoItemKidsDone
  <2> QED BY <2>1, <2>2
<1> QED BY <1>1 DEF RollbackWorks

LEMMA ChartInvInit ==
    ASSUME Init PROVE ChartInv
<1> DEFINE m == [pre  |-> [i \in Item |-> <<>>], post |-> [i \in Item |-> <<>>],
                 at   |-> [h \in Holder |-> <<>>]]
<1>1. /\ \A s \in StackId : stack[s] = <<>>
      /\ batch = {} /\ calls = <<>> /\ doc = <<>>
      /\ \A i \in Item : own[i] = <<>> /\ before[i] = <<>>
  BY DEF Init
<1>2. /\ m \in Chart
      /\ \A i \in Item : m.pre[i] = <<>> /\ m.post[i] = <<>>
      /\ \A h \in Holder : m.at[h] = <<>>
  BY EmptySeq DEF Chart, Doc
<1> HIDE DEF m
<1>3. /\ \A dir \in Direction, h \in Holder : Due(stack, dir, h) = <<>>
      /\ stack[DoStack] = <<>> /\ 0 \in Holder
  BY <1>1, StackIds DEF Due
<1>4. \A dir \in Direction, h \in Holder : Line(m, dir, h, stack, batch, own)
  <2> TAKE dir \in Direction, h \in Holder
  <2>1. CASE h = 0
    BY <1>3, <2>1, NoneDueAtTop
  <2>2. CASE h # 0
    <3>1. h \in Item
      BY <2>2, BoundsAssumption DEF Holder, Item
    <3>2. m.pre[h] \o own[h] = <<>>
      BY <1>1, <1>2, <3>1
    <3>3. m.at[h] = Base(m, dir, h, batch, own)
      BY <1>1, <1>2, <3>1, <3>2 DEF Base, Start
    <3> QED BY <1>3, <2>2, <3>3, NoneDue
  <2> QED BY <2>1, <2>2
<1>5. Laid(m, stack, batch, own, before)
  BY <1>1, <1>2, <1>4 DEF Laid
<1>6. AllRest(stack)
  <2>1. 1 .. Len(<<>>) = {}
    OBVIOUS
  <2> QED BY <1>3, <2>1 DEF AllRest
<1>7. Doings(m, stack, doc, maxCount)
  <2>1. 1 .. Len(<<>>) - 1 = {}
    OBVIOUS
  <2> QED BY <1>1, <1>2, <1>3, <2>1 DEF Doings, Place, DoLine
<1>8. Still(m, stack, batch, own, before, doc, maxCount)
  BY <1>2, <1>5, <1>6, <1>7 DEF Still
<1>9. Charted(m, stack, batch, own, before, calls, ret, doc, maxCount)
  <2>1. Len(calls) \in Nat /\ \A k \in 1 .. Len(calls) : calls[k].fn = "body"
    BY <1>1
  <2> QED BY ONLY <1>8, <2>1, BodiesStill
<1> QED BY <1>9 DEF ChartInv

\* The first loop of an undo or redo starts where the last transaction left the document.
LEMMA BeginsHere ==
    ASSUME StackInv, CallsInv, DocInv, "reenter" \notin Env, NEW m, ChartNow(m),
           NEW dir \in Direction, UndoOrRedo(dir)
    PROVE  ChartNext(m)
<1>1. /\ TypeOK /\ ClientRuns /\ Len(calls) \in Nat
      /\ UNCHANGED <<stack, batch, own, before, doc, maxCount>>
  BY DEF UndoOrRedo, docVars, StackInv, TypeOK
<1>2. \A k \in 1 .. Len(calls) : calls[k].fn = "body"
  BY <1>1, OnlyBodies
<1>3. Still(m, stack, batch, own, before, doc, maxCount)
  <2>1. Charted(m, stack, batch, own, before, calls, ret, doc, maxCount)
    BY DEF ChartNow
  <2> QED BY ONLY <1>1, <1>2, <2>1, BodiesStill
<1>4. Still(m, stack', batch', own', before', doc', maxCount')
  BY <1>1, <1>3
<1>5. CASE calls' = calls
  <2> DEFINE q == calls'
             r == ret'
  <2>1. Len(q) \in Nat /\ \A k \in 1 .. Len(q) : q[k].fn = "body"
    BY <1>1, <1>2, <1>5
  <2> HIDE DEF q, r
  <2>2. Charted(m, stack', batch', own', before', q, r, doc', maxCount')
    BY ONLY <1>4, <2>1, BodiesStill
  <2> QED BY <2>2 DEF ChartNext, q, r
<1>6. CASE /\ stack[DoStack] = <<>>
           /\ calls' = <<MkFrame("kids", dir, 0, "loop", 1)>>
  <2> DEFINE g == MkFrame("kids", dir, 0, "loop", 1)
             q == calls'
  <2>1. g.fn = "kids" /\ g.at = "loop" /\ g.item = 0
    BY DEF MkFrame
  <2> HIDE DEF g
  <2>2. q = <<g>> /\ Len(q) = 1 /\ q[1] = g
    BY <1>6 DEF g
  <2> HIDE DEF q
  <2>3. doc' = m.at[0]
    BY <1>1, <1>3, <1>6 DEF Still, Doings, Place
  <2>4. Here(m, g, stack', ret', doc')
    BY <2>1, <2>3 DEF Here
  <2>5. There(m, q, stack', ret', doc', maxCount')
    <3>1. Undoing(q)
      BY <2>1, <2>2 DEF Undoing
    <3> QED BY <2>2, <2>4, <3>1 DEF There
  <2>6. Began(m, q)
    BY <2>2 DEF Began
  <2>7. Resting(stack', q)
    BY <1>4 DEF Still, AllRest, Resting
  <2>8. m \in Chart /\ Laid(m, stack', batch', own', before')
    BY <1>4 DEF Still
  <2>9. Charted(m, stack', batch', own', before', q, ret', doc', maxCount')
    BY <2>5, <2>6, <2>7, <2>8 DEF Charted
  <2> QED BY <2>9 DEF ChartNext, q
<1> QED BY <1>5, <1>6, BeginsDoc

LEMMA BodiesHere ==
    ASSUME StackInv, CallsInv, StackInv', Harmless, NEW m, ChartNow(m),
           DoFails => Peek(DoStack) = Callee.item,
           \A k \in 1 .. Len(calls) : calls[k].fn = "body",
           \/ Vetoed \/ DoTransaction \/ BeginBatch \/ EndBatch
           \/ ClearHistory \/ SetMaxTransactionCount \/ DoReturns \/ DoFails
    PROVE  \E m2 : ChartNext(m2)
<1>1. Len(calls) \in Nat /\ Len(calls') \in Nat
  BY DEF StackInv, TypeOK
<1>2. \A k \in 1 .. Len(calls') : calls'[k].fn = "body"
  BY BodiesStay
<1>3. StillNow(m)
  <2>1. Charted(m, stack, batch, own, before, calls, ret, doc, maxCount)
    BY DEF ChartNow
  <2>2. \A k \in 1 .. Len(calls) : calls[k].fn = "body"
    OBVIOUS
  <2>3. Still(m, stack, batch, own, before, doc, maxCount)
    BY ONLY <1>1, <2>1, <2>2, BodiesStill
  <2> QED BY <2>3 DEF StillNow
<1>4. PICK m2 : StillNext(m2)
  BY <1>3, StepsStill
<1> DEFINE q == calls'
<1>5. Len(q) \in Nat /\ \A k \in 1 .. Len(q) : q[k].fn = "body"
  BY <1>1, <1>2
<1> HIDE DEF q
<1>6. Still(m2, stack', batch', own', before', doc', maxCount')
  BY <1>4 DEF StillNext
<1>7. Charted(m2, stack', batch', own', before', q, ret', doc', maxCount')
  BY ONLY <1>5, <1>6, BodiesStill
<1> QED BY <1>7 DEF ChartNext, q

LEMMA ChartInvStep ==
    ASSUME StackInv, DoInv, CallsInv, ResultsInv, DocInv, ChartInv, StackInv', Harmless,
           [Next]_vars
    PROVE  ChartInv'
<1> SUFFICES ASSUME RollbackWorks', ~ WillBeStranded PROVE ChartInv'
  BY StrandedNext DEF ChartInv
<1>0. ~ IsStranded /\ (DoFails => Peek(DoStack) = Callee.item)
  BY DoInvStep, BodyStrands, TopIsCallee
<1>1. SUFFICES \E m2 : ChartNext(m2)
  BY ChartInvNext DEF ChartNext
<1>2. PICK m : ChartNow(m)
  BY <1>0, RollbackWorked DEF ChartInv, ChartNow
<1>3. FailuresLast /\ "reenter" \notin Env /\ "vetoChild" \notin Env /\ TypeOK
  BY DEF Harmless, FailuresLast, StackInv
<1>4. CASE \/ Vetoed \/ DoTransaction \/ BeginBatch \/ EndBatch
           \/ ClearHistory \/ SetMaxTransactionCount \/ DoReturns \/ DoFails
  <2>1. ClientRuns
    BY <1>4 DEF Vetoed, DoTransaction, BeginBatch, EndBatch, ClearHistory,
                SetMaxTransactionCount, DoReturns, DoFails, BodyReturns, ClientRuns
  <2>2. \A k \in 1 .. Len(calls) : calls[k].fn = "body"
    BY <1>3, <2>1, OnlyBodies
  <2> QED BY <1>0, <1>2, <1>4, <2>2, BodiesHere
<1>5. CASE \E dir \in Direction : UndoOrRedo(dir)
  BY <1>2, <1>3, <1>5, BeginsHere
<1>6. CASE KidsEnd
  BY <1>2, <1>6, KidsEndHere
<1>7. CASE KidsCall
  BY <1>2, <1>7, KidsCallHere
<1>8. CASE KidsMove
  BY <1>2, <1>3, <1>8, KidsMoveHere
<1>9. CASE \/ UndoItemKidsDone \/ UndoItemCalled \/ UndoItemRecovered
           \/ RedoItemCalled \/ RedoItemKidsDone \/ RedoItemRecovered
  BY <1>2, <1>3, <1>9, ItemStepsHere
<1>10. CASE UNCHANGED vars
  BY <1>2, <1>10 DEF ChartNow, ChartNext, vars
<1>11. ~ KidsVetoed
  BY <1>3 DEF KidsVetoed
<1> QED BY <1>4, <1>5, <1>6, <1>7, <1>8, <1>9, <1>10, <1>11 DEF Next, Client, Progress

\* What is inductive of them, with what the proofs above rest on.
ContextInv == DoInv /\ CallsInv /\ ResultsInv /\ DocInv /\ ChartInv

LEMMA ContextInvInit ==
    ASSUME Init PROVE ContextInv
BY DoInvInit, ResultsInvInit, DocInvInit, ChartInvInit DEF ContextInv

LEMMA ContextInvStep ==
    ASSUME StackInv, ContextInv, StackInv', Harmless, [Next]_vars
    PROVE  ContextInv'
<1>1. FailuresLast /\ "reenter" \notin Env
  BY DEF Harmless, FailuresLast
<1> QED BY <1>1, DoInvStep, ResultsInvStep, DocInvStep, ChartInvStep DEF ContextInv

\* What is undone or redone runs while nothing is being done.
LEMMA NoneStranded ==
    ASSUME StackInv, ContextInv, Running, Callee.fn = "item" PROVE ~ IsStranded
<1>1. Callee = calls[Len(calls)] /\ Len(calls) \in 1 .. Len(calls)
  BY CalleeType DEF StackInv
<1>2. stack[DoStack] = <<>>
  BY <1>1 DEF ContextInv, DocInv, Undoing
<1>3. Len(stack[DoStack]) = 0
  BY <1>2, EmptySeq
<1> QED BY <1>3 DEF IsStranded, Stranded, Doing

LEMMA CalledInContext ==
    ASSUME StackInv, ContextInv PROVE InContext
<1> SUFFICES ASSUME In("item", "calling"), RollbackWorks
             PROVE  IF Callee.dir = "undo" THEN IsSuffix(own[Callee.item], doc)
                    ELSE doc = before[Callee.item]
  BY DEF InContext
<1> DEFINE i == Callee.item
<1>1. PICK m : ChartNow(m)
  BY NoneStranded DEF ContextInv, ChartInv, ChartNow, In
<1>2. /\ Running /\ Callee.fn = "item" /\ Callee.at = "calling"
      /\ Callee = calls[Len(calls)] /\ Len(calls) \in 1 .. Len(calls)
      /\ Callee.dir \in Direction /\ i \in Item
      /\ own \in [Item -> Seq(Item)]
  BY CalleeType DEF In, StackInv, TypeOK, Frame
<1>3. i \notin batch
  BY <1>2 DEF ContextInv, ResultsInv, Results, Honest
<1>4. /\ m \in Chart /\ Laid(m, stack, batch, own, before)
      /\ Here(m, Callee, stack, ret, doc)
  BY <1>1, <1>2, CalleeHere DEF ChartNow, Charted
<1>5. /\ Due(stack, "undo", i) = <<>>
      /\ doc = IF Callee.dir = "undo" THEN m.at[i] ELSE m.pre[i]
  BY <1>2, <1>4, SMTT(30) DEF Here
<1>6. m.at[i] = m.pre[i] \o own[i] /\ m.pre[i] = before[i]
  BY <1>2, <1>3, <1>4, <1>5, ItemEnds
<1>7. m.pre[i] \in Seq(Item) /\ own[i] \in Seq(Item)
  BY <1>2, <1>4 DEF Chart, Doc
<1>8. IsSuffix(own[i], m.pre[i] \o own[i])
  BY <1>7, LastInForce
<1> QED BY <1>5, <1>6, <1>8

LEMMA ItemFailureRecovers ==
    ASSUME StackInv, ContextInv, StackInv', Harmless, [Next]_vars,
           Running, Callee.fn = "item", calls' = Front(calls), ret' = "fail", RollbackWorks'
    PROVE  doc' = Callee.doc0
<1>1. FailuresLast /\ "reenter" \notin Env /\ TypeOK
  BY DEF Harmless, FailuresLast, StackInv
<1>2. /\ Callee = calls[Len(calls)] /\ Len(calls) \in 1 .. Len(calls)
      /\ Len(calls') = Len(calls) - 1 /\ Len(calls) \in Nat
  BY <1>1, CalleeType
<1>3. ~ ClientRuns
  BY <1>1, <1>2, OnlyBodies DEF ContextInv
<1>4. ~ (Client \/ DoReturns \/ DoFails \/ EndBatch)
  BY <1>3 DEF Client, Vetoed, DoTransaction, BeginBatch, EndBatch, ClearHistory,
              SetMaxTransactionCount, UndoOrRedo, DoReturns, DoFails, BodyReturns, ClientRuns
<1>5. ~ (KidsEnd \/ KidsVetoed \/ KidsCall \/ KidsMove)
  BY DEF KidsEnd, KidsVetoed, KidsCall, KidsMove, In
<1>6. ~ UNCHANGED vars
  BY <1>2 DEF vars
<1>7. \/ UndoItemKidsDone \/ UndoItemCalled \/ UndoItemRecovered
      \/ RedoItemCalled \/ RedoItemKidsDone \/ RedoItemRecovered
  BY <1>4, <1>5, <1>6 DEF Next, Progress
<1>8. PICK m : ChartNow(m)
  BY NoneStranded, RollbackWorked DEF ContextInv, ChartInv, ChartNow
<1>9. ChartNext(m)
  BY <1>1, <1>7, <1>8, ItemStepsHere DEF ContextInv
<1> QED BY <1>8, <1>9, FailedHere DEF ContextInv

\* Where a failure lasts and nothing interrupts an undo or redo, a transaction is
\* undone only while its effects are the last of the document, and redone only on the
\* document it was done on, as long as what has failed for good can be taken back.  It
\* is not so where what is undone calls the manager ("reenter"), where a failure comes
\* and goes ("flaky"), where a listener stops a loop or replaces its result
\* ("vetoChild", "didFail"), where a transaction is done without being recorded
\* ("transient") or is lost when a listener refuses its merge ("mergeVeto").
THEOREM UndoneAndRedoneInContext ==
    ASSUME {"reenter", "flaky", "vetoChild", "didFail", "transient", "mergeVeto"}
              \cap Env = {}
    PROVE  Spec => []InContext
<1>1. Harmless
  BY DEF Harmless, FailuresLast
<1>2. Init => ContextInv
  BY ContextInvInit
<1>3. StackInv /\ ContextInv /\ StackInv' /\ [Next]_vars => ContextInv'
  BY <1>1, ContextInvStep
<1>4. StackInv /\ ContextInv => InContext
  BY CalledInContext
<1> QED BY <1>2, <1>3, <1>4, StackInvariance, PTL DEF Spec

\* Under the same conditions an undo or redo of an item that fails, at any depth and
\* whatever of its children had succeeded before, leaves the document as it found it:
\* RecoverFromUndoError and RecoverFromRedoError take everything back.
THEOREM FailuresRecover ==
    ASSUME {"reenter", "flaky", "vetoChild", "didFail", "transient", "mergeVeto"}
              \cap Env = {}
    PROVE  Spec => FailureRecovers
<1>1. Harmless
  BY DEF Harmless, FailuresLast
<1>2. Init => ContextInv
  BY ContextInvInit
<1>3. StackInv /\ ContextInv /\ StackInv' /\ [Next]_vars => ContextInv'
  BY <1>1, ContextInvStep
<1>4. StackInv /\ ContextInv /\ StackInv' /\ [Next]_vars
      => [(/\ Running /\ Callee.fn = "item"
           /\ calls' = Front(calls) /\ ret' = "fail" /\ RollbackWorks')
          => doc' = Callee.doc0]_vars
  BY <1>1, ItemFailureRecovers
<1> QED BY <1>2, <1>3, <1>4, StackInvariance, PTL DEF Spec, FailureRecovers

=============================================================================
