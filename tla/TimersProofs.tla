---------------------------- MODULE TimersProofs ----------------------------
(***************************************************************************)
(* Theorems about Timers, for every value of its constants.                *)
(***************************************************************************)
EXTENDS Timers, FiniteSetTheorems, SequenceTheorems, WellFoundedInduction, TLAPS

Event == [timer : Timers, generation : 0 .. MaxCalls]
Frame == [timer : Timers, callback : 0 .. MaxCalls]

\* Whoever handles a timer has one, and a generation is never ahead of gGenerator.
HasTimers ==
    /\ thread.at \in {"post", "arm", "add", "dispatch"} => thread.timer \in Timers
    /\ call.rest # "none" => call.timer \in Timers

Numbered ==
    /\ thread.generation <= calls
    /\ \A t \in Timers : timer[t].generation <= calls
    /\ \A k \in 1 .. Len(queue) : queue[k].generation <= calls

TypeInv == TypeOK /\ HasTimers /\ Numbered

\* What a timer would call, its client wants to be called.
CallbacksAreWanted == \A t \in Timers : timer[t].callback \in {0, wanted[t].init}

\* Frame k is the innermost of its timer that has called a callback.
Innermost(k) ==
    /\ stack[k].callback # 0
    /\ \A j \in 1 .. Len(stack) : j > k /\ stack[j].timer = stack[k].timer => stack[j].callback = 0

\* So is what Fire() would restore.
RestoredIsWanted ==
    \A k \in 1 .. Len(stack) :
        Restores(timer[stack[k].timer]) /\ Innermost(k)
        => stack[k].callback = wanted[stack[k].timer].init

\* A one-shot timer that has fired has no callback.
SpentIsReleased ==
    \A t \in Timers : timer[t].type = "oneShot" /\ wanted[t].fired => timer[t].callback = 0

CallbackInv == CallbacksAreWanted /\ RestoredIsWanted /\ SpentIsReleased

\* A timer which is not in a race is due when its timeout has come,
TimeoutsCover ==
    \A t \in Timers \ raced :
        /\ wanted[t].due <= Larger(timer[t].timeout, MaxAdjustment)
        /\ wanted[t].due <= Larger(timer[t].delay, MaxAdjustment)

\* and hence when it is off the list,
HeldIsDue == \A t \in Timers \ raced : Holds(t) => wanted[t].due <= MaxAdjustment

\* and when an event for its last initialization is about to be, or has been, posted.
EventsAreDue ==
    \A t \in Timers \ raced :
        /\ /\ thread.at = "dispatch" /\ thread.timer = t
           /\ thread.generation = timer[t].generation
           => wanted[t].due <= MaxAdjustment
        /\ \A k \in 1 .. Len(queue) :
             queue[k].timer = t /\ queue[k].generation = timer[t].generation
             => wanted[t].due <= MaxAdjustment

DueInv == TimeoutsCover /\ HeldIsDue /\ EventsAreDue

----------------------------------------------------------------------------
(***************************************************************************)
(* Lemmas about the list of timers.                                        *)
(***************************************************************************)

LEMMA SliceOfSeq ==
    ASSUME NEW S, NEW q \in Seq(S), NEW a \in Int, NEW b \in Int, a >= 1, b <= Len(q)
    PROVE  SubSeq(q, a, b) \in Seq(S)
<1>1. \A k \in a .. b : q[k] \in S
  BY ElementOfSeq
<1> QED BY <1>1, SubSeqProperties

LEMMA LeastOf ==
    ASSUME NEW I \in SUBSET Nat, I # {}
    PROVE  Min(I) \in I /\ \A y \in I : Min(I) <= y
<1>1. PICK x \in I : \A y \in I : ~ (<<y, x>> \in OpToRel(<, Nat))
  BY NatLessThanWellFounded, WFMin
<1>2. ASSUME NEW y \in I, y < x
      PROVE  FALSE
  <2>1. <<y, x>> \in Nat \X Nat /\ <<y, x>>[1] = y /\ <<y, x>>[2] = x
    OBVIOUS
  <2>2. <<y, x>> \in OpToRel(<, Nat)
    BY <2>1, <1>2 DEF OpToRel
  <2> QED BY <1>1, <2>2
<1>3. \A y \in I : x <= y
  BY <1>2
<1> QED BY <1>3 DEF Min

\* The place found for a timer is one where it can be put.
LEMMA PlaceInList ==
    ASSUME NEW list \in Seq(Timers), NEW t \in Timers
    PROVE  Place(list, t) \in 1 .. Len(list) + 1
<1> DEFINE I == {i \in 1 .. Len(list) : /\ TimeLeft(list[i]) > 0
                                        /\ timer[t].timeout < timer[list[i]].timeout}
           k == IF I # {} THEN Min(I) ELSE 0
<1>1. I \in SUBSET Nat /\ I \subseteq 1 .. Len(list) /\ Len(list) \in Nat
  OBVIOUS
<1>2. k \in 0 .. Len(list)
  <2>1. ASSUME I # {}
        PROVE  Min(I) \in 1 .. Len(list)
    <3> HIDE DEF I
    <3> QED BY <1>1, <2>1, LeastOf
  <2>2. Len(list) \in Nat
    BY <1>1
  <2> QED BY <2>1, <2>2
<1>3. SelectInSeq(list, LAMBDA u : /\ TimeLeft(u) > 0
                                   /\ timer[t].timeout < timer[u].timeout) = k
  BY DEF SelectInSeq
<1> QED BY <1>2, <1>3 DEF Place

LEMMA InsertedIsList ==
    ASSUME NEW list \in Seq(Timers), NEW t \in Timers
    PROVE  InsertAt(list, Place(list, t), t) \in Seq(Timers)
<1> DEFINE k == Place(list, t)
<1>1. k \in 1 .. Len(list) + 1
  BY PlaceInList
<1>2. SubSeq(list, 1, k - 1) \in Seq(Timers) /\ SubSeq(list, k, Len(list)) \in Seq(Timers)
  BY <1>1, SliceOfSeq
<1>3. <<t>> \in Seq(Timers)
  OBVIOUS
<1> QED BY <1>2, <1>3, ConcatProperties DEF InsertAt

LEMMA RemovedIsList ==
    ASSUME NEW list \in Seq(Timers), NEW t
    PROVE  RemoveFirst(list, t) \in Seq(Timers)
<1> DEFINE I == {i \in 1 .. Len(list) : list[i] = t}
<1>1. CASE I # {}
  <2>1. Min(I) \in 1 .. Len(list)
    <3>1. I \in SUBSET Nat /\ I \subseteq 1 .. Len(list)
      OBVIOUS
    <3> HIDE DEF I
    <3> QED BY <1>1, <3>1, LeastOf
  <2>2. SelectInSeq(list, LAMBDA v : v = t) = Min(I)
    BY <1>1 DEF SelectInSeq
  <2>3. RemoveFirst(list, t) = RemoveAt(list, Min(I))
    BY <1>1, <2>2 DEF RemoveFirst
  <2>4. /\ SubSeq(list, 1, Min(I) - 1) \in Seq(Timers)
        /\ SubSeq(list, Min(I) + 1, Len(list)) \in Seq(Timers)
    <3> DEFINE m == Min(I)
    <3>1. m - 1 \in Int /\ m + 1 \in Int /\ 1 <= m + 1 /\ m - 1 <= Len(list) /\ Len(list) \in Nat
      BY <2>1
    <3> HIDE DEF m
    <3>2. SubSeq(list, 1, m - 1) \in Seq(Timers)
      BY <3>1, SliceOfSeq
    <3>3. SubSeq(list, m + 1, Len(list)) \in Seq(Timers)
      BY <3>1, SliceOfSeq
    <3> QED BY <3>2, <3>3 DEF m
  <2> QED BY <2>3, <2>4, ConcatProperties DEF RemoveAt
<1>2. CASE I = {}
  BY <1>2 DEF RemoveFirst
<1> QED BY <1>1, <1>2

----------------------------------------------------------------------------
(***************************************************************************)
(* Types.                                                                  *)
(***************************************************************************)

LEMMA NotifiedThread ==
    ASSUME TypeInv
    PROVE  /\ Notified \in Thread
           /\ Notified.generation = thread.generation /\ Notified.timer = thread.timer
           /\ Notified.at # "scan" => Notified = thread
           /\ Notified.at = "scan" => thread.at \in {"scan", "waiting", "asleep"}
BY DEF TypeInv, TypeOK, Thread, Notified, Waits

LEMMA AdjustmentType ==
    ASSUME TypeInv
    PROVE  MaxAdjustment \in Nat /\ mTimeoutAdjustment \in - MaxAdjustment .. MaxAdjustment
BY TimersAssumption DEF TypeInv, TypeOK

\* RemoveTimer() may notify, AddTimer() too, and nothing else of the thread changes.
LEMMA AwakenedThread ==
    ASSUME NEW list, NEW t
    PROVE  Awakened(list, t) \in {thread, Notified}
BY DEF Awakened

LEMMA InsertTypes ==
    ASSUME TypeInv, NEW list \in Seq(Timers), NEW t \in Timers, Insert(list, t)
    PROVE  /\ mTimers' \in Seq(Timers)
           /\ timer' \in [Timers -> Timer]
           /\ \A u \in Timers : timer'[u] \in {timer[u], [timer[u] EXCEPT !.armed = TRUE]}
           /\ \A u \in Timers : timer'[u].generation = timer[u].generation
<1>1. mTimers \in Seq(Timers) /\ timer \in [Timers -> Timer]
  BY DEF TypeInv, TypeOK
<1>2. InsertAt(list, Place(list, t), t) \in Seq(Timers)
  BY InsertedIsList
<1>3. CASE mShutdown
  BY <1>1, <1>3 DEF Insert
<1>4. CASE ~ mShutdown
  <2>1. /\ mTimers' \in Seq(Timers)
        /\ timer' = [timer EXCEPT ![t] = [timer[t] EXCEPT !.armed = TRUE]]
    BY <1>2, <1>4 DEF Insert
  <2>2. /\ [timer[t] EXCEPT !.armed = TRUE] \in Timer
        /\ [timer[t] EXCEPT !.armed = TRUE].generation = timer[t].generation
    BY <1>1 DEF Timer
  <2> QED BY <1>1, <2>1, <2>2
<1> QED BY <1>3, <1>4

LEMMA RescheduledType ==
    ASSUME NEW r \in Timer, NEW delay \in Nat
    PROVE  /\ Rescheduled(r, delay) \in Timer
           /\ Rescheduled(r, delay).callback = r.callback
           /\ Rescheduled(r, delay).type = r.type
           /\ Rescheduled(r, delay).firing = r.firing
           /\ Rescheduled(r, delay).armed = r.armed
           /\ Rescheduled(r, delay).canceled = r.canceled
           /\ Rescheduled(r, delay).generation = r.generation
           /\ Rescheduled(r, delay).delay = delay
           /\ r.type # "precise" => Rescheduled(r, delay).timeout = delay
<1> DEFINE x == delay + IF r.type = "precise" THEN r.timeout ELSE 0
<1>1. r.timeout \in Int
  BY DEF Timer
<1>2. x \in Int /\ (r.type # "precise" => x = delay)
  BY <1>1
<1>3. Rescheduled(r, delay) = [r EXCEPT !.delay = delay, !.timeout = x]
  BY DEF Rescheduled
<1> HIDE DEF x
<1> QED BY <1>2, <1>3 DEF Timer

LEMMA StackFrames ==
    ASSUME TypeInv, stack # <<>>
    PROVE  /\ Last(stack) \in Frame /\ Last(stack) = stack[Len(stack)]
           /\ Front(stack) \in Seq(Frame)
           /\ Len(Front(stack)) = Len(stack) - 1 /\ Len(stack) \in Nat \ {0}
           /\ \A k \in 1 .. Len(stack) - 1 : Front(stack)[k] = stack[k]
<1>1. stack \in Seq(Frame)
  BY DEF TypeInv, TypeOK, Frame
<1>2. Len(stack) \in Nat \ {0} /\ \A k \in 1 .. Len(stack) : stack[k] \in Frame
  BY <1>1, EmptySeq, ElementOfSeq
<1> DEFINE n == Len(stack) - 1
<1>4. n \in Int /\ n >= 0 /\ \A k \in 1 .. n : stack[k] \in Frame
  BY <1>2
<1>5. /\ SubSeq(stack, 1, n) \in Seq(Frame)
      /\ Len(SubSeq(stack, 1, n)) = n
      /\ \A k \in 1 .. n : SubSeq(stack, 1, n)[k] = stack[k]
  <2> HIDE DEF n
  <2>1. /\ SubSeq(stack, 1, n) \in Seq(Frame)
        /\ Len(SubSeq(stack, 1, n)) = IF 1 <= n THEN n - 1 + 1 ELSE 0
        /\ \A k \in 1 .. n - 1 + 1 : SubSeq(stack, 1, n)[k] = stack[1 + k - 1]
    BY <1>4, SubSeqProperties
  <2> QED BY <2>1, <1>4
<1>6. Last(stack) = stack[Len(stack)] /\ Front(stack) = SubSeq(stack, 1, n)
  BY DEF Last, Front
<1>7. stack[Len(stack)] \in Frame
  BY <1>2
<1> QED BY <1>2, <1>5, <1>6, <1>7

LEMMA QueuedEvents ==
    ASSUME TypeInv, queue # <<>>
    PROVE  /\ Head(queue) \in Event /\ Head(queue) = queue[1] /\ 1 \in 1 .. Len(queue)
           /\ Tail(queue) \in Seq(Event)
           /\ \A k \in 1 .. Len(Tail(queue)) :
                k + 1 \in 1 .. Len(queue) /\ Tail(queue)[k] = queue[k + 1]
<1>1. queue \in Seq(Event)
  BY DEF TypeInv, TypeOK, Event
<1> QED BY <1>1, HeadTailProperties, EmptySeq

\* What only adds to the numbers given out, and leaves the queue alone.
LEMMA NumbersStay ==
    ASSUME TypeInv, UNCHANGED queue, calls' \in Nat, calls <= calls',
           thread'.generation \in {0, thread.generation},
           \A u \in Timers : timer'[u].generation \in {timer[u].generation, calls'}
    PROVE  Numbered'
<1>1. calls \in Nat /\ thread.generation \in Nat /\ queue \in Seq(Event)
  BY TimersAssumption DEF TypeInv, TypeOK, Thread, Event
<1>2. \A k \in 1 .. Len(queue) : queue[k].generation \in Nat
  <2>1. \A e \in Event : e.generation \in Nat
    BY TimersAssumption DEF Event
  <2> QED BY <1>1, <2>1, ElementOfSeq
<1>3. \A u \in Timers : timer[u].generation \in Nat
  BY TimersAssumption DEF TypeInv, TypeOK, Timer
<1> QED BY <1>1, <1>2, <1>3 DEF TypeInv, Numbered

\* What the calls of Init, Cancel and SetDelay have in common.
LEMMA CallsNumber ==
    ASSUME TypeInv, Calls
    PROVE  /\ calls' \in 1 .. MaxCalls /\ calls \in Nat /\ calls' \in Nat /\ calls' = calls + 1
           /\ call.rest = "none"
           /\ stack # <<>> => Last(stack).callback # 0
BY TimersAssumption DEF TypeInv, TypeOK, Calls, ClientRuns

LEMMA InitTypes ==
    ASSUME TypeInv, NEW t \in Timers, InitTimer(t)
    PROVE  TypeInv'
<1> USE TimersAssumption
<1>1. /\ calls' \in 1 .. MaxCalls /\ calls \in Nat /\ calls' \in Nat /\ calls' = calls + 1
      /\ timer \in [Timers -> Timer] /\ mTimers \in Seq(Timers) /\ raced \in SUBSET Timers
      /\ wanted \in [Timers -> [init : 0 .. MaxCalls, due : Nat, fired : BOOLEAN]]
  BY CallsNumber DEF InitTimer, TypeInv, TypeOK
<1>2. mTimers' \in Seq(Timers)
  BY <1>1, RemovedIsList DEF InitTimer
<1>3. thread' \in {thread, Notified}
  BY DEF InitTimer
<1>4. /\ timer' \in [Timers -> Timer]
      /\ wanted' \in [Timers -> [init : 0 .. MaxCalls, due : Nat, fired : BOOLEAN]]
      /\ \A u \in Timers : timer'[u].generation \in {timer[u].generation, calls'}
  <2>1. PICK type \in Types, delay \in Delays :
         /\ timer' = [timer EXCEPT ![t] =
                        [timer[t] EXCEPT !.callback = calls', !.generation = calls',
                                  !.canceled = FALSE, !.armed = timer[t].armed /\ ~ Listed(t),
                                  !.type = type, !.delay = delay, !.timeout = delay]]
         /\ wanted' = [wanted EXCEPT ![t] = [init |-> calls', due |-> delay, fired |-> FALSE]]
    BY DEF InitTimer
  <2>2. type \in AllTypes /\ delay \in Nat /\ delay \in Int /\ calls' \in 0 .. MaxCalls
    BY <1>1
  <2>3. timer[t] \in Timer
    BY <1>1
  <2>4. [timer[t] EXCEPT !.callback = calls', !.generation = calls',
                                  !.canceled = FALSE, !.armed = timer[t].armed /\ ~ Listed(t),
                                  !.type = type, !.delay = delay, !.timeout = delay] \in Timer
    BY <2>2, <2>3 DEF Timer
  <2>5. timer'[t].generation = calls' /\ \A u \in Timers \ {t} : timer'[u] = timer[u]
    BY <1>1, <2>1, <2>3 DEF Timer
  <2> QED BY <1>1, <2>1, <2>2, <2>4, <2>5
<1>5. call' = [rest |-> "add", timer |-> t] /\ UNCHANGED <<mShutdown, mTimeoutAdjustment, queue, stack>>
  BY DEF InitTimer
<1>6. raced' \in SUBSET Timers
  BY <1>1 DEF InitTimer, Races
<1>7. Numbered'
  <2>1. thread'.generation \in {0, thread.generation}
    BY <1>3, NotifiedThread
  <2> QED BY <1>1, <1>4, <1>5, <2>1, NumbersStay
<1>8. thread' \in Thread /\ HasTimers'
  BY <1>3, <1>5, NotifiedThread DEF TypeInv, TypeOK, HasTimers
<1> QED BY <1>1, <1>2, <1>4, <1>5, <1>6, <1>7, <1>8 DEF TypeInv, TypeOK

LEMMA InitFailsTypes ==
    ASSUME TypeInv, NEW t \in Timers, InitFails(t)
    PROVE  TypeInv'
<1> USE TimersAssumption
<1>1. /\ calls' \in 1 .. MaxCalls /\ calls \in Nat /\ calls' \in Nat /\ calls' = calls + 1
      /\ timer \in [Timers -> Timer]
      /\ wanted \in [Timers -> [init : 0 .. MaxCalls, due : Nat, fired : BOOLEAN]]
  BY CallsNumber DEF InitFails, TypeInv, TypeOK
<1>2. /\ timer' = [timer EXCEPT ![t] = [timer[t] EXCEPT !.callback = calls']]
      /\ wanted' = [wanted EXCEPT ![t] = [wanted[t] EXCEPT !.init = calls', !.fired = FALSE]]
      /\ UNCHANGED <<mTimers, mShutdown, mTimeoutAdjustment, thread, queue, stack, call, raced>>
  BY <1>1 DEF InitFails, lists
<1>3. /\ timer[t] \in Timer /\ calls' \in 0 .. MaxCalls
      /\ wanted[t] \in [init : 0 .. MaxCalls, due : Nat, fired : BOOLEAN]
  BY <1>1
<1>4. /\ [timer[t] EXCEPT !.callback = calls'] \in Timer
      /\ [timer[t] EXCEPT !.callback = calls'].generation = timer[t].generation
  BY <1>3 DEF Timer
<1>5. [wanted[t] EXCEPT !.init = calls', !.fired = FALSE]
        \in [init : 0 .. MaxCalls, due : Nat, fired : BOOLEAN]
  BY <1>3
<1>6. /\ timer' \in [Timers -> Timer]
      /\ wanted' \in [Timers -> [init : 0 .. MaxCalls, due : Nat, fired : BOOLEAN]]
      /\ \A u \in Timers : timer'[u].generation = timer[u].generation
  BY <1>1, <1>2, <1>4, <1>5
<1>7. Numbered'
  BY <1>1, <1>2, <1>6, NumbersStay
<1> QED BY <1>1, <1>2, <1>6, <1>7 DEF TypeInv, TypeOK, HasTimers

LEMMA CancelTypes ==
    ASSUME TypeInv, NEW t \in Timers, Cancel(t)
    PROVE  TypeInv'
<1> USE TimersAssumption
<1>1. /\ calls' \in 1 .. MaxCalls /\ calls \in Nat /\ calls' \in Nat /\ calls' = calls + 1
      /\ timer \in [Timers -> Timer] /\ mTimers \in Seq(Timers)
      /\ wanted \in [Timers -> [init : 0 .. MaxCalls, due : Nat, fired : BOOLEAN]]
  BY CallsNumber DEF Cancel, TypeInv, TypeOK
<1>2. mTimers' \in Seq(Timers)
  BY <1>1, RemovedIsList DEF Cancel
<1>3. thread' \in {thread, Notified}
  BY DEF Cancel
<1>4. /\ timer' \in [Timers -> Timer]
      /\ \A u \in Timers : timer'[u].generation = timer[u].generation
  <2>1. timer' = [timer EXCEPT ![t] = [timer[t] EXCEPT !.canceled = TRUE, !.callback = 0,
                                                     !.armed = timer[t].armed /\ ~ Listed(t)]]
    BY <1>1 DEF Cancel
  <2>2. timer[t] \in Timer /\ 0 \in 0 .. MaxCalls
    BY <1>1
  <2> QED BY <1>1, <2>1, <2>2 DEF Timer
<1>5. wanted' \in [Timers -> [init : 0 .. MaxCalls, due : Nat, fired : BOOLEAN]]
  <2>1. wanted' = [wanted EXCEPT ![t] = [wanted[t] EXCEPT !.init = 0]]
    BY DEF Cancel
  <2>2. [wanted[t] EXCEPT !.init = 0] \in [init : 0 .. MaxCalls, due : Nat, fired : BOOLEAN]
    <3>1. wanted[t] \in [init : 0 .. MaxCalls, due : Nat, fired : BOOLEAN] /\ 0 \in 0 .. MaxCalls
      BY <1>1
    <3> QED BY <3>1
  <2> QED BY <1>1, <2>1, <2>2
<1>6. UNCHANGED <<mShutdown, mTimeoutAdjustment, queue, stack, call, raced>>
  BY DEF Cancel
<1>7. Numbered'
  <2>1. thread'.generation \in {0, thread.generation}
    BY <1>3, NotifiedThread
  <2> QED BY <1>1, <1>4, <1>6, <2>1, NumbersStay
<1>8. thread' \in Thread /\ HasTimers'
  BY <1>3, <1>6, NotifiedThread DEF TypeInv, TypeOK, HasTimers
<1> QED BY <1>1, <1>2, <1>4, <1>5, <1>6, <1>7, <1>8 DEF TypeInv, TypeOK

LEMMA SetDelayTypes ==
    ASSUME TypeInv, NEW t \in Timers, SetDelay(t)
    PROVE  TypeInv'
<1> USE TimersAssumption
<1>1. /\ calls' \in 1 .. MaxCalls /\ calls \in Nat /\ calls' \in Nat /\ calls' = calls + 1
      /\ timer \in [Timers -> Timer] /\ raced \in SUBSET Timers
      /\ wanted \in [Timers -> [init : 0 .. MaxCalls, due : Nat, fired : BOOLEAN]]
  BY CallsNumber DEF SetDelay, lists, TypeInv, TypeOK
<1>2. /\ timer' \in [Timers -> Timer]
      /\ wanted' \in [Timers -> [init : 0 .. MaxCalls, due : Nat, fired : BOOLEAN]]
      /\ \A u \in Timers : timer'[u].generation = timer[u].generation
  <2>1. PICK delay \in Delays :
          /\ timer' = [timer EXCEPT ![t] = [timer[t] EXCEPT !.delay = delay, !.timeout = delay]]
          /\ wanted' = [wanted EXCEPT ![t] = [wanted[t] EXCEPT !.due = Smaller(wanted[t].due, delay)]]
    BY <1>1 DEF SetDelay, lists
  <2>2. timer[t] \in Timer /\ delay \in Nat /\ delay \in Int
    BY <1>1
  <2>3. Smaller(wanted[t].due, delay) \in Nat
    BY <1>1, <2>2 DEF Smaller
  <2>4. /\ [timer[t] EXCEPT !.delay = delay, !.timeout = delay] \in Timer
        /\ [timer[t] EXCEPT !.delay = delay, !.timeout = delay].generation = timer[t].generation
    BY <2>2 DEF Timer
  <2> QED BY <1>1, <2>1, <2>3, <2>4
<1>3. /\ call' \in {call, [rest |-> "change", timer |-> t]}
      /\ UNCHANGED <<mTimers, mShutdown, mTimeoutAdjustment, thread, queue, stack>>
  BY DEF SetDelay, lists
<1>4. raced' \in SUBSET Timers
  BY <1>1 DEF SetDelay, lists, Races
<1>5. Numbered'
  BY <1>1, <1>2, <1>3, NumbersStay
<1>6. TypeOK'
  BY <1>1, <1>2, <1>3, <1>4 DEF TypeInv, TypeOK
<1>7. HasTimers'
  BY <1>3 DEF TypeInv, HasTimers
<1> QED BY <1>5, <1>6, <1>7 DEF TypeInv

LEMMA CallTypes ==
    ASSUME TypeInv, CallStep
    PROVE  TypeInv'
<1> USE TimersAssumption
<1>1. call.timer \in Timers
  BY DEF CallStep, AddTimer, TimerDelayChanged, TypeInv, HasTimers
<1>2. \E list \in Seq(Timers) : /\ Insert(list, call.timer)
                                /\ thread' = Awakened(list, call.timer)
  <2>1. mTimers \in Seq(Timers) /\ RemoveFirst(mTimers, call.timer) \in Seq(Timers)
    BY RemovedIsList DEF TypeInv, TypeOK
  <2> QED BY <2>1 DEF CallStep, AddTimer, TimerDelayChanged
<1>3. /\ mTimers' \in Seq(Timers) /\ timer' \in [Timers -> Timer]
      /\ \A u \in Timers : timer'[u].generation = timer[u].generation
      /\ thread' \in {thread, Notified}
  BY <1>1, <1>2, InsertTypes, AwakenedThread
<1>4. call' = NoCall /\ raced' \in SUBSET Timers /\ UNCHANGED <<mShutdown, mTimeoutAdjustment, queue, stack, calls, wanted>>
  BY <1>1 DEF CallStep, AddTimer, TimerDelayChanged, Races, TypeInv, TypeOK
<1>5. Numbered'
  BY <1>3, <1>4, NotifiedThread, NumbersStay, TimersAssumption DEF TypeInv, TypeOK
<1> QED BY <1>3, <1>4, <1>5, NotifiedThread DEF TypeInv, TypeOK, HasTimers, NoCall

LEMMA ShutdownTypes ==
    ASSUME TypeInv, Shutdown
    PROVE  TypeInv'
<1> USE TimersAssumption
<1>1. timer \in [Timers -> Timer] /\ 0 \in 0 .. MaxCalls /\ calls \in Nat
  BY DEF TypeInv, TypeOK
<1>2. /\ mTimers' = <<>> /\ mShutdown' = TRUE /\ thread' = Notified
      /\ mTimeoutAdjustment' = mTimeoutAdjustment
      /\ timer' = [t \in Timers |->
                     IF Listed(t) THEN [timer[t] EXCEPT !.callback = 0, !.armed = FALSE]
                                  ELSE timer[t]]
      /\ UNCHANGED <<queue, stack, call, calls, wanted, raced>>
  BY DEF Shutdown, history
<1>3. \A t \in Timers : timer'[t] \in Timer /\ timer'[t].generation = timer[t].generation
  BY <1>1, <1>2 DEF Timer
<1>4. mTimers' \in Seq(Timers)
  <2>1. mTimers' = <<>>
    BY <1>2
  <2> QED BY <2>1
<1>5. timer' \in [Timers -> Timer]
  <2> DEFINE New(u) == IF Listed(u) THEN [timer[u] EXCEPT !.callback = 0, !.armed = FALSE]
                                    ELSE timer[u]
  <2>1. timer' = [u \in Timers |-> New(u)]
    BY <1>2
  <2> HIDE DEF New
  <2> QED BY <1>3, <2>1
<1>6. Numbered'
  <2>1. thread'.generation = thread.generation
    BY <1>2, NotifiedThread
  <2>2. UNCHANGED queue /\ calls' = calls
    BY <1>2
  <2> QED BY <1>1, <1>3, <2>1, <2>2, NumbersStay
<1> QED BY <1>2, <1>4, <1>5, <1>6, NotifiedThread DEF TypeInv, TypeOK, HasTimers

LEMMA ShutdownReturnsTypes ==
    ASSUME TypeInv, ShutdownReturns
    PROVE  TypeInv'
<1>1. thread \in Thread
  BY DEF TypeInv, TypeOK
<1>2. /\ thread' \in Thread /\ thread'.at = "gone" /\ thread'.generation = thread.generation
      /\ UNCHANGED <<mTimers, mShutdown, mTimeoutAdjustment, timer, queue, stack, call, calls,
                    wanted, raced>>
  BY <1>1 DEF ShutdownReturns, Thread, timerVars, history
<1> QED BY <1>2 DEF TypeInv, TypeOK, HasTimers, Numbered

LEMMA EventTypes ==
    ASSUME TypeInv, RunEvent
    PROVE  TypeInv'
<1> USE TimersAssumption
<1>1. queue # <<>> /\ queue' = Tail(queue)
  BY DEF RunEvent, DropEvent, Fire, RunsEvents
<1>2. /\ queue' \in Seq(Event) /\ Head(queue) \in Event
      /\ \A k \in 1 .. Len(queue') : k + 1 \in 1 .. Len(queue) /\ queue'[k] = queue[k + 1]
  BY <1>1, QueuedEvents
<1>3. /\ timer \in [Timers -> Timer] /\ stack \in Seq(Frame)
      /\ wanted \in [Timers -> [init : 0 .. MaxCalls, due : Nat, fired : BOOLEAN]]
  BY DEF TypeInv, TypeOK, Frame
<1>4. /\ timer' \in [Timers -> Timer]
      /\ \A u \in Timers : timer'[u].generation = timer[u].generation
      /\ wanted' \in [Timers -> [init : 0 .. MaxCalls, due : Nat, fired : BOOLEAN]]
      /\ stack' \in Seq(Frame)
      /\ mTimeoutAdjustment' \in - MaxAdjustment .. MaxAdjustment
      /\ UNCHANGED <<mTimers, mShutdown, thread, call, calls, raced>>
  <2>1. CASE DropEvent
    BY <1>3, <2>1, AdjustmentType DEF DropEvent, timerVars, history
  <2>2. CASE Fire
    <3> DEFINE t == Head(queue).timer
               callback == timer[t].callback
    <3>1. /\ stack' = Append(stack, [timer |-> t, callback |-> callback])
          /\ timer' = [timer EXCEPT ![t] = [timer[t] EXCEPT !.callback = 0, !.firing = TRUE]]
          /\ wanted' = [wanted EXCEPT ![t] = [wanted[t] EXCEPT !.fired = wanted[t].fired \/ callback # 0]]
          /\ mTimeoutAdjustment' \in - MaxAdjustment .. MaxAdjustment
          /\ UNCHANGED <<mTimers, mShutdown, thread, call, calls, raced>>
      BY <2>2 DEF Fire, UpdateFilter
    <3>2. t \in Timers
      BY <1>2 DEF Event
    <3>3. /\ timer[t] \in Timer
          /\ wanted[t] \in [init : 0 .. MaxCalls, due : Nat, fired : BOOLEAN]
      BY <1>3, <3>2
    <3>4. callback \in 0 .. MaxCalls /\ (wanted[t].fired \/ callback # 0) \in BOOLEAN /\ 0 \in 0 .. MaxCalls
      BY <3>3 DEF Timer
    <3> HIDE DEF callback
    <3> HIDE DEF t
    <3>5. [timer[t] EXCEPT !.callback = 0, !.firing = TRUE] \in Timer
          /\ [timer[t] EXCEPT !.callback = 0, !.firing = TRUE].generation = timer[t].generation
      BY <3>3, <3>4 DEF Timer
    <3>6. [wanted[t] EXCEPT !.fired = wanted[t].fired \/ callback # 0]
            \in [init : 0 .. MaxCalls, due : Nat, fired : BOOLEAN]
      BY <3>3, <3>4
    <3>7. [timer |-> t, callback |-> callback] \in Frame
      BY <3>2, <3>4 DEF Frame
    <3>8. stack' \in Seq(Frame)
      BY <1>3, <3>1, <3>7, AppendProperties
    <3> QED BY <1>3, <3>1, <3>2, <3>5, <3>6, <3>8
  <2> QED BY <2>1, <2>2 DEF RunEvent
<1>5. Numbered'
  BY <1>2, <1>4 DEF TypeInv, Numbered
<1> QED BY <1>2, <1>4, <1>5 DEF TypeInv, TypeOK, HasTimers, Event, Frame

LEMMA FireEndsTypes ==
    ASSUME TypeInv, FireEnds
    PROVE  TypeInv'
<1> USE TimersAssumption
<1> DEFINE t == Last(stack).timer
           r == timer[t]
           ended == [r EXCEPT !.firing = FALSE,
                              !.callback = IF Restores(r) THEN Last(stack).callback ELSE @]
<1>1. /\ Last(stack) \in Frame /\ Front(stack) \in Seq(Frame)
  BY StackFrames DEF FireEnds, lists
<1>2. t \in Timers /\ r \in Timer /\ Last(stack).callback \in 0 .. MaxCalls
  BY <1>1 DEF TypeInv, TypeOK, Frame
<1>3. /\ timer' = [timer EXCEPT ![t] = IF Again(r) /\ r.type = "slack"
                                           THEN Rescheduled(ended, r.delay) ELSE ended]
      /\ call' \in {call, [rest |-> "add", timer |-> t]}
      /\ stack' = Front(stack)
      /\ UNCHANGED <<mTimers, mShutdown, mTimeoutAdjustment, thread, queue, calls, wanted, raced>>
  BY DEF FireEnds, lists, history
<1>4. ended \in Timer /\ ended.generation = r.generation /\ r.delay \in Nat
  BY <1>2 DEF Timer
<1>5. /\ timer'[t] \in Timer /\ timer'[t].generation = r.generation
      /\ \A u \in Timers \ {t} : timer'[u] = timer[u]
      /\ timer' \in [Timers -> Timer]
  <2> HIDE DEF ended
  <2>1. Rescheduled(ended, r.delay) \in Timer /\ Rescheduled(ended, r.delay).generation = r.generation
    BY <1>4, RescheduledType
  <2> QED BY <1>2, <1>3, <1>4, <2>1 DEF TypeInv, TypeOK
<1>6. Numbered'
  <2>1. \A u \in Timers : timer'[u].generation = timer[u].generation
    BY <1>5
  <2>2. UNCHANGED <<queue, calls, thread>>
    BY <1>3
  <2> QED BY <2>1, <2>2 DEF TypeInv, Numbered
<1>7. TypeOK'
  <2>1. /\ call' \in [rest : {"none", "add", "change"}, timer : Timers \cup {None}]
        /\ stack' \in Seq([timer : Timers, callback : 0 .. MaxCalls])
    BY <1>1, <1>2, <1>3 DEF TypeInv, TypeOK, Frame
  <2> QED BY <1>3, <1>5, <2>1 DEF TypeInv, TypeOK
<1>8. HasTimers'
  BY <1>2, <1>3 DEF TypeInv, HasTimers
<1> QED BY <1>6, <1>7, <1>8 DEF TypeInv

\* The steps that change nothing but where the timer thread is.
LEMMA ThreadMoves ==
    ASSUME TypeInv, Ends \/ Sleep \/ WaitForFirst \/ WakeUp \/ NewTimerEvent
    PROVE  /\ UNCHANGED <<mTimers, mShutdown, mTimeoutAdjustment, timer, queue, stack, call, calls, wanted>>
           /\ raced \subseteq raced' /\ raced' \in SUBSET Timers
           /\ thread' \in Thread
           /\ thread'.timer = thread.timer
           /\ thread'.at \in {"post", "arm", "add", "dispatch"} =>
                /\ thread.at = "post" /\ thread'.at \in {"arm", "dispatch"}
                /\ thread'.generation = timer[thread.timer].generation
           /\ thread'.at \notin {"post", "arm", "add", "dispatch"} => thread'.generation = thread.generation
<1> USE TimersAssumption
<1>1. thread \in Thread /\ raced \in SUBSET Timers /\ timer \in [Timers -> Timer]
  BY DEF TypeInv, TypeOK
<1>2. CASE Ends \/ Sleep \/ WakeUp
  BY <1>1, <1>2 DEF Ends, Sleep, WakeUp, timerVars, history, Thread
<1>3. CASE WaitForFirst
  <2>1. mTimers \in Seq(Timers) /\ mTimers # <<>>
    BY <1>3 DEF WaitForFirst, TypeInv, TypeOK
  <2>2. Head(mTimers) \in Timers
    BY <2>1, HeadTailProperties
  <2>3. TimeLeft(Head(mTimers)) \in Int /\ TimeLeft(Head(mTimers)) > 0
    BY <1>1, <1>3, <2>2, AdjustmentType DEF WaitForFirst, TimeLeft, Timer
  <2>4. raced' \in {raced, raced \cup {call.timer}} /\ (raced' # raced => call.timer \in Timers)
    BY <1>3 DEF WaitForFirst, ReadsInCall, TypeInv, HasTimers
  <2>5. /\ UNCHANGED <<mTimers, mShutdown, mTimeoutAdjustment, timer, queue, stack, call, calls, wanted>>
        /\ thread' = [thread EXCEPT !.at = "waiting", !.wake = TimeLeft(Head(mTimers))]
    BY <1>3 DEF WaitForFirst, timerVars
  <2>6. TimeLeft(Head(mTimers)) \in Nat
    BY <2>3
  <2>7. thread' \in Thread /\ thread'.at = "waiting" /\ thread'.timer = thread.timer
        /\ thread'.generation = thread.generation
    BY <1>1, <2>5, <2>6 DEF Thread
  <2> QED BY <1>1, <2>4, <2>5, <2>7
<1>4. CASE NewTimerEvent
  <2>1. timer[thread.timer] \in Timer
    BY <1>1, <1>4 DEF NewTimerEvent, TypeInv, HasTimers
  <2> QED BY <1>1, <1>4, <2>1 DEF NewTimerEvent, timerVars, history, Thread, Timer
<1> QED BY <1>2, <1>3, <1>4

LEMMA ThreadMovesTypes ==
    ASSUME TypeInv, Ends \/ Sleep \/ WaitForFirst \/ WakeUp \/ NewTimerEvent
    PROVE  TypeInv'
<1>1. thread'.generation <= calls
  <2>1. CASE thread'.at \in {"post", "arm", "add", "dispatch"}
    BY <2>1, ThreadMoves DEF TypeInv, HasTimers, Numbered
  <2>2. CASE thread'.at \notin {"post", "arm", "add", "dispatch"}
    BY <2>2, ThreadMoves DEF TypeInv, Numbered
  <2> QED BY <2>1, <2>2
<1>2. HasTimers'
  BY ThreadMoves DEF TypeInv, HasTimers
<1>3. Numbered'
  BY <1>1, ThreadMoves DEF TypeInv, Numbered
<1>4. TypeOK'
  BY ThreadMoves DEF TypeInv, TypeOK
<1> QED BY <1>2, <1>3, <1>4 DEF TypeInv

LEMMA TakeFirstTypes ==
    ASSUME TypeInv, TakeFirst
    PROVE  TypeInv'
<1> USE TimersAssumption
<1>1. mTimers \in Seq(Timers) /\ mTimers # <<>> /\ timer \in [Timers -> Timer] /\ thread \in Thread
  BY DEF TakeFirst, TypeInv, TypeOK
<1>2. Head(mTimers) \in Timers /\ mTimers' \in Seq(Timers)
  BY <1>1, HeadTailProperties DEF TakeFirst
<1>3. /\ timer' \in [Timers -> Timer]
      /\ \A u \in Timers : timer'[u].generation = timer[u].generation
  <2> DEFINE t == Head(mTimers)
  <2>1. timer' = [timer EXCEPT ![t] = [timer[t] EXCEPT !.armed = FALSE]]
    BY DEF TakeFirst
  <2>2. t \in Timers
    BY <1>2
  <2> HIDE DEF t
  <2>3. /\ [timer[t] EXCEPT !.armed = FALSE] \in Timer
        /\ [timer[t] EXCEPT !.armed = FALSE].generation = timer[t].generation
    BY <1>1, <2>2 DEF Timer
  <2> QED BY <1>1, <2>1, <2>2, <2>3
<1>4. raced' \in SUBSET Timers
  BY DEF TakeFirst, ReadsInCall, TypeInv, TypeOK, HasTimers
<1>5. /\ thread' \in Thread /\ thread'.timer \in Timers /\ thread'.generation = thread.generation
      /\ UNCHANGED <<mShutdown, mTimeoutAdjustment, queue, stack, call, calls, wanted>>
  BY <1>1, <1>2 DEF TakeFirst, Thread
<1>6. Numbered'
  BY <1>3, <1>5 DEF TypeInv, Numbered
<1> QED BY <1>2, <1>3, <1>4, <1>5, <1>6 DEF TypeInv, TypeOK, HasTimers

LEMMA ArmTypes ==
    ASSUME TypeInv, Arm
    PROVE  TypeInv'
<1> USE TimersAssumption
<1>1. timer \in [Timers -> Timer] /\ thread \in Thread /\ thread.timer \in Timers
  BY DEF Arm, lists, TypeInv, TypeOK, HasTimers
<1>2. /\ timer' \in [Timers -> Timer]
      /\ \A u \in Timers : timer'[u].generation = timer[u].generation
  <2> DEFINE t == thread.timer
  <2>1. timer' = [timer EXCEPT ![t] = Rescheduled(timer[t], thread.delay)]
    BY DEF Arm, lists
  <2>2. /\ Rescheduled(timer[t], thread.delay) \in Timer
        /\ Rescheduled(timer[t], thread.delay).generation = timer[t].generation
    <3>1. timer[t] \in Timer /\ thread.delay \in Nat
      BY <1>1 DEF Thread
    <3> QED BY <3>1, RescheduledType
  <2> QED BY <1>1, <2>1, <2>2
<1>3. /\ thread' \in Thread /\ thread'.timer = thread.timer /\ thread'.generation = thread.generation
      /\ UNCHANGED <<mTimers, mShutdown, mTimeoutAdjustment, queue, stack, call, calls, wanted, raced>>
  BY <1>1 DEF Arm, lists, Thread, history
<1>4. Numbered'
  BY <1>2, <1>3 DEF TypeInv, Numbered
<1> QED BY <1>1, <1>2, <1>3, <1>4 DEF TypeInv, TypeOK, HasTimers

LEMMA RearmTypes ==
    ASSUME TypeInv, Rearm
    PROVE  TypeInv'
<1> USE TimersAssumption
<1>1. thread \in Thread /\ thread.timer \in Timers /\ mTimers \in Seq(Timers)
  BY DEF Rearm, TypeInv, TypeOK, HasTimers
<1>2. Insert(mTimers, thread.timer)
  BY DEF Rearm
<1>3. /\ thread' \in Thread /\ thread'.timer = thread.timer /\ thread'.generation = thread.generation
      /\ UNCHANGED <<mShutdown, mTimeoutAdjustment, queue, stack, call, calls, wanted>>
  BY <1>1 DEF Rearm, Thread
<1>4. Numbered'
  BY <1>1, <1>2, <1>3, InsertTypes DEF TypeInv, Numbered
<1>5. raced' \in SUBSET Timers
  <2>1. raced \in SUBSET Timers /\ (call.rest = "change" => call.timer \in Timers)
    BY DEF TypeInv, TypeOK, HasTimers
  <2> QED BY <2>1 DEF Rearm, ComparesInCall
<1> QED BY <1>1, <1>2, <1>3, <1>4, <1>5, InsertTypes DEF TypeInv, TypeOK, HasTimers

LEMMA DispatchTypes ==
    ASSUME TypeInv, DispatchEvent
    PROVE  /\ TypeInv'
           /\ queue' = Append(queue, [timer |-> thread.timer, generation |-> thread.generation])
           /\ queue \in Seq(Event) /\ Len(queue') = Len(queue) + 1 /\ Len(queue) \in Nat
           /\ \A k \in 1 .. Len(queue) : queue'[k] = queue[k]
           /\ queue'[Len(queue) + 1] = [timer |-> thread.timer, generation |-> thread.generation]
<1> USE TimersAssumption
<1> DEFINE e == [timer |-> thread.timer, generation |-> thread.generation]
<1>1. thread \in Thread /\ thread.timer \in Timers /\ queue \in Seq(Event)
  BY DEF DispatchEvent, TypeInv, TypeOK, HasTimers, Event
<1>2. e \in Event
  BY <1>1 DEF Thread, Event
<1>3. queue' = Append(queue, e)
  BY DEF DispatchEvent
<1>4. /\ queue' \in Seq(Event) /\ Len(queue') = Len(queue) + 1 /\ Len(queue) \in Nat
      /\ \A k \in 1 .. Len(queue) : queue'[k] = queue[k]
      /\ queue'[Len(queue) + 1] = e
  <2> HIDE DEF e
  <2> QED BY <1>1, <1>2, <1>3, AppendProperties
<1>5. /\ thread' \in Thread /\ thread'.at = "scan" /\ thread'.generation = 0
      /\ UNCHANGED <<mTimers, mShutdown, mTimeoutAdjustment, timer, stack, call, calls, wanted, raced>>
  <2>1. thread' = [thread EXCEPT !.at = "scan", !.timer = None, !.generation = 0, !.delay = 0]
    BY DEF DispatchEvent
  <2>2. 0 \in 0 .. MaxCalls
    OBVIOUS
  <2>3. thread' \in Thread /\ thread'.at = "scan" /\ thread'.generation = 0
    BY <1>1, <2>1, <2>2 DEF Thread
  <2> QED BY <2>3 DEF DispatchEvent, timerVars, history
<1>6. \A k \in 1 .. Len(queue') : queue'[k].generation <= calls
  <2>1. e.generation <= calls
    BY DEF TypeInv, Numbered
  <2>2. \A k \in 1 .. Len(queue') : k \in 1 .. Len(queue) \/ k = Len(queue) + 1
    BY <1>4
  <2> QED BY <1>4, <2>1, <2>2 DEF TypeInv, Numbered
<1>7. Numbered'
  BY <1>5, <1>6 DEF TypeInv, TypeOK, Numbered
<1>8. TypeOK' /\ HasTimers'
  BY <1>4, <1>5 DEF TypeInv, TypeOK, HasTimers, Event
<1> QED BY <1>1, <1>3, <1>4, <1>7, <1>8 DEF TypeInv

LEMMA TickTypes ==
    ASSUME TypeInv, Tick
    PROVE  TypeInv'
<1> USE TimersAssumption
<1>1. /\ timer \in [Timers -> Timer] /\ thread \in Thread
      /\ wanted \in [Timers -> [init : 0 .. MaxCalls, due : Nat, fired : BOOLEAN]]
  BY DEF TypeInv, TypeOK
<1>2. \A n \in Int : Less(n) \in Nat /\ Older(n) \in Int
  BY DEF Less, Older, Larger
<1>3. \A t \in Timers : /\ timer'[t] \in Timer
                        /\ timer'[t].generation = timer[t].generation
                        /\ wanted'[t] \in [init : 0 .. MaxCalls, due : Nat, fired : BOOLEAN]
  <2> TAKE t \in Timers
  <2>1. /\ timer'[t] = [timer[t] EXCEPT !.timeout = IF CountsFrom(t) THEN timer[t].timeout - 1
                                                                     ELSE Older(timer[t].timeout)]
        /\ wanted'[t] = [wanted[t] EXCEPT !.due = Less(wanted[t].due)]
    BY DEF Tick, lists
  <2>2. /\ timer[t] \in Timer /\ timer[t].timeout \in Int
        /\ wanted[t] \in [init : 0 .. MaxCalls, due : Nat, fired : BOOLEAN] /\ wanted[t].due \in Int
    BY <1>1 DEF Timer
  <2>3. (IF CountsFrom(t) THEN timer[t].timeout - 1 ELSE Older(timer[t].timeout)) \in Int
    BY <1>2, <2>2
  <2>4. Less(wanted[t].due) \in Nat
    BY <1>2, <2>2
  <2>5. timer'[t] \in Timer /\ timer'[t].generation = timer[t].generation
    BY <2>1, <2>2, <2>3 DEF Timer
  <2>6. wanted'[t] \in [init : 0 .. MaxCalls, due : Nat, fired : BOOLEAN]
    BY <2>1, <2>2, <2>4
  <2> QED BY <2>5, <2>6
<1>4. timer' \in [Timers -> Timer]
  <2> DEFINE New(u) == [timer[u] EXCEPT !.timeout = IF CountsFrom(u) THEN @ - 1 ELSE Older(@)]
  <2>1. timer' = [u \in Timers |-> New(u)]
    BY DEF Tick, lists
  <2> HIDE DEF New
  <2> QED BY <1>3, <2>1
<1>5. wanted' \in [Timers -> [init : 0 .. MaxCalls, due : Nat, fired : BOOLEAN]]
  <2> DEFINE New(u) == [wanted[u] EXCEPT !.due = Less(@)]
  <2>1. wanted' = [u \in Timers |-> New(u)]
    BY DEF Tick, lists
  <2> HIDE DEF New
  <2> QED BY <1>3, <2>1
<1>6. /\ thread' = [thread EXCEPT !.wake = Less(thread.wake)]
      /\ UNCHANGED <<mTimers, mShutdown, mTimeoutAdjustment, queue, stack, call, calls, raced>>
  BY DEF Tick, lists
<1>7. thread' \in Thread /\ thread'.at = thread.at /\ thread'.timer = thread.timer /\ thread'.generation = thread.generation
  <2>1. Less(thread.wake) \in Nat
    BY <1>1, <1>2 DEF Thread
  <2> QED BY <1>1, <1>6, <2>1 DEF Thread
<1>8. Numbered'
  <2>1. \A u \in Timers : timer'[u].generation = timer[u].generation
    BY <1>3
  <2> QED BY <1>6, <1>7, <2>1 DEF TypeInv, Numbered
<1>9. HasTimers'
  BY <1>6, <1>7 DEF TypeInv, HasTimers
<1> QED BY <1>4, <1>5, <1>6, <1>7, <1>8, <1>9 DEF TypeInv, TypeOK

LEMMA TypeStep ==
    ASSUME TypeInv, [Next]_vars
    PROVE  TypeInv'
<1>1. CASE ClientStep
  BY <1>1, InitTypes, InitFailsTypes, CancelTypes, SetDelayTypes DEF ClientStep
<1>2. CASE ThreadStep
  BY <1>2, ThreadMovesTypes, TakeFirstTypes, ArmTypes, RearmTypes, DispatchTypes DEF ThreadStep
<1>3. CASE UNCHANGED vars
  BY <1>3 DEF vars, TypeInv, TypeOK, HasTimers, Numbered
<1> QED BY <1>1, <1>2, <1>3, ShutdownTypes, ShutdownReturnsTypes, CallTypes, EventTypes,
     FireEndsTypes, TickTypes DEF Next

LEMMA TypeInit ==
    ASSUME Init
    PROVE  TypeInv
<1> USE TimersAssumption
<1>1. 0 \in 0 .. MaxCalls
  OBVIOUS
<1>2. mTimers \in Seq(Timers) /\ queue \in Seq(Event) /\ stack \in Seq(Frame)
  BY DEF Init
<1>3. timer \in [Timers -> Timer] /\ thread \in Thread
  BY <1>1 DEF Init, Timer, Thread, AllTypes
<1>4. wanted \in [Timers -> [init : 0 .. MaxCalls, due : Nat, fired : BOOLEAN]]
  BY <1>1 DEF Init
<1>5. /\ mShutdown \in BOOLEAN /\ mTimeoutAdjustment = 0
      /\ calls \in 0 .. MaxCalls /\ raced \in SUBSET Timers
      /\ call \in [rest : {"none", "add", "change"}, timer : Timers \cup {None}]
  BY <1>1 DEF Init, NoCall
<1>6. TypeOK
  <2>1. 0 \in - MaxAdjustment .. MaxAdjustment
    OBVIOUS
  <2> QED BY <1>2, <1>3, <1>4, <1>5, <2>1 DEF TypeOK, Event, Frame
<1>7. /\ thread.at = "scan" /\ thread.generation = 0 /\ calls = 0 /\ queue = <<>> /\ call.rest = "none"
      /\ \A t \in Timers : timer[t].generation = 0
  BY DEF Init, NoCall
<1> QED BY <1>6, <1>7 DEF TypeInv, HasTimers, Numbered

\* Every variable keeps its type: also no generation is ever ahead of the
\* generator, which EventsAreDue below depends on.
THEOREM TypeCorrectness == Spec => []TypeOK
<1>1. Init => TypeInv
  BY TypeInit
<1>2. TypeInv /\ [Next]_vars => TypeInv'
  BY TypeStep
<1>3. TypeInv => TypeOK
  BY DEF TypeInv
<1> QED BY <1>1, <1>2, <1>3, PTL DEF Spec

----------------------------------------------------------------------------
(***************************************************************************)
(* Which callback is called.                                               *)
(***************************************************************************)

\* u keeps what decides about its callback.
SameCallback(u) ==
    /\ timer'[u].callback = timer[u].callback
    /\ timer'[u].type = timer[u].type
    /\ timer'[u].canceled = timer[u].canceled
    /\ wanted'[u].init = wanted[u].init
    /\ wanted'[u].fired = wanted[u].fired

LEMMA SameCallbacks ==
    ASSUME TypeInv, CallbackInv, UNCHANGED stack, \A u \in Timers : SameCallback(u)
    PROVE  CallbackInv'
<1>1. stack \in Seq(Frame)
  BY DEF TypeInv, TypeOK, Frame
<1>2. \A k \in 1 .. Len(stack) : stack[k].timer \in Timers
  <2>1. \A f \in Frame : f.timer \in Timers
    BY DEF Frame
  <2> QED BY <1>1, <2>1, ElementOfSeq
<1>3. CallbacksAreWanted' /\ SpentIsReleased'
  BY DEF CallbackInv, CallbacksAreWanted, SpentIsReleased, SameCallback
<1>4. RestoredIsWanted'
  BY <1>2 DEF CallbackInv, RestoredIsWanted, Restores, Innermost, SameCallback
<1> QED BY <1>3, <1>4 DEF CallbackInv

\* Putting a timer in the list does not concern its callback.
LEMMA InsertKeepsCallback ==
    ASSUME TypeInv, NEW list \in Seq(Timers), NEW t \in Timers, Insert(list, t), UNCHANGED wanted,
           NEW u \in Timers
    PROVE  SameCallback(u)
<1>1. timer'[u] \in {timer[u], [timer[u] EXCEPT !.armed = TRUE]} /\ timer[u] \in Timer
  BY InsertTypes DEF TypeInv, TypeOK
<1> QED BY <1>1 DEF SameCallback, Timer

LEMMA CallCallbacks ==
    ASSUME TypeInv, CallbackInv, CallStep
    PROVE  CallbackInv'
<1>1. call.timer \in Timers /\ mTimers \in Seq(Timers) /\ RemoveFirst(mTimers, call.timer) \in Seq(Timers)
  BY RemovedIsList DEF CallStep, AddTimer, TimerDelayChanged, TypeInv, TypeOK, HasTimers
<1>2. \E list \in Seq(Timers) : Insert(list, call.timer)
  BY <1>1 DEF CallStep, AddTimer, TimerDelayChanged
<1>3. UNCHANGED <<stack, wanted>>
  BY DEF CallStep, AddTimer, TimerDelayChanged
<1> QED BY <1>1, <1>2, <1>3, InsertKeepsCallback, SameCallbacks

LEMMA SetDelayCallbacks ==
    ASSUME TypeInv, CallbackInv, NEW t \in Timers, SetDelay(t)
    PROVE  CallbackInv'
<1>1. timer \in [Timers -> Timer] /\ wanted \in [Timers -> [init : 0 .. MaxCalls, due : Nat, fired : BOOLEAN]]
  BY DEF TypeInv, TypeOK
<1>2. PICK delay \in Delays :
          /\ timer' = [timer EXCEPT ![t] = [timer[t] EXCEPT !.delay = delay, !.timeout = delay]]
          /\ wanted' = [wanted EXCEPT ![t] = [wanted[t] EXCEPT !.due = Smaller(wanted[t].due, delay)]]
  BY <1>1 DEF SetDelay, lists
<1>3. \A u \in Timers : timer[u] \in Timer /\ wanted[u] \in [init : 0 .. MaxCalls, due : Nat, fired : BOOLEAN]
  BY <1>1
<1>4. \A u \in Timers : SameCallback(u)
  BY <1>1, <1>2, <1>3 DEF SameCallback, Timer
<1>5. UNCHANGED stack
  BY DEF SetDelay, lists
<1> QED BY <1>4, <1>5, SameCallbacks

LEMMA ThreadCallbacks ==
    ASSUME TypeInv, CallbackInv, ThreadStep
    PROVE  CallbackInv'
<1>1. timer \in [Timers -> Timer] /\ mTimers \in Seq(Timers)
  BY DEF TypeInv, TypeOK
<1>2. \A u \in Timers : timer[u] \in Timer
  BY <1>1
<1>3. CASE Ends \/ Sleep \/ WaitForFirst \/ WakeUp \/ NewTimerEvent
  BY <1>3, ThreadMoves, SameCallbacks DEF SameCallback
<1>4. CASE TakeFirst
  <2>1. /\ timer' = [timer EXCEPT ![Head(mTimers)] = [timer[Head(mTimers)] EXCEPT !.armed = FALSE]]
        /\ UNCHANGED <<stack, wanted>>
    BY <1>4 DEF TakeFirst
  <2>2. \A u \in Timers : SameCallback(u)
    BY <1>1, <1>2, <2>1 DEF SameCallback, Timer
  <2> QED BY <2>1, <2>2, SameCallbacks
<1>5. CASE Arm
  <2>1. /\ timer' = [timer EXCEPT ![thread.timer] = Rescheduled(timer[thread.timer], thread.delay)]
        /\ UNCHANGED <<stack, wanted>> /\ thread.delay \in Nat /\ thread.timer \in Timers
    BY <1>5 DEF Arm, lists, history, TypeInv, TypeOK, HasTimers, Thread
  <2>2. \A u \in Timers : SameCallback(u)
    <3>1. timer'[thread.timer] = Rescheduled(timer[thread.timer], thread.delay)
      BY <1>1, <2>1
    <3>2. \A u \in Timers \ {thread.timer} : timer'[u] = timer[u]
      BY <1>1, <2>1
    <3>3. SameCallback(thread.timer)
      BY <1>2, <2>1, <3>1, RescheduledType DEF SameCallback
    <3> QED BY <2>1, <3>2, <3>3 DEF SameCallback
  <2> QED BY <2>1, <2>2, SameCallbacks
<1>6. CASE Rearm
  <2>1. Insert(mTimers, thread.timer) /\ thread.timer \in Timers /\ UNCHANGED <<stack, wanted>>
    BY <1>6 DEF Rearm, history, TypeInv, HasTimers
  <2> QED BY <1>1, <2>1, InsertKeepsCallback, SameCallbacks
<1>7. CASE DispatchEvent
  <2>1. UNCHANGED <<timer, stack, wanted>>
    BY <1>7 DEF DispatchEvent, timerVars, history
  <2> QED BY <2>1, SameCallbacks DEF SameCallback
<1> QED BY <1>3, <1>4, <1>5, <1>6, <1>7 DEF ThreadStep

LEMMA TickCallbacks ==
    ASSUME TypeInv, CallbackInv, Tick
    PROVE  CallbackInv'
<1>1. \A u \in Timers : SameCallback(u)
  <2> TAKE u \in Timers
  <2>1. /\ timer'[u] = [timer[u] EXCEPT !.timeout = IF CountsFrom(u) THEN timer[u].timeout - 1
                                                                     ELSE Older(timer[u].timeout)]
        /\ wanted'[u] = [wanted[u] EXCEPT !.due = Less(wanted[u].due)]
    BY DEF Tick, lists
  <2>2. timer[u] \in Timer /\ wanted[u] \in [init : 0 .. MaxCalls, due : Nat, fired : BOOLEAN]
    BY DEF TypeInv, TypeOK
  <2> QED BY <2>1, <2>2 DEF SameCallback, Timer
<1>2. UNCHANGED stack
  BY DEF Tick, lists
<1> QED BY <1>1, <1>2, SameCallbacks

\* The steps that only take a callback away, or give a new one to t that is
\* wanted: what the frames would restore to t is not restored any more.
LEMMA LosesCallback ==
    ASSUME TypeInv, CallbackInv, NEW T \in SUBSET Timers, UNCHANGED stack,
           \A u \in Timers \ T : SameCallback(u),
           \A u \in T : /\ timer'[u].callback \in {0, wanted'[u].init}
                        /\ ~ Restores(timer'[u])
                        /\ timer'[u].type = "oneShot" /\ wanted'[u].fired => timer'[u].callback = 0
    PROVE  CallbackInv'
<1>1. stack \in Seq(Frame)
  BY DEF TypeInv, TypeOK, Frame
<1>2. \A k \in 1 .. Len(stack) : stack[k].timer \in Timers
  <2>1. \A f \in Frame : f.timer \in Timers
    BY DEF Frame
  <2> QED BY <1>1, <2>1, ElementOfSeq
<1>3. CallbacksAreWanted' /\ SpentIsReleased'
  BY DEF CallbackInv, CallbacksAreWanted, SpentIsReleased, SameCallback
<1>4. \A u \in Timers \ T : Restores(timer'[u]) => Restores(timer[u])
  BY DEF SameCallback, Restores
<1>5. RestoredIsWanted'
  BY <1>2, <1>4 DEF CallbackInv, RestoredIsWanted, Innermost, SameCallback
<1> QED BY <1>3, <1>5 DEF CallbackInv

LEMMA InitCallbacks ==
    ASSUME TypeInv, CallbackInv, NEW t \in Timers, InitTimer(t)
    PROVE  CallbackInv'
<1>1. timer \in [Timers -> Timer] /\ wanted \in [Timers -> [init : 0 .. MaxCalls, due : Nat, fired : BOOLEAN]]
  BY DEF TypeInv, TypeOK
<1>2. calls' \in 1 .. MaxCalls /\ calls' \in Nat /\ calls' = calls + 1 /\ calls \in Nat
  BY CallsNumber DEF InitTimer
<1>3. PICK type \in Types, delay \in Delays :
         /\ timer' = [timer EXCEPT ![t] =
                        [timer[t] EXCEPT !.callback = calls', !.generation = calls',
                                  !.canceled = FALSE, !.armed = timer[t].armed /\ ~ Listed(t),
                                  !.type = type, !.delay = delay, !.timeout = delay]]
         /\ wanted' = [wanted EXCEPT ![t] = [init |-> calls', due |-> delay, fired |-> FALSE]]
  BY DEF InitTimer
<1>4. timer[t] \in Timer
  BY <1>1
<1>5. /\ timer'[t].callback = calls' /\ calls' # 0
      /\ wanted'[t].init = calls' /\ wanted'[t].fired = FALSE
  BY <1>1, <1>2, <1>3, <1>4 DEF Timer
<1>6. \A u \in Timers \ {t} : SameCallback(u)
  BY <1>1, <1>3 DEF SameCallback
<1>7. UNCHANGED stack
  BY DEF InitTimer
<1>8. {t} \in SUBSET Timers
  OBVIOUS
<1>9. \A u \in {t} : /\ timer'[u].callback \in {0, wanted'[u].init}
                     /\ ~ Restores(timer'[u])
                     /\ timer'[u].type = "oneShot" /\ wanted'[u].fired => timer'[u].callback = 0
  BY <1>5 DEF Restores
<1> QED BY <1>6, <1>7, <1>8, <1>9, LosesCallback

LEMMA InitFailsCallbacks ==
    ASSUME TypeInv, CallbackInv, NEW t \in Timers, InitFails(t)
    PROVE  CallbackInv'
<1>1. /\ timer \in [Timers -> Timer] /\ calls' # 0
      /\ wanted \in [Timers -> [init : 0 .. MaxCalls, due : Nat, fired : BOOLEAN]]
  BY CallsNumber DEF InitFails, TypeInv, TypeOK
<1>2. /\ timer' = [timer EXCEPT ![t] = [timer[t] EXCEPT !.callback = calls']]
      /\ wanted' = [wanted EXCEPT ![t] = [wanted[t] EXCEPT !.init = calls', !.fired = FALSE]]
      /\ UNCHANGED stack
  BY <1>1 DEF InitFails
<1>3. timer[t] \in Timer /\ wanted[t] \in [init : 0 .. MaxCalls, due : Nat, fired : BOOLEAN]
  BY <1>1
<1>4. timer'[t].callback = calls' /\ wanted'[t].init = calls' /\ wanted'[t].fired = FALSE
  BY <1>1, <1>2, <1>3 DEF Timer
<1>5. \A u \in Timers \ {t} : SameCallback(u)
  BY <1>1, <1>2 DEF SameCallback
<1>6. {t} \in SUBSET Timers
  OBVIOUS
<1>7. \A u \in {t} : /\ timer'[u].callback \in {0, wanted'[u].init}
                     /\ ~ Restores(timer'[u])
                     /\ timer'[u].type = "oneShot" /\ wanted'[u].fired => timer'[u].callback = 0
  BY <1>1, <1>4 DEF Restores
<1> QED BY <1>2, <1>5, <1>6, <1>7, LosesCallback

LEMMA CancelCallbacks ==
    ASSUME TypeInv, CallbackInv, NEW t \in Timers, Cancel(t)
    PROVE  CallbackInv'
<1>1. timer \in [Timers -> Timer] /\ wanted \in [Timers -> [init : 0 .. MaxCalls, due : Nat, fired : BOOLEAN]]
  BY DEF TypeInv, TypeOK
<1>2. /\ timer' = [timer EXCEPT ![t] = [timer[t] EXCEPT !.canceled = TRUE, !.callback = 0,
                                                     !.armed = timer[t].armed /\ ~ Listed(t)]]
      /\ wanted' = [wanted EXCEPT ![t] = [wanted[t] EXCEPT !.init = 0]]
      /\ UNCHANGED stack
  BY <1>1 DEF Cancel
<1>3. timer'[t].callback = 0 /\ timer'[t].canceled = TRUE
  <2>1. timer[t] \in Timer
    BY <1>1
  <2> QED BY <1>1, <1>2, <2>1 DEF Timer
<1>4. \A u \in Timers \ {t} : SameCallback(u)
  BY <1>1, <1>2 DEF SameCallback
<1>5. \A u \in {t} : /\ timer'[u].callback \in {0, wanted'[u].init}
                     /\ ~ Restores(timer'[u])
                     /\ timer'[u].type = "oneShot" /\ wanted'[u].fired => timer'[u].callback = 0
  BY <1>3 DEF Restores
<1>6. {t} \in SUBSET Timers
  OBVIOUS
<1> QED BY <1>2, <1>4, <1>5, <1>6, LosesCallback

LEMMA ShutdownCallbacks ==
    ASSUME TypeInv, CallbackInv, Shutdown
    PROVE  CallbackInv'
<1>1. stack = <<>> /\ stack' = <<>> /\ wanted' = wanted
  BY DEF Shutdown, history
<1>2. \A u \in Timers : /\ timer'[u].callback \in {0, timer[u].callback}
                        /\ timer'[u].type = timer[u].type
  <2> TAKE u \in Timers
  <2>1. timer[u] \in Timer
    BY DEF TypeInv, TypeOK
  <2>2. timer'[u] = IF Listed(u) THEN [timer[u] EXCEPT !.callback = 0, !.armed = FALSE] ELSE timer[u]
    BY DEF Shutdown
  <2> QED BY <2>1, <2>2 DEF Timer
<1>3. CallbacksAreWanted' /\ SpentIsReleased'
  BY <1>1, <1>2 DEF CallbackInv, CallbacksAreWanted, SpentIsReleased
<1>4. RestoredIsWanted'
  BY <1>1 DEF RestoredIsWanted
<1> QED BY <1>3, <1>4 DEF CallbackInv

\* Fire() takes the callback, so that the new frame is the only one that is
\* restored, or leaves the frames below to those which have called one.
LEMMA FireCallbacks ==
    ASSUME TypeInv, CallbackInv, Fire
    PROVE  /\ CallbackInv'
           /\ LET t == Head(queue).timer
              IN /\ t \in Timers
                 /\ stack' = Append(stack, [timer |-> t, callback |-> timer[t].callback])
                 /\ Len(stack') = Len(stack) + 1 /\ Len(stack) \in Nat
                 /\ Last(stack') = [timer |-> t, callback |-> timer[t].callback]
<1> DEFINE t == Head(queue).timer
           callback == timer[t].callback
           frame == [timer |-> t, callback |-> callback]
<1>1. Head(queue) \in Event /\ t \in Timers
  BY QueuedEvents DEF Fire, RunsEvents, Event
<1>2. /\ timer \in [Timers -> Timer] /\ stack \in Seq(Frame)
      /\ wanted \in [Timers -> [init : 0 .. MaxCalls, due : Nat, fired : BOOLEAN]]
  BY DEF TypeInv, TypeOK, Frame
<1>3. /\ stack' = Append(stack, frame)
      /\ timer' = [timer EXCEPT ![t] = [timer[t] EXCEPT !.callback = 0, !.firing = TRUE]]
      /\ wanted' = [wanted EXCEPT ![t] = [wanted[t] EXCEPT !.fired = wanted[t].fired \/ callback # 0]]
  BY DEF Fire
<1>4. timer[t] \in Timer /\ wanted[t] \in [init : 0 .. MaxCalls, due : Nat, fired : BOOLEAN]
      /\ callback \in 0 .. MaxCalls
  <2>1. timer[t] \in Timer
    BY <1>1, <1>2
  <2>2. callback \in 0 .. MaxCalls
    BY <2>1 DEF Timer
  <2> QED BY <1>1, <1>2, <2>1, <2>2
<1>5. frame \in Frame
  BY <1>1, <1>4 DEF Frame
<1> HIDE DEF frame
<1>6. /\ stack' \in Seq(Frame) /\ Len(stack') = Len(stack) + 1 /\ Len(stack) \in Nat
      /\ \A k \in 1 .. Len(stack) : stack'[k] = stack[k]
      /\ stack'[Len(stack) + 1] = frame
  BY <1>2, <1>3, <1>5, AppendProperties
<1>7. /\ timer'[t].callback = 0 /\ timer'[t].type = timer[t].type
      /\ timer'[t].canceled = timer[t].canceled
      /\ wanted'[t].init = wanted[t].init
      /\ \A u \in Timers \ {t} : SameCallback(u)
  <2> HIDE DEF t, callback
  <2> QED BY <1>1, <1>2, <1>3, <1>4 DEF Timer, SameCallback
<1>8. CallbacksAreWanted' /\ SpentIsReleased'
  BY <1>7 DEF CallbackInv, CallbacksAreWanted, SpentIsReleased, SameCallback
<1>9. RestoredIsWanted'
  <2> SUFFICES ASSUME NEW k \in 1 .. Len(stack'), Restores(timer[stack[k].timer])', Innermost(k)'
               PROVE  stack'[k].callback = wanted'[stack'[k].timer].init
    BY DEF RestoredIsWanted
  <2>1. stack'[k] \in Frame /\ stack'[k].timer \in Timers
    <3>1. stack'[k] \in Frame
      BY <1>6, ElementOfSeq
    <3> QED BY <3>1 DEF Frame
  <2>2. CASE k = Len(stack) + 1
    <3>1. stack'[k].callback = callback /\ stack'[k].timer = t /\ callback # 0
      BY <2>2, <1>6 DEF frame, Innermost
    <3>2. callback \in {0, wanted[t].init}
      BY <1>1 DEF CallbackInv, CallbacksAreWanted
    <3> QED BY <3>1, <3>2, <1>7
  <2>3. CASE k \in 1 .. Len(stack)
    <3>1. stack'[k] = stack[k]
      BY <2>3, <1>6
    <3>2. Innermost(k)
      <4>1. \A j \in 1 .. Len(stack) : j \in 1 .. Len(stack') /\ stack'[j] = stack[j]
        BY <1>6
      <4> QED BY <3>1, <4>1 DEF Innermost
    <3>3. CASE stack[k].timer = t
      <4>1. callback = 0
        <5>1. Len(stack) + 1 \in 1 .. Len(stack') /\ Len(stack) + 1 > k
          BY <2>3, <1>6
        <5>2. stack'[Len(stack) + 1].callback = callback /\ stack'[Len(stack) + 1].timer = t
          BY <1>6 DEF frame
        <5> QED BY <3>1, <3>3, <5>1, <5>2 DEF Innermost
      <4>2. Restores(timer[t])
        BY <3>1, <3>3, <4>1, <1>7 DEF Restores
      <4> QED BY <2>3, <3>1, <3>2, <3>3, <4>2, <1>7 DEF CallbackInv, RestoredIsWanted
    <3>4. CASE stack[k].timer # t
      <4>1. SameCallback(stack[k].timer)
        BY <2>1, <3>1, <3>4, <1>7
      <4> QED BY <2>3, <3>1, <3>2, <4>1 DEF CallbackInv, RestoredIsWanted, SameCallback, Restores
    <3> QED BY <3>3, <3>4
  <2> QED BY <2>2, <2>3, <1>6
<1>10. Last(stack') = frame
  BY <1>6 DEF Last
<1> QED BY <1>1, <1>3, <1>6, <1>8, <1>9, <1>10 DEF CallbackInv, frame

\* Only what the innermost frame of the timer has called is given back to it.
LEMMA FireEndsCallbacks ==
    ASSUME TypeInv, CallbackInv, FireEnds
    PROVE  CallbackInv'
<1> DEFINE n == Len(stack)
           t == Last(stack).timer
           r == timer[t]
           ended == [r EXCEPT !.firing = FALSE,
                              !.callback = IF Restores(r) THEN Last(stack).callback ELSE @]
<1>1. /\ stack # <<>> /\ stack' = Front(stack) /\ wanted' = wanted
      /\ timer' = [timer EXCEPT ![t] = IF Again(r) /\ r.type = "slack"
                                           THEN Rescheduled(ended, r.delay) ELSE ended]
  BY DEF FireEnds, lists, history
<1>2. /\ Last(stack) = stack[n] /\ Last(stack) \in Frame
      /\ Len(stack') = n - 1 /\ n \in Nat \ {0}
      /\ \A k \in 1 .. n - 1 : stack'[k] = stack[k]
  BY <1>1, StackFrames
<1>3. t \in Timers /\ r \in Timer /\ timer \in [Timers -> Timer]
  BY <1>2 DEF TypeInv, TypeOK, Frame
<1>4. /\ ended \in Timer /\ r.delay \in Nat
      /\ ended.callback = IF Restores(r) THEN stack[n].callback ELSE r.callback
      /\ ended.type = r.type /\ ended.canceled = r.canceled
  BY <1>2, <1>3 DEF Timer, Frame
<1>5. /\ timer'[t].callback = IF Restores(r) THEN stack[n].callback ELSE r.callback
      /\ timer'[t].type = r.type /\ timer'[t].canceled = r.canceled
      /\ \A u \in Timers \ {t} : timer'[u] = timer[u]
  <2> HIDE DEF ended
  <2>1. timer'[t] \in {Rescheduled(ended, r.delay), ended}
    BY <1>1, <1>3
  <2> QED BY <1>1, <1>3, <1>4, <2>1, RescheduledType
<1>6. Restores(r) /\ stack[n].callback # 0 => stack[n].callback = wanted[t].init
  <2>1. stack[n].callback # 0 => Innermost(n)
    BY <1>2 DEF Innermost
  <2> QED BY <1>2, <2>1 DEF CallbackInv, RestoredIsWanted
<1>7. CallbacksAreWanted'
  BY <1>1, <1>3, <1>5, <1>6 DEF CallbackInv, CallbacksAreWanted
<1>8. SpentIsReleased'
  <2>1. \A u \in Timers \ {t} : timer'[u].type = "oneShot" /\ wanted'[u].fired => timer'[u].callback = 0
    BY <1>1, <1>5 DEF CallbackInv, SpentIsReleased
  <2>2. timer'[t].type = "oneShot" /\ wanted'[t].fired => timer'[t].callback = 0
    <3> SUFFICES ASSUME timer'[t].type = "oneShot", wanted'[t].fired
                 PROVE  timer'[t].callback = 0
      OBVIOUS
    <3>1. r.type = "oneShot" /\ ~ Restores(r) /\ wanted[t].fired
      BY <1>1, <1>5 DEF Restores
    <3>2. r.callback = 0
      BY <1>3, <3>1 DEF CallbackInv, SpentIsReleased
    <3> QED BY <1>5, <3>1, <3>2
  <2> QED BY <2>1, <2>2 DEF SpentIsReleased
<1>9. RestoredIsWanted'
  <2> SUFFICES ASSUME NEW k \in 1 .. Len(stack'), Restores(timer[stack[k].timer])', Innermost(k)'
               PROVE  stack'[k].callback = wanted'[stack'[k].timer].init
    BY DEF RestoredIsWanted
  <2>1. k \in 1 .. n /\ k < n /\ stack'[k] = stack[k] /\ stack[k].timer \in Timers
    <3>1. k \in 1 .. n /\ k < n /\ stack'[k] = stack[k]
      BY <1>2
    <3>2. stack \in Seq(Frame) /\ \A f \in Frame : f.timer \in Timers
      BY DEF TypeInv, TypeOK, Frame
    <3> QED BY <3>1, <3>2, ElementOfSeq
  <2>2. stack[n].timer = stack[k].timer => stack[n].callback = 0
    <3> SUFFICES ASSUME stack[k].timer = t, stack[n].callback # 0
                 PROVE  FALSE
      BY <1>2
    <3>1. Restores(timer'[t])
      BY <2>1
    <3>2. Restores(r)
      BY <3>1, <1>5 DEF Restores
    <3> QED BY <3>1, <3>2, <1>5 DEF Restores
  <2>3. Innermost(k)
    <3>1. \A j \in 1 .. n : (j \in 1 .. Len(stack') /\ stack'[j] = stack[j]) \/ j = n
      <4> HIDE DEF n
      <4>1. \A j \in 1 .. n : j \in 1 .. n - 1 \/ j = n
        BY <1>2
      <4> QED BY <1>2, <4>1
    <3> QED BY <2>1, <2>2, <3>1 DEF Innermost
  <2>4. Restores(timer[stack[k].timer])
    <3>1. CASE stack[k].timer = t
      BY <2>1, <3>1, <1>5 DEF Restores
    <3>2. CASE stack[k].timer # t
      BY <2>1, <3>2, <1>5
    <3> QED BY <3>1, <3>2
  <2> QED BY <1>1, <2>1, <2>3, <2>4 DEF CallbackInv, RestoredIsWanted
<1> QED BY <1>7, <1>8, <1>9 DEF CallbackInv

LEMMA CallbackStep ==
    ASSUME TypeInv, CallbackInv, [Next]_vars
    PROVE  CallbackInv'
<1>1. CASE ClientStep
  BY <1>1, InitCallbacks, InitFailsCallbacks, CancelCallbacks, SetDelayCallbacks DEF ClientStep
<1>2. CASE DropEvent
  <2>1. UNCHANGED <<stack, timer, wanted>>
    BY <1>2 DEF DropEvent, timerVars, history
  <2> QED BY <2>1, SameCallbacks DEF SameCallback
<1>3. CASE Fire
  BY <1>3, FireCallbacks
<1>4. CASE ShutdownReturns \/ UNCHANGED vars
  <2>1. UNCHANGED <<stack, timer, wanted>>
    BY <1>4 DEF vars, ShutdownReturns, timerVars, history
  <2> QED BY <2>1, SameCallbacks DEF SameCallback
<1> QED BY <1>1, <1>2, <1>3, <1>4, ShutdownCallbacks, CallCallbacks, FireEndsCallbacks,
           ThreadCallbacks, TickCallbacks DEF Next, RunEvent

\* A callback is called by Fire() and in no other step.
LEMMA OnlyFireFires ==
    ASSUME TypeInv, CallbackInv, [Next]_vars, NEW t \in Timers, NEW g, Fires(t, g)
    PROVE  /\ Fire
           /\ Head(queue).timer = t /\ timer[t].callback = g /\ g # 0
<1>1. Len(stack) \in Nat /\ Len(stack') > Len(stack)
  BY DEF TypeInv, TypeOK, Fires
<1>2. stack' # stack
  BY <1>1
<1>3. ~ FireEnds
  BY <1>1, StackFrames DEF FireEnds, lists
<1>4. Fire
  BY <1>2, <1>3 DEF Next, vars, ClientStep, InitTimer, InitFails, ShutdownReturns, Cancel,
       SetDelay, lists, Shutdown, CallStep, AddTimer,
     TimerDelayChanged, RunEvent, DropEvent, ThreadStep, Ends, Sleep, WaitForFirst, TakeFirst,
          WakeUp,
     NewTimerEvent, Arm, Rearm, DispatchEvent, Tick
<1>5. Last(stack') = [timer |-> t, callback |-> g] /\ g # 0
  BY DEF Fires
<1>6. Last(stack') = [timer |-> Head(queue).timer, callback |-> timer[Head(queue).timer].callback]
  BY <1>4, FireCallbacks
<1> QED BY <1>4, <1>5, <1>6

LEMMA CallbackInit ==
    ASSUME Init
    PROVE  CallbackInv
BY DEF Init, CallbackInv, CallbacksAreWanted, RestoredIsWanted, SpentIsReleased

\* The callback that runs is the one given to the last Init(), and Cancel() has
\* not been called since: the callback that a timer has, and the one that
\* Fire() would give back to it when it returns, are always wanted.
THEOREM OnlyWantedCallbacks == Spec => NothingAfterCancel
<1>1. TypeInv /\ CallbackInv /\ [Next]_vars
      => [\A t \in Timers, g \in 1 .. MaxCalls : Fires(t, g) => g = wanted[t].init]_vars
  BY OnlyFireFires DEF CallbackInv, CallbacksAreWanted
<1>2. Init => TypeInv /\ CallbackInv
  BY TypeInit, CallbackInit
<1>3. TypeInv /\ CallbackInv /\ [Next]_vars => TypeInv' /\ CallbackInv'
  BY TypeStep, CallbackStep
<1> QED BY <1>1, <1>2, <1>3, PTL DEF Spec, NothingAfterCancel

\* A one-shot timer calls its callback once for each Init(): when it has fired
\* it has no callback left, and Fire() gives none back.
THEOREM OneShotTimersFireOnce == Spec => OneShotFiresOnce
<1>1. TypeInv /\ CallbackInv /\ [Next]_vars
      => [\A t \in Timers, g \in 1 .. MaxCalls :
            Fires(t, g) /\ timer[t].type = "oneShot" => ~ wanted[t].fired]_vars
  BY OnlyFireFires DEF CallbackInv, SpentIsReleased
<1>2. Init => TypeInv /\ CallbackInv
  BY TypeInit, CallbackInit
<1>3. TypeInv /\ CallbackInv /\ [Next]_vars => TypeInv' /\ CallbackInv'
  BY TypeStep, CallbackStep
<1> QED BY <1>1, <1>2, <1>3, PTL DEF Spec, OneShotFiresOnce

----------------------------------------------------------------------------
(***************************************************************************)
(* When it is called.                                                      *)
(***************************************************************************)

\* What is due stays so, and the timeout still covers the rest.
StillCovered(u) ==
    /\ wanted'[u].due <= wanted[u].due
    /\ wanted'[u].due <= Larger(timer'[u].timeout, MaxAdjustment)
    /\ wanted'[u].due <= Larger(timer'[u].delay, MaxAdjustment)
    /\ timer'[u].generation = timer[u].generation

\* The timer thread has not taken u, and what it is about to post for u was due.
NotTaken(u) ==
    /\ Holds(u)' => Holds(u)
    /\ thread'.at = "dispatch" /\ thread'.timer = u /\ thread'.generation = timer[u].generation
       => Holds(u) \/ (/\ thread.at = "dispatch" /\ thread.timer = u
                       /\ thread.generation = thread'.generation)

NothingPosted == \A k \in 1 .. Len(queue') : \E j \in 1 .. Len(queue) : queue'[k] = queue[j]

LEMMA DueTypes ==
    ASSUME TypeInv, NEW u \in Timers
    PROVE  /\ wanted[u].due \in Nat /\ timer[u].timeout \in Int /\ timer[u].delay \in Nat
           /\ timer[u].generation \in Nat
           /\ timer[u] \in Timer
           /\ wanted[u] \in [init : 0 .. MaxCalls, due : Nat, fired : BOOLEAN]
<1>1. timer[u] \in Timer /\ wanted[u] \in [init : 0 .. MaxCalls, due : Nat, fired : BOOLEAN]
  BY DEF TypeInv, TypeOK
<1> QED BY <1>1, TimersAssumption DEF Timer

LEMMA DueTypesAfter ==
    ASSUME TypeInv', NEW u \in Timers
    PROVE  /\ wanted'[u].due \in Nat /\ timer'[u].timeout \in Int /\ timer'[u].delay \in Nat
<1>1. timer'[u] \in Timer /\ wanted'[u] \in [init : 0 .. MaxCalls, due : Nat, fired : BOOLEAN]
  BY DEF TypeInv, TypeOK
<1> QED BY <1>1 DEF Timer

\* DueInv for one timer.
DueInvOf(t) ==
    /\ wanted[t].due <= Larger(timer[t].timeout, MaxAdjustment)
    /\ wanted[t].due <= Larger(timer[t].delay, MaxAdjustment)
    /\ Holds(t) => wanted[t].due <= MaxAdjustment
    /\ thread.at = "dispatch" /\ thread.timer = t /\ thread.generation = timer[t].generation
       => wanted[t].due <= MaxAdjustment
    /\ \A k \in 1 .. Len(queue) :
         queue[k].timer = t /\ queue[k].generation = timer[t].generation => wanted[t].due <= MaxAdjustment

LEMMA DueInvSplit ==
    /\ DueInv <=> \A t \in Timers \ raced : DueInvOf(t)
    /\ DueInv' <=> \A t \in Timers \ raced' : DueInvOf(t)'
BY DEF DueInv, DueInvOf, TimeoutsCover, HeldIsDue, EventsAreDue

LEMMA DueKept ==
    ASSUME TypeInv, TypeInv', NEW u \in Timers, DueInvOf(u),
           StillCovered(u), NotTaken(u), NothingPosted
    PROVE  DueInvOf(u)'
<1>1. wanted[u].due \in Nat /\ wanted'[u].due \in Nat
  BY DueTypes, DueTypesAfter
<1>2. wanted[u].due <= MaxAdjustment => wanted'[u].due <= MaxAdjustment
  BY <1>1, AdjustmentType DEF StillCovered
<1>3. (Holds(u) => wanted[u].due <= MaxAdjustment)'
  BY <1>2 DEF NotTaken, DueInvOf
<1>4. thread'.at = "dispatch" /\ thread'.timer = u /\ thread'.generation = timer'[u].generation
      => wanted'[u].due <= MaxAdjustment
  BY <1>2 DEF NotTaken, DueInvOf, StillCovered
<1>5. \A k \in 1 .. Len(queue') :
         queue'[k].timer = u /\ queue'[k].generation = timer'[u].generation => wanted'[u].due <= MaxAdjustment
  BY <1>2 DEF NothingPosted, DueInvOf, StillCovered
<1> QED BY <1>3, <1>4, <1>5 DEF DueInvOf, StillCovered

\* u keeps what decides about its time.
SameDue(u) ==
    /\ wanted'[u].due = wanted[u].due
    /\ timer'[u].timeout = timer[u].timeout
    /\ timer'[u].delay = timer[u].delay
    /\ timer'[u].generation = timer[u].generation

LEMMA SameDueCovered ==
    ASSUME TypeInv, NEW u \in Timers, DueInvOf(u), SameDue(u)
    PROVE  StillCovered(u)
<1>1. wanted[u].due \in Nat
  BY DueTypes
<1> QED BY <1>1 DEF SameDue, StillCovered, DueInvOf

LEMMA NotifiedNotTaken ==
    ASSUME TypeInv, thread' \in {thread, Notified}, NEW u
    PROVE  NotTaken(u)
BY NotifiedThread DEF NotTaken, Holds

LEMMA QueueShrinks ==
    ASSUME TypeInv, UNCHANGED queue \/ (queue # <<>> /\ queue' = Tail(queue))
    PROVE  NothingPosted
BY QueuedEvents DEF NothingPosted

\* The steps that concern neither the time nor the queue, and at most notify.
LEMMA TimeKept ==
    ASSUME TypeInv, TypeInv', DueInv, raced \subseteq raced', UNCHANGED queue \/ (queue # <<>> /\ queue' = Tail(queue)),
           thread' \in {thread, Notified}, \A u \in Timers \ raced' : StillCovered(u)
    PROVE  DueInv'
<1>1. NothingPosted
  BY QueueShrinks
<1>2. \A u \in Timers \ raced' : DueInvOf(u)
  BY DueInvSplit
<1>3. \A u \in Timers : NotTaken(u)
  BY NotifiedNotTaken
<1>4. \A u \in Timers \ raced' : DueInvOf(u)'
  BY <1>1, <1>2, <1>3, DueKept
<1> QED BY <1>4, DueInvSplit

LEMMA CallDue ==
    ASSUME TypeInv, TypeInv', DueInv, CallStep
    PROVE  DueInv'
<1>1. call.timer \in Timers /\ mTimers \in Seq(Timers) /\ RemoveFirst(mTimers, call.timer) \in Seq(Timers)
  BY RemovedIsList DEF CallStep, AddTimer, TimerDelayChanged, TypeInv, TypeOK, HasTimers
<1>2. PICK list \in Seq(Timers) : Insert(list, call.timer) /\ thread' = Awakened(list, call.timer)
  BY <1>1 DEF CallStep, AddTimer, TimerDelayChanged
<1>3. UNCHANGED <<queue, wanted>> /\ raced \subseteq raced'
  BY DEF CallStep, AddTimer, TimerDelayChanged, Races
<1>4. \A u \in Timers : SameDue(u)
  <2> TAKE u \in Timers
  <2>1. timer'[u] \in {timer[u], [timer[u] EXCEPT !.armed = TRUE]} /\ timer[u] \in Timer
    BY <1>1, <1>2, InsertTypes, DueTypes
  <2> QED BY <1>3, <2>1 DEF SameDue, Timer
<1>5. thread' \in {thread, Notified}
  BY <1>2, AwakenedThread
<1>6. \A u \in Timers \ raced' : StillCovered(u)
  BY <1>3, <1>4, DueInvSplit, SameDueCovered
<1> QED BY <1>3, <1>5, <1>6, TimeKept

LEMMA CancelDue ==
    ASSUME TypeInv, TypeInv', DueInv, NEW t \in Timers, Cancel(t)
    PROVE  DueInv'
<1>1. /\ timer' = [timer EXCEPT ![t] = [timer[t] EXCEPT !.canceled = TRUE, !.callback = 0,
                                                     !.armed = timer[t].armed /\ ~ Listed(t)]]
      /\ wanted' = [wanted EXCEPT ![t] = [wanted[t] EXCEPT !.init = 0]]
      /\ thread' \in {thread, Notified} /\ UNCHANGED <<queue, raced>>
  BY DEF Cancel, TypeInv, TypeOK
<1>2. \A u \in Timers : SameDue(u)
  <2> TAKE u \in Timers
  <2>1. /\ timer[u] \in Timer /\ wanted[u] \in [init : 0 .. MaxCalls, due : Nat, fired : BOOLEAN]
        /\ timer \in [Timers -> Timer]
        /\ wanted \in [Timers -> [init : 0 .. MaxCalls, due : Nat, fired : BOOLEAN]]
    BY DEF TypeInv, TypeOK
  <2>2. CASE u = t
    BY <1>1, <2>1, <2>2 DEF SameDue, Timer
  <2>3. CASE u # t
    BY <1>1, <2>1, <2>3 DEF SameDue
  <2> QED BY <2>2, <2>3
<1>3. \A u \in Timers \ raced' : StillCovered(u)
  BY <1>1, <1>2, DueInvSplit, SameDueCovered
<1> QED BY <1>1, <1>3, TimeKept

LEMMA ShutdownDue ==
    ASSUME TypeInv, TypeInv', DueInv, Shutdown
    PROVE  DueInv'
<1>1. thread' = Notified /\ UNCHANGED <<queue, wanted, raced>>
  BY DEF Shutdown, history
<1>2. \A u \in Timers : SameDue(u)
  <2> TAKE u \in Timers
  <2>1. timer'[u] = IF Listed(u) THEN [timer[u] EXCEPT !.callback = 0, !.armed = FALSE] ELSE timer[u]
    BY DEF Shutdown
  <2> QED BY <1>1, <2>1, DueTypes DEF SameDue, Timer
<1>3. \A u \in Timers \ raced' : StillCovered(u)
  BY <1>1, <1>2, DueInvSplit, SameDueCovered
<1> QED BY <1>1, <1>3, TimeKept

LEMMA EventDue ==
    ASSUME TypeInv, TypeInv', DueInv, RunEvent
    PROVE  DueInv'
<1>1. queue # <<>> /\ queue' = Tail(queue) /\ UNCHANGED <<thread, raced>>
  BY DEF RunEvent, DropEvent, Fire, RunsEvents, history
<1>2. \A u \in Timers : SameDue(u)
  <2>1. CASE DropEvent
    BY <2>1 DEF DropEvent, timerVars, history, SameDue
  <2>2. CASE Fire
    <3> DEFINE t == Head(queue).timer
    <3>1. PICK callback, fired :
             /\ timer' = [timer EXCEPT ![t] = [timer[t] EXCEPT !.callback = callback, !.firing = TRUE]]
             /\ wanted' = [wanted EXCEPT ![t] = [wanted[t] EXCEPT !.fired = fired]]
      BY <2>2 DEF Fire
    <3> HIDE DEF t
    <3> TAKE u \in Timers
    <3>2. /\ timer \in [Timers -> Timer]
          /\ wanted \in [Timers -> [init : 0 .. MaxCalls, due : Nat, fired : BOOLEAN]]
      BY DEF TypeInv, TypeOK
    <3>3. CASE u = t
      <4>1. /\ timer'[u] = [timer[u] EXCEPT !.callback = callback, !.firing = TRUE]
            /\ wanted'[u] = [wanted[u] EXCEPT !.fired = fired]
        BY <3>1, <3>2, <3>3
      <4> QED BY <4>1, DueTypes DEF SameDue, Timer
    <3>4. CASE u # t
      BY <3>1, <3>2, <3>4 DEF SameDue
    <3> QED BY <3>3, <3>4
  <2> QED BY <2>1, <2>2 DEF RunEvent
<1>3. \A u \in Timers \ raced' : StillCovered(u)
  BY <1>1, <1>2, DueInvSplit, SameDueCovered
<1> QED BY <1>1, <1>3, TimeKept

\* A pause before the next firing is as long as the delay, which covers what is
\* left in any case.
LEMMA FireEndsDue ==
    ASSUME TypeInv, TypeInv', DueInv, FireEnds
    PROVE  DueInv'
<1> DEFINE t == Last(stack).timer
           r == timer[t]
           ended == [r EXCEPT !.firing = FALSE,
                              !.callback = IF Restores(r) THEN Last(stack).callback ELSE @]
<1>1. /\ stack # <<>> /\ UNCHANGED <<thread, queue, wanted, raced>>
      /\ timer' = [timer EXCEPT ![t] = IF Again(r) /\ r.type = "slack"
                                           THEN Rescheduled(ended, r.delay) ELSE ended]
  BY DEF FireEnds, lists, history
<1>2. t \in Timers /\ timer \in [Timers -> Timer] /\ Last(stack).callback \in 0 .. MaxCalls
  BY <1>1, StackFrames DEF TypeInv, TypeOK, Frame
<1>3. r \in Timer /\ r.delay \in Nat /\ r.timeout \in Int
  BY <1>2 DEF Timer
<1>4. /\ ended \in Timer /\ ended.type = r.type /\ ended.delay = r.delay
      /\ ended.timeout = r.timeout /\ ended.generation = r.generation
  BY <1>2, <1>3 DEF Timer
<1>5. /\ timer'[t].delay = r.delay /\ timer'[t].generation = r.generation
      /\ timer'[t].timeout \in {r.timeout, r.delay}
      /\ \A u \in Timers \ {t} : timer'[u] = timer[u]
  <2> HIDE DEF ended
  <2>1. CASE Again(r) /\ r.type = "slack"
    <3>1. /\ Rescheduled(ended, r.delay).delay = r.delay
          /\ Rescheduled(ended, r.delay).generation = r.generation
          /\ Rescheduled(ended, r.delay).timeout = r.delay
      BY <1>3, <1>4, <2>1, RescheduledType
    <3> QED BY <1>1, <1>2, <2>1, <3>1
  <2>2. CASE ~ (Again(r) /\ r.type = "slack")
    BY <1>1, <1>2, <1>4, <2>2
  <2> QED BY <2>1, <2>2
<1>6. \A u \in Timers \ {t} : SameDue(u)
  BY <1>1, <1>5 DEF SameDue
<1>7. t \notin raced' => StillCovered(t)
  <2> SUFFICES ASSUME t \notin raced
               PROVE  StillCovered(t)
    BY <1>1
  <2>1. /\ wanted[t].due <= Larger(r.timeout, MaxAdjustment)
        /\ wanted[t].due <= Larger(r.delay, MaxAdjustment)
        /\ wanted[t].due \in Nat
    BY <1>2, DueInvSplit, DueTypes DEF DueInvOf
  <2> QED BY <1>1, <1>3, <1>5, <2>1 DEF StillCovered, Larger
<1>8. \A u \in Timers \ raced' : StillCovered(u)
  BY <1>1, <1>6, <1>7, DueInvSplit, SameDueCovered
<1> QED BY <1>1, <1>8, TimeKept

\* No event carries the new generation yet; a timer that is held is in a race.
LEMMA InitDue ==
    ASSUME TypeInv, TypeInv', DueInv, NEW t \in Timers, InitTimer(t)
    PROVE  DueInv'
<1>1. /\ calls \in Nat /\ calls' = calls + 1
      /\ timer \in [Timers -> Timer]
      /\ wanted \in [Timers -> [init : 0 .. MaxCalls, due : Nat, fired : BOOLEAN]]
  BY CallsNumber DEF InitTimer, TypeInv, TypeOK
<1>2. PICK type \in Types, delay \in Delays :
         /\ timer' = [timer EXCEPT ![t] =
                        [timer[t] EXCEPT !.callback = calls', !.generation = calls',
                                  !.canceled = FALSE, !.armed = timer[t].armed /\ ~ Listed(t),
                                  !.type = type, !.delay = delay, !.timeout = delay]]
         /\ wanted' = [wanted EXCEPT ![t] = [init |-> calls', due |-> delay, fired |-> FALSE]]
  BY DEF InitTimer
<1>3. /\ timer'[t].generation = calls' /\ timer'[t].delay = delay /\ timer'[t].timeout = delay
      /\ wanted'[t].due = delay /\ delay \in Nat \ {0}
  <2>1. timer[t] \in Timer
    BY <1>1
  <2> QED BY <1>1, <1>2, <2>1, TimersAssumption DEF Timer
<1>4. thread' \in {thread, Notified} /\ UNCHANGED queue /\ Races(t)
  BY DEF InitTimer
<1>5. ASSUME NEW u \in Timers \ raced'
      PROVE  DueInvOf(u)'
  <2>1. CASE u # t
    <3>1. SameDue(u) /\ DueInvOf(u)
      BY <1>1, <1>2, <1>4, <1>5, <2>1, DueInvSplit DEF SameDue, Races
    <3> QED BY <1>4, <3>1, SameDueCovered, NotifiedNotTaken, QueueShrinks, DueKept
  <2>2. CASE u = t
    <3>1. ~ Holds(t)'
      <4>1. ~ Holds(t)
        BY <1>4, <1>5, <2>2 DEF Races
      <4> QED BY <1>4, <4>1, NotifiedThread DEF Holds
    <3>2. thread'.generation = thread.generation /\ thread.generation <= calls /\ thread.generation \in Int
      <4>1. thread'.generation = thread.generation
        BY <1>4, NotifiedThread
      <4>2. thread.generation \in 0 .. MaxCalls /\ thread.generation <= calls
        BY DEF TypeInv, TypeOK, Numbered, Thread
      <4> QED BY <4>1, <4>2, TimersAssumption
    <3>3. thread'.generation # timer'[t].generation
      BY <1>1, <1>3, <3>2
    <3>4. \A k \in 1 .. Len(queue') : queue'[k].generation # timer'[t].generation
      <4> TAKE k \in 1 .. Len(queue')
      <4>1. queue'[k].generation <= calls
        BY <1>4 DEF TypeInv, Numbered
      <4> QED BY <1>1, <1>3, <4>1
    <3>5. /\ wanted'[t].due <= Larger(timer'[t].timeout, MaxAdjustment)
          /\ wanted'[t].due <= Larger(timer'[t].delay, MaxAdjustment)
      BY <1>3, AdjustmentType DEF Larger
    <3> QED BY <2>2, <3>1, <3>3, <3>4, <3>5 DEF DueInvOf
  <2> QED BY <2>1, <2>2
<1> QED BY <1>5, DueInvSplit

\* Init() that fails leaves the time as it was.
LEMMA InitFailsDue ==
    ASSUME TypeInv, TypeInv', DueInv, NEW t \in Timers, InitFails(t)
    PROVE  DueInv'
<1>1. /\ timer' = [timer EXCEPT ![t] = [timer[t] EXCEPT !.callback = calls']]
      /\ wanted' = [wanted EXCEPT ![t] = [wanted[t] EXCEPT !.init = calls', !.fired = FALSE]]
      /\ UNCHANGED <<thread, queue, raced>>
  BY DEF InitFails, TypeInv, TypeOK
<1>2. \A u \in Timers : SameDue(u)
  <2> TAKE u \in Timers
  <2>1. /\ timer[u] \in Timer /\ wanted[u] \in [init : 0 .. MaxCalls, due : Nat, fired : BOOLEAN]
        /\ timer \in [Timers -> Timer]
        /\ wanted \in [Timers -> [init : 0 .. MaxCalls, due : Nat, fired : BOOLEAN]]
    BY DEF TypeInv, TypeOK
  <2>2. CASE u = t
    BY <1>1, <2>1, <2>2 DEF SameDue, Timer
  <2>3. CASE u # t
    BY <1>1, <2>1, <2>3 DEF SameDue
  <2> QED BY <2>2, <2>3
<1>3. \A u \in Timers \ raced' : StillCovered(u)
  BY <1>1, <1>2, DueInvSplit, SameDueCovered
<1> QED BY <1>1, <1>3, TimeKept

LEMMA ShutdownReturnsDue ==
    ASSUME TypeInv, TypeInv', DueInv, ShutdownReturns
    PROVE  DueInv'
<1>1. UNCHANGED <<timer, queue, wanted, raced>> /\ thread'.at = "gone"
  BY DEF ShutdownReturns, timerVars, history, TypeInv, TypeOK, Thread
<1>2. \A u \in Timers : SameDue(u) /\ NotTaken(u)
  BY <1>1 DEF SameDue, NotTaken, Holds
<1> QED BY <1>1, <1>2, DueInvSplit, SameDueCovered, QueueShrinks, DueKept

LEMMA SetDelayDue ==
    ASSUME TypeInv, TypeInv', DueInv, NEW t \in Timers, SetDelay(t)
    PROVE  DueInv'
<1>1. timer \in [Timers -> Timer] /\ wanted \in [Timers -> [init : 0 .. MaxCalls, due : Nat, fired : BOOLEAN]]
  BY DEF TypeInv, TypeOK
<1>2. PICK delay \in Delays :
          /\ timer' = [timer EXCEPT ![t] = [timer[t] EXCEPT !.delay = delay, !.timeout = delay]]
          /\ wanted' = [wanted EXCEPT ![t] = [wanted[t] EXCEPT !.due = Smaller(wanted[t].due, delay)]]
  BY <1>1 DEF SetDelay, lists
<1>3. UNCHANGED <<thread, queue>> /\ raced \subseteq raced'
  BY DEF SetDelay, lists, Races
<1>4. \A u \in Timers \ {t} : SameDue(u)
  BY <1>1, <1>2 DEF SameDue
<1>5. StillCovered(t)
  <2>1. /\ wanted[t].due \in Nat /\ timer[t] \in Timer /\ delay \in Nat
        /\ wanted[t] \in [init : 0 .. MaxCalls, due : Nat, fired : BOOLEAN]
    BY DueTypes, TimersAssumption
  <2>2. /\ wanted'[t].due = Smaller(wanted[t].due, delay)
        /\ timer'[t].delay = delay /\ timer'[t].timeout = delay
        /\ timer'[t].generation = timer[t].generation
    BY <1>1, <1>2, <2>1 DEF Timer
  <2> QED BY <2>1, <2>2, AdjustmentType DEF StillCovered, Smaller, Larger
<1>6. \A u \in Timers \ raced' : StillCovered(u)
  BY <1>3, <1>4, <1>5, DueInvSplit, SameDueCovered
<1> QED BY <1>3, <1>6, TimeKept

\* Time passes for the timeout, for what is due and for the wait alike.
LEMMA TickDue ==
    ASSUME TypeInv, TypeInv', DueInv, Tick
    PROVE  DueInv'
<1>1. /\ thread' = [thread EXCEPT !.wake = Less(thread.wake)]
      /\ UNCHANGED <<queue, raced>>
  BY DEF Tick, lists
<1>2. ASSUME NEW u \in Timers \ raced'
      PROVE  StillCovered(u)
  <2>1. /\ timer'[u] = [timer[u] EXCEPT !.timeout = IF CountsFrom(u) THEN timer[u].timeout - 1
                                                                     ELSE Older(timer[u].timeout)]
        /\ wanted'[u] = [wanted[u] EXCEPT !.due = Less(wanted[u].due)]
    BY DEF Tick, lists
  <2>2. /\ timer[u] \in Timer /\ timer[u].timeout \in Int /\ timer[u].delay \in Nat
        /\ wanted[u] \in [init : 0 .. MaxCalls, due : Nat, fired : BOOLEAN] /\ wanted[u].due \in Nat
    BY DueTypes
  <2>3. /\ wanted[u].due <= Larger(timer[u].timeout, MaxAdjustment)
        /\ wanted[u].due <= Larger(timer[u].delay, MaxAdjustment)
    BY <1>1, <1>2, DueInvSplit DEF DueInvOf
  <2>4. /\ timer'[u].timeout = IF CountsFrom(u) THEN timer[u].timeout - 1 ELSE Older(timer[u].timeout)
        /\ timer'[u].delay = timer[u].delay /\ timer'[u].generation = timer[u].generation
        /\ wanted'[u].due = Less(wanted[u].due)
    BY <2>1, <2>2 DEF Timer
  <2> QED BY <2>2, <2>3, <2>4, AdjustmentType DEF StillCovered, Less, Older, Larger
<1>3. \A u \in Timers : NotTaken(u)
  <2>1. thread'.at = thread.at /\ thread'.timer = thread.timer /\ thread'.generation = thread.generation
    BY <1>1 DEF TypeInv, TypeOK, Thread
  <2> QED BY <2>1 DEF NotTaken, Holds
<1> QED BY <1>1, <1>2, <1>3, DueInvSplit, QueueShrinks, DueKept

LEMMA ThreadMovesDue ==
    ASSUME TypeInv, TypeInv', DueInv, Ends \/ Sleep \/ WaitForFirst \/ WakeUp \/ NewTimerEvent
    PROVE  DueInv'
<1>1. UNCHANGED <<timer, queue, wanted>> /\ raced \subseteq raced'
  BY ThreadMoves
<1>2. \A u \in Timers : SameDue(u)
  BY <1>1 DEF SameDue
<1>3. \A u \in Timers : NotTaken(u)
  BY ThreadMoves DEF NotTaken, Holds
<1> QED BY <1>1, <1>2, <1>3, DueInvSplit, SameDueCovered, QueueShrinks, DueKept

\* The first timer is taken off the list when its timeout has come.
LEMMA TakeFirstDue ==
    ASSUME TypeInv, TypeInv', DueInv, TakeFirst
    PROVE  DueInv'
<1> DEFINE t == Head(mTimers)
<1>1. /\ t \in Timers /\ timer[t].timeout <= MaxAdjustment
      /\ timer' = [timer EXCEPT ![t] = [timer[t] EXCEPT !.armed = FALSE]]
      /\ thread' = [thread EXCEPT !.at = "post", !.timer = t]
      /\ UNCHANGED <<queue, wanted>> /\ raced \subseteq raced'
  <2>1. mTimers \in Seq(Timers) /\ mTimers # <<>>
    BY DEF TakeFirst, TypeInv, TypeOK
  <2>2. t \in Timers
    BY <2>1, HeadTailProperties
  <2>3. timer[t].timeout \in Int /\ timer[t].timeout + mTimeoutAdjustment <= 0
    BY <2>2, DueTypes DEF TakeFirst, TimeLeft
  <2>4. timer[t].timeout <= MaxAdjustment
    BY <2>3, AdjustmentType
  <2> QED BY <2>2, <2>4 DEF TakeFirst, ReadsInCall
<1> HIDE DEF t
<1>2. \A u \in Timers : SameDue(u)
  <2> TAKE u \in Timers
  <2>1. timer \in [Timers -> Timer] /\ timer[u] \in Timer
    BY DEF TypeInv, TypeOK
  <2>2. timer'[u] \in {timer[u], [timer[u] EXCEPT !.armed = FALSE]}
    BY <1>1, <2>1
  <2> QED BY <1>1, <2>1, <2>2 DEF SameDue, Timer
<1>3. thread'.at = "post" /\ thread'.timer = t
  BY <1>1 DEF TypeInv, TypeOK, Thread
<1>4. ASSUME NEW u \in Timers \ raced'
      PROVE  DueInvOf(u)'
  <2>1. DueInvOf(u) /\ SameDue(u)
    BY <1>1, <1>2, <1>4, DueInvSplit
  <2>2. u = t => wanted[u].due <= MaxAdjustment
    BY <1>1, <2>1, DueTypes, AdjustmentType DEF DueInvOf, Larger
  <2>3. (Holds(u) => wanted[u].due <= MaxAdjustment)'
    BY <1>1, <1>3, <2>2 DEF Holds
  <2>4. \A k \in 1 .. Len(queue') :
          queue'[k].timer = u /\ queue'[k].generation = timer'[u].generation => wanted'[u].due <= MaxAdjustment
    BY <1>1, <2>1 DEF DueInvOf, SameDue
  <2> QED BY <1>3, <2>1, <2>3, <2>4 DEF DueInvOf, SameDue
<1> QED BY <1>4, DueInvSplit

\* A timer that is held is due already, and stays covered whatever is written.
LEMMA ArmDue ==
    ASSUME TypeInv, TypeInv', DueInv, Arm
    PROVE  DueInv'
<1> DEFINE t == thread.timer
<1>1. /\ t \in Timers /\ timer \in [Timers -> Timer] /\ thread.delay \in Nat /\ thread.at = "arm"
      /\ timer' = [timer EXCEPT ![t] = Rescheduled(timer[t], thread.delay)]
      /\ UNCHANGED <<queue, wanted, raced>>
  BY DEF Arm, lists, history, TypeInv, TypeOK, HasTimers, Thread
<1>2. /\ \A u \in Timers \ {t} : SameDue(u)
      /\ timer'[t].generation = timer[t].generation
  <2>1. timer[t] \in Timer /\ timer'[t] = Rescheduled(timer[t], thread.delay)
    BY <1>1
  <2>2. timer'[t].generation = timer[t].generation
    BY <1>1, <2>1, RescheduledType
  <2> QED BY <1>1, <2>2 DEF SameDue
<1>3. t \notin raced => StillCovered(t)
  <2> SUFFICES ASSUME t \notin raced
               PROVE  StillCovered(t)
    OBVIOUS
  <2>1. wanted[t].due <= MaxAdjustment
    BY <1>1, DueInvSplit DEF DueInvOf, Holds
  <2>2. timer'[t].timeout \in Int /\ timer'[t].delay \in Nat
    BY <1>1, DueTypesAfter
  <2>3. wanted[t].due \in Nat /\ timer[t].delay \in Nat
    BY <1>1, DueTypes
  <2> QED BY <1>1, <1>2, <2>1, <2>2, <2>3, AdjustmentType DEF StillCovered, Larger
<1>4. \A u \in Timers \ raced' : StillCovered(u)
  BY <1>1, <1>2, <1>3, DueInvSplit, SameDueCovered
<1>5. \A u \in Timers : NotTaken(u)
  <2>1. thread'.at \in {"add", "dispatch"} /\ thread'.timer = t
    BY DEF Arm, lists, TypeInv, TypeOK, Thread
  <2> QED BY <1>1, <2>1 DEF NotTaken, Holds
<1> QED BY <1>1, <1>4, <1>5, DueInvSplit, QueueShrinks, DueKept

LEMMA RearmDue ==
    ASSUME TypeInv, TypeInv', DueInv, Rearm
    PROVE  DueInv'
<1>1. /\ thread.timer \in Timers /\ mTimers \in Seq(Timers) /\ thread.at = "add"
      /\ Insert(mTimers, thread.timer) /\ UNCHANGED <<queue, wanted>> /\ raced \subseteq raced'
  BY DEF Rearm, ComparesInCall, TypeInv, TypeOK, HasTimers
<1>2. \A u \in Timers : SameDue(u)
  <2> TAKE u \in Timers
  <2>1. timer'[u] \in {timer[u], [timer[u] EXCEPT !.armed = TRUE]} /\ timer[u] \in Timer
    BY <1>1, InsertTypes, DueTypes
  <2> QED BY <1>1, <2>1 DEF SameDue, Timer
<1>3. \A u \in Timers : NotTaken(u)
  <2>1. thread'.at \in {"scan", "dispatch"} /\ thread'.timer = thread.timer
    BY DEF Rearm, TypeInv, TypeOK, Thread
  <2> QED BY <1>1, <2>1 DEF NotTaken, Holds
<1> QED BY <1>1, <1>2, <1>3, DueInvSplit, SameDueCovered, QueueShrinks, DueKept

LEMMA DispatchDue ==
    ASSUME TypeInv, TypeInv', DueInv, DispatchEvent
    PROVE  DueInv'
<1>1. thread.at = "dispatch" /\ UNCHANGED <<timer, wanted, raced>>
  BY DEF DispatchEvent, timerVars, history
<1>2. thread'.at = "scan"
  BY DEF DispatchEvent, TypeInv, TypeOK, Thread
<1>3. /\ Len(queue) \in Nat /\ Len(queue') = Len(queue) + 1
      /\ \A k \in 1 .. Len(queue) : queue'[k] = queue[k]
      /\ queue'[Len(queue) + 1] = [timer |-> thread.timer, generation |-> thread.generation]
  BY DispatchTypes
<1>4. ASSUME NEW u \in Timers \ raced'
      PROVE  DueInvOf(u)'
  <2>1. DueInvOf(u)
    BY <1>1, <1>4, DueInvSplit
  <2>2. ASSUME NEW k \in 1 .. Len(queue'), queue'[k].timer = u, queue'[k].generation = timer[u].generation
        PROVE  wanted[u].due <= MaxAdjustment
    <3>1. CASE k \in 1 .. Len(queue)
      BY <1>3, <2>1, <2>2, <3>1 DEF DueInvOf
    <3>2. CASE k = Len(queue) + 1
      <4>1. thread.timer = u /\ thread.generation = timer[u].generation
        BY <1>3, <2>2, <3>2
      <4> QED BY <1>1, <2>1, <4>1 DEF DueInvOf
    <3> QED BY <1>3, <3>1, <3>2
  <2> QED BY <1>1, <1>2, <2>1, <2>2 DEF DueInvOf, Holds
<1> QED BY <1>4, DueInvSplit

LEMMA DueStep ==
    ASSUME TypeInv, DueInv, [Next]_vars
    PROVE  DueInv'
<1>1. TypeInv'
  BY TypeStep
<1>2. CASE ClientStep
  BY <1>1, <1>2, InitDue, InitFailsDue, CancelDue, SetDelayDue DEF ClientStep
<1>3. CASE ThreadStep
  BY <1>1, <1>3, ThreadMovesDue, TakeFirstDue, ArmDue, RearmDue, DispatchDue DEF ThreadStep
<1>4. CASE UNCHANGED vars
  BY <1>4 DEF vars, DueInv, TimeoutsCover, HeldIsDue, EventsAreDue, Holds
<1> QED BY <1>1, <1>2, <1>3, <1>4, ShutdownDue, ShutdownReturnsDue, CallDue, EventDue,
     FireEndsDue, TickDue DEF Next

LEMMA DueInit ==
    ASSUME Init
    PROVE  DueInv
<1>1. /\ thread.at = "scan" /\ queue = <<>>
      /\ \A t \in Timers : wanted[t].due = 0 /\ timer[t].timeout = 0 /\ timer[t].delay = 0
  BY DEF Init
<1> QED BY <1>1, TimersAssumption DEF DueInv, TimeoutsCover, HeldIsDue, EventsAreDue, Holds, Larger

\* A callback runs sooner than the client has asked for by the largest adjustment at
\* most, whatever the queue and nested event loops do: until then the timer is either
\* in the list with a timeout that covers the rest, or an event that is on the way for
\* it carries an older generation.  Timers that a call and the timer thread have used
\* at once are excepted: ReinitializedWaits does not hold of them.
THEOREM NeverFiresEarly == Spec => NeverEarly
<1>1. TypeInv /\ CallbackInv /\ DueInv /\ [Next]_vars
      => [\A t \in Timers, g \in 1 .. MaxCalls : Fires(t, g) /\ t \notin raced => wanted[t].due <= MaxAdjustment]_vars
  <2> SUFFICES ASSUME TypeInv, CallbackInv, DueInv, [Next]_vars,
                      NEW t \in Timers, NEW g \in 1 .. MaxCalls, Fires(t, g), t \notin raced
               PROVE  wanted[t].due <= MaxAdjustment
    OBVIOUS
  <2>1. Fire /\ Head(queue).timer = t
    BY OnlyFireFires
  <2>2. queue # <<>> /\ Head(queue).generation = timer[t].generation
    BY <2>1 DEF Fire, RunsEvents, Stale
  <2>3. Head(queue) = queue[1] /\ 1 \in 1 .. Len(queue)
    BY <2>2, QueuedEvents
  <2> QED BY <2>1, <2>2, <2>3, DueInvSplit DEF DueInvOf
<1>2. Init => TypeInv /\ CallbackInv /\ DueInv
  BY TypeInit, CallbackInit, DueInit
<1>3. TypeInv /\ CallbackInv /\ DueInv /\ [Next]_vars => TypeInv' /\ CallbackInv' /\ DueInv'
  BY TypeStep, CallbackStep, DueStep
<1> QED BY <1>1, <1>2, <1>3, PTL DEF Spec, NeverEarly

----------------------------------------------------------------------------
(***************************************************************************)
(* The timer thread has each armed timer in its list, once, and does not   *)
(* sleep past any of them.                                                 *)
(***************************************************************************)

Once(s, t) == \A j, k \in 1 .. Len(s) : s[j] = t /\ s[k] = t => j = k

\* AddTimer() is about to be called for t, by the client or by the timer thread.
Adds(t) == call.rest = "add" /\ call.timer = t
Arms(t) == Holds(t) /\ thread.at = "add"

\* Whoever is about to add a timer finds it off the list, and not both are.
ListInvOf(t) ==
    /\ timer[t].armed <=> Listed(t)
    /\ Once(mTimers, t)
    /\ Holds(t) \/ Adds(t) => ~ timer[t].armed
    /\ Arms(t) => timer[t].type = "precise"
    /\ Adds(t) /\ Holds(t) => timer[t].type # "precise"

ListInv == \A t \in Timers \ raced : ListInvOf(t)

\* List s has the same timers as l, but for t.
SameBut(s, l, t) ==
    \A u \in Timers \ {t} : /\ Contains(s, u) <=> Contains(l, u)
                            /\ Once(l, u) => Once(s, u)

----------------------------------------------------------------------------
(***************************************************************************)
(* The list.                                                               *)
(***************************************************************************)

\* What is left of l without its place m.
LEMMA Without ==
    ASSUME NEW l \in Seq(Timers), NEW s \in Seq(Timers), NEW m \in 1 .. Len(l),
           Len(s) = Len(l) - 1,
           \A i \in 1 .. Len(s) : s[i] = IF i < m THEN l[i] ELSE l[i + 1]
    PROVE  SameBut(s, l, l[m]) /\ (Once(l, l[m]) => ~ Contains(s, l[m]))
<1>1. Len(l) \in Nat /\ Len(s) \in Nat
  BY LenProperties
<1>2. ASSUME NEW u \in Timers \ {l[m]} PROVE Contains(s, u) <=> Contains(l, u)
  <2>1. ASSUME NEW i \in 1 .. Len(s), s[i] = u PROVE \E j \in 1 .. Len(l) : l[j] = u
    <3>1. i \in 1 .. Len(l) /\ i + 1 \in 1 .. Len(l)
      BY <1>1
    <3> QED BY <2>1, <3>1
  <2>2. ASSUME NEW j \in 1 .. Len(l), l[j] = u PROVE \E i \in 1 .. Len(s) : s[i] = u
    <3>1. CASE j < m
      <4>1. j \in 1 .. Len(s)
        BY <1>1, <3>1
      <4> QED BY <2>2, <3>1, <4>1
    <3>2. CASE j > m
      <4>1. j - 1 \in 1 .. Len(s) /\ ~ (j - 1 < m) /\ (j - 1) + 1 = j
        BY <1>1, <3>2
      <4>2. s[j - 1] = l[(j - 1) + 1]
        BY <4>1
      <4> QED BY <2>2, <4>1, <4>2
    <3>3. j # m
      BY <2>2
    <3> QED BY <1>1, <3>1, <3>2, <3>3
  <2> QED BY <2>1, <2>2 DEF Contains
<1>3. ASSUME NEW u \in Timers, Once(l, u) PROVE Once(s, u)
  <2> SUFFICES ASSUME NEW j \in 1 .. Len(s), NEW k \in 1 .. Len(s), s[j] = u, s[k] = u
               PROVE  j = k
    BY DEF Once
  <2> DEFINE At(i) == IF i < m THEN i ELSE i + 1
  <2>1. At(j) \in 1 .. Len(l) /\ At(k) \in 1 .. Len(l)
    BY <1>1
  <2>2. l[At(j)] = u /\ l[At(k)] = u
    OBVIOUS
  <2>3. At(j) = At(k)
    <3> HIDE DEF At
    <3> QED BY <1>3, <2>1, <2>2 DEF Once
  <2> QED BY <1>1, <2>3
<1>4. ASSUME Once(l, l[m]), Contains(s, l[m]) PROVE FALSE
  <2>1. PICK i \in 1 .. Len(s) : s[i] = l[m]
    BY <1>4 DEF Contains
  <2> DEFINE k == IF i < m THEN i ELSE i + 1
  <2>2. k \in 1 .. Len(l) /\ k # m /\ l[k] = l[m]
    BY <1>1, <2>1
  <2> HIDE DEF k
  <2> QED BY <1>4, <2>2 DEF Once
<1> QED BY <1>2, <1>3, <1>4 DEF SameBut

\* RemoveTimerInternal leaves out the first place of a timer.
LEMMA Removed ==
    ASSUME NEW l \in Seq(Timers), NEW t \in Timers
    PROVE  LET s == RemoveFirst(l, t)
           IN /\ s \in Seq(Timers)
              /\ ~ Contains(l, t) => s = l
              /\ Contains(l, t) =>
                   \E m \in 1 .. Len(l) :
                      /\ l[m] = t /\ Len(s) = Len(l) - 1
                      /\ \A i \in 1 .. Len(s) : s[i] = IF i < m THEN l[i] ELSE l[i + 1]
<1> DEFINE s == RemoveFirst(l, t)
           I == {i \in 1 .. Len(l) : l[i] = t}
           m == Min(I)
<1>1. s \in Seq(Timers) /\ Len(l) \in Nat
  BY RemovedIsList, LenProperties
<1>2. ~ Contains(l, t) => s = l
  BY DEF Contains, RemoveFirst
<1>3. ASSUME Contains(l, t)
      PROVE  \E k \in 1 .. Len(l) :
                /\ l[k] = t /\ Len(s) = Len(l) - 1
                /\ \A i \in 1 .. Len(s) : s[i] = IF i < k THEN l[i] ELSE l[i + 1]
  <2>1. I # {} /\ I \in SUBSET Nat
    BY <1>3 DEF Contains
  <2>2. m \in 1 .. Len(l) /\ l[m] = t
    <3>1. m \in I
      <4> HIDE DEF I
      <4> QED BY <2>1, LeastOf
    <3> HIDE DEF m
    <3> QED BY <3>1
  <2>3. SelectInSeq(l, LAMBDA v : v = t) = m
    BY <2>1 DEF SelectInSeq
  <2>4. s = RemoveAt(l, m)
    BY <1>3, <2>3 DEF RemoveFirst, Contains
  <2> HIDE DEF m, I
  <2> DEFINE s1 == SubSeq(l, 1, m - 1)
             s2 == SubSeq(l, m + 1, Len(l))
  <2>5. /\ s1 \in Seq(Timers) /\ Len(s1) = m - 1
        /\ \A i \in 1 .. m - 1 : s1[i] = l[i]
    BY <1>1, <2>2
  <2>6. /\ s2 \in Seq(Timers) /\ Len(s2) = Len(l) - m
        /\ \A i \in 1 .. Len(l) - m : s2[i] = l[i + m]
    BY <1>1, <2>2
  <2>7. s = s1 \o s2
    BY <2>4 DEF RemoveAt
  <2> HIDE DEF s, s1, s2
  <2>8. Len(s) = Len(l) - 1
    <3>1. Len(s) = Len(s1) + Len(s2)
      BY <2>5, <2>6, <2>7, ConcatProperties
    <3> QED BY <1>1, <2>2, <2>5, <2>6, <3>1
  <2>9. ASSUME NEW i \in 1 .. Len(s) PROVE s[i] = IF i < m THEN l[i] ELSE l[i + 1]
    <3>1. s[i] = IF i <= Len(s1) THEN s1[i] ELSE s2[i - Len(s1)]
      BY <1>1, <2>2, <2>5, <2>6, <2>7, <2>8, ConcatProperties
    <3>2. CASE i < m
      BY <2>2, <2>5, <2>8, <3>1, <3>2
    <3>3. CASE ~ (i < m)
      <4>1. i - (m - 1) \in 1 .. Len(l) - m /\ (i - (m - 1)) + m = i + 1 /\ ~ (i <= m - 1)
        BY <1>1, <2>2, <2>8, <3>3
      <4> QED BY <2>5, <2>6, <3>1, <3>3, <4>1
    <3> QED BY <3>2, <3>3
  <2> QED BY <2>2, <2>8, <2>9
<1> HIDE DEF s
<1> QED BY <1>1, <1>2, <1>3 DEF s

\* It takes a timer off that is there once.
LEMMA RemovedOnce ==
    ASSUME NEW l \in Seq(Timers), NEW t \in Timers
    PROVE  LET s == RemoveFirst(l, t)
           IN s \in Seq(Timers) /\ SameBut(s, l, t) /\ (Once(l, t) => ~ Contains(s, t))
<1> DEFINE s == RemoveFirst(l, t)
<1>1. /\ s \in Seq(Timers)
      /\ ~ Contains(l, t) => s = l
      /\ Contains(l, t) =>
           \E m \in 1 .. Len(l) :
              /\ l[m] = t /\ Len(s) = Len(l) - 1
              /\ \A i \in 1 .. Len(s) : s[i] = IF i < m THEN l[i] ELSE l[i + 1]
  BY Removed
<1> HIDE DEF s
<1>2. ASSUME ~ Contains(l, t)
      PROVE  SameBut(s, l, t) /\ (Once(l, t) => ~ Contains(s, t))
  BY <1>1, <1>2 DEF SameBut
<1>3. ASSUME Contains(l, t)
      PROVE  SameBut(s, l, t) /\ (Once(l, t) => ~ Contains(s, t))
  BY <1>1, <1>3, Without
<1> QED BY <1>1, <1>2, <1>3 DEF s

\* AddTimerInternal puts a timer in its place.
LEMMA Inserted ==
    ASSUME NEW l \in Seq(Timers), NEW t \in Timers
    PROVE  LET m == Place(l, t)
               s == InsertAt(l, m, t)
           IN /\ s \in Seq(Timers) /\ Len(s) = Len(l) + 1 /\ m \in 1 .. Len(l) + 1
              /\ \A i \in 1 .. Len(l) + 1 :
                    s[i] = IF i < m THEN l[i] ELSE IF i = m THEN t ELSE l[i - 1]
<1> DEFINE m == Place(l, t)
           s == InsertAt(l, m, t)
           s1 == SubSeq(l, 1, m - 1)
           s2 == SubSeq(l, m, Len(l))
           s3 == <<t>>
<1>1. s \in Seq(Timers) /\ Len(l) \in Nat /\ m \in 1 .. Len(l) + 1
  BY InsertedIsList, PlaceInList, LenProperties
<1>2. s = s1 \o s3 \o s2
  BY DEF InsertAt
<1> HIDE DEF m
<1>3. /\ s1 \in Seq(Timers) /\ Len(s1) = m - 1
      /\ \A i \in 1 .. m - 1 : s1[i] = l[i]
  BY <1>1
<1>4. /\ s2 \in Seq(Timers) /\ Len(s2) = (Len(l) - m) + 1
      /\ \A i \in 1 .. (Len(l) - m) + 1 : s2[i] = l[(i + m) - 1]
  BY <1>1
<1>5. s3 \in Seq(Timers) /\ Len(s3) = 1 /\ s3[1] = t
  OBVIOUS
<1> HIDE DEF s, s1, s2, s3
<1> DEFINE s13 == s1 \o s3
<1>6. /\ s13 \in Seq(Timers) /\ Len(s13) = m
      /\ \A i \in 1 .. m : s13[i] = IF i < m THEN l[i] ELSE t
  <2>1. /\ s13 \in Seq(Timers) /\ Len(s13) = Len(s1) + Len(s3)
        /\ \A i \in 1 .. Len(s1) + Len(s3) :
              s13[i] = IF i <= Len(s1) THEN s1[i] ELSE s3[i - Len(s1)]
    BY <1>3, <1>5, ConcatProperties
  <2> HIDE DEF s13
  <2> QED BY <1>1, <1>3, <1>5, <2>1
<1>7. /\ Len(s) = Len(l) + 1
      /\ \A i \in 1 .. Len(l) + 1 : s[i] = IF i < m THEN l[i] ELSE IF i = m THEN t ELSE l[i - 1]
  <2>1. s = s13 \o s2
    BY <1>2
  <2> HIDE DEF s13
  <2>2. /\ Len(s) = Len(s13) + Len(s2)
        /\ \A i \in 1 .. Len(s13) + Len(s2) :
              s[i] = IF i <= Len(s13) THEN s13[i] ELSE s2[i - Len(s13)]
    BY <1>4, <1>6, <2>1, ConcatProperties
  <2>3. Len(s) = Len(l) + 1
    BY <1>1, <1>4, <1>6, <2>2
  <2>4. ASSUME NEW i \in 1 .. Len(l) + 1
        PROVE  s[i] = IF i < m THEN l[i] ELSE IF i = m THEN t ELSE l[i - 1]
    <3>1. s[i] = IF i <= m THEN s13[i] ELSE s2[i - m]
      BY <1>1, <1>4, <1>6, <2>2
    <3>2. CASE i <= m
      BY <1>1, <1>6, <3>1, <3>2
    <3>3. CASE ~ (i <= m)
      <4>1. i - m \in 1 .. (Len(l) - m) + 1 /\ ((i - m) + m) - 1 = i - 1
        BY <1>1, <3>3
      <4> QED BY <1>1, <1>4, <3>1, <3>3, <4>1
    <3> QED BY <3>2, <3>3
  <2> QED BY <2>3, <2>4
<1> QED BY <1>1, <1>7 DEF s, m

\* There it is once, if it was not there.
LEMMA InsertedOnce ==
    ASSUME NEW l \in Seq(Timers), NEW t \in Timers
    PROVE  LET s == InsertAt(l, Place(l, t), t)
           IN /\ s \in Seq(Timers) /\ SameBut(s, l, t) /\ Contains(s, t)
              /\ ~ Contains(l, t) => Once(s, t)
<1> DEFINE m == Place(l, t)
           s == InsertAt(l, m, t)
<1>1. s \in Seq(Timers) /\ Len(l) \in Nat /\ m \in 1 .. Len(l) + 1
  BY Inserted, LenProperties
<1>7. /\ Len(s) = Len(l) + 1
      /\ \A i \in 1 .. Len(l) + 1 : s[i] = IF i < m THEN l[i] ELSE IF i = m THEN t ELSE l[i - 1]
  BY Inserted
<1> HIDE DEF s, m
<1>8. Contains(s, t)
  BY <1>1, <1>7 DEF Contains
<1>9. ASSUME NEW u \in Timers \ {t} PROVE Contains(s, u) <=> Contains(l, u)
  <2>1. ASSUME NEW i \in 1 .. Len(s), s[i] = u PROVE \E j \in 1 .. Len(l) : l[j] = u
    <3>1. CASE i < m
      <4>1. i \in 1 .. Len(l) /\ l[i] = u
        BY <1>1, <1>7, <2>1, <3>1
      <4> QED BY <4>1
    <3>2. CASE i > m
      <4>1. i - 1 \in 1 .. Len(l) /\ l[i - 1] = u
        BY <1>1, <1>7, <2>1, <3>2
      <4> QED BY <4>1
    <3>3. i # m
      BY <1>1, <1>7, <2>1
    <3> QED BY <1>1, <3>1, <3>2, <3>3
  <2>2. ASSUME NEW j \in 1 .. Len(l), l[j] = u PROVE \E i \in 1 .. Len(s) : s[i] = u
    <3>1. CASE j < m
      <4>1. j \in 1 .. Len(l) + 1 /\ s[j] = u
        BY <1>1, <1>7, <2>2, <3>1
      <4> QED BY <1>7, <4>1
    <3>2. CASE ~ (j < m)
      <4>1. j + 1 \in 1 .. Len(l) + 1 /\ ~ (j + 1 < m) /\ j + 1 # m /\ (j + 1) - 1 = j
        BY <1>1, <3>2
      <4>2. s[j + 1] = l[(j + 1) - 1]
        BY <1>7, <4>1
      <4> QED BY <1>7, <2>2, <4>1, <4>2
    <3> QED BY <3>1, <3>2
  <2> QED BY <2>1, <2>2 DEF Contains
<1>10. ASSUME NEW u \in Timers, u # t \/ ~ Contains(l, u), Once(l, u) PROVE Once(s, u)
  <2> SUFFICES ASSUME NEW j \in 1 .. Len(s), NEW k \in 1 .. Len(s), s[j] = u, s[k] = u
               PROVE  j = k
    BY DEF Once
  <2> DEFINE At(i) == IF i < m THEN i ELSE i - 1
  <2>1. ASSUME NEW i \in 1 .. Len(s), s[i] = u, i # m
        PROVE  At(i) \in 1 .. Len(l) /\ l[At(i)] = u
    BY <1>1, <1>7, <2>1
  <2>2. CASE j # m /\ k # m
    <3>1. At(j) = At(k)
      <4>1. At(j) \in 1 .. Len(l) /\ l[At(j)] = u /\ At(k) \in 1 .. Len(l) /\ l[At(k)] = u
        BY <2>1, <2>2
      <4> HIDE DEF At
      <4> QED BY <1>10, <4>1 DEF Once
    <3> QED BY <1>1, <1>7, <2>2, <3>1
  <2>3. CASE u = t
    <3>1. ASSUME NEW i \in 1 .. Len(s), s[i] = u PROVE i = m
      <4>1. CASE i # m
        <5>1. At(i) \in 1 .. Len(l) /\ l[At(i)] = u
          BY <2>1, <3>1, <4>1
        <5> HIDE DEF At
        <5> QED BY <1>10, <2>3, <5>1 DEF Contains
      <4> QED BY <4>1
    <3> QED BY <3>1
  <2>4. CASE u # t
    <3>1. s[m] = t
      BY <1>1, <1>7
    <3> QED BY <2>2, <2>4, <3>1
  <2> QED BY <2>3, <2>4
<1>11. ~ Contains(l, t) => Once(s, t)
  <2>1. ~ Contains(l, t) => Once(l, t)
    BY DEF Contains, Once
  <2> QED BY <1>10, <2>1
<1> QED BY <1>1, <1>8, <1>9, <1>10, <1>11 DEF SameBut, s, m

----------------------------------------------------------------------------
(***************************************************************************)
(* The invariant is kept.                                                  *)
(***************************************************************************)

\* A step that does not concern timer u.
LEMMA ListKept ==
    ASSUME NEW u \in Timers, ListInvOf(u),
           Contains(mTimers', u) <=> Contains(mTimers, u),
           Once(mTimers, u) => Once(mTimers', u),
           timer'[u].armed = timer[u].armed, timer'[u].type = timer[u].type,
           Holds(u)' => Holds(u), Adds(u)' => Adds(u), Arms(u)' => Arms(u)
    PROVE  ListInvOf(u)'
BY DEF ListInvOf, Listed, Once

\* A timer that is off the list, and that nobody is adding or only the client is.
LEMMA OffTheList ==
    ASSUME NEW u \in Timers, ~ timer'[u].armed, ~ Contains(mTimers', u),
           Arms(u)' => timer'[u].type = "precise",
           Adds(u)' /\ Holds(u)' => timer'[u].type # "precise"
    PROVE  ListInvOf(u)'
BY DEF ListInvOf, Listed, Once, Contains

\* A notification does not make the timer thread hold a timer, nor let one go.
LEMMA HeldAsBefore ==
    ASSUME TypeInv, NEW u \in Timers, thread' \in {thread, Notified}
    PROVE  (Holds(u)' <=> Holds(u)) /\ (Arms(u)' <=> Arms(u))
BY NotifiedThread DEF Holds, Arms

\* AddTimerInternal on a list l that has the other timers of mTimers and not t.
LEMMA InsertLists ==
    ASSUME TypeInv, NEW l \in Seq(Timers), NEW t \in Timers, ~ mShutdown, Insert(l, t),
           SameBut(l, mTimers, t)
    PROVE  /\ SameBut(mTimers', mTimers, t) /\ Contains(mTimers', t)
           /\ ~ Contains(l, t) => Once(mTimers', t)
           /\ timer'[t].armed
           /\ \A u \in Timers \ {t} : timer'[u] = timer[u]
           /\ \A u \in Timers : timer'[u].type = timer[u].type
<1>1. /\ mTimers' = InsertAt(l, Place(l, t), t)
      /\ timer' = [timer EXCEPT ![t] = [timer[t] EXCEPT !.armed = TRUE]]
      /\ timer \in [Timers -> Timer]
  BY DEF Insert, TypeInv, TypeOK
<1>2. timer'[t] = [timer[t] EXCEPT !.armed = TRUE] /\ \A u \in Timers \ {t} : timer'[u] = timer[u]
  BY <1>1
<1>3. timer'[t].armed /\ timer'[t].type = timer[t].type
  BY <1>1, <1>2 DEF Timer
<1>4. /\ SameBut(mTimers', l, t) /\ Contains(mTimers', t)
      /\ ~ Contains(l, t) => Once(mTimers', t)
  BY <1>1, InsertedOnce
<1> QED BY <1>2, <1>3, <1>4 DEF SameBut

LEMMA InitLists ==
    ASSUME TypeInv, ListInv, NEW t \in Timers, InitTimer(t)
    PROVE  ListInv'
<1>1. /\ timer \in [Timers -> Timer] /\ mTimers \in Seq(Timers)
      /\ thread' \in {thread, Notified} /\ call' = [rest |-> "add", timer |-> t]
      /\ mTimers' = IF timer[t].armed THEN RemoveFirst(mTimers, t) ELSE mTimers
      /\ raced' = IF Holds(t) THEN raced \cup {t} ELSE raced
  BY DEF InitTimer, Races, TypeInv, TypeOK
<1>2. /\ timer'[t].armed = (timer[t].armed /\ ~ Listed(t))
      /\ \A u \in Timers \ {t} : timer'[u] = timer[u]
  <2>1. PICK type \in Types, delay \in Delays :
           timer' = [timer EXCEPT ![t] =
                       [timer[t] EXCEPT !.callback = calls', !.generation = calls',
                                 !.canceled = FALSE, !.armed = timer[t].armed /\ ~ Listed(t),
                                 !.type = type, !.delay = delay, !.timeout = delay]]
    BY DEF InitTimer
  <2>2. timer[t] \in Timer
    BY <1>1
  <2> QED BY <1>1, <2>1, <2>2 DEF Timer
<1>3. SameBut(mTimers', mTimers, t) /\ (Once(mTimers, t) /\ timer[t].armed => ~ Contains(mTimers', t))
  BY <1>1, RemovedOnce DEF SameBut
<1>4. ASSUME NEW u \in Timers \ raced' PROVE ListInvOf(u)'
  <2>1. u \notin raced /\ ListInvOf(u)
    BY <1>1, <1>4 DEF ListInv
  <2>2. (Holds(u)' <=> Holds(u)) /\ (Arms(u)' <=> Arms(u))
    BY <1>1, HeldAsBefore
  <2>3. CASE u = t
    <3>1. ~ Holds(u)
      BY <1>1, <1>4, <2>3
    <3>2. ~ timer'[u].armed /\ ~ Contains(mTimers', u)
      BY <1>1, <1>2, <1>3, <2>1, <2>3 DEF ListInvOf, Listed
    <3>3. ~ Holds(u)' /\ ~ Arms(u)'
      BY <2>2, <3>1 DEF Arms
    <3> QED BY <3>2, <3>3, OffTheList
  <2>4. CASE u # t
    <3>1. ~ Adds(u)'
      BY <1>1, <2>4 DEF Adds
    <3> QED BY <1>2, <1>3, <2>1, <2>2, <2>4, <3>1, ListKept DEF SameBut
  <2> QED BY <2>3, <2>4
<1> QED BY <1>4 DEF ListInv

LEMMA CancelLists ==
    ASSUME TypeInv, ListInv, NEW t \in Timers, Cancel(t)
    PROVE  ListInv'
<1>1. /\ timer \in [Timers -> Timer] /\ mTimers \in Seq(Timers)
      /\ thread' \in {thread, Notified} /\ call' = call /\ call.rest = "none"
      /\ mTimers' = RemoveFirst(mTimers, t) /\ raced' = raced
  BY DEF Cancel, Calls, ClientRuns, TypeInv, TypeOK
<1>2. /\ timer'[t].armed = (timer[t].armed /\ ~ Listed(t)) /\ timer'[t].type = timer[t].type
      /\ \A u \in Timers \ {t} : timer'[u] = timer[u]
  <2> DEFINE x == [timer[t] EXCEPT !.canceled = TRUE, !.callback = 0,
                                   !.armed = timer[t].armed /\ ~ Listed(t)]
  <2>1. timer' = [timer EXCEPT ![t] = x]
    BY <1>1 DEF Cancel, Timer
  <2>2. timer[t] \in Timer
    BY <1>1
  <2>3. x.armed = (timer[t].armed /\ ~ Listed(t)) /\ x.type = timer[t].type
    BY <2>2 DEF Timer
  <2> HIDE DEF x
  <2> QED BY <1>1, <2>1, <2>3
<1>3. SameBut(mTimers', mTimers, t) /\ (Once(mTimers, t) => ~ Contains(mTimers', t))
  BY <1>1, RemovedOnce
<1>4. ASSUME NEW u \in Timers \ raced' PROVE ListInvOf(u)'
  <2>1. ListInvOf(u)
    BY <1>1, <1>4 DEF ListInv
  <2>2. (Holds(u)' <=> Holds(u)) /\ (Arms(u)' <=> Arms(u)) /\ ~ Adds(u)'
    BY <1>1, HeldAsBefore DEF Adds
  <2>3. CASE u = t
    <3>1. ~ timer'[u].armed /\ ~ Contains(mTimers', u)
      BY <1>2, <1>3, <2>1, <2>3 DEF ListInvOf
    <3>2. Arms(u)' => timer'[u].type = "precise"
      BY <1>2, <2>1, <2>2, <2>3 DEF ListInvOf
    <3> QED BY <2>2, <3>1, <3>2, OffTheList
  <2>4. CASE u # t
    BY <1>2, <1>3, <2>1, <2>2, <2>4, ListKept DEF SameBut
  <2> QED BY <2>3, <2>4
<1> QED BY <1>4 DEF ListInv

\* What leaves the list, and what of the timers matters to it, alone.
LEMMA NoneListed ==
    ASSUME TypeInv, ListInv, mTimers' = mTimers, raced \subseteq raced',
           \A u \in Timers :
               /\ timer'[u].armed = timer[u].armed /\ timer'[u].type = timer[u].type
               /\ (Holds(u)' => Holds(u)) /\ (Adds(u)' => Adds(u)) /\ (Arms(u)' => Arms(u))
    PROVE  ListInv'
<1>1. ASSUME NEW u \in Timers \ raced' PROVE ListInvOf(u)'
  <2>1. ListInvOf(u)
    BY <1>1 DEF ListInv
  <2> QED BY <2>1, ListKept
<1> QED BY <1>1 DEF ListInv

\* What does not touch the list: a call of Init() that fails, and the end of Shutdown().
LEMMA GoneLists ==
    ASSUME TypeInv, ListInv, (\E t \in Timers : InitFails(t)) \/ ShutdownReturns
    PROVE  ListInv'
<1>1. CASE ShutdownReturns
  <2>1. UNCHANGED <<mTimers, timer, call, raced>> /\ thread'.at = "gone"
    BY <1>1 DEF ShutdownReturns, timerVars, history, TypeInv, TypeOK, Thread
  <2>2. \A u \in Timers : ~ Holds(u)' /\ ~ Arms(u)' /\ (Adds(u)' => Adds(u))
    BY <2>1 DEF Holds, Arms, Adds
  <2> QED BY <2>1, <2>2, NoneListed
<1>2. ASSUME NEW t \in Timers, InitFails(t) PROVE ListInv'
  <2>1. /\ UNCHANGED <<mTimers, thread, call, raced>> /\ timer \in [Timers -> Timer]
        /\ timer' = [timer EXCEPT ![t] = [timer[t] EXCEPT !.callback = calls']]
    BY <1>2 DEF InitFails, lists, TypeInv, TypeOK
  <2>2. \A u \in Timers : timer'[u].armed = timer[u].armed /\ timer'[u].type = timer[u].type
    <3>1. timer[t] \in Timer
      BY <2>1
    <3> QED BY <2>1, <3>1 DEF Timer
  <2>3. \A u \in Timers : (Holds(u)' => Holds(u)) /\ (Adds(u)' => Adds(u)) /\ (Arms(u)' => Arms(u))
    BY <2>1 DEF Holds, Arms, Adds
  <2> QED BY <2>1, <2>2, <2>3, NoneListed
<1> QED BY <1>1, <1>2

\* SetDelay only puts the timer into another place later, in TimerDelayChanged.
LEMMA SetDelayLists ==
    ASSUME TypeInv, ListInv, NEW t \in Timers, SetDelay(t)
    PROVE  ListInv'
<1>1. /\ timer \in [Timers -> Timer] /\ mTimers' = mTimers /\ thread' = thread
      /\ call'.rest # "add" /\ raced \subseteq raced'
  BY DEF SetDelay, lists, Calls, ClientRuns, Races, TypeInv, TypeOK
<1>2. \A u \in Timers : timer'[u].armed = timer[u].armed /\ timer'[u].type = timer[u].type
  <2>1. PICK delay \in Delays : timer' = [timer EXCEPT ![t] =
                                            [timer[t] EXCEPT !.delay = delay, !.timeout = delay]]
    BY DEF SetDelay, lists
  <2>2. timer[t] \in Timer
    BY <1>1
  <2> QED BY <1>1, <2>1, <2>2 DEF Timer
<1>3. ASSUME NEW u \in Timers \ raced' PROVE ListInvOf(u)'
  <2>1. ListInvOf(u)
    BY <1>1, <1>3 DEF ListInv
  <2>2. (Holds(u)' <=> Holds(u)) /\ (Arms(u)' <=> Arms(u)) /\ ~ Adds(u)'
    BY <1>1 DEF Holds, Arms, Adds
  <2> QED BY <1>1, <1>2, <2>1, <2>2, ListKept
<1> QED BY <1>3 DEF ListInv

\* The client adds the timer, or takes it off and adds it again.
LEMMA CallLists ==
    ASSUME TypeInv, ListInv, CallStep
    PROVE  ListInv'
<1> DEFINE t == call.timer
<1>0. t \in Timers /\ mTimers \in Seq(Timers)
  BY DEF CallStep, AddTimer, TimerDelayChanged, TypeInv, TypeOK, HasTimers
<1>1. PICK l \in Seq(Timers) :
         /\ Insert(l, t) /\ thread' = Awakened(l, t) /\ SameBut(l, mTimers, t)
         /\ Once(mTimers, t) /\ (Adds(t) => ~ Contains(mTimers, t)) => ~ Contains(l, t)
  <2>1. CASE AddTimer
    BY <1>0, <2>1 DEF AddTimer, SameBut, Adds
  <2>2. CASE TimerDelayChanged
    BY <1>0, <2>2, RemovedOnce DEF TimerDelayChanged
  <2> QED BY <2>1, <2>2 DEF CallStep
<1>2. thread' \in {thread, Notified} /\ call'.rest = "none"
      /\ raced' = IF Holds(t) THEN raced \cup {t} ELSE raced
  BY <1>1, AwakenedThread DEF CallStep, AddTimer, TimerDelayChanged, NoCall, Races
<1> HIDE DEF t
<1>3. ASSUME NEW u \in Timers \ raced' PROVE ListInvOf(u)'
  <2>1. u \notin raced /\ ListInvOf(u)
    BY <1>2, <1>3 DEF ListInv
  <2>2. (Holds(u)' <=> Holds(u)) /\ (Arms(u)' <=> Arms(u)) /\ ~ Adds(u)'
    BY <1>2, HeldAsBefore DEF Adds
  <2>3. CASE mShutdown
    <3>1. mTimers' = mTimers /\ timer' = timer
      BY <1>1, <2>3 DEF Insert
    <3> QED BY <2>1, <2>2, <3>1, ListKept
  <2>4. CASE ~ mShutdown
    <3>1. /\ SameBut(mTimers', mTimers, t) /\ Contains(mTimers', t)
          /\ ~ Contains(l, t) => Once(mTimers', t)
          /\ timer'[t].armed
          /\ \A v \in Timers \ {t} : timer'[v] = timer[v]
      BY <1>0, <1>1, <2>4, InsertLists
    <3>2. CASE u = t
      <4>1. ~ Holds(u)' /\ ~ Arms(u)'
        BY <1>2, <1>3, <2>2, <3>2 DEF Arms
      <4>2. ~ Contains(l, t)
        BY <1>1, <2>1, <3>2 DEF ListInvOf, Listed
      <4> QED BY <2>2, <3>1, <3>2, <4>1, <4>2 DEF ListInvOf, Listed
    <3>3. CASE u # t
      BY <2>1, <2>2, <3>1, <3>3, ListKept DEF SameBut
    <3> QED BY <3>2, <3>3
  <2> QED BY <2>3, <2>4
<1> QED BY <1>3 DEF ListInv

LEMMA ShutdownLists ==
    ASSUME TypeInv, ListInv, Shutdown
    PROVE  ListInv'
<1>1. /\ timer \in [Timers -> Timer] /\ mTimers' = <<>> /\ thread' = Notified
      /\ call' = call /\ call.rest = "none" /\ raced' = raced
  BY DEF Shutdown, history, TypeInv, TypeOK
<1>2. ASSUME NEW u \in Timers
      PROVE  /\ timer'[u].type = timer[u].type
             /\ timer'[u].armed = (timer[u].armed /\ ~ Listed(u))
  <2>1. timer'[u] = IF Listed(u) THEN [timer[u] EXCEPT !.callback = 0, !.armed = FALSE]
                    ELSE timer[u]
    BY DEF Shutdown
  <2>2. timer[u] \in Timer
    BY <1>1
  <2> QED BY <2>1, <2>2 DEF Timer
<1>3. ASSUME NEW u \in Timers \ raced' PROVE ListInvOf(u)'
  <2>1. ListInvOf(u)
    BY <1>1, <1>3 DEF ListInv
  <2>2. (Holds(u)' <=> Holds(u)) /\ (Arms(u)' <=> Arms(u)) /\ ~ Adds(u)'
    BY <1>1, HeldAsBefore DEF Adds
  <2>3. ~ Contains(mTimers', u)
    BY <1>1 DEF Contains
  <2> QED BY <1>2, <2>1, <2>2, <2>3, OffTheList DEF ListInvOf
<1> QED BY <1>3 DEF ListInv

LEMMA EventLists ==
    ASSUME TypeInv, ListInv, RunEvent
    PROVE  ListInv'
<1>1. mTimers' = mTimers /\ thread' = thread /\ call' = call /\ raced' = raced
  BY DEF RunEvent, DropEvent, Fire, timerVars, history
<1>2. \A u \in Timers : timer'[u].armed = timer[u].armed /\ timer'[u].type = timer[u].type
  <2>1. CASE DropEvent
    BY <2>1 DEF DropEvent, timerVars
  <2>2. CASE Fire
    <3> DEFINE t == Head(queue).timer
    <3>1. timer' = [timer EXCEPT ![t] = [timer[t] EXCEPT !.callback = 0, !.firing = TRUE]]
          /\ queue # <<>>
      BY <2>2 DEF Fire, RunsEvents
    <3>2. t \in Timers /\ timer \in [Timers -> Timer]
      BY <3>1, QueuedEvents DEF Event, TypeInv, TypeOK
    <3> HIDE DEF t
    <3> QED BY <3>1, <3>2 DEF Timer
  <2> QED BY <2>1, <2>2 DEF RunEvent
<1>3. \A u \in Timers : (Holds(u)' => Holds(u)) /\ (Adds(u)' => Adds(u)) /\ (Arms(u)' => Arms(u))
  BY <1>1 DEF Holds, Arms, Adds
<1> QED BY <1>1, <1>2, <1>3, NoneListed

\* Fire() adds a timer again that it has found not armed.
LEMMA FireEndsLists ==
    ASSUME TypeInv, ListInv, FireEnds
    PROVE  ListInv'
<1> DEFINE t == Last(stack).timer
           r == timer[t]
           ended == [r EXCEPT !.firing = FALSE,
                              !.callback = IF Restores(r) THEN Last(stack).callback ELSE @]
<1>1. /\ stack # <<>> /\ call.rest = "none" /\ mTimers' = mTimers /\ thread' = thread
      /\ raced' = raced
      /\ timer' = [timer EXCEPT ![t] = IF Again(r) /\ r.type = "slack"
                                       THEN Rescheduled(ended, r.delay) ELSE ended]
      /\ call' = IF Again(r) THEN [rest |-> "add", timer |-> t] ELSE call
  BY DEF FireEnds, lists, history
<1>2. t \in Timers /\ timer \in [Timers -> Timer] /\ Last(stack).callback \in 0 .. MaxCalls
  BY <1>1, StackFrames DEF Frame, TypeInv, TypeOK
<1> HIDE DEF t
<1>3. /\ ended \in Timer /\ ended.armed = timer[t].armed /\ ended.type = timer[t].type
      /\ r.delay \in Nat
  <2>1. r \in Timer
    BY <1>2
  <2> HIDE DEF r
  <2>2. ended \in Timer /\ ended.armed = r.armed /\ ended.type = r.type /\ r.delay \in Nat
    BY <1>2, <2>1 DEF Timer
  <2> QED BY <2>2 DEF r
<1> HIDE DEF ended
<1>4. /\ Rescheduled(ended, r.delay).armed = timer[t].armed
      /\ Rescheduled(ended, r.delay).type = timer[t].type
  BY <1>3, RescheduledType
<1>5. \A u \in Timers : timer'[u].armed = timer[u].armed /\ timer'[u].type = timer[u].type
  BY <1>1, <1>2, <1>3, <1>4
<1>6. ASSUME NEW u \in Timers \ raced' PROVE ListInvOf(u)'
  <2>1. ListInvOf(u)
    BY <1>1, <1>6 DEF ListInv
  <2>2. (Holds(u)' <=> Holds(u)) /\ (Arms(u)' <=> Arms(u))
    BY <1>1 DEF Holds, Arms
  <2>3. Adds(u)' => ~ timer[u].armed /\ timer[u].type # "precise"
    BY <1>1 DEF Adds, Again
  <2> QED BY <1>1, <1>5, <2>1, <2>2, <2>3 DEF ListInvOf, Listed
<1> QED BY <1>6 DEF ListInv

\* The timer thread takes a timer off the list, which nobody is about to add.
LEMMA TakeFirstLists ==
    ASSUME TypeInv, ListInv, TakeFirst
    PROVE  ListInv'
<1> DEFINE t == Head(mTimers)
           s == Tail(mTimers)
<1>1. /\ timer \in [Timers -> Timer] /\ mTimers \in Seq(Timers) /\ mTimers # <<>>
      /\ mTimers' = s /\ thread' = [thread EXCEPT !.at = "post", !.timer = t]
      /\ call' = call /\ raced \subseteq raced' /\ thread \in Thread /\ thread.at = "scan"
      /\ timer' = [timer EXCEPT ![t] = [timer[t] EXCEPT !.armed = FALSE]]
  BY DEF TakeFirst, ReadsInCall, TypeInv, TypeOK
<1>2. /\ t = mTimers[1] /\ 1 \in 1 .. Len(mTimers) /\ s \in Seq(Timers)
      /\ Len(s) = Len(mTimers) - 1 /\ \A i \in 1 .. Len(s) : s[i] = mTimers[i + 1]
      /\ t \in Timers
  BY <1>1, HeadTailProperties, LenProperties, EmptySeq, ElementOfSeq
<1>3. SameBut(s, mTimers, t) /\ (Once(mTimers, t) => ~ Contains(s, t))
  <2> HIDE DEF s
  <2>1. \A i \in 1 .. Len(s) : s[i] = IF i < 1 THEN mTimers[i] ELSE mTimers[i + 1]
    BY <1>2
  <2> QED BY <1>1, <1>2, <2>1, Without
<1> HIDE DEF s, t
<1>4. /\ ~ timer'[t].armed /\ timer'[t].type = timer[t].type
      /\ \A u \in Timers \ {t} : timer'[u] = timer[u]
  BY <1>1, <1>2 DEF Timer
<1>5. thread'.at = "post" /\ thread'.timer = t
  BY <1>1 DEF Thread
<1>6. ASSUME NEW u \in Timers \ raced' PROVE ListInvOf(u)'
  <2>1. ListInvOf(u) /\ (Adds(u)' <=> Adds(u)) /\ ~ Arms(u)'
    BY <1>1, <1>5, <1>6 DEF ListInv, Adds, Arms
  <2>2. CASE u = t
    <3>1. Listed(u)
      BY <1>2, <2>2 DEF Listed, Contains
    <3>2. ~ Adds(u)
      BY <2>1, <3>1 DEF ListInvOf
    <3>3. ~ Contains(mTimers', u)
      BY <1>1, <1>3, <2>1, <2>2 DEF ListInvOf
    <3> QED BY <1>4, <2>1, <2>2, <3>2, <3>3, OffTheList
  <2>3. CASE u # t
    <3>1. ~ Holds(u)'
      BY <1>5, <2>3 DEF Holds
    <3> QED BY <1>1, <1>3, <1>4, <2>1, <2>3, <3>1, ListKept DEF SameBut
  <2> QED BY <2>2, <2>3
<1> QED BY <1>6 DEF ListInv

\* Only a precise timer is added by the timer thread,
LEMMA ArmLists ==
    ASSUME TypeInv, ListInv, Arm
    PROVE  ListInv'
<1> DEFINE t == thread.timer
<1>1. /\ timer \in [Timers -> Timer] /\ thread \in Thread /\ t \in Timers /\ thread.at = "arm"
      /\ mTimers' = mTimers /\ call' = call /\ raced' = raced
      /\ timer' = [timer EXCEPT ![t] = Rescheduled(timer[t], thread.delay)]
      /\ thread' = [thread EXCEPT !.at = IF timer[t].type = "precise" THEN "add" ELSE "dispatch"]
  BY DEF Arm, lists, history, TypeInv, TypeOK, HasTimers
<1>2. \A u \in Timers : timer'[u].armed = timer[u].armed /\ timer'[u].type = timer[u].type
  <2>1. timer[t] \in Timer /\ thread.delay \in Nat
    BY <1>1 DEF Thread
  <2>2. /\ Rescheduled(timer[t], thread.delay).armed = timer[t].armed
        /\ Rescheduled(timer[t], thread.delay).type = timer[t].type
    BY <2>1, RescheduledType
  <2> QED BY <1>1, <2>2
<1>3. thread'.timer = t /\ (thread'.at = "add" => timer[t].type = "precise")
  BY <1>1 DEF Thread
<1>4. ASSUME NEW u \in Timers \ raced' PROVE ListInvOf(u)'
  <2>1. ListInvOf(u) /\ (Adds(u)' <=> Adds(u)) /\ (Holds(u)' => Holds(u))
    BY <1>1, <1>3, <1>4 DEF ListInv, Adds, Holds
  <2>2. Arms(u)' => timer[u].type = "precise"
    BY <1>3 DEF Arms, Holds
  <2> QED BY <1>1, <1>2, <2>1, <2>2 DEF ListInvOf, Listed
<1> QED BY <1>4 DEF ListInv

\* which the client is not about to add then.
LEMMA RearmLists ==
    ASSUME TypeInv, ListInv, Rearm
    PROVE  ListInv'
<1> DEFINE t == thread.timer
<1>1. /\ thread \in Thread /\ t \in Timers /\ thread.at = "add"
      /\ mTimers \in Seq(Timers) /\ Insert(mTimers, t) /\ call' = call /\ raced \subseteq raced'
      /\ thread' = [thread EXCEPT !.at = IF mShutdown THEN "scan" ELSE "dispatch"]
  BY DEF Rearm, ComparesInCall, TypeInv, TypeOK, HasTimers
<1>2. \A u \in Timers : ~ Holds(u)' /\ ~ Arms(u)' /\ (Adds(u)' <=> Adds(u))
  BY <1>1 DEF Thread, Holds, Arms, Adds
<1>3. Arms(t)
  BY <1>1 DEF Arms, Holds
<1> HIDE DEF t
<1>4. ASSUME NEW u \in Timers \ raced' PROVE ListInvOf(u)'
  <2>1. ListInvOf(u)
    BY <1>1, <1>4 DEF ListInv
  <2>2. CASE mShutdown
    <3>1. mTimers' = mTimers /\ timer' = timer
      BY <1>1, <2>2 DEF Insert
    <3> QED BY <1>2, <2>1, <3>1, ListKept
  <2>3. CASE ~ mShutdown
    <3>0. SameBut(mTimers, mTimers, t)
      BY DEF SameBut
    <3>1. /\ SameBut(mTimers', mTimers, t) /\ Contains(mTimers', t)
          /\ ~ Contains(mTimers, t) => Once(mTimers', t)
          /\ timer'[t].armed
          /\ \A v \in Timers \ {t} : timer'[v] = timer[v]
      BY <1>1, <2>3, <3>0, InsertLists
    <3>2. CASE u = t
      <4>1. ~ Contains(mTimers, t) /\ ~ Adds(u)
        BY <1>3, <2>1, <3>2 DEF ListInvOf, Listed, Arms
      <4> QED BY <1>2, <3>1, <3>2, <4>1 DEF ListInvOf, Listed
    <3>3. CASE u # t
      BY <1>2, <2>1, <3>1, <3>3, ListKept DEF SameBut
    <3> QED BY <3>2, <3>3
  <2> QED BY <2>2, <2>3
<1> QED BY <1>4 DEF ListInv

LEMMA ThreadLists ==
    ASSUME TypeInv, ListInv, ThreadStep
    PROVE  ListInv'
<1>1. CASE Ends \/ Sleep \/ WaitForFirst \/ WakeUp \/ NewTimerEvent
  <2>1. mTimers' = mTimers /\ timer' = timer /\ call' = call /\ raced \subseteq raced'
    BY <1>1, ThreadMoves
  <2>2. \A u \in Timers : (Holds(u)' => Holds(u)) /\ ~ Arms(u)' /\ (Adds(u)' => Adds(u))
    BY <1>1, <2>1, ThreadMoves DEF Holds, Arms, Adds
  <2> QED BY <2>1, <2>2, NoneListed
<1>2. CASE DispatchEvent
  <2>1. mTimers' = mTimers /\ timer' = timer /\ call' = call /\ raced' = raced
        /\ thread \in Thread
        /\ thread' = [thread EXCEPT !.at = "scan", !.timer = None, !.generation = 0, !.delay = 0]
    BY <1>2 DEF DispatchEvent, timerVars, history, TypeInv, TypeOK
  <2>2. \A u \in Timers : ~ Holds(u)' /\ ~ Arms(u)' /\ (Adds(u)' => Adds(u))
    BY <2>1 DEF Holds, Arms, Adds, Thread
  <2> QED BY <2>1, <2>2, NoneListed
<1> QED BY <1>1, <1>2, TakeFirstLists, ArmLists, RearmLists DEF ThreadStep

LEMMA TickLists ==
    ASSUME TypeInv, ListInv, Tick
    PROVE  ListInv'
<1>1. /\ timer \in [Timers -> Timer] /\ thread \in Thread /\ mTimers' = mTimers
      /\ call' = call /\ raced' = raced /\ thread' = [thread EXCEPT !.wake = Less(@)]
  BY DEF Tick, lists, TypeInv, TypeOK
<1>2. ASSUME NEW u \in Timers
      PROVE  timer'[u].armed = timer[u].armed /\ timer'[u].type = timer[u].type
  <2>1. \E x : timer'[u] = [timer[u] EXCEPT !.timeout = x]
    BY DEF Tick, lists
  <2>2. timer[u] \in Timer
    BY <1>1
  <2> QED BY <2>1, <2>2 DEF Timer
<1>3. \A u \in Timers : (Holds(u)' => Holds(u)) /\ (Adds(u)' => Adds(u)) /\ (Arms(u)' => Arms(u))
  BY <1>1 DEF Holds, Arms, Adds, Thread
<1> QED BY <1>1, <1>2, <1>3, NoneListed

LEMMA ListStep ==
    ASSUME TypeInv, ListInv, [Next]_vars
    PROVE  ListInv'
<1>1. CASE ClientStep
  BY <1>1, InitLists, GoneLists, CancelLists, SetDelayLists DEF ClientStep
<1>2. CASE UNCHANGED vars
  BY <1>2, NoneListed DEF vars, Holds, Adds, Arms
<1> QED BY <1>1, <1>2, ShutdownLists, GoneLists, CallLists, EventLists, FireEndsLists, ThreadLists,
           TickLists DEF Next

LEMMA ListInit ==
    ASSUME Init
    PROVE  ListInv
<1>1. /\ thread.at = "scan" /\ mTimers = <<>> /\ call.rest = "none"
      /\ \A t \in Timers : ~ timer[t].armed
  BY DEF Init, NoCall
<1> QED BY <1>1 DEF ListInv, ListInvOf, Listed, Once, Contains, Holds, Adds, Arms

\* But for the timers that a call and the timer thread have used at once, the list holds
\* exactly those that are armed, each once, whatever else the client, its callbacks and
\* the timer thread add, remove and move.  The excepted ones may be in it twice, when
\* AddTimer() of the client and of the timer thread both put them there.
THEOREM ArmedTimersAreListedOnce == Spec => []ListedOnce
<1>1. Init => TypeInv /\ ListInv
  BY TypeInit, ListInit
<1>2. TypeInv /\ ListInv /\ [Next]_vars => TypeInv' /\ ListInv'
  BY TypeStep, ListStep
<1>3. TypeInv /\ ListInv => ListedOnce
  <2> SUFFICES ASSUME TypeInv, ListInv, NEW t \in Timers \ raced
               PROVE  Cardinality({k \in DOMAIN mTimers : mTimers[k] = t})
                         = IF timer[t].armed THEN 1 ELSE 0
    BY DEF ListedOnce
  <2> DEFINE K == {k \in DOMAIN mTimers : mTimers[k] = t}
  <2>1. ListInvOf(t) /\ DOMAIN mTimers = 1 .. Len(mTimers)
    BY LenProperties DEF ListInv, TypeInv, TypeOK
  <2>2. CASE timer[t].armed
    <3>1. PICK k \in 1 .. Len(mTimers) : mTimers[k] = t
      BY <2>1, <2>2 DEF ListInvOf, Listed, Contains
    <3>2. K = {k}
      BY <2>1, <3>1 DEF ListInvOf, Once
    <3> HIDE DEF K
    <3>3. Cardinality(K) = 1
      BY <3>2, FS_Singleton
    <3> QED BY <2>2, <3>3 DEF K
  <2>3. CASE ~ timer[t].armed
    <3>1. K = {}
      BY <2>1, <2>3 DEF ListInvOf, Listed, Contains
    <3> HIDE DEF K
    <3>2. Cardinality(K) = 0
      BY <3>1, FS_EmptySet
    <3> QED BY <2>3, <3>2 DEF K
  <2> QED BY <2>2, <2>3
<1> QED BY <1>1, <1>2, <1>3, PTL DEF Spec

----------------------------------------------------------------------------
(***************************************************************************)
(* The order of the list.                                                  *)
(***************************************************************************)

\* The timer whose delay a call of SetDelay() is changing.
Changing == IF call.rest = "change" THEN call.timer ELSE None

\* List l is in the order of the timeouts in r, but for timer x and those that may have
\* been overdue whatever the adjustment was.
Ordered(l, r, x) ==
    \A i, j \in 1 .. Len(l) :
        i < j /\ l[i] # x /\ l[j] # x /\ r[l[i]].timeout > MaxAdjustment
        => r[l[i]].timeout <= r[l[j]].timeout

\* The latest time to wake up for a timeout.
InTime(time) == Larger(time, MaxAdjustment) + MaxAdjustment

\* To wake up at time wake is early enough for all timers in l but x.
WakesFor(l, r, x, wake) == \A i \in 1 .. Len(l) : l[i] # x => wake <= InTime(r[l[i]].timeout)

\* The timer thread's list and its wait are right, unless a call interferes.
OrderInv ==
    raced = {} =>
        /\ mShutdown => mTimers = <<>>
        /\ Ordered(mTimers, timer, Changing)
        /\ thread.at = "asleep" => mTimers = <<>>
        /\ thread.at = "waiting" => WakesFor(mTimers, timer, Changing, thread.wake)

\* The timer thread ends after Shutdown() only.
EndInv == thread.at \in {"ended", "gone"} => mShutdown

LEMMA EndInit ==
    ASSUME Init
    PROVE  EndInv
<1>1. thread.at = "scan"
  BY DEF Init
<1> QED BY <1>1 DEF EndInv

LEMMA EndStep ==
    ASSUME TypeInv, EndInv, [Next]_vars
    PROVE  EndInv'
<1>1. thread \in Thread
  BY DEF TypeInv, TypeOK
<1>2. mShutdown' \in {mShutdown, TRUE}
  BY DEF Next, vars, ClientStep, InitTimer, InitFails, Cancel, SetDelay, lists, Shutdown,
       ShutdownReturns,
     CallStep, AddTimer, TimerDelayChanged, RunEvent, DropEvent, Fire, FireEnds, ThreadStep, Ends,
     Sleep, WaitForFirst, TakeFirst, WakeUp, NewTimerEvent, Arm, Rearm, DispatchEvent, Tick, timerVars
<1>3. Notified \in {thread, [thread EXCEPT !.at = "scan", !.wake = 0]}
  BY DEF Notified
<1>4. thread'.at \in {"ended", "gone"} => thread.at \in {"ended", "gone"} \/ mShutdown
  <2>1. CASE ClientStep \/ Shutdown \/ CallStep
    <3>1. thread' \in {thread, Notified}
      BY <2>1, AwakenedThread DEF ClientStep, InitTimer, InitFails, Cancel, SetDelay, lists,
           Shutdown,
         CallStep, AddTimer, TimerDelayChanged
    <3> QED BY <1>1, <1>3, <3>1 DEF Thread
  <2>2. CASE RunEvent \/ FireEnds \/ UNCHANGED vars
    BY <2>2 DEF RunEvent, DropEvent, Fire, FireEnds, lists, vars
  <2>3. CASE ThreadStep \/ Tick \/ ShutdownReturns
    BY <1>1, <2>3 DEF ThreadStep, Ends, Sleep, WaitForFirst, TakeFirst, WakeUp, NewTimerEvent,
         Arm, Rearm,
       DispatchEvent, Tick, ShutdownReturns, Thread
  <2> QED BY <2>1, <2>2, <2>3 DEF Next
<1> QED BY <1>2, <1>4 DEF EndInv

\* List s is some of the places of l, in the same order.
Part(s, l) ==
    /\ \A i \in 1 .. Len(s) : \E k \in 1 .. Len(l) : l[k] = s[i]
    /\ \A i, j \in 1 .. Len(s) : i < j =>
         \E k, m \in 1 .. Len(l) : k < m /\ l[k] = s[i] /\ l[m] = s[j]

LEMMA PartOfItself ==
    ASSUME NEW l
    PROVE  Part(l, l)
BY DEF Part

\* What is true of a list is true of a part of it whose timeouts are the same.
LEMMA OrderOfPart ==
    ASSUME NEW l, NEW s, NEW r, NEW q, NEW x, NEW y, Part(s, l),
           \A i \in 1 .. Len(s) : s[i] # y => s[i] # x /\ q[s[i]].timeout = r[s[i]].timeout
    PROVE  /\ Ordered(l, r, x) => Ordered(s, q, y)
           /\ \A wake : WakesFor(l, r, x, wake) => WakesFor(s, q, y, wake)
<1>1. ASSUME Ordered(l, r, x) PROVE Ordered(s, q, y)
  <2> SUFFICES ASSUME NEW i \in 1 .. Len(s), NEW j \in 1 .. Len(s), i < j,
                      s[i] # y, s[j] # y, q[s[i]].timeout > MaxAdjustment
               PROVE  q[s[i]].timeout <= q[s[j]].timeout
    BY DEF Ordered
  <2>1. PICK k \in 1 .. Len(l), m \in 1 .. Len(l) : k < m /\ l[k] = s[i] /\ l[m] = s[j]
    BY DEF Part
  <2>2. /\ s[i] # x /\ s[j] # x
        /\ q[s[i]].timeout = r[s[i]].timeout /\ q[s[j]].timeout = r[s[j]].timeout
    OBVIOUS
  <2>3. r[l[k]].timeout <= r[l[m]].timeout
    BY <1>1, <2>1, <2>2 DEF Ordered
  <2> QED BY <2>1, <2>2, <2>3
<1>2. ASSUME NEW wake, WakesFor(l, r, x, wake) PROVE WakesFor(s, q, y, wake)
  <2> SUFFICES ASSUME NEW i \in 1 .. Len(s), s[i] # y
               PROVE  wake <= InTime(q[s[i]].timeout)
    BY DEF WakesFor
  <2>1. PICK k \in 1 .. Len(l) : l[k] = s[i]
    BY DEF Part
  <2>2. s[i] # x /\ q[s[i]].timeout = r[s[i]].timeout
    OBVIOUS
  <2>3. wake <= InTime(r[l[k]].timeout)
    BY <1>2, <2>1, <2>2 DEF WakesFor
  <2> QED BY <2>1, <2>2, <2>3
<1> QED BY <1>1, <1>2

\* Taking a timer off the list leaves a part of it.
LEMMA PartWithout ==
    ASSUME NEW l \in Seq(Timers), NEW s \in Seq(Timers), NEW m \in 1 .. Len(l),
           Len(s) = Len(l) - 1,
           \A i \in 1 .. Len(s) : s[i] = IF i < m THEN l[i] ELSE l[i + 1]
    PROVE  Part(s, l)
<1> DEFINE At(i) == IF i < m THEN i ELSE i + 1
<1>1. Len(l) \in Nat /\ Len(s) \in Nat
  BY LenProperties
<1>2. \A i \in 1 .. Len(s) : At(i) \in 1 .. Len(l) /\ l[At(i)] = s[i]
  BY <1>1
<1>3. \A i, j \in 1 .. Len(s) : i < j => At(i) < At(j)
  BY <1>1
<1> HIDE DEF At
<1> QED BY <1>2, <1>3 DEF Part

LEMMA RemovedPart ==
    ASSUME NEW l \in Seq(Timers), NEW t \in Timers
    PROVE  Part(RemoveFirst(l, t), l)
<1> DEFINE s == RemoveFirst(l, t)
<1>1. /\ s \in Seq(Timers)
      /\ ~ Contains(l, t) => s = l
      /\ Contains(l, t) =>
           \E m \in 1 .. Len(l) :
              /\ l[m] = t /\ Len(s) = Len(l) - 1
              /\ \A i \in 1 .. Len(s) : s[i] = IF i < m THEN l[i] ELSE l[i + 1]
  BY Removed
<1> HIDE DEF s
<1>2. Part(s, l)
  BY <1>1, PartOfItself, PartWithout
<1> QED BY <1>2 DEF s

LEMMA TailPart ==
    ASSUME NEW l \in Seq(Timers), l # <<>>
    PROVE  Part(Tail(l), l)
<1> DEFINE s == Tail(l)
<1>1. /\ s \in Seq(Timers) /\ Len(s) = Len(l) - 1 /\ \A i \in 1 .. Len(s) : s[i] = l[i + 1]
      /\ 1 \in 1 .. Len(l)
  BY HeadTailProperties, LenProperties, EmptySeq
<1> HIDE DEF s
<1>2. \A i \in 1 .. Len(s) : s[i] = IF i < 1 THEN l[i] ELSE l[i + 1]
  BY <1>1
<1>3. Part(s, l)
  BY <1>1, <1>2, PartWithout
<1> QED BY <1>3 DEF s

\* AddTimerInternal stops at u when it adds t.
StopsAt(t, u) == TimeLeft(u) > 0 /\ timer[t].timeout < timer[u].timeout

LEMMA PlaceFits ==
    ASSUME NEW l \in Seq(Timers), NEW t \in Timers
    PROVE  /\ Place(l, t) \in 1 .. Len(l) + 1
           /\ \A i \in 1 .. Len(l) : i < Place(l, t) => ~ StopsAt(t, l[i])
           /\ Place(l, t) \in 1 .. Len(l) => StopsAt(t, l[Place(l, t)])
<1> DEFINE I == {i \in 1 .. Len(l) : StopsAt(t, l[i])}
           k == IF I # {} THEN Min(I) ELSE 0
           m == Place(l, t)
<1>1. SelectInSeq(l, LAMBDA u : /\ TimeLeft(u) > 0
                                /\ timer[t].timeout < timer[u].timeout) = k
  BY DEF SelectInSeq, StopsAt
<1>2. m = IF k = 0 THEN Len(l) + 1 ELSE k
  BY <1>1 DEF Place
<1>3. m \in 1 .. Len(l) + 1 /\ Len(l) \in Nat
  BY PlaceInList, LenProperties
<1>4. I \in SUBSET Nat /\ I \subseteq 1 .. Len(l)
  BY <1>3
<1>5. \A i \in 1 .. Len(l) : StopsAt(t, l[i]) <=> i \in I
  OBVIOUS
<1> HIDE DEF m
<1>6. /\ \A i \in 1 .. Len(l) : i < m => ~ StopsAt(t, l[i])
      /\ m \in 1 .. Len(l) => StopsAt(t, l[m])
  <2>1. CASE I = {}
    <3>1. m = Len(l) + 1
      BY <1>2, <2>1
    <3> HIDE DEF I
    <3> QED BY <1>3, <1>5, <2>1, <3>1
  <2>2. CASE I # {}
    <3> HIDE DEF I
    <3>1. Min(I) \in I /\ \A i \in I : Min(I) <= i
      BY <1>4, <2>2, LeastOf
    <3>2. m = Min(I)
      BY <1>2, <1>3, <1>4, <2>2, <3>1
    <3>3. m \in I /\ \A i \in I : m <= i
      BY <3>1, <3>2
    <3> QED BY <1>3, <1>4, <1>5, <3>3
  <2> QED BY <2>1, <2>2
<1> QED BY <1>3, <1>6 DEF m

LEMMA TimeoutTypes ==
    ASSUME TypeInv
    PROVE  \A u \in Timers : timer[u].timeout \in Int /\ timer[u] \in Timer
BY DEF TypeInv, TypeOK, Timer

LEMMA InsertKeepsTimeouts ==
    ASSUME TypeInv, NEW l \in Seq(Timers), NEW t \in Timers, Insert(l, t)
    PROVE  \A u \in Timers : timer'[u].timeout = timer[u].timeout
<1> TAKE u \in Timers
<1>1. timer'[u] \in {timer[u], [timer[u] EXCEPT !.armed = TRUE]} /\ timer[u] \in Timer
  BY InsertTypes, TimeoutTypes
<1> QED BY <1>1 DEF Timer

\* AddTimerInternal keeps the order, and wakes the timer thread if it must.
LEMMA InsertedOrder ==
    ASSUME TypeInv, NEW l \in Seq(Timers), NEW t \in Timers, ~ mShutdown, Insert(l, t),
           Ordered(l, timer, None), NEW y
    PROVE  /\ Ordered(mTimers', timer', y)
           /\ Place(l, t) # 1 =>
                \A wake \in Nat : WakesFor(l, timer, None, wake) => WakesFor(mTimers', timer', y, wake)
<1> DEFINE m == Place(l, t)
           T(u) == timer[u].timeout
           A == MaxAdjustment
<1>1. mTimers' = InsertAt(l, m, t) /\ Len(l) \in Nat /\ None \notin Timers
  BY LenProperties, TimersAssumption DEF Insert
<1>2. /\ mTimers' \in Seq(Timers) /\ Len(mTimers') = Len(l) + 1 /\ m \in 1 .. Len(l) + 1
      /\ \A i \in 1 .. Len(l) + 1 :
            mTimers'[i] = IF i < m THEN l[i] ELSE IF i = m THEN t ELSE l[i - 1]
  BY <1>1, Inserted
<1>3. \A u \in Timers : timer'[u].timeout = T(u) /\ T(u) \in Int
  BY InsertKeepsTimeouts, TimeoutTypes
<1>4. \A i \in 1 .. Len(l) : l[i] \in Timers
  BY ElementOfSeq
<1>0. A \in Nat /\ mTimeoutAdjustment \in - A .. A
  BY AdjustmentType
<1>5. /\ \A i \in 1 .. Len(l) : i < m => T(l[i]) <= A \/ T(l[i]) <= T(t)
      /\ m \in 1 .. Len(l) => T(t) < T(l[m])
  <2>1. \A i \in 1 .. Len(l) : T(l[i]) \in Int
    BY <1>3, <1>4
  <2>2. T(t) \in Int /\ \A i \in 1 .. Len(l) :
          StopsAt(t, l[i]) <=> T(l[i]) + mTimeoutAdjustment > 0 /\ T(t) < T(l[i])
    BY <1>3 DEF StopsAt, TimeLeft
  <2>3. /\ \A i \in 1 .. Len(l) : i < m => ~ StopsAt(t, l[i])
        /\ m \in 1 .. Len(l) => StopsAt(t, l[m])
    BY PlaceFits
  <2> HIDE DEF m, T, A
  <2> QED BY <1>0, <2>1, <2>2, <2>3
<1>6. \A i, j \in 1 .. Len(l) : i < j /\ T(l[i]) > A => T(l[i]) <= T(l[j])
  BY <1>1, <1>4 DEF Ordered
<1>7. \A i \in 1 .. Len(l) : i > m - 1 /\ T(t) > A => T(t) <= T(l[i])
  <2> TAKE i \in 1 .. Len(l)
  <2> HAVE i > m - 1 /\ T(t) > A
  <2> HIDE DEF m, T, A
  <2>1. m \in 1 .. Len(l) /\ T(l[m]) > A /\ T(t) < T(l[m]) /\ T(l[i]) \in Int /\ T(t) \in Int
        /\ T(l[m]) \in Int
    BY <1>0, <1>1, <1>2, <1>3, <1>4, <1>5
  <2>2. i = m \/ T(l[m]) <= T(l[i])
    BY <1>2, <1>6, <2>1
  <2> QED BY <2>1, <2>2
<1> HIDE DEF m, T, A
<1>8. Ordered(mTimers', timer', y)
  <2> SUFFICES ASSUME NEW i \in 1 .. Len(mTimers'), NEW j \in 1 .. Len(mTimers'), i < j,
                      timer'[mTimers'[i]].timeout > MaxAdjustment
               PROVE  timer'[mTimers'[i]].timeout <= timer'[mTimers'[j]].timeout
    BY DEF Ordered
  <2>1. /\ mTimers'[i] \in Timers /\ mTimers'[j] \in Timers
        /\ timer'[mTimers'[i]].timeout = T(mTimers'[i])
        /\ timer'[mTimers'[j]].timeout = T(mTimers'[j])
        /\ T(mTimers'[i]) \in Int /\ T(mTimers'[j]) \in Int /\ T(mTimers'[i]) > A
    BY <1>2, <1>3, ElementOfSeq DEF A
  <2>2. T(mTimers'[i]) <= T(mTimers'[j])
    <3>1. CASE i < m
      <4>1. mTimers'[i] = l[i] /\ i \in 1 .. Len(l)
        BY <1>1, <1>2, <3>1
      <4>2. CASE j < m
        <5>1. mTimers'[j] = l[j] /\ j \in 1 .. Len(l)
          BY <1>1, <1>2, <4>2
        <5> QED BY <1>6, <2>1, <4>1, <5>1
      <4>3. CASE j = m
        <5>1. mTimers'[j] = t
          BY <1>2, <4>3
        <5> QED BY <1>0, <1>5, <2>1, <3>1, <4>1, <5>1
      <4>4. CASE j > m
        <5>1. mTimers'[j] = l[j - 1] /\ j - 1 \in 1 .. Len(l) /\ i < j - 1
          BY <1>1, <1>2, <3>1, <4>4
        <5> QED BY <1>6, <2>1, <4>1, <5>1
      <4> QED BY <1>1, <1>2, <4>2, <4>3, <4>4
    <3>2. CASE i = m
      <4>1. mTimers'[i] = t /\ mTimers'[j] = l[j - 1] /\ j - 1 \in 1 .. Len(l) /\ j - 1 > m - 1
        BY <1>1, <1>2, <3>2
      <4> QED BY <1>7, <2>1, <4>1
    <3>3. CASE i > m
      <4>1. /\ mTimers'[i] = l[i - 1] /\ i - 1 \in 1 .. Len(l)
            /\ mTimers'[j] = l[j - 1] /\ j - 1 \in 1 .. Len(l) /\ i - 1 < j - 1
        <5>1. /\ i \in 1 .. Len(l) + 1 /\ ~ (i < m) /\ i # m /\ i - 1 \in 1 .. Len(l)
              /\ j \in 1 .. Len(l) + 1 /\ ~ (j < m) /\ j # m /\ j - 1 \in 1 .. Len(l)
              /\ i - 1 < j - 1
          BY <1>1, <1>2, <3>3
        <5> QED BY <1>2, <5>1
      <4> QED BY <1>6, <2>1, <4>1
    <3> QED BY <1>1, <1>2, <3>1, <3>2, <3>3
  <2> QED BY <2>1, <2>2
<1>9. ASSUME m # 1, NEW wake \in Nat, WakesFor(l, timer, None, wake)
      PROVE  WakesFor(mTimers', timer', y, wake)
  <2>1. \A i \in 1 .. Len(l) : wake <= InTime(T(l[i]))
    BY <1>1, <1>4, <1>9 DEF WakesFor, T
  <2>2. wake <= InTime(T(t))
    <3>1. 1 \in 1 .. Len(l) /\ 1 < m
      BY <1>1, <1>2, <1>9
    <3>2. wake <= InTime(T(l[1])) /\ (T(l[1]) <= A \/ T(l[1]) <= T(t))
          /\ T(l[1]) \in Int /\ T(t) \in Int
      BY <1>3, <1>4, <1>5, <2>1, <3>1
    <3> QED BY <1>0, <3>2 DEF InTime, Larger, A
  <2>3. ASSUME NEW i \in 1 .. Len(mTimers')
        PROVE  wake <= InTime(timer'[mTimers'[i]].timeout)
    <3>1. mTimers'[i] = t \/ \E k \in 1 .. Len(l) : mTimers'[i] = l[k]
      <4>1. CASE i < m
        <5>1. i \in 1 .. Len(l) /\ mTimers'[i] = l[i]
          BY <1>1, <1>2, <4>1
        <5> QED BY <5>1
      <4>2. CASE i > m
        <5>1. i - 1 \in 1 .. Len(l) /\ mTimers'[i] = l[i - 1]
          BY <1>1, <1>2, <4>2
        <5> QED BY <5>1
      <4> QED BY <1>1, <1>2, <4>1, <4>2
    <3>2. mTimers'[i] \in Timers
      BY <1>2, ElementOfSeq
    <3> QED BY <1>3, <2>1, <2>2, <3>1, <3>2
  <2> QED BY <2>3 DEF WakesFor
<1> QED BY <1>8, <1>9 DEF m

\* A step that leaves a part of the list, with the timeouts it had.
LEMMA OrderKept ==
    ASSUME OrderInv, raced \subseteq raced',
           raced = {} =>
               /\ mShutdown' = mShutdown /\ Part(mTimers', mTimers)
               /\ \A i \in 1 .. Len(mTimers') :
                     mTimers'[i] # Changing' =>
                        /\ mTimers'[i] # Changing
                        /\ timer'[mTimers'[i]].timeout = timer[mTimers'[i]].timeout
               /\ mTimers = <<>> => mTimers' = <<>>,
           thread'.at \notin {"asleep", "waiting"} \/ thread' = thread
    PROVE  OrderInv'
<1> SUFFICES ASSUME raced' = {}
             PROVE  /\ mShutdown' => mTimers' = <<>>
                    /\ Ordered(mTimers', timer', Changing')
                    /\ thread'.at = "asleep" => mTimers' = <<>>
                    /\ thread'.at = "waiting" =>
                         WakesFor(mTimers', timer', Changing', thread'.wake)
  BY DEF OrderInv, Ordered, WakesFor
<1>1. raced = {}
  OBVIOUS
<1>2. /\ Ordered(mTimers, timer, Changing) => Ordered(mTimers', timer', Changing')
      /\ \A wake : WakesFor(mTimers, timer, Changing, wake)
                   => WakesFor(mTimers', timer', Changing', wake)
  BY <1>1, OrderOfPart
<1> QED BY <1>1, <1>2 DEF OrderInv

\* No list has None in it.
LEMMA NoneIsNotListed ==
    ASSUME TypeInv
    PROVE  /\ \A i \in 1 .. Len(mTimers) : mTimers[i] \in Timers /\ mTimers[i] # None
           /\ Len(mTimers) \in Nat /\ (mTimers # <<>> => 1 \in 1 .. Len(mTimers))
           /\ mTimers \in Seq(Timers) /\ timer \in [Timers -> Timer] /\ thread \in Thread
BY TimersAssumption, ElementOfSeq, LenProperties, EmptySeq DEF TypeInv, TypeOK

\* A part of an empty list is empty.
LEMMA PartOfEmpty ==
    ASSUME NEW s \in Seq(Timers), Part(s, <<>>)
    PROVE  s = <<>>
<1>1. Len(s) \in Nat /\ (s # <<>> => 1 \in 1 .. Len(s))
  BY LenProperties, EmptySeq
<1> QED BY <1>1 DEF Part

LEMMA InitOrder ==
    ASSUME TypeInv, TypeInv', ListInv, OrderInv, NEW t \in Timers, InitTimer(t)
    PROVE  OrderInv'
<1>1. /\ mTimers' = IF timer[t].armed THEN RemoveFirst(mTimers, t) ELSE mTimers
      /\ call.rest = "none" /\ call'.rest = "add" /\ mShutdown' = mShutdown
      /\ thread' \in {thread, Notified}
      /\ thread' = IF timer[t].armed /\ Listed(t) THEN Notified ELSE thread
      /\ raced' = IF Holds(t) THEN raced \cup {t} ELSE raced
  BY DEF InitTimer, Calls, ClientRuns, Races
<1>2. Changing = None /\ Changing' = None
  BY <1>1 DEF Changing
<1>3. \A u \in Timers \ {t} : timer'[u] = timer[u]
  BY DEF InitTimer, TypeInv, TypeOK
<1>4. Part(mTimers', mTimers)
  BY <1>1, NoneIsNotListed, RemovedPart, PartOfItself
<1>5. ASSUME raced = {} PROVE ~ Contains(mTimers', t)
  <2>1. ListInvOf(t)
    BY <1>5 DEF ListInv
  <2> QED BY <1>1, <2>1, NoneIsNotListed, RemovedOnce DEF ListInvOf, Listed
<1>6. ASSUME raced = {}, NEW i \in 1 .. Len(mTimers')
      PROVE  mTimers'[i] # None /\ timer'[mTimers'[i]] = timer[mTimers'[i]]
  <2>1. mTimers'[i] \in Timers
    BY ElementOfSeq DEF TypeInv, TypeOK
  <2>2. mTimers'[i] # t
    BY <1>5, <1>6 DEF Contains
  <2> QED BY <1>3, <2>1, <2>2, TimersAssumption
<1>7. thread'.at \notin {"asleep", "waiting"} \/ thread' = thread
  BY <1>1, NotifiedThread
<1>8. mTimers = <<>> => mTimers' = <<>>
  BY <1>4, PartOfEmpty DEF TypeInv, TypeOK
<1> QED BY <1>1, <1>2, <1>4, <1>6, <1>7, <1>8, OrderKept

LEMMA CancelOrder ==
    ASSUME TypeInv, TypeInv', OrderInv, NEW t \in Timers, Cancel(t)
    PROVE  OrderInv'
<1>1. /\ mTimers' = RemoveFirst(mTimers, t) /\ call' = call /\ call.rest = "none"
      /\ mShutdown' = mShutdown /\ thread' \in {thread, Notified} /\ raced' = raced
  BY DEF Cancel, Calls, ClientRuns
<1>2. Changing = None /\ Changing' = None
  BY <1>1 DEF Changing
<1>3. \A u \in Timers : timer'[u].timeout = timer[u].timeout
  <2> TAKE u \in Timers
  <2>1. timer[u] \in Timer
    BY TimeoutTypes
  <2>2. CASE u = t
    <3>1. timer'[u] = [timer[u] EXCEPT !.canceled = TRUE, !.callback = 0,
                                       !.armed = @ /\ ~ Listed(t)]
      BY <2>2 DEF Cancel, TypeInv, TypeOK
    <3> QED BY <2>1, <3>1 DEF Timer
  <2>3. CASE u # t
    BY <2>3 DEF Cancel, TypeInv, TypeOK
  <2> QED BY <2>2, <2>3
<1>4. Part(mTimers', mTimers)
  BY <1>1, NoneIsNotListed, RemovedPart
<1>5. ASSUME NEW i \in 1 .. Len(mTimers')
      PROVE  mTimers'[i] # None /\ timer'[mTimers'[i]].timeout = timer[mTimers'[i]].timeout
  <2>1. mTimers'[i] \in Timers
    BY ElementOfSeq DEF TypeInv, TypeOK
  <2> QED BY <1>3, <2>1, TimersAssumption
<1>6. thread'.at \notin {"asleep", "waiting"} \/ thread' = thread
  BY <1>1, NotifiedThread
<1>7. mTimers = <<>> => mTimers' = <<>>
  BY <1>4, PartOfEmpty DEF TypeInv, TypeOK
<1> QED BY <1>1, <1>2, <1>4, <1>5, <1>6, <1>7, OrderKept

LEMMA GoneOrder ==
    ASSUME TypeInv, OrderInv, (\E t \in Timers : InitFails(t)) \/ ShutdownReturns
    PROVE  OrderInv'
<1>1. UNCHANGED <<mTimers, mShutdown, call, raced>> /\ thread'.at \notin {"asleep", "waiting"}
  BY DEF InitFails, ShutdownReturns, lists, timerVars, history, TypeInv, TypeOK, Thread
<1>2. \A u \in Timers : timer'[u].timeout = timer[u].timeout
  <2>1. CASE ShutdownReturns
    BY <2>1 DEF ShutdownReturns, timerVars
  <2>2. ASSUME NEW t \in Timers, InitFails(t)
        PROVE  \A u \in Timers : timer'[u].timeout = timer[u].timeout
    <3>1. timer' = [timer EXCEPT ![t] = [timer[t] EXCEPT !.callback = calls']]
          /\ timer \in [Timers -> Timer] /\ timer[t] \in Timer
      BY <2>2 DEF InitFails, TypeInv, TypeOK
    <3> QED BY <3>1 DEF Timer
  <2> QED BY <2>1, <2>2
<1>3. Changing' = Changing
  BY <1>1 DEF Changing
<1> QED BY <1>1, <1>2, <1>3, NoneIsNotListed, PartOfItself, OrderKept

\* While its delay is being changed, or if it is off the list, a timer does not count.
LEMMA SetDelayOrder ==
    ASSUME TypeInv, TypeInv', ListInv, EndInv, OrderInv, "delayInCallback" \notin Env,
           NEW t \in Timers, SetDelay(t)
    PROVE  OrderInv'
<1>1. /\ mTimers' = mTimers /\ call.rest = "none" /\ mShutdown' = mShutdown
      /\ thread' = thread /\ raced \subseteq raced'
      /\ call' = IF timer[t].firing \/ thread.at = "gone"
                 THEN call ELSE [rest |-> "change", timer |-> t]
      /\ ~ (timer[t].firing /\ Listed(t))
  BY DEF SetDelay, lists, Calls, ClientRuns, Races
<1>2. \A u \in Timers \ {t} : timer'[u] = timer[u]
  BY DEF SetDelay, lists, TypeInv, TypeOK
<1>3. Changing = None /\ Changing' = IF timer[t].firing \/ thread.at = "gone" THEN None ELSE t
  BY <1>1 DEF Changing
<1>4. ASSUME raced = {}, NEW i \in 1 .. Len(mTimers'), mTimers'[i] # Changing'
      PROVE  mTimers'[i] # None /\ timer'[mTimers'[i]] = timer[mTimers'[i]]
  <2>0. thread.at # "gone"
    BY <1>1, <1>4 DEF EndInv, OrderInv
  <2>1. mTimers[i] \in Timers /\ mTimers[i] # None
    BY <1>1, <1>4, NoneIsNotListed
  <2>2. mTimers[i] # t
    BY <1>1, <1>3, <1>4, <2>0 DEF Listed, Contains
  <2> QED BY <1>1, <1>2, <2>1, <2>2
<1> QED BY <1>1, <1>3, <1>4, PartOfItself, OrderKept

\* TimerDelayChanged() takes the timer off the list and adds it in its new place.
LEMMA CallOrder ==
    ASSUME TypeInv, TypeInv', ListInv, OrderInv, CallStep
    PROVE  OrderInv'
<1> DEFINE t == call.timer
<1>1. /\ t \in Timers /\ call'.rest = "none" /\ mShutdown' = mShutdown
      /\ raced' = IF Holds(t) THEN raced \cup {t} ELSE raced
  BY DEF CallStep, AddTimer, TimerDelayChanged, NoCall, Races, TypeInv, HasTimers
<1> SUFFICES ASSUME raced' = {}
             PROVE  /\ mShutdown' => mTimers' = <<>>
                    /\ Ordered(mTimers', timer', Changing')
                    /\ thread'.at = "asleep" => mTimers' = <<>>
                    /\ thread'.at = "waiting" =>
                         WakesFor(mTimers', timer', Changing', thread'.wake)
  BY DEF OrderInv, Ordered, WakesFor
<1>2. raced = {} /\ ListInvOf(t)
  BY <1>1 DEF ListInv
<1>3. PICK l \in Seq(Timers) :
         /\ Insert(l, t) /\ thread' = Awakened(l, t) /\ Part(l, mTimers)
         /\ Changing = t => ~ Contains(l, t)
         /\ Changing \in {t, None}
  <2>1. CASE AddTimer
    <3>1. Changing = None /\ None \notin Timers
      BY <2>1, TimersAssumption DEF AddTimer, Changing
    <3> QED BY <1>1, <2>1, <3>1, NoneIsNotListed, PartOfItself DEF AddTimer
  <2>2. CASE TimerDelayChanged
    <3>1. Changing = t
      BY <2>2 DEF TimerDelayChanged, Changing
    <3> QED BY <1>1, <1>2, <2>2, <3>1, NoneIsNotListed, RemovedOnce, RemovedPart
            DEF TimerDelayChanged, ListInvOf
  <2> QED BY <2>1, <2>2 DEF CallStep
<1> HIDE DEF t
<1>4. CASE mShutdown
  <2>1. mTimers' = mTimers /\ mTimers = <<>>
    BY <1>2, <1>3, <1>4 DEF Insert, OrderInv
  <2> QED BY <2>1 DEF Ordered, WakesFor
<1>5. CASE ~ mShutdown
  <2>1. \A i \in 1 .. Len(l) : l[i] \in Timers /\ l[i] # Changing
    <3> TAKE i \in 1 .. Len(l)
    <3>1. l[i] \in Timers /\ l[i] # None
      BY TimersAssumption, ElementOfSeq
    <3> QED BY <1>3, <3>1 DEF Contains
  <2>2. /\ Ordered(mTimers, timer, Changing) => Ordered(l, timer, None)
        /\ \A wake : WakesFor(mTimers, timer, Changing, wake) => WakesFor(l, timer, None, wake)
    BY <1>3, <2>1, OrderOfPart
  <2>3. /\ Ordered(mTimers', timer', Changing')
        /\ Place(l, t) # 1 =>
             \A wake \in Nat : WakesFor(l, timer, None, wake)
                               => WakesFor(mTimers', timer', Changing', wake)
    BY <1>1, <1>2, <1>3, <1>5, <2>2, InsertedOrder DEF OrderInv
  <2>4. CASE Place(l, t) = 1
    <3>1. thread' = Notified
      BY <1>3, <1>5, <2>4 DEF Awakened
    <3>2. thread'.at \notin {"asleep", "waiting"}
      BY <3>1 DEF Notified, Waits, TypeInv, TypeOK, Thread
    <3> QED BY <1>1, <1>5, <2>3, <3>2
  <2>5. CASE Place(l, t) # 1
    <3>1. thread' = thread /\ thread.wake \in Nat
      BY <1>3, <2>5, NoneIsNotListed DEF Awakened, Thread
    <3>2. thread.at # "asleep"
      <4>1. SUFFICES ASSUME mTimers = <<>> PROVE FALSE
        BY <1>2 DEF OrderInv
      <4>2. l = <<>>
        BY <1>3, <4>1, PartOfEmpty
      <4>3. Place(l, t) \in 1 .. Len(l) + 1 /\ Len(l) = 0
        BY <1>1, <1>3, <4>2, PlaceFits
      <4> QED BY <2>5, <4>3
    <3>3. thread.at = "waiting" => WakesFor(mTimers, timer, Changing, thread.wake)
      BY <1>2 DEF OrderInv
    <3> QED BY <1>1, <1>5, <2>2, <2>3, <2>5, <3>1, <3>2, <3>3
  <2> QED BY <2>4, <2>5
<1> QED BY <1>4, <1>5

LEMMA ShutdownOrder ==
    ASSUME TypeInv, OrderInv, Shutdown
    PROVE  OrderInv'
<1>1. mTimers' = <<>> /\ thread'.at \notin {"asleep", "waiting"}
  BY DEF Shutdown, Notified, Waits, TypeInv, TypeOK, Thread
<1> QED BY <1>1 DEF OrderInv, Ordered, WakesFor

LEMMA EventOrder ==
    ASSUME TypeInv, OrderInv, RunEvent
    PROVE  OrderInv'
<1>1. UNCHANGED <<mTimers, mShutdown, thread, call, raced>>
  BY DEF RunEvent, DropEvent, Fire, timerVars, history
<1>2. \A u \in Timers : timer'[u].timeout = timer[u].timeout
  <2>1. CASE DropEvent
    BY <2>1 DEF DropEvent, timerVars
  <2>2. CASE Fire
    <3> DEFINE t == Head(queue).timer
    <3>1. timer' = [timer EXCEPT ![t] = [timer[t] EXCEPT !.callback = 0, !.firing = TRUE]]
          /\ queue # <<>>
      BY <2>2 DEF Fire, RunsEvents
    <3>2. t \in Timers /\ timer \in [Timers -> Timer]
      BY <3>1, QueuedEvents DEF Event, TypeInv, TypeOK
    <3> HIDE DEF t
    <3> QED BY <3>1, <3>2 DEF Timer
  <2> QED BY <2>1, <2>2 DEF RunEvent
<1>3. Changing' = Changing
  BY <1>1 DEF Changing
<1> QED BY <1>1, <1>2, <1>3, NoneIsNotListed, PartOfItself, OrderKept

\* The timer that Fire() counts anew is off the list.
LEMMA FireEndsOrder ==
    ASSUME TypeInv, ListInv, OrderInv, FireEnds
    PROVE  OrderInv'
<1> DEFINE t == Last(stack).timer
           r == timer[t]
           ended == [r EXCEPT !.firing = FALSE,
                              !.callback = IF Restores(r) THEN Last(stack).callback ELSE @]
<1>1. /\ stack # <<>> /\ call.rest = "none" /\ UNCHANGED <<mTimers, mShutdown, mTimeoutAdjustment, thread, raced>>
      /\ timer' = [timer EXCEPT ![t] = IF Again(r) /\ r.type = "slack"
                                       THEN Rescheduled(ended, r.delay) ELSE ended]
      /\ call' = IF Again(r) THEN [rest |-> "add", timer |-> t] ELSE call
  BY DEF FireEnds, lists, history
<1>2. t \in Timers /\ timer \in [Timers -> Timer]
  BY <1>1, StackFrames DEF Frame, TypeInv, TypeOK
<1>3. Changing = None /\ Changing' = None
  BY <1>1 DEF Changing
<1>4. ASSUME raced = {}, NEW i \in 1 .. Len(mTimers)
      PROVE  timer'[mTimers[i]].timeout = timer[mTimers[i]].timeout
  <2>1. mTimers[i] \in Timers
    BY <1>4, NoneIsNotListed
  <2>2. CASE mTimers[i] = t
    <3>1. timer[t].armed
      BY <1>2, <1>4, <2>2 DEF ListInv, ListInvOf, Listed, Contains
    <3>2. timer'[t] = ended
      BY <1>1, <1>2, <3>1 DEF Again
    <3>3. timer[t] \in Timer
      BY <1>2
    <3>4. ended.timeout = timer[t].timeout
      BY <3>3 DEF Timer
    <3> QED BY <2>2, <3>2, <3>4
  <2>3. CASE mTimers[i] # t
    BY <1>1, <1>2, <2>1, <2>3
  <2> QED BY <2>2, <2>3
<1> QED BY <1>1, <1>3, <1>4, NoneIsNotListed, PartOfItself, OrderKept

\* The timer thread waits for the first timer in its list.
LEMMA WaitOrder ==
    ASSUME TypeInv, OrderInv, WaitForFirst
    PROVE  OrderInv'
<1>1. /\ UNCHANGED <<mTimers, timer, mShutdown, call>> /\ mTimers # <<>> /\ raced \subseteq raced'
      /\ raced' = IF call = [rest |-> "change", timer |-> Head(mTimers)]
                  THEN raced \cup {call.timer} ELSE raced
      /\ TimeLeft(Head(mTimers)) > 0
      /\ thread' = [thread EXCEPT !.at = "waiting", !.wake = TimeLeft(Head(mTimers))]
  BY DEF WaitForFirst, ReadsInCall, timerVars
<1>2. /\ Head(mTimers) = mTimers[1] /\ 1 \in 1 .. Len(mTimers)
      /\ \A i \in 1 .. Len(mTimers) : mTimers[i] \in Timers /\ mTimers[i] # None
  BY <1>1, NoneIsNotListed, HeadTailProperties
<1>3. thread'.at = "waiting" /\ thread'.wake = TimeLeft(mTimers[1])
  BY <1>1, <1>2, NoneIsNotListed DEF Thread
<1>4. Changing' = Changing
  BY <1>1 DEF Changing
<1>5. ASSUME raced' = {} PROVE WakesFor(mTimers, timer, Changing, TimeLeft(mTimers[1]))
  <2>1. raced = {} /\ mTimers[1] # Changing
    <3>1. SUFFICES ASSUME mTimers[1] = Changing PROVE call = [rest |-> "change", timer |-> Head(mTimers)]
      BY <1>1, <1>5
    <3>2. call.rest = "change" /\ call.timer = Head(mTimers)
      BY <1>2, <3>1 DEF Changing
    <3> QED BY <3>2 DEF TypeInv, TypeOK
  <2>2. SUFFICES ASSUME NEW i \in 1 .. Len(mTimers), mTimers[i] # Changing
                 PROVE  TimeLeft(mTimers[1]) <= InTime(timer[mTimers[i]].timeout)
    BY DEF WakesFor
  <2>3. Ordered(mTimers, timer, Changing)
    BY <2>1 DEF OrderInv
  <2>4. \/ i = 1 \/ ~ (timer[mTimers[1]].timeout > MaxAdjustment)
        \/ timer[mTimers[1]].timeout <= timer[mTimers[i]].timeout
    BY <1>1, <1>2, <2>1, <2>2, <2>3 DEF Ordered
  <2>5. timer[mTimers[1]].timeout \in Int /\ timer[mTimers[i]].timeout \in Int
    BY <1>2, <2>2, TimeoutTypes
  <2> DEFINE a == timer[mTimers[1]].timeout
             b == timer[mTimers[i]].timeout
  <2>6. a <= MaxAdjustment \/ a <= b
    BY <2>4, <2>5, AdjustmentType
  <2> HIDE DEF a, b
  <2>7. /\ a \in Int /\ b \in Int /\ MaxAdjustment \in Int /\ mTimeoutAdjustment \in Int
        /\ mTimeoutAdjustment <= MaxAdjustment
    BY <2>5, AdjustmentType DEF a, b
  <2>8. a + mTimeoutAdjustment <= InTime(b)
    BY <2>6, <2>7 DEF InTime, Larger
  <2> QED BY <2>8 DEF a, b, TimeLeft
<1> QED BY <1>1, <1>3, <1>4, <1>5 DEF OrderInv

LEMMA TakeFirstOrder ==
    ASSUME TypeInv, TypeInv', OrderInv, TakeFirst
    PROVE  OrderInv'
<1>1. /\ mTimers # <<>> /\ mTimers' = Tail(mTimers) /\ call' = call /\ mShutdown' = mShutdown
      /\ ~ mShutdown
      /\ raced \subseteq raced' /\ thread' = [thread EXCEPT !.at = "post", !.timer = Head(mTimers)]
      /\ timer' = [timer EXCEPT ![Head(mTimers)] = [timer[Head(mTimers)] EXCEPT !.armed = FALSE]]
  BY DEF TakeFirst, ReadsInCall
<1>2. \A u \in Timers : timer'[u].timeout = timer[u].timeout
  <2>1. timer \in [Timers -> Timer]
    BY NoneIsNotListed
  <2> QED BY <1>1, <2>1 DEF Timer
<1>3. Changing' = Changing
  BY <1>1 DEF Changing
<1>4. \A i \in 1 .. Len(mTimers') : mTimers'[i] \in Timers
  BY ElementOfSeq DEF TypeInv, TypeOK
<1>5. thread'.at = "post"
  BY <1>1, NoneIsNotListed DEF Thread
<1>6. Part(mTimers', mTimers)
  BY <1>1, NoneIsNotListed, TailPart
<1> QED BY <1>1, <1>2, <1>3, <1>4, <1>5, <1>6, OrderKept

\* The timer that is rescheduled is off the list.
LEMMA ArmOrder ==
    ASSUME TypeInv, ListInv, OrderInv, Arm
    PROVE  OrderInv'
<1>1. /\ UNCHANGED <<mTimers, mShutdown, mTimeoutAdjustment, call, raced>> /\ Holds(thread.timer)
      /\ thread.timer \in Timers
      /\ timer' = [timer EXCEPT ![thread.timer] = Rescheduled(timer[thread.timer], thread.delay)]
  BY DEF Arm, lists, Holds, history, TypeInv, HasTimers
<1>2. thread'.at \notin {"asleep", "waiting"}
  BY DEF Arm, lists, TypeInv, TypeOK, Thread
<1>3. ASSUME raced = {}, NEW i \in 1 .. Len(mTimers)
      PROVE  timer'[mTimers[i]] = timer[mTimers[i]]
  <2>1. ~ Listed(thread.timer)
    BY <1>1, <1>3 DEF ListInv, ListInvOf
  <2>2. mTimers[i] \in Timers /\ mTimers[i] # thread.timer
    BY <1>3, <2>1, NoneIsNotListed DEF Listed, Contains
  <2> QED BY <1>1, <2>2, NoneIsNotListed
<1>4. Changing' = Changing
  BY <1>1 DEF Changing
<1> QED BY <1>1, <1>2, <1>3, <1>4, PartOfItself, OrderKept

\* The timer thread adds a timer to a list in which SetDelay() changes none.
LEMMA RearmOrder ==
    ASSUME TypeInv, OrderInv, Rearm
    PROVE  OrderInv'
<1>1. /\ thread.timer \in Timers /\ Insert(mTimers, thread.timer) /\ call' = call
      /\ mShutdown' = mShutdown
      /\ raced' = IF call.rest = "change" /\ Listed(call.timer)
                  THEN raced \cup {call.timer} ELSE raced
  BY DEF Rearm, ComparesInCall, TypeInv, HasTimers
<1>2. thread'.at \notin {"asleep", "waiting"}
  BY DEF Rearm, TypeInv, TypeOK, Thread
<1>3. CASE mShutdown
  BY <1>1, <1>2, <1>3 DEF Insert, OrderInv, Changing
<1>4. ASSUME ~ mShutdown, raced' = {}
      PROVE  Ordered(mTimers', timer', Changing')
  <2>1. raced = {} /\ \A i \in 1 .. Len(mTimers) : mTimers[i] # Changing
    BY <1>1, <1>4, NoneIsNotListed DEF Changing, Listed, Contains
  <2>2. Ordered(mTimers, timer, None)
    BY <2>1, NoneIsNotListed, PartOfItself, OrderOfPart DEF OrderInv
  <2> QED BY <1>1, <1>4, <2>2, NoneIsNotListed, InsertedOrder
<1> QED BY <1>1, <1>2, <1>3, <1>4 DEF OrderInv

LEMMA ThreadOrder ==
    ASSUME TypeInv, TypeInv', ListInv, OrderInv, ThreadStep
    PROVE  OrderInv'
<1>1. CASE Ends \/ WakeUp \/ NewTimerEvent \/ DispatchEvent
  <2>1. UNCHANGED <<mTimers, mShutdown, mTimeoutAdjustment, timer, call, raced>>
    BY <1>1 DEF Ends, WakeUp, NewTimerEvent, DispatchEvent, timerVars, history
  <2>2. thread'.at \notin {"asleep", "waiting"}
    BY <1>1, NoneIsNotListed DEF Ends, WakeUp, NewTimerEvent, DispatchEvent, Thread
  <2>3. Changing' = Changing
    BY <2>1 DEF Changing
  <2> QED BY <2>1, <2>2, <2>3, PartOfItself, OrderKept
<1>2. CASE Sleep
  <2>1. UNCHANGED <<mTimers, mShutdown, mTimeoutAdjustment, timer, call, raced>> /\ mTimers = <<>>
    BY <1>2 DEF Sleep, timerVars, history
  <2>2. thread'.at = "asleep"
    BY <1>2, NoneIsNotListed DEF Sleep, Thread
  <2> QED BY <2>1, <2>2 DEF OrderInv, Ordered
<1> QED BY <1>1, <1>2, WaitOrder, TakeFirstOrder, ArmOrder, RearmOrder DEF ThreadStep

\* Time passes for all timers alike.
LEMMA TickOrder ==
    ASSUME TypeInv, OrderInv, Tick
    PROVE  OrderInv'
<1>1. /\ UNCHANGED <<mTimers, mShutdown, mTimeoutAdjustment, call, raced>>
      /\ thread' = [thread EXCEPT !.wake = Less(thread.wake)]
  BY DEF Tick, lists
<1>2. thread'.at = thread.at /\ thread'.wake = Less(thread.wake) /\ thread.wake \in Nat
  BY <1>1, NoneIsNotListed DEF Thread
<1>3. ASSUME NEW u \in Timers
      PROVE  /\ timer[u].timeout \in Int
             /\ timer'[u].timeout \in {timer[u].timeout - 1, Older(timer[u].timeout)}
  <2>1. timer'[u] = [timer[u] EXCEPT !.timeout = IF CountsFrom(u) THEN timer[u].timeout - 1
                                                ELSE Older(timer[u].timeout)]
    BY DEF Tick, lists
  <2> QED BY <2>1, TimeoutTypes DEF Timer
<1>4. Changing' = Changing
  BY <1>1 DEF Changing
<1>5. \A i \in 1 .. Len(mTimers) : mTimers[i] \in Timers
  BY NoneIsNotListed
<1>6. Ordered(mTimers, timer, Changing) => Ordered(mTimers, timer', Changing)
  <2> SUFFICES ASSUME Ordered(mTimers, timer, Changing),
                      NEW i \in 1 .. Len(mTimers), NEW j \in 1 .. Len(mTimers), i < j,
                      mTimers[i] # Changing, mTimers[j] # Changing,
                      timer'[mTimers[i]].timeout > MaxAdjustment
               PROVE  timer'[mTimers[i]].timeout <= timer'[mTimers[j]].timeout
    BY DEF Ordered
  <2> DEFINE a == timer[mTimers[i]].timeout
             b == timer[mTimers[j]].timeout
             a2 == timer'[mTimers[i]].timeout
             b2 == timer'[mTimers[j]].timeout
  <2>1. /\ a \in Int /\ a2 \in {a - 1, Older(a)} /\ b \in Int /\ b2 \in {b - 1, Older(b)}
    BY <1>3, <1>5
  <2>2. a > MaxAdjustment => a <= b
    BY DEF Ordered
  <2>3. a2 > MaxAdjustment
    OBVIOUS
  <2> HIDE DEF a, b, a2, b2
  <2>4. a2 <= b2
    BY <2>1, <2>2, <2>3, AdjustmentType DEF Older, Larger
  <2> QED BY <2>4 DEF a2, b2
<1>7. WakesFor(mTimers, timer, Changing, thread.wake)
      => WakesFor(mTimers, timer', Changing, Less(thread.wake))
  <2> SUFFICES ASSUME WakesFor(mTimers, timer, Changing, thread.wake),
                      NEW i \in 1 .. Len(mTimers), mTimers[i] # Changing
               PROVE  Less(thread.wake) <= InTime(timer'[mTimers[i]].timeout)
    BY DEF WakesFor
  <2> DEFINE a == timer[mTimers[i]].timeout
             a2 == timer'[mTimers[i]].timeout
             w == thread.wake
  <2>1. a \in Int /\ a2 \in {a - 1, Older(a)} /\ w \in Nat /\ w <= InTime(a)
    BY <1>2, <1>3, <1>5 DEF WakesFor
  <2> HIDE DEF a, a2, w
  <2>2. Less(w) <= InTime(a2)
    BY <2>1, AdjustmentType DEF Less, Older, InTime, Larger
  <2> QED BY <2>2 DEF a2, w
<1> QED BY <1>1, <1>2, <1>4, <1>6, <1>7 DEF OrderInv

LEMMA OrderStep ==
    ASSUME TypeInv, TypeInv', ListInv, EndInv, OrderInv, "delayInCallback" \notin Env, [Next]_vars
    PROVE  OrderInv'
<1>1. CASE ClientStep
  BY <1>1, InitOrder, GoneOrder, CancelOrder, SetDelayOrder DEF ClientStep
<1>2. CASE UNCHANGED vars
  BY <1>2 DEF vars, OrderInv, Ordered, WakesFor, Changing
<1> QED BY <1>1, <1>2, ShutdownOrder, GoneOrder, CallOrder, EventOrder, FireEndsOrder, ThreadOrder,
           TickOrder DEF Next

LEMMA OrderInit ==
    ASSUME Init
    PROVE  OrderInv
<1>1. mTimers = <<>> /\ thread.at = "scan"
  BY DEF Init
<1> QED BY <1>1 DEF OrderInv, Ordered, WakesFor

\* As long as no call and the timer thread have used a timer at once, the timer thread
\* waits for no longer than until the first timeout in its list, within the adjustment,
\* wherever in the list timers are added, removed and moved meanwhile, for any number of
\* timers.  It is assumed that no callback calls SetDelay() for its own timer while that
\* is armed, since then the list is left out of order.
THEOREM TheTimerThreadWakesInTime ==
    ASSUME "delayInCallback" \notin Env
    PROVE  Spec => []NoOversleep
<1>1. Init => TypeInv /\ ListInv /\ EndInv /\ OrderInv
  BY TypeInit, ListInit, EndInit, OrderInit
<1>2. TypeInv /\ ListInv /\ EndInv /\ OrderInv /\ [Next]_vars
      => TypeInv' /\ ListInv' /\ EndInv' /\ OrderInv'
  BY TypeStep, ListStep, EndStep, OrderStep
<1>3. TypeInv /\ OrderInv => NoOversleep
  <2> SUFFICES ASSUME TypeInv, OrderInv, raced = {}, call.rest # "change"
               PROVE  /\ thread.at = "asleep" => mTimers = <<>>
                      /\ thread.at = "waiting" =>
                           \A t \in Timers : Listed(t) =>
                             thread.wake <= Larger(timer[t].timeout, MaxAdjustment) + MaxAdjustment
    BY DEF NoOversleep
  <2>1. Changing = None
    BY DEF Changing
  <2> QED BY <2>1, NoneIsNotListed DEF OrderInv, WakesFor, InTime, Listed, Contains
<1> QED BY <1>1, <1>2, <1>3, PTL DEF Spec
=============================================================================
