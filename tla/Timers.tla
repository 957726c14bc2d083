------------------------------- MODULE Timers -------------------------------
(***************************************************************************)
(* The timers of xpcom/threads/nsTimerImpl.cpp and the timer thread of     *)
(* TimerThread.cpp.  A client on the target thread initializes, cancels    *)
(* and delays its timers; the timer thread keeps the armed ones in a list  *)
(* and posts an event to the target thread when one is due; the event runs *)
(* the callback, which is client code again and may run an event loop of   *)
(* its own.  What happens inside one hold of the timer thread's monitor,   *)
(* or between two, is one step.                                            *)
(*                                                                         *)
(* Time is relative: a timeout is the time left until it, zero or less     *)
(* has passed.  The filter that sets mTimeoutAdjustment from how late      *)
(* timers were is left to choose any value up to its bound.                *)
(***************************************************************************)
EXTENDS Integers, FiniteSets, Sequences, SequencesExt

CONSTANTS
    Timers,
    Types,        \* the types that clients give to Init
    Delays,       \* the delays they give to Init and SetDelay
    Env,          \* what else they may do, see EnvKinds
    MaxCalls,     \* bound: calls of Init, Cancel and SetDelay
    MaxNesting,   \* bound: callbacks in progress on the target thread
    MaxEvents,    \* bound: events posted and not yet run
    MaxLate,      \* bound: how late the timer thread may be for a timer
                  \*   whose next timeout is counted from the last one,
    MaxOversleep, \*   and how late if it sleeps nevertheless
    MaxAdjustment, \* 1.5 times FILTER_FEEDBACK_MAX
    None

AllTypes == {"oneShot", "slack", "precise", "canSkip"}
EnvKinds == { "shutdown",          \* nsTimerImpl::Shutdown() is called
              "setDelay",          \* SetDelay() is called
              "delayInCallback" }  \*   also by a callback whose timer is armed

ASSUME TimersAssumption ==
    /\ Types \subseteq AllTypes /\ Delays \subseteq Nat \ {0} /\ Env \subseteq EnvKinds
    /\ MaxCalls \in Nat /\ MaxNesting \in Nat \ {0}
    /\ MaxEvents \in Nat \ {0} /\ MaxOversleep \in Nat
    /\ MaxAdjustment \in Nat /\ MaxLate \in Nat /\ MaxLate >= MaxAdjustment
    /\ None \notin Timers

VARIABLES
    mTimers,    \* the timer thread's list
    mShutdown,
    mTimeoutAdjustment,
    timer,      \* timer[t]: the members of the nsTimerImpl t
    thread,     \* the timer thread: where it is, and its locals
    queue,      \* the events posted to the target thread
    stack,      \* the callbacks in progress there, the innermost last
    call,       \* the rest of the call in progress there
    calls,      \* calls made so far, from which mGeneration is generated
    wanted,     \* history: what the client has asked of t last
    raced       \* history: timers that a call and the timer thread have used at once

vars == <<mTimers, mShutdown, mTimeoutAdjustment, timer, thread, queue, stack, call, calls,
          wanted, raced>>
timerVars == <<mTimers, mShutdown, mTimeoutAdjustment, timer>>
lists == <<mTimers, mShutdown, mTimeoutAdjustment>>
history == <<calls, wanted, raced>>

\* A callback is named by the call of Init that has set it; 0 stands for
\* CALLBACK_TYPE_UNKNOWN.  generation is 0 until the first Init.
Timer == [callback : 0 .. MaxCalls, type : AllTypes, firing : BOOLEAN,
          armed : BOOLEAN, canceled : BOOLEAN, generation : 0 .. MaxCalls,
          delay : Nat, timeout : Int]

\* wake: the time left of a wait that has an end.  The thread is gone when
\* Shutdown() has joined it, and gThread is null.
Thread == [at : {"scan", "waiting", "asleep", "post", "arm", "add", "dispatch", "ended", "gone"},
           timer : Timers \cup {None}, generation : 0 .. MaxCalls, delay : Nat, wake : Nat]

NoCall == [rest |-> "none", timer |-> None]

Init ==
    /\ mTimers = <<>>
    /\ mShutdown = FALSE
    /\ mTimeoutAdjustment = 0
    /\ timer = [t \in Timers |->
                  [callback |-> 0, type |-> "oneShot", firing |-> FALSE, armed |-> FALSE,
                   canceled |-> FALSE, generation |-> 0, delay |-> 0, timeout |-> 0]]
    /\ thread = [at |-> "scan", timer |-> None, generation |-> 0, delay |-> 0, wake |-> 0]
    /\ queue = <<>>
    /\ stack = <<>>
    /\ call = NoCall
    /\ calls = 0
    /\ wanted = [t \in Timers |-> [init |-> 0, due |-> 0, fired |-> FALSE]]
    /\ raced = {}

Listed(t) == Contains(mTimers, t)
Waits == thread.at \in {"waiting", "asleep"}

\* Only a wait for a time is ended.
NotifiedMutant ==
    IF thread.at = "waiting" THEN [thread EXCEPT !.at = "scan", !.wake = 0] ELSE thread

\* The timer thread after mMonitor.Notify().
Notified == IF Waits THEN [thread EXCEPT !.at = "scan", !.wake = 0] ELSE thread

\* The timer thread has taken t off the list, and still reads or writes it.
Holds(t) == thread.timer = t /\ thread.at \in {"post", "arm", "add"}
Races(t) == raced' = IF Holds(t) THEN raced \cup {t} ELSE raced

\* What has passed since the timeout is made up for by a shorter delay.
\* SetDelayInternal: only a precise timer counts from its last timeout.
Rescheduled(r, delay) ==
    [r EXCEPT !.delay = delay,
              !.timeout = delay + IF r.type = "precise" THEN r.timeout ELSE 0]

\* The time left until the timer thread fires t: "adaptively estimate how early
\* timers should fire to be 'on time'" (TimerThread.cpp:198).
TimeLeft(t) == timer[t].timeout + mTimeoutAdjustment

\* Where AddTimerInternal puts t in a list: overdue timers are passed over.
Place(list, t) ==
    LET k == SelectInSeq(list, LAMBDA u : /\ TimeLeft(u) > 0
                                          /\ timer[t].timeout < timer[u].timeout)
    IN IF k = 0 THEN Len(list) + 1 ELSE k

\* AddTimerInternal: t is put into list, what is left of mTimers.
Insert(list, t) ==
    IF mShutdown THEN UNCHANGED <<mTimers, timer>>
    ELSE /\ mTimers' = InsertAt(list, Place(list, t), t)
         /\ timer' = [timer EXCEPT ![t].armed = TRUE]

\* It is notified when the list was empty.
AwakenedMutant(list, t) == IF ~ mShutdown /\ list = <<>> THEN Notified ELSE thread

\* "Awaken the timer thread" when t comes first.
Awakened(list, t) == IF ~ mShutdown /\ Place(list, t) = 1 THEN Notified ELSE thread

(***************************************************************************)
(* The client, on the target thread.                                       *)
(***************************************************************************)

\* Client code runs: outside of the timers' events, or as a callback.
ClientRuns ==
    /\ call.rest = "none"
    /\ stack # <<>> => Last(stack).callback # 0

Calls ==
    /\ ClientRuns
    /\ calls < MaxCalls
    /\ calls' = calls + 1

\* Init(), InitWithCallback(), InitWithFuncCallback(), until AddTimer().
InitTimer(t) ==
    /\ Calls
    /\ thread.at # "gone"
    /\ \E type \in Types, delay \in Delays :
         /\ timer' = [timer EXCEPT ![t] =
                        [timer[t] EXCEPT !.callback = calls', !.generation = calls',
                                  !.canceled = FALSE,
                                  !.armed = timer[t].armed /\ ~ Listed(t),
                                  !.type = type, !.delay = delay, !.timeout = delay]]
         /\ wanted' = [wanted EXCEPT ![t] = [init |-> calls', due |-> delay, fired |-> FALSE]]
    /\ mTimers' = IF timer[t].armed THEN RemoveFirst(mTimers, t) ELSE mTimers
    /\ thread' = IF timer[t].armed /\ Listed(t) THEN Notified ELSE thread
    /\ call' = [rest |-> "add", timer |-> t]
    /\ Races(t)
    /\ UNCHANGED <<mShutdown, mTimeoutAdjustment, queue, stack>>

\* Init() after Shutdown() sets the callback, and fails for want of gThread.
InitFails(t) ==
    /\ Calls
    /\ thread.at = "gone"
    /\ timer' = [timer EXCEPT ![t].callback = calls']
    /\ wanted' = [wanted EXCEPT ![t].init = calls', ![t].fired = FALSE]
    /\ UNCHANGED <<lists, thread, queue, stack, call, raced>>

\* The timer is only taken off the list.
CancelMutant(t) ==
    /\ Calls
    /\ timer[t].generation # 0
    /\ timer' = [timer EXCEPT ![t].armed = @ /\ ~ Listed(t)]
    /\ mTimers' = RemoveFirst(mTimers, t)
    /\ thread' = IF Listed(t) THEN Notified ELSE thread
    /\ wanted' = [wanted EXCEPT ![t].init = 0]
    /\ UNCHANGED <<mShutdown, mTimeoutAdjustment, queue, stack, call, raced>>

\* Cancel().  RemoveTimer() notifies wherever the timer was in the list.
Cancel(t) ==
    /\ Calls
    /\ timer[t].generation # 0
    /\ timer' = [timer EXCEPT ![t].canceled = TRUE, ![t].callback = 0,
                              ![t].armed = @ /\ ~ Listed(t)]
    /\ mTimers' = RemoveFirst(mTimers, t)
    /\ thread' = IF Listed(t) THEN Notified ELSE thread
    /\ wanted' = [wanted EXCEPT ![t].init = 0]
    /\ UNCHANGED <<mShutdown, mTimeoutAdjustment, queue, stack, call, raced>>

Smaller(a, b) == IF a < b THEN a ELSE b

\* SetDelay(), until TimerDelayChanged(), which is not called while the timer
\* fires, and not without gThread.  A precise timer counts from now, as do the others.
SetDelay(t) ==
    /\ "setDelay" \in Env
    /\ Calls
    /\ timer[t].generation # 0
    /\ ~ (timer[t].callback = 0 /\ timer[t].type = "oneShot")
    /\ "delayInCallback" \in Env \/ ~ (timer[t].firing /\ Listed(t))
    /\ \E delay \in Delays :
         /\ timer' = [timer EXCEPT ![t].delay = delay, ![t].timeout = delay]
         /\ wanted' = [wanted EXCEPT ![t].due = Smaller(@, delay)]
    /\ call' = IF timer[t].firing \/ thread.at = "gone"
                THEN call ELSE [rest |-> "change", timer |-> t]
    /\ Races(t)
    /\ UNCHANGED <<lists, thread, queue, stack>>

\* AddTimer(), at the end of Init and of Fire.
AddTimer ==
    /\ call.rest = "add"
    /\ Insert(mTimers, call.timer)
    /\ thread' = Awakened(mTimers, call.timer)
    /\ call' = NoCall
    /\ Races(call.timer)
    /\ UNCHANGED <<mShutdown, mTimeoutAdjustment, queue, stack, calls, wanted>>

\* TimerDelayChanged(), at the end of SetDelay.
TimerDelayChanged ==
    /\ call.rest = "change"
    /\ LET rest == RemoveFirst(mTimers, call.timer)
       IN /\ Insert(rest, call.timer)
          /\ thread' = Awakened(rest, call.timer)
    /\ call' = NoCall
    /\ Races(call.timer)
    /\ UNCHANGED <<mShutdown, mTimeoutAdjustment, queue, stack, calls, wanted>>

\* nsTimerImpl::Shutdown(), when the application's event loop has returned: the
\* callbacks of the armed timers are released.  It runs events until the timer
\* thread has ended.
Shutdown ==
    /\ "shutdown" \in Env
    /\ stack = <<>> /\ call.rest = "none"
    /\ ~ mShutdown
    /\ mShutdown' = TRUE
    /\ mTimers' = <<>>
    /\ timer' = [t \in Timers |->
                   IF Listed(t) THEN [timer[t] EXCEPT !.callback = 0, !.armed = FALSE]
                                ELSE timer[t]]
    /\ thread' = Notified
    /\ UNCHANGED <<mTimeoutAdjustment, queue, stack, call, history>>

\* The timer thread has answered it, after all its events; gThread is released.
ShutdownReturns ==
    /\ thread.at = "ended"
    /\ stack = <<>> /\ call.rest = "none" /\ queue = <<>>
    /\ thread' = [thread EXCEPT !.at = "gone"]
    /\ UNCHANGED <<timerVars, queue, stack, call, history>>

\* The generation does not matter.
StaleMutant(e) == timer[e.timer].canceled

\* An event for another initialization than the last, or a cancelled one.
Stale(e) == e.generation # timer[e.timer].generation \/ timer[e.timer].canceled

\* The target thread can run an event: its own loop does, or a callback's.
RunsEvents ==
    /\ queue # <<>>
    /\ ClientRuns
    /\ Len(stack) < MaxNesting

\* nsTimerEvent::Run() does nothing, or Fire() returns at once.
DropEvent ==
    /\ RunsEvents
    /\ Stale(Head(queue))
    /\ queue' = Tail(queue)
    /\ UNCHANGED <<timerVars, thread, stack, call, history>>

\* UpdateFilter(): the filtered slack of the last timers, whatever it was.
UpdateFilter == mTimeoutAdjustment' \in - MaxAdjustment .. MaxAdjustment

\* nsTimerEvent::Run(), and Fire() up to the callback.
Fire ==
    /\ RunsEvents
    /\ ~ Stale(Head(queue))
    /\ queue' = Tail(queue)
    /\ LET t == Head(queue).timer
           callback == timer[t].callback
       IN /\ stack' = Append(stack, [timer |-> t, callback |-> callback])
          /\ timer' = [timer EXCEPT ![t].callback = 0, ![t].firing = TRUE]
          /\ wanted' = [wanted EXCEPT ![t].fired = @ \/ callback # 0]
    /\ UpdateFilter
    /\ UNCHANGED <<mTimers, mShutdown, thread, call, calls, raced>>

\* Every timer gets its callback back.
RestoresMutant(r) == r.callback = 0 /\ ~ r.canceled

\* "If the callback didn't re-init the timer, and it's not a one-shot timer".
Restores(r) == r.callback = 0 /\ r.type # "oneShot" /\ ~ r.canceled

\* The timer may be armed already.
TwiceMutant(r) == r.type \in {"slack", "canSkip"}
\* Only slack timers are armed again.
SkipsMutant(r) == r.type = "slack" /\ ~ r.armed

\* Fire() arms the timer again, also if it was cancelled.
Again(r) == r.type \in {"slack", "canSkip"} /\ ~ r.armed

\* The callback has returned: the rest of Fire().
FireEnds ==
    /\ stack # <<>>
    /\ call.rest = "none"
    /\ LET t == Last(stack).timer
           r == timer[t]
           ended == [r EXCEPT !.firing = FALSE,
                              !.callback = IF Restores(r) THEN Last(stack).callback ELSE @]
       IN /\ timer' = [timer EXCEPT ![t] = IF Again(r) /\ r.type = "slack"
                                           THEN Rescheduled(ended, r.delay) ELSE ended]
          /\ call' = IF Again(r) THEN [rest |-> "add", timer |-> t] ELSE call
    /\ stack' = Front(stack)
    /\ UNCHANGED <<lists, thread, queue, history>>

(***************************************************************************)
(* The timer thread.                                                       *)
(***************************************************************************)

\* One turn of the loop of Run(), which ends with the monitor released.
Ends ==
    /\ thread.at = "scan" /\ mShutdown
    /\ thread' = [thread EXCEPT !.at = "ended"]
    /\ UNCHANGED <<timerVars, queue, stack, call, history>>

Sleep ==
    /\ thread.at = "scan" /\ ~ mShutdown
    /\ mTimers = <<>>
    /\ thread' = [thread EXCEPT !.at = "asleep"]
    /\ UNCHANGED <<timerVars, queue, stack, call, history>>

\* SetDelay() may be changing the timeout that is read.
ReadsInCall == raced' = IF call = [rest |-> "change", timer |-> Head(mTimers)]
                        THEN raced \cup {call.timer} ELSE raced

WaitForFirst ==
    /\ thread.at = "scan" /\ ~ mShutdown
    /\ mTimers # <<>>
    /\ TimeLeft(Head(mTimers)) > 0
    /\ thread' = [thread EXCEPT !.at = "waiting", !.wake = TimeLeft(Head(mTimers))]
    /\ ReadsInCall
    /\ UNCHANGED <<timerVars, queue, stack, call, calls, wanted>>

TakeFirst ==
    /\ thread.at = "scan" /\ ~ mShutdown
    /\ mTimers # <<>>
    /\ TimeLeft(Head(mTimers)) <= 0
    /\ thread' = [thread EXCEPT !.at = "post", !.timer = Head(mTimers)]
    /\ mTimers' = Tail(mTimers)
    /\ timer' = [timer EXCEPT ![Head(mTimers)].armed = FALSE]
    /\ ReadsInCall
    /\ UNCHANGED <<mShutdown, mTimeoutAdjustment, queue, stack, call, calls, wanted>>

\* mMonitor.Wait() times out.
WakeUp ==
    /\ thread.at = "waiting"
    /\ thread.wake = 0
    /\ thread' = [thread EXCEPT !.at = "scan"]
    /\ UNCHANGED <<timerVars, queue, stack, call, history>>

\* PostTimerEvent(), without the monitor: the generation goes into the event.
NewTimerEvent ==
    /\ thread.at = "post"
    /\ LET r == timer[thread.timer]
       IN thread' = [thread EXCEPT
            !.generation = r.generation, !.delay = r.delay,
            !.at = IF r.type \in {"precise", "canSkip"} THEN "arm" ELSE "dispatch"]
    /\ UNCHANGED <<timerVars, queue, stack, call, history>>

\* The next timeout of a precise timer is set before it fires.
Arm ==
    /\ thread.at = "arm"
    /\ timer' = [timer EXCEPT ![thread.timer] = Rescheduled(@, thread.delay)]
    /\ thread' = [thread EXCEPT
         !.at = IF timer[thread.timer].type = "precise" THEN "add" ELSE "dispatch"]
    /\ UNCHANGED <<lists, queue, stack, call, history>>

\* AddTimerInternal compares the timeouts in the list, one of which SetDelay() may
\* be changing.
ComparesInCall == raced' = IF call.rest = "change" /\ Listed(call.timer)
                           THEN raced \cup {call.timer} ELSE raced

\* AddTimer() by the timer thread; if it fails no event is posted.
Rearm ==
    /\ thread.at = "add"
    /\ Insert(mTimers, thread.timer)
    /\ thread' = [thread EXCEPT !.at = IF mShutdown THEN "scan" ELSE "dispatch"]
    /\ ComparesInCall
    /\ UNCHANGED <<mShutdown, mTimeoutAdjustment, queue, stack, call, calls, wanted>>

DispatchEvent ==
    /\ thread.at = "dispatch"
    /\ Len(queue) < MaxEvents
    /\ queue' = Append(queue, [timer |-> thread.timer, generation |-> thread.generation])
    /\ thread' = [thread EXCEPT !.at = "scan", !.timer = None, !.generation = 0, !.delay = 0]
    /\ UNCHANGED <<timerVars, stack, call, history>>

(***************************************************************************)
(* Time.  How long a timer has been due matters no more when it is due     *)
(* whatever the adjustment, unless the next timeout is counted from it.    *)
(***************************************************************************)
Larger(a, b) == IF a > b THEN a ELSE b
Less(time) == Larger(time - 1, 0)
Older(time) == Larger(time - 1, - MaxAdjustment)

CountsFrom(t) == timer[t].type = "precise" /\ (Listed(t) \/ Holds(t))

\* The timer thread sleeps, which it should not if a timer is overdue.
Oversleeps == thread.at = "waiting" /\ thread.wake > 0

Tick ==
    /\ \A t \in Timers : CountsFrom(t) =>
         timer[t].timeout > - IF Oversleeps THEN MaxOversleep ELSE MaxLate
    /\ timer' = [t \in Timers |->
         [timer[t] EXCEPT !.timeout = IF CountsFrom(t) THEN @ - 1 ELSE Older(@)]]
    /\ thread' = [thread EXCEPT !.wake = Less(@)]
    /\ wanted' = [t \in Timers |-> [wanted[t] EXCEPT !.due = Less(@)]]
    /\ UNCHANGED <<lists, queue, stack, call, calls, raced>>

----------------------------------------------------------------------------
ClientStep == \E t \in Timers : InitTimer(t) \/ InitFails(t) \/ Cancel(t) \/ SetDelay(t)
CallStep == AddTimer \/ TimerDelayChanged
RunEvent == DropEvent \/ Fire
ThreadStep ==
    \/ Ends \/ Sleep \/ WaitForFirst \/ TakeFirst \/ WakeUp
    \/ NewTimerEvent \/ Arm \/ Rearm \/ DispatchEvent

Next ==
    \/ ClientStep \/ Shutdown \/ ShutdownReturns \/ CallStep \/ RunEvent \/ FireEnds
    \/ ThreadStep \/ Tick

Spec == Init /\ [][Next]_vars

(***************************************************************************)
(* Fairness: the threads run and time passes.  Callbacks return, also when *)
(* the event loops in them have always something to run.  No client is     *)
(* obliged to call anything.                                               *)
(***************************************************************************)
FairSpec ==
    /\ Spec
    /\ WF_vars(ThreadStep) /\ WF_vars(CallStep) /\ WF_vars(RunEvent) /\ WF_vars(Tick)
    /\ WF_vars(ShutdownReturns)
    /\ \A depth \in 1 .. MaxNesting : SF_vars(Len(stack) = depth /\ FireEnds)

----------------------------------------------------------------------------
TypeOK ==
    /\ mTimers \in Seq(Timers)
    /\ mShutdown \in BOOLEAN
    /\ mTimeoutAdjustment \in - MaxAdjustment .. MaxAdjustment
    /\ timer \in [Timers -> Timer]
    /\ thread \in Thread
    /\ queue \in Seq([timer : Timers, generation : 0 .. MaxCalls])
    /\ stack \in Seq([timer : Timers, callback : 0 .. MaxCalls])
    /\ call \in [rest : {"none", "add", "change"}, timer : Timers \cup {None}]
    /\ calls \in 0 .. MaxCalls
    /\ wanted \in [Timers -> [init : 0 .. MaxCalls, due : Nat, fired : BOOLEAN]]
    /\ raced \in SUBSET Timers

\* A timer is armed exactly when the timer thread has it in its list, and it is
\* there once: "make sure that we aren't armed already" (nsTimerImpl.cpp:547).
\* Not so when AddTimer() of the timer thread itself races with the client's.
ListedOnce ==
    \A t \in Timers \ raced :
        Cardinality({k \in DOMAIN mTimers : mTimers[k] = t}) = IF timer[t].armed THEN 1 ELSE 0

\* The timer thread wakes in time for every timer in its list, whichever its place:
\* adding, cancelling and delaying wake it when they must.  In time is within the
\* adjustment, which may have been another when the wait began or the timer was
\* placed.  Not so once a call and the timer thread have used a timer at once,
\* as when a timeout was read that SetDelay() was changing: see the README.
NoOversleep ==
    raced = {} /\ call.rest # "change" =>
        /\ thread.at = "asleep" => mTimers = <<>>
        /\ thread.at = "waiting" =>
             \A t \in Timers : Listed(t) =>
               thread.wake <= Larger(timer[t].timeout, MaxAdjustment) + MaxAdjustment

\* Fire() calls the callback that Init number g of t has set.
Fires(t, g) ==
    /\ Len(stack') > Len(stack)
    /\ Last(stack') = [timer |-> t, callback |-> g]
    /\ g # 0

\* A callback runs only for the last Init of its timer, and not after Cancel():
\* an event that was posted before is ignored, and a callback that cancels or
\* re-initializes its own timer is not restored when it returns.
NothingAfterCancel ==
    [][\A t \in Timers, g \in 1 .. MaxCalls : Fires(t, g) => g = wanted[t].init]_vars

\* "Type of a timer that fires once only" (nsITimer.idl:96), also when its delay
\* is changed while its event is on the way.
OneShotFiresOnce ==
    [][\A t \in Timers, g \in 1 .. MaxCalls :
         Fires(t, g) /\ timer[t].type = "oneShot" => ~ wanted[t].fired]_vars

\* No callback runs sooner than the largest adjustment before the end of the delay
\* given to Init, or of a shorter one given to SetDelay: timers fire early to be "on
\* time" (TimerThread.cpp:197-199), and no more than that, for a stale event is
\* dropped.  Not so if the timer thread held the timer when it was initialized.
NeverEarly ==
    [][\A t \in Timers, g \in 1 .. MaxCalls :
         Fires(t, g) /\ t \notin raced => wanted[t].due <= MaxAdjustment]_vars

\* The same for every timer: the generation is copied "so we can avoid firing a
\* timer that was re-initialized after being canceled" (nsTimerImpl.cpp:602-603).
\* It does not hold: see the README.
ReinitializedWaits ==
    [][\A t \in Timers, g \in 1 .. MaxCalls : Fires(t, g) => wanted[t].due <= MaxAdjustment]_vars

InCallback(t) == \E k \in DOMAIN stack : stack[k].timer = t /\ stack[k].callback # 0

\* t is to fire, for the first time or again.
Due(t) ==
    /\ ~ mShutdown /\ wanted[t].init # 0
    /\ timer[t].type = "oneShot" => ~ wanted[t].fired

\* A timer that was initialized and not cancelled fires, a repeating one again
\* and again, however its callbacks, the event loops in them and the timers of
\* others interfere, and also when it was armed in a race.
TimersFire == \A t \in Timers : []<>(~ Due(t) \/ InCallback(t))

\* "notify the cond var so that Run() can return" (TimerThread.cpp:170): the
\* timer thread ends and Shutdown(), which joins it, returns.
ThreadEnds == mShutdown ~> thread.at = "gone"
=============================================================================
