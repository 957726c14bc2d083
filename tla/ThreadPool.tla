----------------------------- MODULE ThreadPool -----------------------------
(***************************************************************************)
(* The pool of worker threads of xpcom/threads/nsThreadPool.cpp: callers   *)
(* on other threads dispatch events to it, change its limits and shut it   *)
(* down, its workers take the events.  What happens inside one hold of the *)
(* monitor of mEvents is one step; between two holds anything may happen.  *)
(*                                                                         *)
(* The nsThread below a worker is external to the pool: it runs what was   *)
(* dispatched to it, and when it was asked to shut down and has nothing    *)
(* left to run it refuses further events ("doomed") and can be joined      *)
(* (nsThread.cpp).  Times are not modelled: a wait may end at any time and *)
(* the idle timeout may have passed whenever the program compares it.      *)
(***************************************************************************)
EXTENDS Integers, FiniteSets, Sequences

CONSTANTS
    Threads,           \* bound: nsThreads that exist at a time
    Callers,           \* calls of the pool's methods in progress at a time
    Events,            \* bound: events in the pool at a time
    ThreadLimit,       \* the limits the owner has set before the first
    IdleThreadLimit,   \*   event
    Limits,            \* the arguments given later to SetThreadLimit
    IdleLimits,        \*   and to SetIdleThreadLimit
    Env,               \* what else may happen, see EnvKinds
    None

EnvKinds == { "shutdown",     \* Shutdown() is called
              "sync",         \* Dispatch() with DISPATCH_SYNC is called
              "threadFails" } \* NewThread() fails

ASSUME LimitsAssumption ==
    /\ ThreadLimit \in Nat \ {0}
    /\ IdleThreadLimit \in 0 .. ThreadLimit
    /\ Limits \subseteq Nat \ {0} /\ IdleLimits \subseteq Nat
ASSUME SetsAssumption ==
    /\ IsFiniteSet(Threads)
    /\ Env \subseteq EnvKinds
    /\ None \notin Threads \cup Events

VARIABLES
    mEvents,            \* the queue
    mThreads,           \* the workers the pool counts
    mIdleCount,
    mThreadLimit,
    mIdleThreadLimit,
    mShutdown,
    worker,             \* worker[t]: where thread t is, see Places
    wasIdle,            \* the workers whose local wasIdle is true
    event,              \* event[t]: the event worker t runs
    asked,              \* threads whose Shutdown() has been called
    toShutdown,         \* threads whose Shutdown() the main thread will call
    caller              \* caller[c]: the call c is in

poolVars == <<mEvents, mThreads, mIdleCount, mThreadLimit, mIdleThreadLimit,
              mShutdown>>
workerVars == <<worker, wasIdle, event>>
vars == <<mEvents, mThreads, mIdleCount, mThreadLimit, mIdleThreadLimit,
          mShutdown, worker, wasIdle, event, asked, toShutdown, caller>>

Places ==
    { "none",      \* the thread does not exist
      "new",       \* it exists, nsThreadPool::Run() is not dispatched to it yet
      "start",     \* Run() is dispatched to it, or about to take the monitor
      "waiting",   \* in mon.Wait()
      "running",   \* in event->Run()
      "left",      \* Run() has returned
      "doomed" }   \* it accepts no events and can be joined

\* A call: where it is, the event it dispatches and whether it waits for it,
\* the thread it handles and the threads it has still to shut down.
Call == [at : {"idle", "put", "spawn", "append", "start", "kill", "sync",
               "shutdown", "join"},
         event : Events \cup {None}, sync : BOOLEAN,
         thread : Threads \cup {None}, list : SUBSET Threads]

NoCall == [at |-> "idle", event |-> None, sync |-> FALSE,
           thread |-> None, list |-> {}]

Init ==
    /\ mEvents = <<>>
    /\ mThreads = {}
    /\ mIdleCount = 0
    /\ mThreadLimit = ThreadLimit
    /\ mIdleThreadLimit = IdleThreadLimit
    /\ mShutdown = FALSE
    /\ worker = [t \in Threads |-> "none"]
    /\ wasIdle = {}
    /\ event = [t \in Threads |-> None]
    /\ asked = {}
    /\ toShutdown = {}
    /\ caller = [c \in Callers |-> NoCall]

WokenMutant == worker

\* The workers after mon.NotifyAll().
Woken == [t \in Threads |-> IF worker[t] = "waiting" THEN "start" ELSE worker[t]]

Queued(e) == \E k \in 1 .. Len(mEvents) : mEvents[k] = e
Pending(e) == Queued(e) \/ \E t \in Threads : event[t] = e
Held(e) == \E c \in Callers : caller[c].event = e

At(c, place) == caller[c].at = place
Go(c, place) == caller' = [caller EXCEPT ![c].at = place]
Return(c) == caller' = [caller EXCEPT ![c] = NoCall]

\* PutEvent() has returned, whatever it returned, to Dispatch().
PutReturns(c) == IF caller[c].sync THEN Go(c, "sync") ELSE Return(c)

(***************************************************************************)
(* Dispatch and PutEvent.                                                  *)
(***************************************************************************)

\* The test of mShutdown is made without the monitor.
Dispatch(c) ==
    /\ At(c, "idle")
    /\ ~ mShutdown
    /\ \E e \in Events, sync \in (IF "sync" \in Env THEN BOOLEAN ELSE {FALSE}) :
         /\ ~ Pending(e) /\ ~ Held(e)
         /\ caller' = [caller EXCEPT ![c].at = "put", ![c].event = e,
                                     ![c].sync = sync]
    /\ UNCHANGED <<poolVars, workerVars, asked, toShutdown>>

NeedsThread == mIdleCount = 0 /\ Cardinality(mThreads) < mThreadLimit

PutEvent(c) ==
    /\ At(c, "put")
    /\ mEvents' = Append(mEvents, caller[c].event)
    /\ worker' = Woken
    /\ IF NeedsThread THEN Go(c, "spawn") ELSE PutReturns(c)
    /\ UNCHANGED <<mThreads, mIdleCount, mThreadLimit, mIdleThreadLimit,
                   mShutdown, wasIdle, event, asked, toShutdown>>

\* A thread that may be handed out as a new one: it was never made, or it is
\* joined and nobody knows it any more.
Fresh(t) ==
    /\ worker[t] \in {"none", "doomed"}
    /\ t \notin mThreads \cup toShutdown
    /\ \A c \in Callers : caller[c].thread # t /\ t \notin caller[c].list

NewThread(c) ==
    /\ At(c, "spawn")
    /\ \E t \in Threads :
         /\ Fresh(t)
         /\ worker' = [worker EXCEPT ![t] = "new"]
         /\ asked' = asked \ {t}
         /\ caller' = [caller EXCEPT ![c].at = "append", ![c].thread = t]
    /\ UNCHANGED <<poolVars, wasIdle, event, toShutdown>>

\* NS_ENSURE_STATE(thread): Dispatch() ignores the error.
NewThreadFails(c) ==
    /\ "threadFails" \in Env
    /\ At(c, "spawn")
    /\ PutReturns(c)
    /\ UNCHANGED <<poolVars, workerVars, asked, toShutdown>>

HasRoomMutant == TRUE

HasRoom == Cardinality(mThreads) < mThreadLimit

AppendThread(c) ==
    /\ At(c, "append")
    /\ IF HasRoom
       THEN /\ mThreads' = mThreads \cup {caller[c].thread}
            /\ Go(c, "start")
            /\ UNCHANGED asked
       ELSE /\ asked' = asked \cup {caller[c].thread}
            /\ Go(c, "kill")
            /\ UNCHANGED mThreads
    /\ UNCHANGED <<mEvents, mIdleCount, mThreadLimit, mIdleThreadLimit,
                   mShutdown, workerVars, toShutdown>>

\* thread->Dispatch(this) fails, and nobody looks, when the thread is doomed.
StartThread(c) ==
    /\ At(c, "start")
    /\ LET t == caller[c].thread IN
         worker' = [worker EXCEPT ![t] = IF @ = "new" THEN "start" ELSE @]
    /\ caller' = [caller EXCEPT ![c] =
                    IF @.sync THEN [@ EXCEPT !.at = "sync", !.thread = None]
                              ELSE NoCall]
    /\ UNCHANGED <<poolVars, wasIdle, event, asked, toShutdown>>

\* thread->Shutdown() returns when the thread can be joined.
KillReturns(c) ==
    /\ At(c, "kill")
    /\ worker[caller[c].thread] = "doomed"
    /\ caller' = [caller EXCEPT ![c] =
                    IF @.sync THEN [@ EXCEPT !.at = "sync", !.thread = None]
                              ELSE NoCall]
    /\ UNCHANGED <<poolVars, workerVars, asked, toShutdown>>

\* while (wrapper->IsPending())
SyncReturns(c) ==
    /\ At(c, "sync")
    /\ ~ Pending(caller[c].event)
    /\ Return(c)
    /\ UNCHANGED <<poolVars, workerVars, asked, toShutdown>>

(***************************************************************************)
(* Run, on a worker.                                                       *)
(***************************************************************************)

ForgetfulIdleMutant(t) == mIdleCount

\* if (wasIdle) --mIdleCount
NotIdle(t) == mIdleCount - (IF t \in wasIdle THEN 1 ELSE 0)

TakeEvent(t) ==
    /\ worker[t] = "start"
    /\ mEvents # <<>>
    /\ mEvents' = Tail(mEvents)
    /\ event' = [event EXCEPT ![t] = Head(mEvents)]
    /\ worker' = [worker EXCEPT ![t] = "running"]
    /\ mIdleCount' = NotIdle(t)
    /\ wasIdle' = wasIdle \ {t}
    /\ UNCHANGED <<mThreads, mThreadLimit, mIdleThreadLimit, mShutdown,
                   asked, toShutdown, caller>>

FinishEvent(t) ==
    /\ worker[t] = "running"
    /\ worker' = [worker EXCEPT ![t] = "start"]
    /\ event' = [event EXCEPT ![t] = None]
    /\ UNCHANGED <<poolVars, wasIdle, asked, toShutdown, caller>>

\* exitThread, when there is no event; `timedOut' is the comparison of the
\* time it has been idle with the timeout.
Exits(t, timedOut) ==
    \/ mShutdown
    \/ t \in wasIdle /\ (mIdleCount > mIdleThreadLimit \/ timedOut)
    \/ t \notin wasIdle /\ mIdleCount = mIdleThreadLimit

Wait(t) ==
    /\ worker[t] = "start"
    /\ mEvents = <<>>
    /\ ~ Exits(t, FALSE)
    /\ mIdleCount' = mIdleCount + (IF t \in wasIdle THEN 0 ELSE 1)
    /\ wasIdle' = wasIdle \cup {t}
    /\ worker' = [worker EXCEPT ![t] = "waiting"]
    /\ UNCHANGED <<mEvents, mThreads, mThreadLimit, mIdleThreadLimit,
                   mShutdown, event, asked, toShutdown, caller>>

WaitTimesOut(t) ==
    /\ worker[t] = "waiting"
    /\ worker' = [worker EXCEPT ![t] = "start"]
    /\ UNCHANGED <<poolVars, wasIdle, event, asked, toShutdown, caller>>

RemovedMutant(t) == {t}

\* The threads ShutdownThread() is called for: the worker itself, unless
\* somebody has taken it out of mThreads before.
Removed(t) == mThreads \cap {t}

\* After the monitor, Run() only notifies the listener and returns.
Leave(t) ==
    /\ worker[t] = "start"
    /\ mEvents = <<>>
    /\ \E timedOut \in BOOLEAN : Exits(t, timedOut)
    /\ mIdleCount' = NotIdle(t)
    /\ wasIdle' = wasIdle \ {t}
    /\ toShutdown' = toShutdown \cup Removed(t)
    /\ mThreads' = mThreads \ {t}
    /\ worker' = [worker EXCEPT ![t] = "left"]
    /\ UNCHANGED <<mEvents, mThreadLimit, mIdleThreadLimit, mShutdown,
                   event, asked, caller>>

(***************************************************************************)
(* Shutdown and the setters.                                               *)
(***************************************************************************)

Shutdown(c) ==
    /\ "shutdown" \in Env
    /\ At(c, "idle")
    /\ mShutdown' = TRUE
    /\ worker' = Woken
    /\ caller' = [caller EXCEPT ![c].at = "shutdown", ![c].list = mThreads]
    /\ mThreads' = {}
    /\ UNCHANGED <<mEvents, mIdleCount, mThreadLimit, mIdleThreadLimit,
                   wasIdle, event, asked, toShutdown>>

\* threads[i]->Shutdown(), called for one after the other.
ShutdownNext(c) ==
    /\ At(c, "shutdown")
    /\ \E t \in caller[c].list :
         /\ asked' = asked \cup {t}
         /\ caller' = [caller EXCEPT ![c].at = "join", ![c].thread = t,
                                     ![c].list = @ \ {t}]
    /\ UNCHANGED <<poolVars, workerVars, toShutdown>>

JoinReturnsMutant(c) ==
    /\ At(c, "join")
    /\ caller' = [caller EXCEPT ![c].at = "shutdown", ![c].thread = None]
    /\ UNCHANGED <<poolVars, workerVars, asked, toShutdown>>

JoinReturns(c) ==
    /\ At(c, "join")
    /\ worker[caller[c].thread] = "doomed"
    /\ caller' = [caller EXCEPT ![c].at = "shutdown", ![c].thread = None]
    /\ UNCHANGED <<poolVars, workerVars, asked, toShutdown>>

ShutdownReturns(c) ==
    /\ At(c, "shutdown")
    /\ caller[c].list = {}
    /\ Return(c)
    /\ UNCHANGED <<poolVars, workerVars, asked, toShutdown>>

Smaller(a, b) == IF a < b THEN a ELSE b

SetThreadLimit(value) ==
    /\ mThreadLimit' = value
    /\ mIdleThreadLimit' = Smaller(mIdleThreadLimit, value)
    /\ worker' = Woken
    /\ UNCHANGED <<mEvents, mThreads, mIdleCount, mShutdown, wasIdle, event,
                   asked, toShutdown, caller>>

SetIdleThreadLimit(value) ==
    /\ mIdleThreadLimit' = Smaller(value, mThreadLimit)
    /\ worker' = Woken
    /\ UNCHANGED <<mEvents, mThreads, mIdleCount, mThreadLimit, mShutdown,
                   wasIdle, event, asked, toShutdown, caller>>

(***************************************************************************)
(* The threads below, external to the pool.                                *)
(***************************************************************************)

\* The main thread runs what ShutdownThread() has dispatched to it.
MainShutsDown(t) ==
    /\ t \in toShutdown
    /\ toShutdown' = toShutdown \ {t}
    /\ asked' = asked \cup {t}
    /\ UNCHANGED <<poolVars, workerVars, caller>>

Doom(t) ==
    /\ t \in asked
    /\ worker[t] \in {"new", "left"}
    /\ worker' = [worker EXCEPT ![t] = "doomed"]
    /\ UNCHANGED <<poolVars, wasIdle, event, asked, toShutdown, caller>>

----------------------------------------------------------------------------
CallerStep(c) ==
    \/ PutEvent(c) \/ NewThread(c) \/ NewThreadFails(c) \/ AppendThread(c)
    \/ StartThread(c) \/ KillReturns(c) \/ SyncReturns(c)
    \/ ShutdownNext(c) \/ JoinReturns(c) \/ ShutdownReturns(c)

WorkerStep(t) == TakeEvent(t) \/ FinishEvent(t) \/ Wait(t) \/ Leave(t)

ThreadStep(t) == MainShutsDown(t) \/ Doom(t)

Next ==
    \/ \E c \in Callers : Dispatch(c) \/ Shutdown(c) \/ CallerStep(c)
    \/ \E t \in Threads : WorkerStep(t) \/ WaitTimesOut(t) \/ ThreadStep(t)
    \/ \E value \in Limits : SetThreadLimit(value)
    \/ \E value \in IdleLimits : SetIdleThreadLimit(value)

Spec == Init /\ [][Next]_vars

(***************************************************************************)
(* Fairness: calls in progress and threads that can run do run, and events *)
(* return.  Nobody is obliged to call the pool, and no timeout to pass: a  *)
(* timeout of PR_INTERVAL_NO_TIMEOUT never does.  NewThread is strongly    *)
(* fair because it is the bound on Threads, and not the program, that can  *)
(* disable it while others come and go.                                    *)
(***************************************************************************)
FairSpec ==
    /\ Spec
    /\ \A c \in Callers : WF_vars(CallerStep(c)) /\ SF_vars(NewThread(c))
    /\ \A t \in Threads : WF_vars(WorkerStep(t)) /\ WF_vars(ThreadStep(t))

----------------------------------------------------------------------------
Live(t) == worker[t] \in {"new", "start", "waiting", "running"}

TypeOK ==
    /\ mEvents \in Seq(Events)
    /\ mThreads \in SUBSET Threads
    /\ mIdleCount \in Nat
    /\ mThreadLimit \in Nat \ {0}
    /\ mIdleThreadLimit \in 0 .. mThreadLimit
    /\ mShutdown \in BOOLEAN
    /\ worker \in [Threads -> Places]
    /\ wasIdle \in SUBSET Threads
    /\ event \in [Threads -> Events \cup {None}]
    /\ asked \in SUBSET Threads
    /\ toShutdown \in SUBSET Threads
    /\ caller \in [Callers -> Call]

\* mIdleCount is what the locals wasIdle of all the workers say, and nobody
\* who counts as idle is running an event or gone.
CountsIdleWorkers ==
    /\ mIdleCount = Cardinality(wasIdle)
    /\ \A t \in wasIdle : worker[t] \in {"start", "waiting"}

\* No wakeup is lost: nobody sleeps while there is an event to run, or after
\* Shutdown() has begun.
SleepersHaveNothingToDo ==
    (\E t \in Threads : worker[t] = "waiting") => mEvents = <<>> /\ ~ mShutdown

Owns(o, t) ==
    \/ o = "pool" /\ t \in mThreads
    \/ o = "main" /\ t \in toShutdown
    \/ o = "asked" /\ t \in asked
    \/ /\ o \in Callers
       /\ t \in caller[o].list \/ (At(o, "append") /\ caller[o].thread = t)

\* Shutdown() is called exactly once on each thread the pool has made: all the
\* time one, and only one, of the pool, a call and the main thread is to do it,
\* or it has been done.
EachThreadHasOneOwner ==
    \A t \in Threads : worker[t] # "none" =>
        \E o \in {"pool", "main", "asked"} \cup Callers :
            /\ Owns(o, t)
            /\ \A p \in {"pool", "main", "asked"} \cup Callers : Owns(p, t) => p = o

Spawning(c) == caller[c].at \in {"spawn", "append"}

\* An event in the queue is never left to itself: some worker will look at the
\* queue, or PutEvent() is about to make one.
NoEventStranded ==
    mEvents # <<>> =>
        \/ \E t \in Threads : worker[t] \in {"start", "running"}
        \/ \E c \in Callers : Spawning(c) \/ At(c, "start")

\* The same of a pool that is not shut down: whatever the limits are set to,
\* and whichever workers end, Dispatch() can rely on a worker.
ServedUntilShutdown == mShutdown \/ NoEventStranded

\* "The maximum number of threads allowed at one time in this pool"
\* (nsIThreadPool.idl:75): the highest that was ever set, until Shutdown() begins.
WorkersWithinLimit ==
    mShutdown
    \/ \E limit \in Limits \cup {ThreadLimit} :
         Cardinality({t \in Threads : worker[t] \in {"start", "waiting", "running"}})
           <= limit

\* "When this function returns, the thread pool and all of its threads will be
\* shutdown" (nsIThreadPool.idl:68-69): when no call is in progress any more
\* but a Dispatch() that waits for its event, the only workers left are those
\* made since, by a Dispatch() that had tested mShutdown before.
ShutdownJoins ==
    mShutdown /\ (\A c \in Callers : At(c, "idle") \/ At(c, "sync"))
        => \A t \in Threads : Live(t) => t \in mThreads

\* Every event dispatched is run, however the workers come and go and the
\* limits change, and though no timeout ever passes; unless Shutdown() begins.
EveryEventRuns == \A e \in Events : Queued(e) ~> ~ Queued(e) \/ mShutdown

\* Every call returns: a synchronous Dispatch() has its event run, unless it
\* races with Shutdown(), and Shutdown() sees all of its threads end.
CallsReturn ==
    \A c \in Callers :
        ~ At(c, "idle") ~> At(c, "idle") \/ (mShutdown /\ At(c, "sync"))

\* After Shutdown() all the workers end, those made by a Dispatch() that had
\* begun before included, and they all are joined.
WorkersEnd == <>[](mShutdown => \A t \in Threads : worker[t] \in {"none", "doomed"})
=============================================================================
