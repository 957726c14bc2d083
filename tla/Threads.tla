------------------------------- MODULE Threads -------------------------------
(***************************************************************************)
(* XPCOM's threads (xpcom/threads: nsThread, nsThreadManager), the event   *)
(* targets that everything else dispatches to.  A thread runs the events   *)
(* of its queue one by one; code in an event may wait for another thread,  *)
(* in a synchronous Dispatch() or in Shutdown(), and its thread runs       *)
(* events in the meantime, in a loop nested in that call.  A thread ends   *)
(* by agreement: the event of Shutdown() makes its outermost loop stop, it *)
(* runs what is left, closes the queue, and dispatches an acknowledgement  *)
(* back to the thread that waits.                                          *)
(*                                                                         *)
(* A step is what a thread does between two looks at what others change:   *)
(* its queue, mSyncTask, the table of threads.  What only the thread       *)
(* itself reads and writes (mShutdownContext once it runs) costs no step.  *)
(* Allocation and the creation of threads succeed, and events return.      *)
(***************************************************************************)
EXTENDS Integers, Sequences, SequencesExt

CONSTANTS
    Workers,   \* bound: the threads NewThread() can make
    Events,    \* bound: the runnables clients dispatch, each once
    Main,      \* the main thread
    None,      \* no thread
    Env        \* who may do what, see EnvKinds

EnvKinds ==
    { "workersCreate",     \* NewThread() is called on other threads than Main
      "anyoneShutsDown",   \* Shutdown() is called on others than Main and the
                           \* thread that has called NewThread()
      "tasksShutDown" }    \* Shutdown() is called in an event that another
                           \* thread waits for

ASSUME ThreadsAssumption ==
    /\ Main \notin Workers /\ None \notin Workers \cup {Main}
    /\ Env \subseteq EnvKinds

Threads == Workers \cup {Main}

VARIABLES
    pc,           \* where the outermost function of each thread is: ThreadFunc,
                  \* on Main the application's loop and the manager's Shutdown()
    frames,       \* the calls and events nested in it, innermost last
    queue,        \* mEvents
    context,      \* mShutdownContext: who waits for the thread to end, or None
    required,     \* the threads whose mShutdownRequired is true
    acked,        \* the threads whose Shutdown() has its shutdownAck
    pending,      \* the synchronous events whose mSyncTask is not null
    origin,       \* mOrigin of a synchronous event
    creator,      \* who has called NewThread()
    initialized,  \* the manager's mInitialized
    registered,   \* mThreadsByPRThread, of the threads the manager has made
    todo,         \* the manager's Shutdown(): the threads it has not come to
    late,         \* history: threads not registered when the manager listed them
    accepted,     \* history: the events a Dispatch() has put into a queue
    ran           \* history: the events that were run

vars == <<pc, frames, queue, context, required, acked, pending, origin,
          creator, initialized, registered, todo, late, accepted, ran>>
history == <<late, accepted, ran>>

PC == { "unborn", "starting", "startup",      \* ThreadFunc until it is set up
        "loop",                               \* the thread's event loop
        "last", "rest",                       \* the test of the queue; the events left
        "leaving", "acking", "exiting",       \* the queue is closed
        "ended", "joined",                    \* and PR_JoinThread has returned
        "before", "shutall", "after", "over" } \* Main in the manager's Shutdown()

(***************************************************************************)
(* Frames.  "run": the Run() of a client's event.  "task": that of a       *)
(* synchronous one.  "sync": a synchronous Dispatch().  "shutdown":        *)
(* Shutdown().  "init": NewThread().  The two that wait go round a loop:   *)
(* "test" what they wait for, and get the "next" event.                    *)
(***************************************************************************)
Frame ==
    LET Frames(fn, ofs, ats) == [fn : {fn}, of : ofs, at : ats]
    IN Frames("run", Events, {"client"})
       \cup Frames("task", Events, {"client", "reply"})
       \cup Frames("sync", Events, {"test", "next"})
       \cup Frames("shutdown", Workers, {"test", "next", "join"})
       \cup Frames("init", Workers, {"wait"})

Message ==
    [kind : {"event", "sync"}, of : Events]
    \cup [kind : {"startup"}, of : {None}]
    \cup [kind : {"shutdown"}, of : Threads]
    \cup [kind : {"ack"}, of : Workers]

MkFrame(fn, of, at) == [fn |-> fn, of |-> of, at |-> at]
Msg(kind, of) == [kind |-> kind, of |-> of]

Idle(t) == frames[t] = <<>>
Top(t)  == Last(frames[t])
In(t, fn, at) == ~Idle(t) /\ Top(t).fn = fn /\ Top(t).at = at

Called(t, f) == [frames EXCEPT ![t] = Append(@, f)]
Returned(t)  == [frames EXCEPT ![t] = Front(@)]
Moved(t, at) == [frames EXCEPT ![t] = Append(Front(@), [Last(@) EXCEPT !.at = at])]

\* mEventsAreDoomed
Doomed(t) == pc[t] \in {"leaving", "acking", "exiting", "ended", "joined"}

ShuttingDown(t) == context[t] # None

\* PutEvent: nothing is put into a queue that is closed.
Put(t, m) == IF Doomed(t) THEN queue ELSE [queue EXCEPT ![t] = Append(@, m)]

\* The thread has an nsIThread for u: NewThread() has returned.
Known(u) ==
    \/ u = Main
    \/ /\ pc[u] \notin {"unborn", "starting", "startup"}
       /\ ~ \E t \in Threads : In(t, "init", "wait") /\ Top(t).of = u

----------------------------------------------------------------------------
(***************************************************************************)
(* ProcessNextEvent: the first event of the queue runs, in a thread whose  *)
(* frames are fs when it has been taken.                                   *)
(***************************************************************************)
RunFirst(t, fs) ==
    LET m == Head(queue[t])
        Runs(fn) == /\ frames' = [fs EXCEPT ![t] = Append(@, MkFrame(fn, m.of, "client"))]
                    /\ ran' = ran \cup {m.of}
                    /\ UNCHANGED <<context, acked>>
    IN
    /\ queue[t] # <<>>
    /\ queue' = [queue EXCEPT ![t] = Tail(@)]
    /\ \/ m.kind = "event" /\ Runs("run")
       \/ m.kind = "sync" /\ m.of \in pending /\ Runs("task")
       \/ /\ m.kind = "sync" /\ m.of \notin pending
          /\ frames' = fs /\ UNCHANGED <<context, acked, ran>>
       \/ /\ m.kind = "shutdown"
          /\ context' = [context EXCEPT ![t] = m.of]
          /\ frames' = fs /\ UNCHANGED <<acked, ran>>
       \/ /\ m.kind = "ack"
          /\ acked' = acked \cup {m.of}
          /\ frames' = fs /\ UNCHANGED <<context, ran>>
    /\ UNCHANGED <<pc, required, pending, origin, creator, initialized,
                   registered, todo, late, accepted>>

Moves(t, at) ==
    /\ pc' = [pc EXCEPT ![t] = at]
    /\ UNCHANGED <<frames, context, required, acked, pending, origin, creator,
                   initialized, accepted, ran>>

GoesTo(t, at) == Moves(t, at) /\ late' = late

(***************************************************************************)
(* ThreadFunc.                                                             *)
(***************************************************************************)
\* To register itself a thread needs the manager's mLock, which its Shutdown() has
\* deleted in the end: nothing is said of a thread that comes later.
Register(t) ==
    /\ pc[t] = "starting" /\ pc[Main] # "over" /\ GoesTo(t, "startup")
    /\ registered' = registered \cup {t}
    /\ UNCHANGED <<queue, todo>>

\* The startup event, which lets NewThread() return.
Startup(t) ==
    /\ pc[t] = "startup" /\ queue[t] # <<>> /\ GoesTo(t, "loop")
    /\ queue' = [queue EXCEPT ![t] = Tail(@)]
    /\ UNCHANGED <<registered, todo>>

\* The loop of the thread; on Main that of the application.
LoopRuns(t) ==
    /\ pc[t] = "loop" /\ Idle(t) /\ ~ShuttingDown(t)
    /\ RunFirst(t, frames)

LoopEnds(t) ==
    /\ pc[t] = "loop" /\ Idle(t) /\ ShuttingDown(t) /\ GoesTo(t, "last")
    /\ UNCHANGED <<queue, registered, todo>>

LastMutant(t) ==
    /\ pc[t] = "last" /\ GoesTo(t, "leaving")
    /\ UNCHANGED <<queue, registered, todo>>

\* Under the lock: close the queue if it is empty.
LastTest(t) ==
    /\ pc[t] = "last"
    /\ GoesTo(t, IF queue[t] = <<>> THEN "leaving" ELSE "rest")
    /\ UNCHANGED <<queue, registered, todo>>

\* NS_ProcessPendingEvents.
RestRuns(t) ==
    /\ pc[t] = "rest" /\ Idle(t)
    /\ RunFirst(t, frames)

RestIsEmpty(t) ==
    /\ pc[t] = "rest" /\ Idle(t) /\ queue[t] = <<>> /\ GoesTo(t, "last")
    /\ UNCHANGED <<queue, registered, todo>>

Unregister(t) ==
    /\ pc[t] = "leaving" /\ pc[Main] # "over" /\ GoesTo(t, "acking")
    /\ registered' = registered \ {t}
    /\ UNCHANGED <<queue, todo>>

SendAck(t) ==
    /\ pc[t] = "acking" /\ GoesTo(t, "exiting")
    /\ queue' = Put(context[t], Msg("ack", t))
    /\ UNCHANGED <<registered, todo>>

ThreadEnds(t) ==
    /\ pc[t] = "exiting" /\ GoesTo(t, "ended")
    /\ UNCHANGED <<queue, registered, todo>>

ThreadFunc(t) ==
    \/ Register(t) \/ Startup(t) \/ LoopRuns(t) \/ LoopEnds(t) \/ LastTest(t)
    \/ RestRuns(t) \/ RestIsEmpty(t) \/ Unregister(t) \/ SendAck(t) \/ ThreadEnds(t)

----------------------------------------------------------------------------
(***************************************************************************)
(* The calls that wait, and the events that return.                        *)
(***************************************************************************)
Goes(fs) ==
    /\ frames' = fs
    /\ UNCHANGED <<context, acked, origin, creator, initialized, registered,
                   todo, history>>

\* What the innermost call waits for has happened.
Done(f) ==
    \/ f.fn = "sync" /\ f.of \notin pending
    \/ f.fn = "shutdown" /\ f.of \in acked

Waits(t) == ~Idle(t) /\ Top(t).fn \in {"sync", "shutdown"}

TestsMutant(t) ==
    /\ Waits(t) /\ Top(t).at = "test"
    /\ \/ ~Done(Top(t)) /\ Top(t).fn = "sync" /\ Goes(Moved(t, "next"))
       \/ Top(t).fn = "shutdown" /\ Goes(Moved(t, "join"))
       \/ Done(Top(t)) /\ Top(t).fn = "sync" /\ Goes(Returned(t))
    /\ UNCHANGED <<pc, queue, required, pending>>

Tests(t) ==
    /\ Waits(t) /\ Top(t).at = "test"
    /\ \/ ~Done(Top(t)) /\ Goes(Moved(t, "next"))
       \/ Done(Top(t)) /\ Top(t).fn = "shutdown" /\ Goes(Moved(t, "join"))
       \/ Done(Top(t)) /\ Top(t).fn = "sync" /\ Goes(Returned(t))
    /\ UNCHANGED <<pc, queue, required, pending>>

\* The thread sleeps until there is an event; one that is shutting down does
\* not, and goes round its loop.
WaitingRuns(t) ==
    /\ Waits(t) /\ Top(t).at = "next"
    /\ RunFirst(t, Moved(t, "test"))

WaitingSpins(t) ==
    /\ Waits(t) /\ Top(t).at = "next" /\ queue[t] = <<>> /\ ShuttingDown(t)
    /\ Goes(Moved(t, "test"))
    /\ UNCHANGED <<pc, queue, required, pending>>

\* PR_JoinThread, and mThread = nsnull.
Joins(t) ==
    /\ In(t, "shutdown", "join") /\ pc[Top(t).of] = "ended"
    /\ pc' = [pc EXCEPT ![Top(t).of] = "joined"]
    /\ Goes(Returned(t))
    /\ UNCHANGED <<queue, required, pending>>

\* startup->Wait(): no events meanwhile.
NewThreadReturns(t) ==
    /\ In(t, "init", "wait") /\ pc[Top(t).of] \notin {"starting", "startup"}
    /\ Goes(Returned(t))
    /\ UNCHANGED <<pc, queue, required, pending>>

EventReturns(t) ==
    /\ In(t, "run", "client")
    /\ Goes(Returned(t))
    /\ UNCHANGED <<pc, queue, required, pending>>

TaskReturns(t) ==
    /\ In(t, "task", "client")
    /\ pending' = pending \ {Top(t).of}
    /\ Goes(Moved(t, "reply"))
    /\ UNCHANGED <<pc, queue, required>>

TaskRepliesMutant(t) ==
    /\ In(t, "task", "reply")
    /\ Goes(Returned(t))
    /\ UNCHANGED <<pc, queue, required, pending>>

\* mOrigin->Dispatch(this): it does nothing there but wake the thread up.
TaskReplies(t) ==
    /\ In(t, "task", "reply")
    /\ queue' = Put(origin[Top(t).of], Msg("sync", Top(t).of))
    /\ Goes(Returned(t))
    /\ UNCHANGED <<pc, required, pending>>

Call(t) ==
    \/ Tests(t) \/ WaitingRuns(t) \/ WaitingSpins(t) \/ Joins(t)
    \/ NewThreadReturns(t) \/ EventReturns(t) \/ TaskReturns(t) \/ TaskReplies(t)

----------------------------------------------------------------------------
(***************************************************************************)
(* The clients: the code in events, and on Main what starts the loop.      *)
(***************************************************************************)
ClientRuns(t) ==
    \/ ~Idle(t) /\ Top(t).at = "client"
    \/ t = Main /\ pc[t] = "loop" /\ Idle(t)

Unused(e) == e \notin accepted

\* A Dispatch() that is refused changes nothing.
Dispatch(t, u, e) ==
    /\ ClientRuns(t) /\ Known(u) /\ Unused(e) /\ ~Doomed(u)
    /\ queue' = Put(u, Msg("event", e))
    /\ accepted' = accepted \cup {e}
    /\ UNCHANGED <<pc, frames, context, required, acked, pending, origin, creator,
                   initialized, registered, todo, late, ran>>

DispatchSync(t, u, e) ==
    /\ ClientRuns(t) /\ Known(u) /\ Unused(e) /\ ~Doomed(u)
    /\ queue' = Put(u, Msg("sync", e))
    /\ accepted' = accepted \cup {e}
    /\ pending' = pending \cup {e}
    /\ origin' = [origin EXCEPT ![e] = t]
    /\ frames' = Called(t, MkFrame("sync", e, "test"))
    /\ UNCHANGED <<pc, context, required, acked, creator, initialized,
                   registered, todo, late, ran>>

NewThreadMutant(t, w) ==
    /\ ClientRuns(t) /\ pc[w] = "unborn"
    /\ t # Main => "workersCreate" \in Env
    /\ pc' = [pc EXCEPT ![w] = "starting"]
    /\ queue' = [queue EXCEPT ![w] = <<Msg("startup", None)>>]
    /\ required' = required \cup {w}
    /\ creator' = [creator EXCEPT ![w] = t]
    /\ frames' = Called(t, MkFrame("init", w, "wait"))
    /\ UNCHANGED <<context, acked, pending, origin, initialized, registered,
                   todo, history>>

\* NewThread() tests mInitialized without the lock, and the thread registers
\* itself later: in between the manager may list the threads to shut down.
NewThread(t, w) ==
    /\ ClientRuns(t) /\ pc[w] = "unborn" /\ initialized
    /\ t # Main => "workersCreate" \in Env
    /\ pc' = [pc EXCEPT ![w] = "starting"]
    /\ queue' = [queue EXCEPT ![w] = <<Msg("startup", None)>>]
    /\ required' = required \cup {w}
    /\ creator' = [creator EXCEPT ![w] = t]
    /\ frames' = Called(t, MkFrame("init", w, "wait"))
    /\ UNCHANGED <<context, acked, pending, origin, initialized, registered,
                   todo, history>>

\* Shutdown() of u begins in t; what other callers find is that another has
\* begun, or that u is gone.
BeginsShutdown(t, u) ==
    /\ u \in required
    /\ required' = required \ {u}
    /\ queue' = Put(u, Msg("shutdown", t))
    /\ frames' = Called(t, MkFrame("shutdown", u, "test"))
    /\ UNCHANGED <<context, acked, pending, origin, creator, initialized,
                   registered, history>>

InTask(t) == \E k \in 1 .. Len(frames[t]) : frames[t][k].fn = "task"

Shutdown(t, u) ==
    /\ ClientRuns(t) /\ Known(u) /\ t # u
    /\ t \in {Main, creator[u]} \/ "anyoneShutsDown" \in Env
    /\ ~InTask(t) \/ "tasksShutDown" \in Env
    /\ BeginsShutdown(t, u)
    /\ UNCHANGED <<pc, todo>>

Client(t) ==
    \/ \E u \in Threads, e \in Events : Dispatch(t, u, e) \/ DispatchSync(t, u, e)
    \/ \E w \in Workers : NewThread(t, w) \/ Shutdown(t, w)

----------------------------------------------------------------------------
(***************************************************************************)
(* nsThreadManager::Shutdown, on the main thread.                          *)
(***************************************************************************)
ManagerShutdown ==
    /\ pc[Main] = "loop" /\ Idle(Main)
    /\ pc' = [pc EXCEPT ![Main] = "before"]
    /\ initialized' = FALSE
    /\ UNCHANGED <<frames, queue, context, required, acked, pending, origin,
                   creator, registered, todo, history>>

PendingRuns ==
    /\ pc[Main] \in {"before", "after"} /\ Idle(Main)
    /\ RunFirst(Main, frames)

\* The threads are moved from the table into a list.
Gathers ==
    /\ pc[Main] = "before" /\ Idle(Main) /\ queue[Main] = <<>>
    /\ Moves(Main, "shutall")
    /\ todo' = registered /\ registered' = {}
    /\ late' = {w \in Workers : pc[w] = "starting"}
    /\ UNCHANGED queue

\* One after the other, in the order of a hash table.
ShutsOneDown(u) ==
    /\ pc[Main] = "shutall" /\ Idle(Main) /\ u \in todo
    /\ todo' = todo \ {u}
    /\ \/ BeginsShutdown(Main, u)
       \/ /\ u \notin required
          /\ UNCHANGED <<frames, queue, context, required, acked, pending,
                         origin, creator, initialized, registered, history>>
    /\ UNCHANGED pc

AllAreDown ==
    /\ pc[Main] = "shutall" /\ Idle(Main) /\ todo = {} /\ GoesTo(Main, "after")
    /\ UNCHANGED <<queue, registered, todo>>

ManagerIsDown ==
    /\ pc[Main] = "after" /\ Idle(Main) /\ queue[Main] = <<>>
    /\ GoesTo(Main, "over")
    /\ registered' = {}
    /\ UNCHANGED <<queue, todo>>

Manager ==
    \/ PendingRuns \/ Gathers \/ (\E u \in Workers : ShutsOneDown(u))
    \/ AllAreDown \/ ManagerIsDown

----------------------------------------------------------------------------
Init ==
    /\ pc = [t \in Threads |-> IF t = Main THEN "loop" ELSE "unborn"]
    /\ frames = [t \in Threads |-> <<>>]
    /\ queue = [t \in Threads |-> <<>>]
    /\ context = [t \in Threads |-> None]
    /\ required = {} /\ acked = {} /\ pending = {}
    /\ origin = [e \in Events |-> None]
    /\ creator = [w \in Workers |-> None]
    /\ initialized = TRUE /\ registered = {} /\ todo = {}
    /\ late = {} /\ accepted = {} /\ ran = {}

\* What a thread does by itself.
Runs(t) == ThreadFunc(t) \/ Call(t) \/ (t = Main /\ Manager)

Next ==
    \/ \E t \in Threads : Runs(t) \/ Client(t)
    \/ ManagerShutdown

Spec == Init /\ [][Next]_vars

\* The scheduler lets every thread run, and events return.
FairSpec == Spec /\ \A t \in Threads : WF_vars(Runs(t))

----------------------------------------------------------------------------
TypeOK ==
    /\ pc \in [Threads -> PC]
    /\ frames \in [Threads -> Seq(Frame)]
    /\ queue \in [Threads -> Seq(Message)]
    /\ context \in [Threads -> Threads \cup {None}]
    /\ required \subseteq Workers /\ acked \subseteq Workers
    /\ pending \subseteq Events
    /\ origin \in [Events -> Threads \cup {None}]
    /\ creator \in [Workers -> Threads \cup {None}]
    /\ initialized \in BOOLEAN
    /\ registered \subseteq Workers /\ todo \subseteq Workers
    /\ late \subseteq Workers /\ accepted \subseteq Events /\ ran \subseteq Events

\* Thread t is in Shutdown() of w, and will look at shutdownAck there.
WaitsFor(t, w) ==
    \E k \in 1 .. Len(frames[t]) :
        LET f == frames[t][k] IN f.fn = "shutdown" /\ f.of = w /\ f.at # "join"

\* The context of a Shutdown() is a local variable of it: as long as an event or
\* the thread that ends may use its address, that call has not returned.
ContextIsAlive ==
    \A w \in Workers :
        /\ ShuttingDown(w) /\ pc[w] \in {"loop", "last", "rest", "leaving", "acking"}
           => WaitsFor(context[w], w)
        /\ \A t \in Threads :
           /\ \A k \in 1 .. Len(queue[w]) :
                 queue[w][k] = Msg("shutdown", t) => WaitsFor(t, w)
           /\ \A k \in 1 .. Len(queue[t]) :
                 queue[t][k] = Msg("ack", w) => WaitsFor(t, w)

\* "There are no more background threads at this point", says the manager's
\* Shutdown(): no thread is left but those that were just being created.
NoBackgroundThreads ==
    pc[Main] \in {"after", "over"} =>
        \A w \in Workers \ late : pc[w] \in {"unborn", "joined"}

\* Main no longer runs events, but a thread that was just being created when
\* the manager shut down still does.
Abandoned == pc[Main] = "over" /\ late # {}

\* An event that a Dispatch() has accepted is run, however the thread it was
\* dispatched to is being shut down.
EveryEventRuns ==
    \A e \in Events : e \in accepted ~> e \in ran \/ Abandoned

\* Threads that wait for each other in synchronous dispatches, and for threads
\* they have made to end, all return.
CallsReturn ==
    \A t \in Threads : ~Idle(t) ~> Idle(t) \/ Abandoned
=============================================================================
