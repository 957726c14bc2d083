-------------------------- MODULE ThreadPoolProofs --------------------------
(***************************************************************************)
(* Theorems about ThreadPool, for every number of threads, callers and     *)
(* events and every limit.                                                 *)
(***************************************************************************)
EXTENDS ThreadPool, FiniteSetTheorems, TLAPS

\* A call that handles a thread or an event has one.
CallsHaveTheirs ==
    \A c \in Callers :
        /\ caller[c].at \in {"append", "start", "kill", "join"} =>
             caller[c].thread \in Threads
        /\ At(c, "put") => caller[c].event \in Events

PoolInv == TypeOK /\ CountsIdleWorkers /\ SleepersHaveNothingToDo /\ CallsHaveTheirs

\* A worker that stops being idle is taken off the count, which never wraps.
LEMMA NotIdleCounts ==
    ASSUME TypeOK, CountsIdleWorkers, NEW t \in Threads
    PROVE  /\ NotIdle(t) \in Nat
           /\ NotIdle(t) = Cardinality(wasIdle \ {t})
<1>1. IsFiniteSet(wasIdle)
  BY FS_Subset, SetsAssumption DEF TypeOK
<1>2. Cardinality(wasIdle \ {t}) = IF t \in wasIdle THEN Cardinality(wasIdle) - 1
                                                     ELSE Cardinality(wasIdle)
  BY <1>1, FS_RemoveElement
<1>3. IsFiniteSet(wasIdle \ {t})
  BY <1>1, FS_RemoveElement
<1>4. Cardinality(wasIdle) \in Nat /\ Cardinality(wasIdle \ {t}) \in Nat
  BY <1>1, <1>3, FS_CardinalityType
<1> QED BY <1>2, <1>4 DEF NotIdle, CountsIdleWorkers

LEMMA IdleCounts ==
    ASSUME TypeOK, CountsIdleWorkers, NEW t \in Threads
    PROVE  mIdleCount + (IF t \in wasIdle THEN 0 ELSE 1)
             = Cardinality(wasIdle \cup {t})
<1>1. IsFiniteSet(wasIdle)
  BY FS_Subset, SetsAssumption DEF TypeOK
<1>2. Cardinality(wasIdle \cup {t}) = IF t \in wasIdle THEN Cardinality(wasIdle)
                                                     ELSE Cardinality(wasIdle) + 1
  BY <1>1, FS_AddElement
<1>3. Cardinality(wasIdle) \in Nat
  BY <1>1, FS_CardinalityType
<1> QED BY <1>2, <1>3 DEF CountsIdleWorkers

\* mon.NotifyAll() leaves nobody asleep and everybody else where he was.
LEMMA WokenWakes ==
    ASSUME TypeOK
    PROVE  /\ Woken \in [Threads -> Places]
           /\ \A t \in Threads : Woken[t] # "waiting"
           /\ \A t \in Threads : worker[t] # "waiting" => Woken[t] = worker[t]
           /\ \A t \in Threads : worker[t] = "waiting" => Woken[t] = "start"
  BY DEF Woken, TypeOK, Places

LEMMA PoolInvInit == Init => PoolInv
<1> SUFFICES ASSUME Init PROVE PoolInv
  OBVIOUS
<1>1. TypeOK
  <2>1. caller \in [Callers -> Call]
    BY DEF Init, Call, NoCall
  <2>2. mEvents \in Seq(Events)
    BY DEF Init
  <2>3. worker \in [Threads -> Places] /\ event \in [Threads -> Events \cup {None}]
    BY DEF Init, Places
  <2> QED BY <2>1, <2>2, <2>3, LimitsAssumption DEF Init, TypeOK
<1>2. CountsIdleWorkers
  BY FS_EmptySet DEF Init, CountsIdleWorkers
<1>3. SleepersHaveNothingToDo /\ CallsHaveTheirs
  BY DEF Init, SleepersHaveNothingToDo, CallsHaveTheirs, At, NoCall
<1> QED BY <1>1, <1>2, <1>3 DEF PoolInv

(***************************************************************************)
(* The steps of a call.                                                    *)
(***************************************************************************)

LEMMA CallTypes ==
    ASSUME TypeOK, NEW c \in Callers
    PROVE  /\ caller[c] \in Call
           /\ NoCall \in Call
  BY DEF TypeOK, Call, NoCall

\* What a step that neither touches the counts nor puts anybody to sleep has
\* to show.
LEMMA CallKeeps ==
    ASSUME PoolInv, NEW c \in Callers, NEW r \in Call,
           caller' = [caller EXCEPT ![c] = r],
           r.at \in {"append", "start", "kill", "join"} => r.thread \in Threads,
           r.at = "put" => r.event \in Events
    PROVE  /\ caller' \in [Callers -> Call]
           /\ CallsHaveTheirs'
<1>1. caller' \in [Callers -> Call]
  BY DEF PoolInv, TypeOK
<1>2. ASSUME NEW d \in Callers
      PROVE  /\ caller'[d].at \in {"append", "start", "kill", "join"} =>
                  caller'[d].thread \in Threads
             /\ caller'[d].at = "put" => caller'[d].event \in Events
  <2>1. CASE d = c
    BY <2>1 DEF PoolInv, TypeOK
  <2>2. CASE d # c
    BY <2>2 DEF PoolInv, TypeOK, CallsHaveTheirs, At
  <2> QED BY <2>1, <2>2
<1> QED BY <1>1, <1>2 DEF CallsHaveTheirs, At

LEMMA CallerStepKeeps ==
    ASSUME PoolInv, NEW c \in Callers,
           Dispatch(c) \/ Shutdown(c) \/ CallerStep(c)
    PROVE  PoolInv'
<1> USE DEF PoolInv
<1>0. caller[c] \in Call /\ NoCall \in Call /\ caller \in [Callers -> Call]
  BY CallTypes DEF TypeOK
<1>a. ASSUME UNCHANGED <<mEvents, mIdleCount, mShutdown, worker, wasIdle>>
      PROVE  CountsIdleWorkers' /\ SleepersHaveNothingToDo'
  BY <1>a DEF CountsIdleWorkers, SleepersHaveNothingToDo
<1>b. ASSUME NEW r \in Call, caller' = [caller EXCEPT ![c] = r],
             r.at \in {"append", "start", "kill", "join"} => r.thread \in Threads,
             r.at = "put" => r.event \in Events
      PROVE  caller' \in [Callers -> Call] /\ CallsHaveTheirs'
  BY <1>b, CallKeeps
<1>1. CASE Dispatch(c)
  <2>1. PICK e \in Events, sync \in BOOLEAN :
          caller' = [caller EXCEPT ![c].at = "put", ![c].event = e, ![c].sync = sync]
    BY <1>1 DEF Dispatch
  <2> DEFINE r == [caller[c] EXCEPT !.at = "put", !.event = e, !.sync = sync]
  <2>2. r \in Call /\ caller' = [caller EXCEPT ![c] = r] /\ r.at = "put" /\ r.event = e
    BY <2>1, <1>0 DEF Call
  <2> HIDE DEF r
  <2>3. caller' \in [Callers -> Call] /\ CallsHaveTheirs'
    BY <2>2, <1>b
  <2>4. UNCHANGED <<poolVars, workerVars, asked, toShutdown>>
    BY <1>1 DEF Dispatch
  <2>5. CountsIdleWorkers' /\ SleepersHaveNothingToDo'
    BY <2>4, <1>a DEF poolVars, workerVars
  <2> QED BY <2>3, <2>4, <2>5 DEF TypeOK, poolVars, workerVars
<1>c. ASSUME Go(c, "spawn") \/ PutReturns(c) \/ Return(c)
               \/ ( /\ caller[c].at \in {"append", "start", "kill", "join"}
                    /\ Go(c, "start") \/ Go(c, "kill") )
      PROVE  caller' \in [Callers -> Call] /\ CallsHaveTheirs'
  <2> DEFINE went(place) == [caller[c] EXCEPT !.at = place]
  <2>1. /\ went("spawn") \in Call /\ went("sync") \in Call
        /\ went("start") \in Call /\ went("kill") \in Call
    BY <1>0 DEF Call
  <2>2. \A place : went(place).at = place /\ went(place).thread = caller[c].thread
    BY <1>0 DEF Call
  <2>3. caller[c].at \in {"append", "start", "kill", "join"} => caller[c].thread \in Threads
    BY DEF CallsHaveTheirs
  <2>4. \A place : Go(c, place) => caller' = [caller EXCEPT ![c] = went(place)]
    BY <1>0 DEF Go
  <2>5. Return(c) => caller' = [caller EXCEPT ![c] = NoCall]
    BY DEF Return
  <2> HIDE DEF went
  <2>6. CASE Go(c, "spawn")
    BY <2>6, <2>1, <2>2, <2>4, <1>b
  <2>7. CASE Go(c, "sync")
    BY <2>7, <2>1, <2>2, <2>4, <1>b
  <2>8. CASE Return(c)
    BY <2>8, <2>5, <1>0, <1>b DEF NoCall
  <2>9. CASE /\ caller[c].at \in {"append", "start", "kill", "join"}
             /\ Go(c, "start") \/ Go(c, "kill")
    <3>1. CASE Go(c, "start")
      BY <2>9, <3>1, <2>1, <2>2, <2>3, <2>4, <1>b
    <3>2. CASE Go(c, "kill")
      BY <2>9, <3>2, <2>1, <2>2, <2>3, <2>4, <1>b
    <3> QED BY <2>9, <3>1, <3>2
  <2> QED BY <1>c, <2>6, <2>7, <2>8, <2>9 DEF PutReturns
<1>2. CASE PutEvent(c)
  <2>1. caller' \in [Callers -> Call] /\ CallsHaveTheirs'
    BY <1>2, <1>c DEF PutEvent
  <2>2. Append(mEvents, caller[c].event) \in Seq(Events)
    BY <1>2 DEF PutEvent, TypeOK, CallsHaveTheirs
  <2>3. worker' = Woken
    BY <1>2 DEF PutEvent
  <2>4. CountsIdleWorkers' /\ SleepersHaveNothingToDo'
    BY <1>2, <2>3, WokenWakes DEF PutEvent, TypeOK, CountsIdleWorkers, SleepersHaveNothingToDo
  <2> QED BY <1>2, <2>1, <2>2, <2>3, <2>4, WokenWakes DEF PutEvent, TypeOK
<1>3. CASE NewThread(c)
  <2>1. PICK t \in Threads :
          /\ Fresh(t)
          /\ worker' = [worker EXCEPT ![t] = "new"]
          /\ asked' = asked \ {t}
          /\ caller' = [caller EXCEPT ![c].at = "append", ![c].thread = t]
    BY <1>3 DEF NewThread
  <2> DEFINE r == [caller[c] EXCEPT !.at = "append", !.thread = t]
  <2>2. r \in Call /\ caller' = [caller EXCEPT ![c] = r] /\ r.at = "append" /\ r.thread = t
    BY <2>1, <1>0 DEF Call
  <2> HIDE DEF r
  <2>3. caller' \in [Callers -> Call] /\ CallsHaveTheirs'
    BY <2>2, <1>b
  <2>4. UNCHANGED <<poolVars, wasIdle, event, toShutdown>>
    BY <1>3 DEF NewThread
  <2>5. CountsIdleWorkers' /\ SleepersHaveNothingToDo'
    BY <2>1, <2>4 DEF Fresh, poolVars, TypeOK, CountsIdleWorkers, SleepersHaveNothingToDo
  <2>6. worker' \in [Threads -> Places]
    BY <2>1 DEF TypeOK, Places
  <2> QED BY <2>1, <2>3, <2>4, <2>5, <2>6 DEF TypeOK, poolVars
<1>4. CASE NewThreadFails(c)
  <2>1. caller' \in [Callers -> Call] /\ CallsHaveTheirs'
    BY <1>4, <1>c DEF NewThreadFails
  <2> QED BY <1>4, <2>1, <1>a DEF NewThreadFails, TypeOK, poolVars, workerVars
<1>5. CASE AppendThread(c)
  <2>1. caller[c].thread \in Threads
    BY <1>5 DEF AppendThread, At, CallsHaveTheirs
  <2>2. caller' \in [Callers -> Call] /\ CallsHaveTheirs'
    BY <1>5, <1>c DEF AppendThread, At
  <2>3. UNCHANGED <<mEvents, mIdleCount, mShutdown, worker, wasIdle, event>>
    BY <1>5 DEF AppendThread, workerVars
  <2> QED BY <1>5, <2>1, <2>2, <2>3, <1>a DEF AppendThread, TypeOK
<1>6. CASE StartThread(c) \/ KillReturns(c)
  <2> DEFINE r == IF caller[c].sync THEN [caller[c] EXCEPT !.at = "sync", !.thread = None]
                                    ELSE NoCall
  <2>1. r \in Call /\ r.at \in {"sync", "idle"}
    BY <1>0 DEF Call, NoCall
  <2>2. caller' = [caller EXCEPT ![c] = r]
    BY <1>0, <1>6 DEF StartThread, KillReturns
  <2> HIDE DEF r
  <2>3. caller' \in [Callers -> Call] /\ CallsHaveTheirs'
    BY <2>1, <2>2, <1>b
  <2>4. CASE KillReturns(c)
    BY <2>4, <2>3, <1>a DEF KillReturns, TypeOK, poolVars, workerVars
  <2>5. CASE StartThread(c)
    <3>1. caller[c].thread \in Threads
      BY <2>5 DEF StartThread, At, CallsHaveTheirs
    <3>2. worker' = [worker EXCEPT ![caller[c].thread] =
                       IF worker[caller[c].thread] = "new" THEN "start"
                       ELSE worker[caller[c].thread]]
      BY <2>5, <3>1 DEF StartThread, TypeOK
    <3>3. UNCHANGED <<mEvents, mThreads, mIdleCount, mThreadLimit, mIdleThreadLimit,
                      mShutdown, wasIdle, event, asked, toShutdown>>
      BY <2>5 DEF StartThread, poolVars
    <3>4. /\ worker' \in [Threads -> Places]
          /\ \A t \in Threads : worker'[t] = worker[t]
                                \/ (worker[t] = "new" /\ worker'[t] = "start")
      BY <3>1, <3>2 DEF TypeOK, Places
    <3>5. CountsIdleWorkers' /\ SleepersHaveNothingToDo'
      BY <3>3, <3>4 DEF TypeOK, CountsIdleWorkers, SleepersHaveNothingToDo
    <3> QED BY <2>3, <3>3, <3>4, <3>5 DEF TypeOK
  <2> QED BY <1>6, <2>4, <2>5
<1>7. CASE SyncReturns(c) \/ ShutdownReturns(c)
  <2>1. caller' \in [Callers -> Call] /\ CallsHaveTheirs'
    BY <1>7, <1>c DEF SyncReturns, ShutdownReturns
  <2> QED BY <1>7, <2>1, <1>a DEF SyncReturns, ShutdownReturns, TypeOK, poolVars, workerVars
<1>8. CASE Shutdown(c)
  <2> DEFINE r == [caller[c] EXCEPT !.at = "shutdown", !.list = mThreads]
  <2>1. r \in Call /\ r.at = "shutdown"
    BY <1>0 DEF Call, TypeOK
  <2>2. caller' = [caller EXCEPT ![c] = r]
    BY <1>0, <1>8 DEF Shutdown
  <2> HIDE DEF r
  <2>3. caller' \in [Callers -> Call] /\ CallsHaveTheirs'
    BY <2>1, <2>2, <1>b
  <2>4. worker' = Woken
    BY <1>8 DEF Shutdown
  <2>5. CountsIdleWorkers' /\ SleepersHaveNothingToDo'
    BY <1>8, <2>4, WokenWakes DEF Shutdown, TypeOK, CountsIdleWorkers, SleepersHaveNothingToDo
  <2> QED BY <1>8, <2>3, <2>4, <2>5, WokenWakes DEF Shutdown, TypeOK
<1>9. CASE ShutdownNext(c)
  <2>1. PICK t \in caller[c].list :
          /\ asked' = asked \cup {t}
          /\ caller' = [caller EXCEPT ![c].at = "join", ![c].thread = t,
                                      ![c].list = @ \ {t}]
    BY <1>9 DEF ShutdownNext
  <2>2. t \in Threads
    BY <1>0 DEF Call
  <2> DEFINE r == [caller[c] EXCEPT !.at = "join", !.thread = t,
                                    !.list = caller[c].list \ {t}]
  <2>3. r \in Call /\ r.at = "join" /\ r.thread = t
    BY <1>0, <2>2 DEF Call
  <2>4. caller' = [caller EXCEPT ![c] = r]
    BY <1>0, <2>1
  <2> HIDE DEF r
  <2>5. caller' \in [Callers -> Call] /\ CallsHaveTheirs'
    BY <2>2, <2>3, <2>4, <1>b
  <2> QED BY <1>9, <2>1, <2>2, <2>5, <1>a DEF ShutdownNext, TypeOK, poolVars, workerVars
<1>10. CASE JoinReturns(c)
  <2> DEFINE r == [caller[c] EXCEPT !.at = "shutdown", !.thread = None]
  <2>1. r \in Call /\ r.at = "shutdown"
    BY <1>0 DEF Call
  <2>2. caller' = [caller EXCEPT ![c] = r]
    BY <1>0, <1>10 DEF JoinReturns
  <2> HIDE DEF r
  <2>3. caller' \in [Callers -> Call] /\ CallsHaveTheirs'
    BY <2>1, <2>2, <1>b
  <2> QED BY <1>10, <2>3, <1>a DEF JoinReturns, TypeOK, poolVars, workerVars
<1> QED
  BY <1>1, <1>2, <1>3, <1>4, <1>5, <1>6, <1>7, <1>8, <1>9, <1>10 DEF CallerStep

(***************************************************************************)
(* The steps of the workers, of the threads below, and the setters.        *)
(***************************************************************************)

LEMMA WorkerStepKeeps ==
    ASSUME PoolInv, NEW t \in Threads,
           WorkerStep(t) \/ WaitTimesOut(t) \/ ThreadStep(t)
    PROVE  PoolInv'
<1> USE DEF PoolInv
<1>0. CallsHaveTheirs'
  BY DEF CallsHaveTheirs, At, WorkerStep, WaitTimesOut, ThreadStep, TakeEvent,
         FinishEvent, Wait, Leave, MainShutsDown, Doom
<1>1. CASE TakeEvent(t)
  <2>1. NotIdle(t) \in Nat /\ NotIdle(t) = Cardinality(wasIdle \ {t})
    BY NotIdleCounts
  <2>2. Tail(mEvents) \in Seq(Events) /\ Head(mEvents) \in Events
    BY <1>1 DEF TakeEvent, TypeOK
  <2>3. TypeOK'
    BY <1>1, <2>1, <2>2 DEF TakeEvent, TypeOK, Places
  <2>4. CountsIdleWorkers'
    BY <1>1, <2>1 DEF TakeEvent, TypeOK, CountsIdleWorkers
  <2>5. SleepersHaveNothingToDo'
    BY <1>1 DEF TakeEvent, TypeOK, SleepersHaveNothingToDo
  <2> QED BY <1>0, <2>3, <2>4, <2>5
<1>2. CASE FinishEvent(t)
  <2>1. TypeOK'
    BY <1>2 DEF FinishEvent, TypeOK, Places, poolVars
  <2>2. CountsIdleWorkers' /\ SleepersHaveNothingToDo'
    BY <1>2 DEF FinishEvent, TypeOK, CountsIdleWorkers, SleepersHaveNothingToDo, poolVars
  <2> QED BY <1>0, <2>1, <2>2
<1>3. CASE Wait(t)
  <2>1. mIdleCount' = Cardinality(wasIdle \cup {t})
    BY <1>3, IdleCounts DEF Wait
  <2>2. TypeOK'
    BY <1>3 DEF Wait, TypeOK, Places
  <2>3. CountsIdleWorkers'
    BY <1>3, <2>1 DEF Wait, TypeOK, CountsIdleWorkers
  <2>4. SleepersHaveNothingToDo'
    BY <1>3 DEF Wait, Exits, TypeOK, SleepersHaveNothingToDo
  <2> QED BY <1>0, <2>2, <2>3, <2>4
<1>4. CASE WaitTimesOut(t)
  <2>1. TypeOK'
    BY <1>4 DEF WaitTimesOut, TypeOK, Places, poolVars
  <2>2. CountsIdleWorkers' /\ SleepersHaveNothingToDo'
    BY <1>4 DEF WaitTimesOut, TypeOK, CountsIdleWorkers, SleepersHaveNothingToDo, poolVars
  <2> QED BY <1>0, <2>1, <2>2
<1>5. CASE Leave(t)
  <2>1. NotIdle(t) \in Nat /\ NotIdle(t) = Cardinality(wasIdle \ {t})
    BY NotIdleCounts
  <2>2. TypeOK'
    BY <1>5, <2>1 DEF Leave, Removed, TypeOK, Places
  <2>3. CountsIdleWorkers'
    BY <1>5, <2>1 DEF Leave, TypeOK, CountsIdleWorkers
  <2>4. SleepersHaveNothingToDo'
    BY <1>5 DEF Leave, TypeOK, SleepersHaveNothingToDo
  <2> QED BY <1>0, <2>2, <2>3, <2>4
<1>6. CASE MainShutsDown(t)
  BY <1>6, <1>0 DEF MainShutsDown, TypeOK, CountsIdleWorkers, SleepersHaveNothingToDo,
                    poolVars, workerVars
<1>7. CASE Doom(t)
  <2>1. TypeOK'
    BY <1>7 DEF Doom, TypeOK, Places, poolVars
  <2>2. CountsIdleWorkers' /\ SleepersHaveNothingToDo'
    BY <1>7 DEF Doom, TypeOK, CountsIdleWorkers, SleepersHaveNothingToDo, poolVars
  <2> QED BY <1>0, <2>1, <2>2
<1> QED
  BY <1>1, <1>2, <1>3, <1>4, <1>5, <1>6, <1>7 DEF WorkerStep, ThreadStep

LEMMA SettersKeep ==
    ASSUME PoolInv,
           \/ \E value \in Limits : SetThreadLimit(value)
           \/ \E value \in IdleLimits : SetIdleThreadLimit(value)
    PROVE  PoolInv'
<1> USE DEF PoolInv
<1>1. CallsHaveTheirs'
  BY DEF CallsHaveTheirs, At, SetThreadLimit, SetIdleThreadLimit
<1>2. worker' = Woken
  BY DEF SetThreadLimit, SetIdleThreadLimit
<1>3. UNCHANGED <<mEvents, mThreads, mIdleCount, mShutdown, wasIdle, event,
                  asked, toShutdown, caller>>
  BY DEF SetThreadLimit, SetIdleThreadLimit
<1>4. CountsIdleWorkers' /\ SleepersHaveNothingToDo'
  BY <1>2, <1>3, WokenWakes DEF TypeOK, CountsIdleWorkers, SleepersHaveNothingToDo
<1>5. mThreadLimit' \in Nat \ {0} /\ mIdleThreadLimit' \in 0 .. mThreadLimit'
  BY LimitsAssumption DEF SetThreadLimit, SetIdleThreadLimit, Smaller, TypeOK
<1> QED BY <1>1, <1>2, <1>3, <1>4, <1>5, WokenWakes DEF TypeOK

\* The strengthening that is inductive: types, the count of the idle workers,
\* the sleepers, and what each call in progress holds.
THEOREM PoolInvariance == Spec => []PoolInv
<1>1. Init => PoolInv
  BY PoolInvInit
<1>2. PoolInv /\ [Next]_vars => PoolInv'
  <2>1. ASSUME PoolInv, UNCHANGED vars PROVE PoolInv'
    BY <2>1 DEF PoolInv, TypeOK, CountsIdleWorkers, SleepersHaveNothingToDo,
                CallsHaveTheirs, At, vars
  <2> QED BY <2>1, CallerStepKeeps, WorkerStepKeeps, SettersKeep DEF Next
<1> QED BY <1>1, <1>2, PTL DEF Spec

\* The state of the pool has its type: its limits stay in order, and its count
\* of idle threads is a natural number.
THEOREM PoolTypeCorrectness == Spec => []TypeOK
<1>1. PoolInv => TypeOK
  BY DEF PoolInv
<1> QED BY <1>1, PoolInvariance, PTL

\* mIdleCount never wraps, and it is the number of the workers that wait or
\* have been woken and have not looked at the queue yet.
THEOREM IdleCountIsExact == Spec => []CountsIdleWorkers
<1>1. PoolInv => CountsIdleWorkers
  BY DEF PoolInv
<1> QED BY <1>1, PoolInvariance, PTL

\* No notification is lost: whoever sleeps on the monitor has nothing to do.
THEOREM NoLostWakeup == Spec => []SleepersHaveNothingToDo
<1>1. PoolInv => SleepersHaveNothingToDo
  BY DEF PoolInv
<1> QED BY <1>1, PoolInvariance, PTL

(***************************************************************************)
(* Until somebody shuts the pool down, its members are its workers; and no *)
(* event is stranded, as long as threads can be made.                      *)
(***************************************************************************)

Working == {"start", "waiting", "running"}

InUse == ~ mShutdown /\ \A c \in Callers : caller[c].at \notin {"shutdown", "join"}

\* The thread of a call that is making one is new, and its own.
NewThreadsAreOwned ==
    \A c \in Callers : caller[c].at \in {"append", "start"} =>
        /\ worker[caller[c].thread] = "new"
        /\ caller[c].thread \notin asked \cup toShutdown
        /\ At(c, "start") => caller[c].thread \in mThreads
        /\ \A d \in Callers :
             /\ caller[d].at \in {"append", "start"}
             /\ caller[d].thread = caller[c].thread
             => d = c

\* The threads the pool counts are its workers, and those about to be.
MembersWork ==
    /\ mThreads \cap (asked \cup toShutdown) = {}
    /\ \A t \in Threads : worker[t] \in Working => t \in mThreads
    /\ \A t \in mThreads :
         \/ worker[t] \in Working
         \/ worker[t] = "new" /\ \E c \in Callers : At(c, "start") /\ caller[c].thread = t

EventsHaveMembers ==
    mEvents # <<>> => \/ mThreads # {} \/ \E c \in Callers : Spawning(c)
                      \/ "threadFails" \in Env

Staffed == InUse /\ NewThreadsAreOwned /\ MembersWork /\ EventsHaveMembers

Unfailing == "threadFails" \notin Env

\* An idle worker, or as many threads as the limit allows, are somebody.
LEMMA SomebodyThere ==
    ASSUME PoolInv, MembersWork, ~ NeedsThread \/ ~ HasRoom
    PROVE  mThreads # {}
<1>1. CASE mIdleCount # 0
  <2>1. PICK t \in wasIdle : TRUE
    BY <1>1, FS_EmptySet DEF PoolInv, CountsIdleWorkers
  <2>2. t \in mThreads
    BY <2>1 DEF PoolInv, TypeOK, CountsIdleWorkers, MembersWork, Working
  <2> QED BY <2>2
<1>2. CASE mIdleCount = 0
  <2>1. ~ (Cardinality(mThreads) < mThreadLimit)
    BY <1>2 DEF NeedsThread, HasRoom
  <2>2. Cardinality(mThreads) # 0
    BY <2>1 DEF PoolInv, TypeOK
  <2> QED BY <2>2, FS_EmptySet
<1> QED BY <1>1, <1>2

LEMMA StaffedInit == Init => Staffed
  BY DEF Init, NoCall, Staffed, InUse, NewThreadsAreOwned, MembersWork,
         EventsHaveMembers, Working, At

LEMMA StaffedCall ==
    ASSUME PoolInv, Staffed, NEW c \in Callers,
           Dispatch(c) \/ CallerStep(c)
    PROVE  Staffed'
<1> DEFINE busy == {"spawn", "append", "start", "shutdown", "join"}
<1>0. /\ TypeOK /\ CallsHaveTheirs
      /\ InUse /\ NewThreadsAreOwned /\ MembersWork /\ EventsHaveMembers
      /\ caller \in [Callers -> Call] /\ caller[c] \in Call
  BY DEF PoolInv, TypeOK, Staffed
\* A step of a call that is not making a thread.
<1>a. ASSUME UNCHANGED <<mThreads, mShutdown, worker, toShutdown, asked>>,
             mEvents' = mEvents,
             caller[c].at \notin busy, caller'[c].at \notin busy,
             \A d \in Callers : d # c => caller'[d] = caller[d]
      PROVE  Staffed'
  <2>1. InUse'
    BY <1>0, <1>a DEF InUse
  <2>2. NewThreadsAreOwned'
    BY <1>0, <1>a DEF NewThreadsAreOwned, At
  <2>3. MembersWork'
    BY <1>0, <1>a DEF MembersWork, At
  <2>4. EventsHaveMembers'
    BY <1>0, <1>a DEF EventsHaveMembers, Spawning
  <2> QED BY <2>1, <2>2, <2>3, <2>4 DEF Staffed
<1>1. CASE Dispatch(c) \/ SyncReturns(c) \/ KillReturns(c)
  <2>1. UNCHANGED <<poolVars, workerVars, asked, toShutdown>>
    BY <1>1 DEF Dispatch, SyncReturns, KillReturns
  <2>2. caller[c].at \notin busy
    BY <1>1 DEF Dispatch, SyncReturns, KillReturns, At
  <2>3. caller'[c].at \notin busy /\ \A d \in Callers : d # c => caller'[d] = caller[d]
    <3>1. CASE Dispatch(c)
      <4>1. PICK e \in Events, sync \in BOOLEAN :
              caller' = [caller EXCEPT ![c].at = "put", ![c].event = e, ![c].sync = sync]
        BY <3>1 DEF Dispatch
      <4> QED BY <1>0, <4>1 DEF Call
    <3>2. CASE SyncReturns(c)
      BY <1>0, <3>2 DEF SyncReturns, Return, NoCall
    <3>3. CASE KillReturns(c)
      <4>1. caller'[c].at \in {"sync", "idle"}
        BY <1>0, <3>3 DEF KillReturns, NoCall, Call
      <4>2. \A d \in Callers : d # c => caller'[d] = caller[d]
        BY <1>0, <3>3 DEF KillReturns
      <4> QED BY <4>1, <4>2
    <3> QED BY <1>1, <3>1, <3>2, <3>3
  <2> QED BY <2>1, <2>2, <2>3, <1>a DEF poolVars, workerVars
<1>2. CASE NewThreadFails(c)
  <2>1. /\ "threadFails" \in Env /\ caller[c].at = "spawn"
        /\ UNCHANGED <<mThreads, mShutdown, worker, toShutdown, asked>>
    BY <1>2 DEF NewThreadFails, At, poolVars, workerVars
  <2>2. caller'[c].at \in {"sync", "idle"} /\ \A d \in Callers : d # c => caller'[d] = caller[d]
    BY <1>0, <1>2 DEF NewThreadFails, PutReturns, Go, Return, NoCall, Call
  <2>3. InUse' /\ EventsHaveMembers'
    BY <1>0, <2>1, <2>2 DEF InUse, EventsHaveMembers
  <2>4. NewThreadsAreOwned'
    BY <1>0, <2>1, <2>2 DEF NewThreadsAreOwned, At
  <2>5. MembersWork'
    BY <1>0, <2>1, <2>2 DEF MembersWork, At
  <2> QED BY <2>3, <2>4, <2>5 DEF Staffed
<1>3. CASE ShutdownNext(c) \/ JoinReturns(c) \/ ShutdownReturns(c)
  BY <1>3, <1>0 DEF InUse, At, ShutdownNext, JoinReturns, ShutdownReturns
<1>4. CASE PutEvent(c)
  <2>1. /\ \A d \in Callers : d # c => caller'[d] = caller[d]
        /\ caller'[c].at \in {"spawn", "sync", "idle"}
        /\ NeedsThread => caller'[c].at = "spawn"
    BY <1>0, <1>4 DEF PutEvent, PutReturns, Go, Return, NoCall, Call
  <2>2. worker' = Woken
    BY <1>4 DEF PutEvent
  <2>3. /\ UNCHANGED <<mThreads, mShutdown, asked, toShutdown>>
        /\ caller[c].at = "put"
    BY <1>4 DEF PutEvent, At
  <2>4. InUse'
    BY <1>0, <2>1, <2>3 DEF InUse
  <2>5. NewThreadsAreOwned'
    <3>1. \A t \in Threads : worker[t] = "new" => worker'[t] = "new"
      BY <1>0, <2>2, WokenWakes
    <3> QED BY <1>0, <2>1, <2>3, <3>1 DEF NewThreadsAreOwned, CallsHaveTheirs, At
  <2>6. MembersWork'
    <3>1. \A t \in Threads : /\ worker'[t] \in Working <=> worker[t] \in Working
                             /\ worker'[t] = "new" <=> worker[t] = "new"
      BY <1>0, <2>2, WokenWakes DEF Working
    <3>2. mThreads \subseteq Threads
      BY <1>0 DEF TypeOK
    <3>3. ASSUME NEW u \in mThreads
          PROVE  \/ worker'[u] \in Working
                 \/ /\ worker'[u] = "new"
                    /\ \E d \in Callers : caller'[d].at = "start" /\ caller'[d].thread = u
      BY <1>0, <2>1, <2>3, <3>1, <3>2 DEF MembersWork, At
    <3>4. \A u \in Threads : worker'[u] \in Working => u \in mThreads
      BY <1>0, <3>1 DEF MembersWork
    <3> QED BY <1>0, <2>3, <3>3, <3>4 DEF MembersWork, At
  <2>7. EventsHaveMembers'
    <3>1. CASE NeedsThread
      BY <2>1, <3>1 DEF EventsHaveMembers, Spawning
    <3>2. CASE ~ NeedsThread
      BY <3>2, <1>0, <2>3, SomebodyThere DEF EventsHaveMembers
    <3> QED BY <3>1, <3>2
  <2> QED BY <2>4, <2>5, <2>6, <2>7 DEF Staffed
<1>5. CASE NewThread(c)
  <2>1. PICK t \in Threads :
          /\ Fresh(t)
          /\ worker' = [worker EXCEPT ![t] = "new"]
          /\ asked' = asked \ {t}
          /\ caller' = [caller EXCEPT ![c].at = "append", ![c].thread = t]
    BY <1>5 DEF NewThread
  <2>2. /\ \A d \in Callers : d # c => caller'[d] = caller[d]
        /\ caller'[c].at = "append" /\ caller'[c].thread = t
    BY <1>0, <2>1 DEF Call
  <2>3. /\ UNCHANGED <<mEvents, mThreads, mShutdown, toShutdown>>
        /\ caller[c].at = "spawn"
    BY <1>5 DEF NewThread, At, poolVars
  <2>4. /\ worker[t] \in {"none", "doomed"} /\ t \notin mThreads /\ t \notin toShutdown
        /\ \A d \in Callers : caller[d].thread # t
    BY <2>1 DEF Fresh
  <2>5. worker'[t] = "new" /\ \A u \in Threads : u # t => worker'[u] = worker[u]
    BY <1>0, <2>1 DEF TypeOK
  <2>6. InUse'
    BY <1>0, <2>2, <2>3 DEF InUse
  <2>7. NewThreadsAreOwned'
    BY <1>0, <2>1, <2>2, <2>3, <2>4, <2>5 DEF NewThreadsAreOwned, CallsHaveTheirs, At
  <2>8. MembersWork'
    <3>1. mThreads \subseteq Threads
      BY <1>0 DEF TypeOK
    <3>2. /\ mThreads' \cap (asked' \cup toShutdown') = {}
          /\ \A u \in Threads : worker'[u] \in Working => u \in mThreads'
      BY <1>0, <2>1, <2>3, <2>4, <2>5 DEF MembersWork, Working
    <3>3. ASSUME NEW u \in mThreads
          PROVE  \/ worker'[u] \in Working
                 \/ /\ worker'[u] = "new"
                    /\ \E d \in Callers : caller'[d].at = "start" /\ caller'[d].thread = u
      BY <3>1, <1>0, <2>2, <2>3, <2>4, <2>5 DEF MembersWork, At
    <3> QED BY <2>3, <3>2, <3>3 DEF MembersWork, At
  <2>9. EventsHaveMembers'
    BY <2>2 DEF EventsHaveMembers, Spawning
  <2> QED BY <2>6, <2>7, <2>8, <2>9 DEF Staffed
<1>6. CASE AppendThread(c)
  <2> DEFINE t == caller[c].thread
  <2>1. /\ caller[c].at = "append"
        /\ UNCHANGED <<mEvents, mShutdown, worker, toShutdown>>
    BY <1>6 DEF AppendThread, At, workerVars
  <2>2. t \in Threads /\ worker[t] = "new" /\ t \notin asked \cup toShutdown
    BY <1>0, <2>1 DEF NewThreadsAreOwned, CallsHaveTheirs
  <2>3. mThreads \subseteq Threads
    BY <1>0 DEF TypeOK
  <2>4. CASE HasRoom
    <3>1. mThreads' = mThreads \cup {t} /\ asked' = asked /\ Go(c, "start")
      BY <1>6, <2>4 DEF AppendThread
    <3>2. /\ \A d \in Callers : d # c => caller'[d] = caller[d]
          /\ caller'[c].at = "start" /\ caller'[c].thread = t
      BY <1>0, <3>1 DEF Go, Call
    <3>3. InUse'
      BY <1>0, <2>1, <3>2 DEF InUse
    <3>4. NewThreadsAreOwned'
      BY <1>0, <2>1, <2>2, <3>1, <3>2 DEF NewThreadsAreOwned, At
    <3>5. MembersWork'
      BY <1>0, <2>1, <2>2, <2>3, <3>1, <3>2 DEF MembersWork, At
    <3>6. EventsHaveMembers'
      BY <3>1 DEF EventsHaveMembers
    <3> QED BY <3>3, <3>4, <3>5, <3>6 DEF Staffed
  <2>5. CASE ~ HasRoom
    <3>1. mThreads' = mThreads /\ asked' = asked \cup {t} /\ Go(c, "kill")
      BY <1>6, <2>5 DEF AppendThread
    <3>2. /\ \A d \in Callers : d # c => caller'[d] = caller[d]
          /\ caller'[c].at = "kill"
      BY <1>0, <3>1 DEF Go, Call
    <3>3. t \notin mThreads
      BY <1>0, <2>1, <2>2 DEF MembersWork, NewThreadsAreOwned, At, Working
    <3>4. InUse'
      BY <1>0, <2>1, <3>2 DEF InUse
    <3>5. NewThreadsAreOwned'
      BY <1>0, <2>1, <2>2, <3>1, <3>2 DEF NewThreadsAreOwned, At
    <3>6. MembersWork'
      BY <1>0, <2>1, <2>2, <2>3, <3>1, <3>2, <3>3 DEF MembersWork, At
    <3>7. EventsHaveMembers'
      BY <1>0, <2>5, <3>1, SomebodyThere DEF EventsHaveMembers
    <3> QED BY <3>4, <3>5, <3>6, <3>7 DEF Staffed
  <2> QED BY <2>4, <2>5
<1>7. CASE StartThread(c)
  <2> DEFINE t == caller[c].thread
  <2>1. /\ caller[c].at = "start"
        /\ UNCHANGED <<mEvents, mThreads, mShutdown, asked, toShutdown>>
    BY <1>7 DEF StartThread, At, poolVars
  <2>2. /\ t \in Threads /\ worker[t] = "new" /\ t \in mThreads
        /\ t \notin asked \cup toShutdown
    BY <1>0, <2>1 DEF NewThreadsAreOwned, CallsHaveTheirs, At
  <2>3. worker'[t] = "start" /\ \A u \in Threads : u # t => worker'[u] = worker[u]
    BY <1>0, <1>7, <2>2 DEF StartThread, TypeOK
  <2>4. /\ \A d \in Callers : d # c => caller'[d] = caller[d]
        /\ caller'[c].at \in {"sync", "idle"}
    BY <1>0, <1>7 DEF StartThread, NoCall, Call
  <2>5. mThreads \subseteq Threads
    BY <1>0 DEF TypeOK
  <2>6. InUse'
    BY <1>0, <2>1, <2>4 DEF InUse
  <2>7. NewThreadsAreOwned'
    BY <1>0, <2>1, <2>2, <2>3, <2>4 DEF NewThreadsAreOwned, CallsHaveTheirs, At
  <2>8. MembersWork'
    <3>1. ASSUME NEW u \in mThreads
          PROVE  \/ worker'[u] \in Working
                 \/ /\ worker'[u] = "new"
                    /\ \E d \in Callers : caller'[d].at = "start" /\ caller'[d].thread = u
      BY <1>0, <2>1, <2>3, <2>4, <2>5 DEF MembersWork, At, Working
    <3>2. \A u \in Threads : worker'[u] \in Working => u \in mThreads
      BY <1>0, <2>2, <2>3 DEF MembersWork
    <3> QED BY <1>0, <2>1, <3>1, <3>2 DEF MembersWork, At
  <2>9. EventsHaveMembers'
    BY <2>1, <2>2 DEF EventsHaveMembers
  <2> QED BY <2>6, <2>7, <2>8, <2>9 DEF Staffed
<1> QED
  BY <1>1, <1>2, <1>3, <1>4, <1>5, <1>6, <1>7 DEF CallerStep

LEMMA StaffedThread ==
    ASSUME PoolInv, Staffed, NEW t \in Threads,
           WorkerStep(t) \/ WaitTimesOut(t) \/ ThreadStep(t)
    PROVE  Staffed'
<1>0. /\ TypeOK /\ CallsHaveTheirs
      /\ InUse /\ NewThreadsAreOwned /\ MembersWork /\ EventsHaveMembers
      /\ mThreads \subseteq Threads
  BY DEF PoolInv, TypeOK, Staffed
<1>1. UNCHANGED <<mShutdown, caller>>
  BY DEF WorkerStep, WaitTimesOut, ThreadStep, TakeEvent, FinishEvent, Wait, Leave,
         MainShutsDown, Doom, poolVars
<1>2. InUse'
  BY <1>0, <1>1 DEF InUse
\* Steps of a worker that stays one.
<1>3. CASE TakeEvent(t) \/ FinishEvent(t) \/ Wait(t) \/ WaitTimesOut(t)
  <2>1. /\ UNCHANGED <<mThreads, asked, toShutdown>>
        /\ mEvents' # <<>> => mEvents # <<>>
    BY <1>3 DEF TakeEvent, FinishEvent, Wait, WaitTimesOut, poolVars
  <2>2. /\ worker[t] \in Working /\ worker'[t] \in Working
        /\ \A u \in Threads : u # t => worker'[u] = worker[u]
    BY <1>0, <1>3 DEF TakeEvent, FinishEvent, Wait, WaitTimesOut, TypeOK, Working
  <2>3. NewThreadsAreOwned'
    BY <1>0, <1>1, <2>1, <2>2 DEF NewThreadsAreOwned, CallsHaveTheirs, At, Working
  <2>4. MembersWork'
    BY <1>0, <1>1, <2>1, <2>2 DEF MembersWork, At
  <2>5. EventsHaveMembers'
    BY <1>0, <1>1, <2>1 DEF EventsHaveMembers, Spawning
  <2> QED BY <1>2, <2>3, <2>4, <2>5 DEF Staffed
<1>4. CASE Leave(t)
  <2>1. /\ mThreads' = mThreads \ {t} /\ asked' = asked
        /\ toShutdown' \subseteq toShutdown \cup {t}
        /\ mEvents' = <<>> /\ worker[t] = "start"
    BY <1>4 DEF Leave, Removed
  <2>2. worker'[t] = "left" /\ \A u \in Threads : u # t => worker'[u] = worker[u]
    BY <1>0, <1>4 DEF Leave, TypeOK
  <2>3. NewThreadsAreOwned'
    BY <1>0, <1>1, <2>1, <2>2 DEF NewThreadsAreOwned, CallsHaveTheirs, At
  <2>4. MembersWork'
    BY <1>0, <1>1, <2>1, <2>2 DEF MembersWork, At, Working
  <2>5. EventsHaveMembers'
    BY <2>1 DEF EventsHaveMembers
  <2> QED BY <1>2, <2>3, <2>4, <2>5 DEF Staffed
<1>5. CASE MainShutsDown(t)
  <2>1. /\ UNCHANGED <<mThreads, mEvents, worker>> /\ t \in toShutdown
        /\ asked' = asked \cup {t} /\ toShutdown' = toShutdown \ {t}
    BY <1>5 DEF MainShutsDown, poolVars, workerVars
  <2>2. NewThreadsAreOwned'
    BY <1>0, <1>1, <2>1 DEF NewThreadsAreOwned, At
  <2>3. MembersWork'
    BY <1>0, <1>1, <2>1 DEF MembersWork, At
  <2>4. EventsHaveMembers'
    BY <1>0, <1>1, <2>1 DEF EventsHaveMembers, Spawning
  <2> QED BY <1>2, <2>2, <2>3, <2>4 DEF Staffed
<1>6. CASE Doom(t)
  <2>1. UNCHANGED <<mThreads, mEvents, asked, toShutdown>> /\ t \in asked
    BY <1>6 DEF Doom, poolVars
  <2>2. worker'[t] = "doomed" /\ \A u \in Threads : u # t => worker'[u] = worker[u]
    BY <1>0, <1>6 DEF Doom, TypeOK
  <2>3. NewThreadsAreOwned'
    BY <1>0, <1>1, <2>1, <2>2 DEF NewThreadsAreOwned, CallsHaveTheirs, At
  <2>4. MembersWork'
    BY <1>0, <1>1, <2>1, <2>2 DEF MembersWork, At, Working
  <2>5. EventsHaveMembers'
    BY <1>0, <1>1, <2>1 DEF EventsHaveMembers, Spawning
  <2> QED BY <1>2, <2>3, <2>4, <2>5 DEF Staffed
<1> QED BY <1>3, <1>4, <1>5, <1>6 DEF WorkerStep, ThreadStep

LEMMA StaffedSetters ==
    ASSUME PoolInv, Staffed,
           \/ \E value \in Limits : SetThreadLimit(value)
           \/ \E value \in IdleLimits : SetIdleThreadLimit(value)
    PROVE  Staffed'
<1>0. /\ TypeOK /\ CallsHaveTheirs
      /\ InUse /\ NewThreadsAreOwned /\ MembersWork /\ EventsHaveMembers
      /\ mThreads \subseteq Threads
  BY DEF PoolInv, TypeOK, Staffed
<1>1. /\ UNCHANGED <<mShutdown, caller, mThreads, mEvents, asked, toShutdown>>
      /\ worker' = Woken
  BY DEF SetThreadLimit, SetIdleThreadLimit
<1>2. \A t \in Threads : /\ worker'[t] \in Working <=> worker[t] \in Working
                         /\ worker'[t] = "new" <=> worker[t] = "new"
  BY <1>0, <1>1, WokenWakes DEF Working
<1>3. InUse' /\ EventsHaveMembers'
  BY <1>0, <1>1 DEF InUse, EventsHaveMembers, Spawning
<1>4. NewThreadsAreOwned'
  BY <1>0, <1>1, <1>2 DEF NewThreadsAreOwned, CallsHaveTheirs, At
<1>5. MembersWork'
  <2>1. ASSUME NEW u \in mThreads
        PROVE  \/ worker'[u] \in Working
               \/ /\ worker'[u] = "new"
                  /\ \E d \in Callers : caller[d].at = "start" /\ caller[d].thread = u
    BY <1>0, <1>2 DEF MembersWork, At
  <2>2. \A u \in Threads : worker'[u] \in Working => u \in mThreads
    BY <1>0, <1>2 DEF MembersWork
  <2> QED BY <1>0, <1>1, <2>1, <2>2 DEF MembersWork, At
<1> QED BY <1>3, <1>4, <1>5 DEF Staffed

\* A member of the pool is at work, or about to be started, and it is awake
\* when there is an event.
LEMMA StaffedServes ==
    ASSUME Unfailing, PoolInv, Staffed PROVE NoEventStranded
<1> SUFFICES ASSUME mEvents # <<>>
             PROVE  \/ \E t \in Threads : worker[t] \in {"start", "running"}
                    \/ \E c \in Callers : Spawning(c) \/ At(c, "start")
  BY DEF NoEventStranded
<1>1. CASE \E c \in Callers : Spawning(c)
  BY <1>1
<1>2. CASE mThreads # {}
  <2>1. PICK t \in mThreads : t \in Threads
    BY <1>2 DEF PoolInv, TypeOK
  <2>2. worker[t] # "waiting"
    BY <2>1 DEF PoolInv, SleepersHaveNothingToDo
  <2> QED BY <2>1, <2>2 DEF Staffed, MembersWork, Working
<1> QED BY <1>1, <1>2 DEF Unfailing, Staffed, EventsHaveMembers

\* Nobody takes back that the pool is shut down.
LEMMA ShutdownStays ==
    ASSUME mShutdown, [Next]_vars PROVE mShutdown'
<1>1. CASE \E c \in Callers : Dispatch(c) \/ Shutdown(c) \/ CallerStep(c)
  BY <1>1 DEF Dispatch, Shutdown, CallerStep, PutEvent, NewThread, NewThreadFails,
              AppendThread, StartThread, KillReturns, SyncReturns, ShutdownNext,
              JoinReturns, ShutdownReturns, poolVars
<1>2. CASE \E t \in Threads : WorkerStep(t) \/ WaitTimesOut(t) \/ ThreadStep(t)
  BY <1>2 DEF WorkerStep, WaitTimesOut, ThreadStep, TakeEvent, FinishEvent, Wait,
              Leave, MainShutsDown, Doom, poolVars
<1>3. CASE \/ \E value \in Limits : SetThreadLimit(value)
           \/ \E value \in IdleLimits : SetIdleThreadLimit(value)
  BY <1>3 DEF SetThreadLimit, SetIdleThreadLimit
<1>4. CASE UNCHANGED vars
  BY <1>4 DEF vars
<1> QED BY <1>1, <1>2, <1>3, <1>4 DEF Next

LEMMA StaffedStep ==
    ASSUME PoolInv, mShutdown \/ Staffed, [Next]_vars
    PROVE  mShutdown' \/ Staffed'
<1>1. CASE mShutdown
  BY <1>1, ShutdownStays
<1>2. CASE Staffed
  <2>1. CASE UNCHANGED vars
    BY <1>2, <2>1 DEF Staffed, InUse, NewThreadsAreOwned, MembersWork,
                      EventsHaveMembers, At, Spawning, vars
  <2>2. CASE \E c \in Callers : Shutdown(c)
    BY <2>2 DEF Shutdown
  <2> QED BY <1>2, <2>1, <2>2, StaffedCall, StaffedThread, StaffedSetters DEF Next
<1> QED BY <1>1, <1>2

\* Until Shutdown() begins, an event that was dispatched is never left in the
\* queue with no worker awake or on its way, whatever the limits are set to
\* and however the workers come and go, if NewThread() does not fail.
THEOREM EventsAreServed == Unfailing /\ Spec => []ServedUntilShutdown
<1> DEFINE Inv == mShutdown \/ Staffed
<1> SUFFICES ASSUME Unfailing PROVE Spec => []ServedUntilShutdown
  OBVIOUS
<1>1. Init => Inv
  BY StaffedInit
<1>2. PoolInv /\ Inv /\ [Next]_vars => Inv'
  BY StaffedStep
<1>3. PoolInv /\ Inv => ServedUntilShutdown
  BY StaffedServes DEF ServedUntilShutdown
<1> QED BY <1>1, <1>2, <1>3, PoolInvariance, PTL DEF Spec

(***************************************************************************)
(* The limit.                                                              *)
(***************************************************************************)

\* The pool counts no more threads than some limit it has been given.
CountedWithinLimit ==
    /\ mThreadLimit \in Limits \cup {ThreadLimit}
    /\ \E limit \in Limits \cup {ThreadLimit} : Cardinality(mThreads) <= limit

LEMMA CountedStep ==
    ASSUME PoolInv, CountedWithinLimit, [Next]_vars
    PROVE  CountedWithinLimit'
<1>0. /\ TypeOK /\ CallsHaveTheirs /\ IsFiniteSet(mThreads)
      /\ \A limit \in Limits \cup {ThreadLimit} : limit \in Nat
      /\ Cardinality(mThreads) \in Nat
  <2>1. TypeOK /\ CallsHaveTheirs /\ IsFiniteSet(mThreads)
    BY SetsAssumption, FS_Subset DEF PoolInv, TypeOK
  <2> QED BY <2>1, FS_CardinalityType, LimitsAssumption
<1>1. ASSUME mThreadLimit' = mThreadLimit, mThreads' \subseteq mThreads
      PROVE  CountedWithinLimit'
  <2>1. Cardinality(mThreads') \in Nat /\ Cardinality(mThreads') <= Cardinality(mThreads)
    BY <1>0, <1>1, FS_Subset, FS_CardinalityType
  <2> QED BY <1>0, <1>1, <2>1 DEF CountedWithinLimit
<1>2. ASSUME NEW c \in Callers, AppendThread(c) PROVE CountedWithinLimit'
  <2>1. mThreadLimit' = mThreadLimit
    BY <1>2 DEF AppendThread
  <2>2. CASE HasRoom
    <3>1. mThreads' = mThreads \cup {caller[c].thread}
      BY <1>2, <2>2 DEF AppendThread
    <3>2. Cardinality(mThreads') \in Nat /\ Cardinality(mThreads') <= Cardinality(mThreads) + 1
      <4>1. IsFiniteSet(mThreads')
        BY <1>0, <3>1, FS_AddElement
      <4>2. Cardinality(mThreads') \in {Cardinality(mThreads), Cardinality(mThreads) + 1}
        BY <1>0, <3>1, FS_AddElement
      <4> QED BY <1>0, <4>1, <4>2, FS_CardinalityType
    <3>3. Cardinality(mThreads') <= mThreadLimit
      BY <1>0, <2>2, <3>2 DEF HasRoom, TypeOK
    <3> QED BY <2>1, <3>3 DEF CountedWithinLimit
  <2>3. CASE ~ HasRoom
    BY <1>1, <1>2, <2>1, <2>3 DEF AppendThread
  <2> QED BY <2>2, <2>3
<1>3. ASSUME NEW c \in Callers, Dispatch(c) \/ Shutdown(c) \/ CallerStep(c), ~ AppendThread(c)
      PROVE  mThreadLimit' = mThreadLimit /\ mThreads' \subseteq mThreads
  BY <1>3 DEF Dispatch, Shutdown, CallerStep, PutEvent, NewThread, NewThreadFails,
              StartThread, KillReturns, SyncReturns, ShutdownNext, JoinReturns,
              ShutdownReturns, poolVars
<1>4. ASSUME NEW t \in Threads, WorkerStep(t) \/ WaitTimesOut(t) \/ ThreadStep(t)
      PROVE  mThreadLimit' = mThreadLimit /\ mThreads' \subseteq mThreads
  BY <1>4 DEF WorkerStep, WaitTimesOut, ThreadStep, TakeEvent, FinishEvent, Wait,
              Leave, MainShutsDown, Doom, poolVars
<1>5. ASSUME NEW value \in Limits, SetThreadLimit(value) PROVE CountedWithinLimit'
  BY <1>5 DEF SetThreadLimit, CountedWithinLimit
<1>6. ASSUME NEW value \in IdleLimits, SetIdleThreadLimit(value) PROVE CountedWithinLimit'
  BY <1>6 DEF SetIdleThreadLimit, CountedWithinLimit
<1>7. CASE UNCHANGED vars
  BY <1>7 DEF vars, CountedWithinLimit
<1> QED BY <1>1, <1>2, <1>3, <1>4, <1>5, <1>6, <1>7 DEF Next

\* Until Shutdown() begins no more threads work for the pool than the highest
\* limit it was ever given allows: what AppendThread() lets in is what works.
THEOREM WorkersAreLimited == Spec => []WorkersWithinLimit
<1> DEFINE Inv == (mShutdown \/ Staffed) /\ CountedWithinLimit
<1>1. Init => Inv
  <2>1. Init => CountedWithinLimit
    BY FS_EmptySet, LimitsAssumption DEF Init, CountedWithinLimit
  <2> QED BY <2>1, StaffedInit
<1>2. PoolInv /\ Inv /\ [Next]_vars => Inv'
  BY StaffedStep, CountedStep
<1>3. PoolInv /\ Inv => WorkersWithinLimit
  <2> SUFFICES ASSUME PoolInv, Staffed, CountedWithinLimit PROVE WorkersWithinLimit
    BY DEF WorkersWithinLimit
  <2> DEFINE workers == {t \in Threads : worker[t] \in {"start", "waiting", "running"}}
  <2>1. workers \subseteq mThreads
    BY DEF Staffed, MembersWork, Working
  <2>2. IsFiniteSet(mThreads)
    BY SetsAssumption, FS_Subset DEF PoolInv, TypeOK
  <2> HIDE DEF workers
  <2>3. /\ Cardinality(workers) \in Nat /\ Cardinality(mThreads) \in Nat
        /\ Cardinality(workers) <= Cardinality(mThreads)
    BY <2>1, <2>2, FS_Subset, FS_CardinalityType
  <2>4. PICK limit \in Limits \cup {ThreadLimit} : Cardinality(mThreads) <= limit
    BY DEF CountedWithinLimit
  <2>5. limit \in Nat
    BY LimitsAssumption
  <2>6. Cardinality(workers) <= limit
    BY <2>3, <2>4, <2>5
  <2> QED BY <2>6 DEF WorkersWithinLimit, workers
<1> QED BY <1>1, <1>2, <1>3, PoolInvariance, PTL DEF Spec

(***************************************************************************)
(* Shutdown() is called once on each thread.                               *)
(***************************************************************************)

\* Call c is to call Shutdown() on t, or to hand it to the pool.
Holds(c, t) ==
    t \in caller[c].list \/ (caller[c].at = "append" /\ caller[c].thread = t)

\* Nobody is to do what another is to do, or what has been done.
OwnersAreDisjoint ==
    /\ mThreads \cap toShutdown = {} /\ mThreads \cap asked = {}
    /\ toShutdown \cap asked = {}
    /\ \A c \in Callers, t \in Threads : Holds(c, t) =>
         /\ t \notin mThreads \cup toShutdown \cup asked
         /\ \A d \in Callers : Holds(d, t) => d = c

ThreadsAreOwned ==
    \A t \in Threads : worker[t] # "none" =>
        t \in mThreads \cup toShutdown \cup asked \/ \E c \in Callers : Holds(c, t)

\* Only Shutdown() has a list of threads.
ListsAreOfShutdown ==
    \A c \in Callers : caller[c].at \notin {"shutdown", "join"} => caller[c].list = {}

OwnersInv == OwnersAreDisjoint /\ ThreadsAreOwned /\ ListsAreOfShutdown

\* A step that hands no thread on.
LEMMA OwnersStay ==
    ASSUME OwnersInv, UNCHANGED <<mThreads, toShutdown, asked>>,
           \A t \in Threads : worker'[t] # "none" => worker[t] # "none",
           \A c \in Callers :
              /\ caller'[c].list = caller[c].list
              /\ caller'[c].at = "append" <=> caller[c].at = "append"
              /\ caller[c].at = "append" => caller'[c].thread = caller[c].thread
              /\ caller'[c].at \notin {"shutdown", "join"} => caller[c].list = {}
    PROVE  OwnersInv'
<1>1. \A c \in Callers : \A t : Holds(c, t)' <=> Holds(c, t)
  BY DEF Holds
<1>2. OwnersAreDisjoint'
  BY <1>1 DEF OwnersInv, OwnersAreDisjoint
<1>3. ThreadsAreOwned'
  BY <1>1 DEF OwnersInv, ThreadsAreOwned
<1>4. ListsAreOfShutdown'
  BY DEF ListsAreOfShutdown
<1> QED BY <1>2, <1>3, <1>4 DEF OwnersInv

\* A call moves between places in which it has no thread to hand on.
LEMMA OwnersStayInCall ==
    ASSUME PoolInv, OwnersInv, NEW c \in Callers, NEW r \in Call,
           caller' = [caller EXCEPT ![c] = r],
           caller[c].at # "append", r.at # "append", r.list = caller[c].list,
           r.at \in {"shutdown", "join"} \/ caller[c].list = {},
           UNCHANGED <<mThreads, toShutdown, asked>>,
           \A t \in Threads : worker'[t] # "none" => worker[t] # "none"
    PROVE  OwnersInv'
<1>1. caller \in [Callers -> Call]
  BY DEF PoolInv, TypeOK
<1>2. caller'[c] = r /\ \A d \in Callers : d # c => caller'[d] = caller[d]
  BY <1>1
<1>3. \A d \in Callers : caller[d].at \notin {"shutdown", "join"} => caller[d].list = {}
  BY DEF OwnersInv, ListsAreOfShutdown
<1>4. \A d \in Callers :
        /\ caller'[d].list = caller[d].list
        /\ caller'[d].at = "append" <=> caller[d].at = "append"
        /\ caller[d].at = "append" => caller'[d].thread = caller[d].thread
        /\ caller'[d].at \notin {"shutdown", "join"} => caller[d].list = {}
  <2> TAKE d \in Callers
  <2> QED BY <1>2, <1>3
<1> QED BY <1>4, OwnersStay

LEMMA OwnersInCalls ==
    ASSUME PoolInv, OwnersInv, NEW c \in Callers,
           Dispatch(c) \/ Shutdown(c) \/ CallerStep(c)
    PROVE  OwnersInv'
<1>0. /\ TypeOK /\ CallsHaveTheirs /\ mThreads \subseteq Threads
      /\ OwnersAreDisjoint /\ ThreadsAreOwned /\ ListsAreOfShutdown
      /\ caller \in [Callers -> Call] /\ caller[c] \in Call /\ NoCall \in Call
  BY CallTypes DEF PoolInv, TypeOK, OwnersInv
\* Calls that hand nothing on.
<1>a. ASSUME NEW r \in Call, caller' = [caller EXCEPT ![c] = r],
             caller[c].at # "append", r.at # "append", r.list = caller[c].list,
             r.at \in {"shutdown", "join"} \/ caller[c].list = {},
             UNCHANGED <<mThreads, toShutdown, asked, worker>>
      PROVE  OwnersInv'
  BY <1>a, OwnersStayInCall
<1>1. CASE Dispatch(c)
  <2>1. PICK e \in Events, sync \in BOOLEAN :
          caller' = [caller EXCEPT ![c].at = "put", ![c].event = e, ![c].sync = sync]
    BY <1>1 DEF Dispatch
  <2> DEFINE r == [caller[c] EXCEPT !.at = "put", !.event = e, !.sync = sync]
  <2>2. /\ r \in Call /\ caller' = [caller EXCEPT ![c] = r] /\ r.at = "put"
        /\ r.list = caller[c].list
    BY <2>1, <1>0 DEF Call
  <2>3. caller[c].at = "idle" /\ UNCHANGED <<mThreads, toShutdown, asked, worker>>
    BY <1>1 DEF Dispatch, At, poolVars, workerVars
  <2>4. caller[c].list = {}
    BY <1>0, <2>3 DEF ListsAreOfShutdown
  <2> HIDE DEF r
  <2> QED BY <2>2, <2>3, <2>4, <1>a
\* The places Go and Return lead to from those with no list.
<1>b. ASSUME Go(c, "spawn") \/ PutReturns(c), caller[c].at \notin {"append", "shutdown", "join"}
      PROVE  \E r \in Call : /\ caller' = [caller EXCEPT ![c] = r] /\ r.at # "append"
                             /\ r.list = caller[c].list /\ caller[c].list = {}
  <2>1. caller[c].list = {}
    BY <1>0, <1>b DEF ListsAreOfShutdown
  <2> DEFINE went(place) == [caller[c] EXCEPT !.at = place]
  <2>2. went("spawn") \in Call /\ went("sync") \in Call
    BY <1>0 DEF Call
  <2>3. \A place : went(place).at = place /\ went(place).list = caller[c].list
    BY <1>0 DEF Call
  <2>4. \A place : Go(c, place) => caller' = [caller EXCEPT ![c] = went(place)]
    BY <1>0 DEF Go
  <2> HIDE DEF went
  <2>5. CASE Go(c, "spawn")
    BY <2>1, <2>2, <2>3, <2>4, <2>5
  <2>6. CASE Go(c, "sync")
    BY <2>1, <2>2, <2>3, <2>4, <2>6
  <2>7. CASE Return(c)
    BY <2>1, <2>7, <1>0 DEF Return, NoCall
  <2> QED BY <1>b, <2>5, <2>6, <2>7 DEF PutReturns
<1>2. CASE PutEvent(c)
  <2>1. /\ caller[c].at = "put" /\ (Go(c, "spawn") \/ PutReturns(c))
        /\ UNCHANGED <<mThreads, toShutdown, asked>> /\ worker' = Woken
    BY <1>2 DEF PutEvent, At
  <2>2. \A t \in Threads : worker'[t] # "none" => worker[t] # "none"
    BY <2>1, <1>0, WokenWakes
  <2>3. PICK r \in Call : /\ caller' = [caller EXCEPT ![c] = r] /\ r.at # "append"
                          /\ r.list = caller[c].list /\ caller[c].list = {}
    BY <1>b, <2>1
  <2> QED BY <2>1, <2>2, <2>3, OwnersStayInCall
<1>3. CASE NewThreadFails(c)
  <2>1. /\ caller[c].at = "spawn" /\ PutReturns(c)
        /\ UNCHANGED <<mThreads, toShutdown, asked, worker>>
    BY <1>3 DEF NewThreadFails, At, poolVars, workerVars
  <2> QED BY <1>a, <1>b, <2>1
<1>4. CASE SyncReturns(c) \/ ShutdownReturns(c)
  <2>1. /\ caller[c].at \in {"sync", "shutdown"} /\ caller' = [caller EXCEPT ![c] = NoCall]
        /\ caller[c].at = "shutdown" => caller[c].list = {}
        /\ UNCHANGED <<mThreads, toShutdown, asked, worker>>
    BY <1>4 DEF SyncReturns, ShutdownReturns, Return, At, poolVars, workerVars
  <2>2. caller[c].list = {}
    BY <1>0, <2>1 DEF ListsAreOfShutdown
  <2> QED BY <1>0, <1>a, <2>1, <2>2 DEF NoCall
<1>5. CASE StartThread(c) \/ KillReturns(c)
  <2> DEFINE r == IF caller[c].sync THEN [caller[c] EXCEPT !.at = "sync", !.thread = None]
                                    ELSE NoCall
  <2>1. caller[c].at \in {"start", "kill"} /\ UNCHANGED <<mThreads, toShutdown, asked>>
    BY <1>5 DEF StartThread, KillReturns, At, poolVars
  <2>2. caller[c].list = {}
    BY <1>0, <2>1 DEF ListsAreOfShutdown
  <2>3. r \in Call /\ r.at \in {"sync", "idle"} /\ r.list = caller[c].list
    BY <1>0, <2>2 DEF Call, NoCall
  <2>4. caller' = [caller EXCEPT ![c] = r]
    BY <1>0, <1>5 DEF StartThread, KillReturns
  <2>5. \A t \in Threads : worker'[t] # "none" => worker[t] # "none"
    <3>1. CASE KillReturns(c)
      BY <3>1 DEF KillReturns, workerVars
    <3>2. CASE StartThread(c)
      BY <1>0, <3>2 DEF StartThread, TypeOK
    <3> QED BY <1>5, <3>1, <3>2
  <2> HIDE DEF r
  <2> QED BY <2>1, <2>2, <2>3, <2>4, <2>5, OwnersStayInCall
<1>6. CASE JoinReturns(c)
  <2> DEFINE r == [caller[c] EXCEPT !.at = "shutdown", !.thread = None]
  <2>1. r \in Call /\ r.at = "shutdown" /\ r.list = caller[c].list
    BY <1>0 DEF Call
  <2>2. caller' = [caller EXCEPT ![c] = r]
    BY <1>0, <1>6 DEF JoinReturns
  <2>3. caller[c].at = "join" /\ UNCHANGED <<mThreads, toShutdown, asked, worker>>
    BY <1>6 DEF JoinReturns, At, poolVars, workerVars
  <2> HIDE DEF r
  <2> QED BY <1>a, <2>1, <2>2, <2>3
\* Calls that hand a thread on.
<1>7. CASE NewThread(c)
  <2>1. PICK t \in Threads :
          /\ Fresh(t)
          /\ worker' = [worker EXCEPT ![t] = "new"]
          /\ asked' = asked \ {t}
          /\ caller' = [caller EXCEPT ![c].at = "append", ![c].thread = t]
    BY <1>7 DEF NewThread
  <2>2. /\ \A d \in Callers : d # c => caller'[d] = caller[d]
        /\ caller'[c].at = "append" /\ caller'[c].thread = t
        /\ caller'[c].list = caller[c].list
    BY <1>0, <2>1 DEF Call
  <2>3. UNCHANGED <<mThreads, toShutdown>> /\ caller[c].at = "spawn"
    BY <1>7 DEF NewThread, At, poolVars
  <2>4. caller[c].list = {}
    BY <1>0, <2>3 DEF ListsAreOfShutdown
  <2>5. /\ t \notin mThreads \cup toShutdown
        /\ \A d \in Callers : caller[d].thread # t /\ t \notin caller[d].list
    BY <2>1 DEF Fresh
  <2>6. \A d \in Callers, u \in Threads :
          Holds(d, u)' <=> (d = c /\ u = t) \/ Holds(d, u)
    BY <2>2, <2>3, <2>4 DEF Holds
  <2>7. \A d \in Callers, u \in Threads : Holds(d, u) => u # t
    BY <2>5 DEF Holds
  <2>8. OwnersAreDisjoint'
    <3>1. \A d \in Callers : ~ Holds(d, t)
      BY <2>7
    <3>2. ASSUME NEW d \in Callers, NEW u \in Threads, Holds(d, u)'
          PROVE  /\ u \notin mThreads' \cup toShutdown' \cup asked'
                 /\ \A e \in Callers : Holds(e, u)' => e = d
      BY <1>0, <2>1, <2>3, <2>5, <2>6, <3>1, <3>2 DEF OwnersAreDisjoint
    <3> QED BY <1>0, <2>1, <2>3, <3>2 DEF OwnersAreDisjoint
  <2>9. ThreadsAreOwned'
    <3>1. Holds(c, t)'
      BY <2>6
    <3>2. ASSUME NEW u \in Threads, u # t, worker'[u] # "none"
          PROVE  \/ u \in mThreads' \cup toShutdown' \cup asked'
                 \/ \E d \in Callers : Holds(d, u)'
      <4>1. worker[u] # "none"
        BY <1>0, <2>1, <3>2 DEF TypeOK
      <4> QED BY <1>0, <2>1, <2>3, <2>6, <3>2, <4>1 DEF ThreadsAreOwned
    <3> QED BY <3>1, <3>2 DEF ThreadsAreOwned
  <2>10. ListsAreOfShutdown'
    BY <1>0, <2>2, <2>4 DEF ListsAreOfShutdown
  <2> QED BY <2>8, <2>9, <2>10 DEF OwnersInv
<1>8. CASE AppendThread(c)
  <2> DEFINE t == caller[c].thread
  <2>1. /\ caller[c].at = "append" /\ UNCHANGED <<worker, toShutdown>>
        /\ \/ mThreads' = mThreads \cup {t} /\ asked' = asked /\ Go(c, "start")
           \/ mThreads' = mThreads /\ asked' = asked \cup {t} /\ Go(c, "kill")
    BY <1>8 DEF AppendThread, At, workerVars
  <2>2. t \in Threads /\ Holds(c, t) /\ caller[c].list = {}
    BY <1>0, <2>1 DEF Holds, CallsHaveTheirs, ListsAreOfShutdown
  <2>3. /\ \A d \in Callers : d # c => caller'[d] = caller[d]
        /\ caller'[c].at \in {"start", "kill"} /\ caller'[c].list = {}
    BY <1>0, <2>1, <2>2 DEF Go, Call
  <2>4. \A d \in Callers, u \in Threads : Holds(d, u)' <=> d # c /\ Holds(d, u)
    BY <2>3 DEF Holds
  <2>5. \A u \in Threads : Holds(c, u) => u = t
    BY <2>2 DEF Holds
  <2>6. t \notin mThreads \cup toShutdown \cup asked /\ \A d \in Callers : Holds(d, t) => d = c
    BY <1>0, <2>2 DEF OwnersAreDisjoint
  <2> HIDE DEF t
  <2>7. OwnersAreDisjoint'
    BY <1>0, <2>1, <2>2, <2>4, <2>6 DEF OwnersAreDisjoint
  <2>8. ThreadsAreOwned'
    BY <1>0, <2>1, <2>4, <2>5 DEF ThreadsAreOwned
  <2>9. ListsAreOfShutdown'
    BY <1>0, <2>3 DEF ListsAreOfShutdown
  <2> QED BY <2>7, <2>8, <2>9 DEF OwnersInv
<1>9. CASE Shutdown(c)
  <2>1. /\ caller[c].at = "idle" /\ mThreads' = {} /\ UNCHANGED <<toShutdown, asked>>
        /\ worker' = Woken
        /\ caller' = [caller EXCEPT ![c].at = "shutdown", ![c].list = mThreads]
    BY <1>9 DEF Shutdown, At
  <2>2. caller[c].list = {}
    BY <1>0, <2>1 DEF ListsAreOfShutdown
  <2>3. /\ \A d \in Callers : d # c => caller'[d] = caller[d]
        /\ caller'[c].at = "shutdown" /\ caller'[c].list = mThreads
    BY <1>0, <2>1 DEF Call
  <2>4. \A d \in Callers, u \in Threads :
          Holds(d, u)' <=> (d = c /\ u \in mThreads) \/ Holds(d, u)
    BY <2>1, <2>2, <2>3 DEF Holds
  <2>5. \A u \in Threads : worker'[u] # "none" => worker[u] # "none"
    BY <1>0, <2>1, WokenWakes
  <2>6. OwnersAreDisjoint'
    BY <1>0, <2>1, <2>4 DEF OwnersAreDisjoint
  <2>7. ThreadsAreOwned'
    BY <1>0, <2>1, <2>4, <2>5 DEF ThreadsAreOwned
  <2>8. ListsAreOfShutdown'
    BY <1>0, <2>3 DEF ListsAreOfShutdown
  <2> QED BY <2>6, <2>7, <2>8 DEF OwnersInv
<1>10. CASE ShutdownNext(c)
  <2>1. PICK t \in caller[c].list :
          /\ asked' = asked \cup {t}
          /\ caller' = [caller EXCEPT ![c].at = "join", ![c].thread = t,
                                      ![c].list = @ \ {t}]
    BY <1>10 DEF ShutdownNext
  <2>2. caller[c].at = "shutdown" /\ UNCHANGED <<mThreads, toShutdown, worker>>
    BY <1>10 DEF ShutdownNext, At, poolVars, workerVars
  <2>3. t \in Threads /\ Holds(c, t)
    BY <1>0, <2>1 DEF Call, Holds
  <2>4. /\ \A d \in Callers : d # c => caller'[d] = caller[d]
        /\ caller'[c].at = "join" /\ caller'[c].list = caller[c].list \ {t}
    BY <1>0, <2>1 DEF Call
  <2>5. \A d \in Callers, u \in Threads :
          Holds(d, u)' <=> Holds(d, u) /\ ~ (d = c /\ u = t)
    BY <2>2, <2>4 DEF Holds
  <2>6. t \notin mThreads \cup toShutdown \cup asked /\ \A d \in Callers : Holds(d, t) => d = c
    BY <1>0, <2>3 DEF OwnersAreDisjoint
  <2>7. OwnersAreDisjoint'
    BY <1>0, <2>1, <2>2, <2>3, <2>5, <2>6 DEF OwnersAreDisjoint
  <2>8. ThreadsAreOwned'
    BY <1>0, <2>1, <2>2, <2>5 DEF ThreadsAreOwned
  <2>9. ListsAreOfShutdown'
    BY <1>0, <2>4 DEF ListsAreOfShutdown
  <2> QED BY <2>7, <2>8, <2>9 DEF OwnersInv
<1> QED
  BY <1>1, <1>2, <1>3, <1>4, <1>5, <1>6, <1>7, <1>8, <1>9, <1>10 DEF CallerStep

LEMMA OwnersInThreads ==
    ASSUME PoolInv, OwnersInv, NEW t \in Threads,
           WorkerStep(t) \/ WaitTimesOut(t) \/ ThreadStep(t)
    PROVE  OwnersInv'
<1>0. /\ TypeOK /\ OwnersAreDisjoint /\ ThreadsAreOwned /\ ListsAreOfShutdown
  BY DEF PoolInv, OwnersInv
<1>1. caller' = caller /\ \A c, u : Holds(c, u)' <=> Holds(c, u)
  BY DEF Holds, WorkerStep, WaitTimesOut, ThreadStep, TakeEvent, FinishEvent, Wait, Leave,
         MainShutsDown, Doom
<1>2. \A u \in Threads : worker'[u] # "none" => worker[u] # "none"
  BY <1>0 DEF WorkerStep, WaitTimesOut, ThreadStep, TakeEvent, FinishEvent, Wait, Leave,
              MainShutsDown, Doom, TypeOK, workerVars
<1>3. ListsAreOfShutdown'
  BY <1>0, <1>1 DEF ListsAreOfShutdown
<1>4. CASE Leave(t)
  <2>1. /\ mThreads' = mThreads \ {t} /\ asked' = asked
        /\ toShutdown' = toShutdown \cup (mThreads \cap {t})
    BY <1>4 DEF Leave, Removed
  <2>2. OwnersAreDisjoint'
    BY <1>0, <1>1, <2>1 DEF OwnersAreDisjoint
  <2>3. ThreadsAreOwned'
    BY <1>0, <1>1, <1>2, <2>1 DEF ThreadsAreOwned
  <2> QED BY <1>3, <2>2, <2>3 DEF OwnersInv
<1>5. CASE MainShutsDown(t)
  <2>1. /\ mThreads' = mThreads /\ t \in toShutdown
        /\ toShutdown' = toShutdown \ {t} /\ asked' = asked \cup {t}
    BY <1>5 DEF MainShutsDown, poolVars
  <2>2. OwnersAreDisjoint'
    BY <1>0, <1>1, <2>1 DEF OwnersAreDisjoint
  <2>3. ThreadsAreOwned'
    BY <1>0, <1>1, <1>2, <2>1 DEF ThreadsAreOwned
  <2> QED BY <1>3, <2>2, <2>3 DEF OwnersInv
<1>6. CASE TakeEvent(t) \/ FinishEvent(t) \/ Wait(t) \/ WaitTimesOut(t) \/ Doom(t)
  <2>1. UNCHANGED <<mThreads, asked, toShutdown>>
    BY <1>6 DEF TakeEvent, FinishEvent, Wait, WaitTimesOut, Doom, poolVars
  <2>2. OwnersAreDisjoint' /\ ThreadsAreOwned'
    BY <1>0, <1>1, <1>2, <2>1 DEF OwnersAreDisjoint, ThreadsAreOwned
  <2> QED BY <1>3, <2>2 DEF OwnersInv
<1> QED BY <1>4, <1>5, <1>6 DEF WorkerStep, ThreadStep

\* The invariant: whoever is to call Shutdown() on a thread is alone with it.
THEOREM OwnersInvariance == Spec => []OwnersInv
<1>1. Init => OwnersInv
  BY DEF Init, NoCall, OwnersInv, OwnersAreDisjoint, ThreadsAreOwned, ListsAreOfShutdown, Holds
<1>2. PoolInv /\ OwnersInv /\ [Next]_vars => OwnersInv'
  <2> SUFFICES ASSUME PoolInv, OwnersInv, [Next]_vars PROVE OwnersInv'
    OBVIOUS
  <2>1. CASE \/ \E value \in Limits : SetThreadLimit(value)
             \/ \E value \in IdleLimits : SetIdleThreadLimit(value)
    <3>1. UNCHANGED <<mThreads, toShutdown, asked, caller>> /\ worker' = Woken
      BY <2>1 DEF SetThreadLimit, SetIdleThreadLimit
    <3>2. \A t \in Threads : worker'[t] # "none" => worker[t] # "none"
      BY <3>1, WokenWakes DEF PoolInv
    <3>3. \A c \in Callers : caller[c].at \notin {"shutdown", "join"} => caller[c].list = {}
      BY DEF OwnersInv, ListsAreOfShutdown
    <3> QED BY <3>1, <3>2, <3>3, OwnersStay
  <2>2. CASE UNCHANGED vars
    BY <2>2 DEF vars, OwnersInv, OwnersAreDisjoint, ThreadsAreOwned, ListsAreOfShutdown, Holds
  <2> QED BY <2>1, <2>2, OwnersInCalls, OwnersInThreads DEF Next
<1> QED BY <1>1, <1>2, PoolInvariance, PTL DEF Spec

\* Shutdown() is called exactly once on each thread the pool has made: until it
\* is, one and only one of the pool, a call and the main thread is to do it,
\* however the workers' timeouts race with each other and with Shutdown().
THEOREM OwnersAreUnique == Spec => []EachThreadHasOneOwner
<1>1. OwnersInv => EachThreadHasOneOwner
  <2> SUFFICES ASSUME OwnersInv, NEW t \in Threads, worker[t] # "none"
               PROVE  \E o \in {"pool", "main", "asked"} \cup Callers :
                        /\ Owns(o, t)
                        /\ \A p \in {"pool", "main", "asked"} \cup Callers :
                             Owns(p, t) => p = o
    BY DEF EachThreadHasOneOwner
  <2> DEFINE Only(o) == /\ Owns(o, t)
                        /\ \A p \in {"pool", "main", "asked"} \cup Callers : Owns(p, t) => p = o
  <2>1. \A o : Owns(o, t) = ( \/ o = "pool" /\ t \in mThreads
                              \/ o = "main" /\ t \in toShutdown
                              \/ o = "asked" /\ t \in asked
                              \/ o \in Callers /\ Holds(o, t) )
    BY Zenon DEF Owns, Holds, At
  <2>2. CASE t \in mThreads
    <3>1. Only("pool")
      BY <2>1, <2>2 DEF OwnersInv, OwnersAreDisjoint
    <3> QED BY <3>1
  <2>3. CASE t \in toShutdown
    <3>1. Only("main")
      BY <2>1, <2>3 DEF OwnersInv, OwnersAreDisjoint
    <3> QED BY <3>1
  <2>4. CASE t \in asked
    <3>1. Only("asked")
      BY <2>1, <2>4 DEF OwnersInv, OwnersAreDisjoint
    <3> QED BY <3>1
  <2>5. ASSUME NEW c \in Callers, Holds(c, t)
        PROVE  Owns(c, t) /\ \A p \in {"pool", "main", "asked"} \cup Callers : Owns(p, t) => p = c
    BY <2>1, <2>5 DEF OwnersInv, OwnersAreDisjoint
  <2> QED BY <2>2, <2>3, <2>4, <2>5 DEF OwnersInv, ThreadsAreOwned
<1> QED BY <1>1, OwnersInvariance, PTL

(***************************************************************************)
(* Shutdown() waits for its threads.                                       *)
(***************************************************************************)

Gone(t) == worker[t] \in {"left", "doomed"}

Joins(c, t) == caller[c].at \in {"kill", "join"} /\ caller[c].thread = t

\* Whoever calls Shutdown() on a thread that has not ended waits for it; the
\* main thread, which does not wait, is given only threads that have.
JoinInv ==
    /\ \A t \in toShutdown : Gone(t)
    /\ \A t \in asked : Gone(t) \/ \E c \in Callers : Joins(c, t)

LEMMA JoinStays ==
    ASSUME JoinInv, toShutdown' = toShutdown, asked' \subseteq asked,
           \A t \in toShutdown \cup asked' : Gone(t) => Gone(t)',
           \A c \in Callers : \A t \in asked' : Joins(c, t) => Joins(c, t)' \/ Gone(t)'
    PROVE  JoinInv'
  BY DEF JoinInv

LEMMA JoinInCalls ==
    ASSUME PoolInv, JoinInv, NEW c \in Callers,
           Dispatch(c) \/ Shutdown(c) \/ CallerStep(c)
    PROVE  JoinInv'
<1>0. /\ TypeOK /\ CallsHaveTheirs /\ toShutdown \cup asked \subseteq Threads
      /\ caller \in [Callers -> Call] /\ caller[c] \in Call
  BY DEF PoolInv, TypeOK
<1>1. \A d \in Callers : d # c => caller'[d] = caller[d]
  BY <1>0 DEF Dispatch, Shutdown, CallerStep, PutEvent, NewThread, NewThreadFails,
              AppendThread, StartThread, KillReturns, SyncReturns, ShutdownNext,
              JoinReturns, ShutdownReturns, PutReturns, Go, Return
<1>2. \A d \in Callers, t \in Threads : d # c /\ Joins(d, t) => Joins(d, t)'
  BY <1>1 DEF Joins
<1>3. CASE caller[c].at \notin {"kill", "join", "append", "shutdown", "spawn"}
  <2>1. /\ UNCHANGED <<toShutdown, asked>>
        /\ worker' = worker \/ worker' = Woken
           \/ (\E t \in Threads : worker' = [worker EXCEPT ![t] = IF @ = "new" THEN "start" ELSE @])
    BY <1>0, <1>3 DEF Dispatch, Shutdown, CallerStep, PutEvent, NewThread, NewThreadFails,
              AppendThread, StartThread, KillReturns, SyncReturns, ShutdownNext,
              JoinReturns, ShutdownReturns, At, poolVars, workerVars, CallsHaveTheirs
  <2>2. \A t \in Threads : Gone(t) => Gone(t)'
    BY <1>0, <2>1, WokenWakes DEF Gone, TypeOK
  <2>3. \A t \in Threads : ~ Joins(c, t)
    BY <1>3 DEF Joins
  <2> QED BY <1>0, <1>2, <2>1, <2>2, <2>3, JoinStays
<1>4. CASE caller[c].at \in {"kill", "join"}
  <2>1. /\ UNCHANGED <<toShutdown, asked, worker>> /\ worker[caller[c].thread] = "doomed"
    BY <1>4 DEF Dispatch, Shutdown, CallerStep, PutEvent, NewThread, NewThreadFails,
              AppendThread, StartThread, KillReturns, SyncReturns, ShutdownNext,
              JoinReturns, ShutdownReturns, At, poolVars, workerVars
  <2>2. \A t \in Threads : (Gone(t) => Gone(t)') /\ (Joins(c, t) => Gone(t)')
    BY <2>1 DEF Gone, Joins
  <2> QED BY <1>0, <1>2, <2>1, <2>2, JoinStays
<1>5. CASE caller[c].at = "spawn"
  <2>1. CASE NewThreadFails(c)
    <3>1. UNCHANGED <<toShutdown, asked, worker>>
      BY <2>1 DEF NewThreadFails, workerVars
    <3>2. \A t \in Threads : (Gone(t) => Gone(t)') /\ ~ Joins(c, t)
      BY <1>5, <3>1 DEF Gone, Joins
    <3> QED BY <1>0, <1>2, <3>1, <3>2, JoinStays
  <2>2. CASE NewThread(c)
    <3>1. PICK t \in Threads : /\ Fresh(t) /\ worker' = [worker EXCEPT ![t] = "new"]
                              /\ asked' = asked \ {t} /\ toShutdown' = toShutdown
      BY <2>2 DEF NewThread
    <3>2. \A u \in Threads : /\ u # t /\ Gone(u) => Gone(u)'
                             /\ ~ Joins(c, u)
      BY <1>0, <1>5, <3>1 DEF Gone, Joins, TypeOK
    <3>3. t \notin toShutdown
      BY <3>1 DEF Fresh
    <3> QED BY <1>0, <1>2, <3>1, <3>2, <3>3, JoinStays
  <2> QED
    BY <1>5, <2>1, <2>2 DEF Dispatch, Shutdown, CallerStep, PutEvent, AppendThread,
              StartThread, KillReturns, SyncReturns, ShutdownNext, JoinReturns,
              ShutdownReturns, At
<1>6. CASE caller[c].at = "append"
  <2>1. AppendThread(c)
    BY <1>6 DEF Dispatch, Shutdown, CallerStep, PutEvent, NewThread, NewThreadFails,
              StartThread, KillReturns, SyncReturns, ShutdownNext, JoinReturns,
              ShutdownReturns, At
  <2>2. UNCHANGED <<toShutdown, worker>>
    BY <2>1 DEF AppendThread, workerVars
  <2>3. \A t \in Threads : (Gone(t) => Gone(t)') /\ ~ Joins(c, t)
    BY <1>6, <2>2 DEF Gone, Joins
  <2>4. CASE HasRoom
    <3>1. asked' = asked
      BY <2>1, <2>4 DEF AppendThread
    <3> QED BY <1>0, <1>2, <2>2, <2>3, <3>1, JoinStays
  <2>5. CASE ~ HasRoom
    <3>1. asked' = asked \cup {caller[c].thread} /\ Go(c, "kill")
      BY <2>1, <2>5 DEF AppendThread
    <3>2. caller'[c].at = "kill" /\ caller'[c].thread = caller[c].thread
      BY <1>0, <3>1 DEF Go, Call
    <3>3. \A t : t = caller[c].thread => Joins(c, t)'
      BY <3>2 DEF Joins
    <3> QED BY <1>0, <1>2, <2>2, <2>3, <3>1, <3>3 DEF JoinInv
  <2> QED BY <2>4, <2>5
<1>7. CASE caller[c].at = "shutdown"
  <2>1. CASE ShutdownReturns(c)
    <3>1. UNCHANGED <<toShutdown, asked, worker>>
      BY <2>1 DEF ShutdownReturns, workerVars
    <3>2. \A t \in Threads : (Gone(t) => Gone(t)') /\ ~ Joins(c, t)
      BY <1>7, <3>1 DEF Gone, Joins
    <3> QED BY <1>0, <1>2, <3>1, <3>2, JoinStays
  <2>2. CASE ShutdownNext(c)
    <3>1. PICK t \in caller[c].list :
            /\ asked' = asked \cup {t} /\ UNCHANGED <<toShutdown, worker>>
            /\ caller' = [caller EXCEPT ![c].at = "join", ![c].thread = t, ![c].list = @ \ {t}]
      BY <2>2 DEF ShutdownNext, workerVars
    <3>2. Joins(c, t)'
      BY <1>0, <3>1 DEF Joins, Call
    <3>3. \A u \in Threads : (Gone(u) => Gone(u)') /\ ~ Joins(c, u)
      BY <1>7, <3>1 DEF Gone, Joins
    <3> QED BY <1>0, <1>2, <3>1, <3>2, <3>3 DEF JoinInv
  <2> QED
    BY <1>7, <2>1, <2>2 DEF Dispatch, Shutdown, CallerStep, PutEvent, NewThread,
              NewThreadFails, AppendThread, StartThread, KillReturns, SyncReturns,
              JoinReturns, At
<1> QED BY <1>3, <1>4, <1>5, <1>6, <1>7

LEMMA JoinInThreads ==
    ASSUME PoolInv, JoinInv, NEW t \in Threads,
           WorkerStep(t) \/ WaitTimesOut(t) \/ ThreadStep(t)
    PROVE  JoinInv'
<1>0. TypeOK /\ toShutdown \cup asked \subseteq Threads
  BY DEF PoolInv, TypeOK
<1>1. \A c, u : Joins(c, u)' <=> Joins(c, u)
  BY DEF Joins, WorkerStep, WaitTimesOut, ThreadStep, TakeEvent, FinishEvent, Wait, Leave,
         MainShutsDown, Doom
<1>2. \A u \in Threads : Gone(u) => Gone(u)'
  BY <1>0 DEF Gone, WorkerStep, WaitTimesOut, ThreadStep, TakeEvent, FinishEvent, Wait,
              Leave, MainShutsDown, Doom, TypeOK, workerVars
<1>3. CASE Leave(t)
  <2>1. Gone(t)' /\ asked' = asked /\ toShutdown' \subseteq toShutdown \cup {t}
    BY <1>0, <1>3 DEF Leave, Removed, Gone, TypeOK
  <2> QED BY <1>0, <1>1, <1>2, <2>1 DEF JoinInv
<1>4. CASE MainShutsDown(t)
  <2>1. t \in toShutdown /\ toShutdown' = toShutdown \ {t} /\ asked' = asked \cup {t}
    BY <1>4 DEF MainShutsDown
  <2> QED BY <1>0, <1>1, <1>2, <2>1 DEF JoinInv
<1>5. CASE TakeEvent(t) \/ FinishEvent(t) \/ Wait(t) \/ WaitTimesOut(t) \/ Doom(t)
  <2>1. UNCHANGED <<asked, toShutdown>>
    BY <1>5 DEF TakeEvent, FinishEvent, Wait, WaitTimesOut, Doom
  <2> QED BY <1>0, <1>1, <1>2, <2>1 DEF JoinInv
<1> QED BY <1>3, <1>4, <1>5 DEF WorkerStep, ThreadStep

\* "When this function returns, the thread pool and all of its threads will be
\* shutdown": when the calls have returned, the threads that still work are
\* those appended since, by a Dispatch() that tested mShutdown before.
THEOREM ShutdownIsJoined == Spec => []ShutdownJoins
<1>1. Init => JoinInv
  BY DEF Init, JoinInv
<1>2. PoolInv /\ JoinInv /\ [Next]_vars => JoinInv'
  <2> SUFFICES ASSUME PoolInv, JoinInv, [Next]_vars PROVE JoinInv'
    OBVIOUS
  <2>1. CASE \/ \E value \in Limits : SetThreadLimit(value)
             \/ \E value \in IdleLimits : SetIdleThreadLimit(value)
    <3>1. UNCHANGED <<toShutdown, asked, caller>> /\ worker' = Woken
      BY <2>1 DEF SetThreadLimit, SetIdleThreadLimit
    <3>2. toShutdown \cup asked \subseteq Threads
      BY DEF PoolInv, TypeOK
    <3>3. \A t \in Threads : Gone(t) => Gone(t)'
      BY <3>1, WokenWakes DEF PoolInv, Gone
    <3>4. \A c, t : Joins(c, t) => Joins(c, t)'
      BY <3>1 DEF Joins
    <3> QED BY <3>1, <3>2, <3>3, <3>4, JoinStays
  <2>2. CASE UNCHANGED vars
    BY <2>2 DEF vars, JoinInv, Gone, Joins
  <2> QED BY <2>1, <2>2, JoinInCalls, JoinInThreads DEF Next
<1>3. OwnersInv /\ JoinInv => ShutdownJoins
  <2> SUFFICES ASSUME OwnersInv, JoinInv, \A c \in Callers : At(c, "idle") \/ At(c, "sync"),
                      NEW t \in Threads, Live(t)
               PROVE  t \in mThreads
    BY DEF ShutdownJoins
  <2>1. \A c \in Callers : ~ Holds(c, t) /\ ~ Joins(c, t)
    BY DEF OwnersInv, ListsAreOfShutdown, Holds, Joins, At
  <2>2. worker[t] # "none" /\ ~ Gone(t)
    BY DEF Live, Gone
  <2> QED BY <2>1, <2>2 DEF OwnersInv, ThreadsAreOwned, JoinInv
<1> QED BY <1>1, <1>2, <1>3, PoolInvariance, OwnersInvariance, PTL DEF Spec
=============================================================================
