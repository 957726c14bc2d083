# Specifications of BlueGriffon's undo machinery, threads and FTP client

This directory holds TLA+ specifications of the parts of the BlueGriffon source
package (`debian/` and `mozilla-2.0/`, the Gecko 14 tree with
`mozilla-2.0/bluegriffon`) whose correctness is hard to see from tests, the TLC
configurations that check them, and theorems about them proved with TLAPS.
`PROJECT.json` lists components, runs, mutants, the lines every definition
stands for, findings, hazards and theorems; this file explains them.

    tlc -workers 2 -config TxRecovers.cfg MCTransactionManagerHistory
    tlapm ThreadPoolProofs.tla

Paths below are relative to `mozilla-2.0/`.

## 1. Inventory

BlueGriffon is an HTML editor: a XUL application (JavaScript) around Gecko's
HTML editor (C++). What is BlueGriffon's own is user interface and small
modules; the logic that must not go wrong, because it holds the user's
document, is the undo machinery below it. It runs on one thread but is entered
again and again from its own callbacks. The concurrent code of the program is
in XPCOM's threads and timers, and its distributed part is the FTP client with
which documents are published.

| Component | State | Operations | Interacts with | Hard | Correct when |
|---|---|---|---|---|---|
| **Transaction manager** `editor/txmgr/src` | undo, redo and do stacks of items, each item with an undo and redo stack of children; the limit | do, undo, redo, begin/end batch, clear, set limit | calls transactions and listeners in the middle of every operation, which may call it again | reentrancy; failure of a callback half way through a tree; recovery that may fail itself | each item in one place; a failed undo or redo changes nothing; what clients see is a linear history |
| **Editor: transactions and placeholders** `editor/libeditor/base/nsEditor.cpp`, `PlaceholderTxn.cpp`, `EditAggregateTxn.cpp` | depth of the placeholder batch, a weak reference to the placeholder, the selection saved; per placeholder: absorbing, committed, start and end selection | do, begin/end transaction, begin/end placeholder, undo(n), redo(n), enable undo, end composition | the manager (do, merge, peek); observers notified at the end | which placeholder takes the next transaction, over merges, undos and nesting | one batch is one undo; no edit is swallowed by a batch it does not belong to |
| **Editor: modification count** `nsEditor.cpp` (`mModCount`) | a signed counter | increment per do, redo; decrement per undo; reset when saved | BlueGriffon asks it before closing | counts transactions, while undo takes back units; below zero after a save | zero exactly when the document is as saved |
| **Thread pool** `xpcom/threads/nsThreadPool.cpp` | queue, threads, idle count, two limits, shutdown flag; per worker `wasIdle` and `idleSince` | dispatch (also synchronous), set limits, shutdown; the workers' `Run` | nsThread (dispatch, shutdown), main thread (joins workers that end) | decisions under the monitor, actions outside it; shutdown against dispatch | counts exact; no lost wakeup; every event run; each thread joined once |
| **Event queue** `xpcom/threads/nsEventQueue.cpp` | pages of events, a monitor | put, get | pool, threads | wait against notify | as part of the pool |
| **Threads** `xpcom/threads/nsThread.cpp`, `nsThreadManager.cpp` | per thread: event queue, `mEventsAreDoomed`, shutdown context, `mShutdownRequired`; the manager's table of threads, `mInitialized` | dispatch (also synchronous), process next event (nested), new thread, shutdown, shutdown of all | each other: a synchronous dispatch and a shutdown run the caller's loop | dispatch against the end of the thread; nested loops; a context on the caller's stack | an accepted event is run, calls return, no context is used after its call, no thread is left |
| **Timers** `xpcom/threads/nsTimerImpl.cpp`, `TimerThread.cpp` | sorted list of timers; per timer: generation, armed, canceled, firing, callback type | init, cancel, set delay, fire; the timer thread's loop | timer thread, target thread's queue | a stale event against re-initialization; re-arming against cancelling | no callback after cancel or of an older initialization |
| **Pipes** `xpcom/io/nsPipe3.cpp` | segmented buffer, read and write cursor, blocked flags, callbacks | read, write, close, async wait | two threads | full and empty boundaries, notify outside the monitor | bytes in order, nobody blocked for ever |
| **FTP client** `bluegriffon/modules/fireFtp.jsm` | command queue, state of the connection, listings, timers | connect, issue commands, replies, retry, abort | sockets, observers | reply matched to the head of the queue, timeouts and reconnection | every command answered once, in order |
| **BlueGriffon transactions** `bluegriffon/base/content/bluegriffon/txns`, `dialogs` | a few nodes each | do, undo, redo | call the manager directly, past the editor | not counted, not in placeholders | undo restores the document |
| **BlueGriffon modules** `bluegriffon/modules/*.jsm` | tables of projects, of files watched | add, remove, poll, quit | file system, windows | short and sequential | |
| **DOM transactions and HTML rules** `editor/libeditor/{base,text,html}` | the DOM and the selection | insert, delete, split, join, apply style | layout, manager | | undo is the inverse of do |
| **User interface**, **Gecko below**, **Debian packaging** | | | | | out of scope, see section 8 |

What is hard to test in this code, line by line, is the list `hazards` of
`PROJECT.json`, with the properties that would catch each going wrong.

## 2. Modules

| Module | Stands for |
|---|---|
| `UndoHistory` | abstract: a document, the units that can be undone and redone, the work of an open batch; each call atomic |
| `TransactionManager` | the manager as a machine with an explicit C++ call stack |
| `TransactionManagerHistory` | the mapping from `TransactionManager` to `UndoHistory` |
| `TransactionManagerProofs` | theorems about `TransactionManager`: its stacks, its calls in progress, and the document |
| `EditorTransactions` | the editor's placeholders and batches over a manager whose calls are atomic |
| `EditorTransactionsHistory` | the mapping from `EditorTransactions` to `UndoHistory` |
| `EditorModification` | `mModCount` and saving, over `EditorTransactions` |
| `EditorProofs` | theorems about `EditorTransactions`, that it implements `UndoHistory`, and about `EditorModification` |
| `ThreadPool` | callers, workers and the owner of one pool |
| `ThreadPoolProofs` | theorems about `ThreadPool` |
| `Threads` | threads with their event loops, the calls nested in them, the thread manager |
| `ThreadsProofs` | theorems about `Threads` |
| `Timers` | a client on the target thread, the timer thread and its list, the events between them |
| `TimersProofs` | theorems about `Timers` |
| `FtpClient` | the object `ftpMozilla`, its timers and sockets, the server and the network |
| `FtpClientProofs` | theorems about `FtpClient`: its types, the dialogue with the server, its reports |
| `FtpContextProofs` | the theorem about where `FtpClient` has requests carried out |
| `SequenceFacts` | lemmas about sequences and `FlattenSeq` that several proofs use |
| `MC...` | values of `CONSTANTS` for TLC |

They compose in two ways. `TransactionManager` implements `UndoHistory`, which
is what entitles `EditorTransactions` to treat each call of the manager as one
step; `EditorTransactions` implements `UndoHistory` in turn, with placeholders
and merges hidden. `EditorModification` extends `EditorTransactions` with the
counter and conjoins to each of its actions what that action does to it.
`ThreadPool`, `Threads`, `Timers` and `FtpClient` stand alone. None of them calls the
undo machinery. What `ThreadPool` and `Timers` take of a thread (it accepts events
until it closes its queue, runs what it has accepted, and can be joined after that)
is what `Threads` shows of it; `FtpClient` uses one-shot timers.

### TransactionManager

One thread runs the manager, but each operation runs foreign code in its
middle. The state therefore holds the call stack (`calls`, a sequence of
frames) and one step is the code between two calls of foreign code:

| Definitions | Code |
|---|---|
| `Push`, `Pop`, `PopBottom`, `Clear`, `Peek`, `Prune`, `PopPush` | `nsTransactionStack`, and the loops that call it |
| `DoTransaction`, `BodyReturns`, `DoReturns`, `DoFails`, `EndTransaction` | `DoTransaction`, `BeginTransaction`, `EndTransaction` of `nsTransactionManager`: when a `doTransaction()` returns, the manager pops whatever is on top of the do stack |
| `Dropped`, `DropResults`, `Kept`, `Overflows` | the early returns of `EndTransaction`, with a `GetIsTransient` that fails, and its limit |
| `BeginBatch`, `EndBatch`, `ClearHistory`, `SetMaxTransactionCount` | the methods of these names (`Clear`) |
| `UndoOrRedo` | `UndoTransaction`, `RedoTransaction` of the manager up to the call of the item |
| `KidsEnd`, `KidsVetoed`, `KidsCall`, `KidsMove` | the loops of `UndoChildren`, `RedoChildren`; the manager's pop and push after the item has returned is that loop run once |
| `UndoItem...`, `RedoItem...`, `RecoverFrom...` | `nsTransactionItem::UndoTransaction`, `RedoTransaction`, `RecoverFromUndoError`, `RecoverFromRedoError` |
| `Vetoed`, `DidNotify` | the `Will...Notify` and `Did...Notify` of listeners |

`stack` holds all stacks, those of the manager under holder 0 and those of item
`i` under holder `i`. `doc`, `own` and `before` are the document as the sequence
of effects in force, and what each transaction takes back: they let properties
speak of what undo is for. `Env` names what clients and listeners may do; a run
or a theorem says which of it it allows. Of what the manager cannot check,
clients are assumed to behave: a transaction has its effect before those nested
in it, fails only without an effect, and merges only childless transactions.
That it closes the batches it opens is assumed where "openBatch" is not in `Env`:
with it, its code may leave one open, or a listener interrupt its `EndBatch`.
Transient transactions have no undoable effect.

### EditorTransactions and EditorModification

`hist` is the manager: `past` and `future` units, `open` batches, and `on`.
`ed` holds `mPlaceHolderBatch` (`depth`), `mPlaceHolderTxn` (`ref`; an index that
stays when the placeholder has gone, as the weak reference does),
`mPlaceHolderName`, `mSelState`, and whether `NotifyEditorObservers` is running.
`DoTransaction` is the whole method: it makes a placeholder if one is needed,
does it, looks at the top of the undo stack to learn which placeholder to
remember, then does the transaction. `Absorbs` and `Resumes` are the two
branches of `PlaceholderTxn::Merge`. `Edit` is a transaction of the editor's own
classes (`EditTxn`), `ScriptEdit` one of JavaScript given to `editor.doTransaction`
(it is not merged), `DirectEdit` one given to `editor.transactionManager`, as
BlueGriffon's dialogs do. Edits by observers, and placeholder batches they open,
are the same actions taken while `notifying`.

`EditorModification` conjoins `DoAfterDoTransaction` and its companions.
`Increment(1)` after a `DirectEdit` is the script that calls
`incrementModificationCount`, `Increment(0)` the one that does not.

### ThreadPool

The code under one hold of the monitor is one step, everything between two
holds may interleave. `worker[t]` says where a thread is, `caller[c]` which call
is in progress and how far it is.

| Definitions | Code |
|---|---|
| `Dispatch`, `PutEvent`, `NewThread`, `NewThreadFails`, `AppendThread`, `StartThread`, `KillReturns`, `SyncReturns` | `Dispatch` and `PutEvent`, cut where the monitor is released; `KillReturns` is the `thread->Shutdown()` of a thread made in excess |
| `TakeEvent`, `FinishEvent`, `Wait`, `WaitTimesOut`, `Leave`, `Exits` | the loop of `Run`, and `ShutdownThread` |
| `Shutdown`, `ShutdownNext`, `JoinReturns`, `ShutdownReturns` | `Shutdown` |
| `SetThreadLimit`, `SetIdleThreadLimit` | the setters |
| `MainShutsDown`, `Doom`, `Fresh` | external: the main thread's event, the end of an nsThread, its creation |

Times are left out: a wait may end whenever, and the idle timeout is compared
with either outcome. The listener is left out; it is called without the monitor
and its results are ignored.

### Threads

`pc[t]` is the place of a thread in `ThreadFunc` (of `Main`: in the application's loop
or the manager's `Shutdown`), `frames[t]` the calls on its stack above that: events of
clients, synchronous events, and the calls that wait, each with what it does next. A
step is what a thread does between two looks at what others change: its queue,
`mSyncTask`, the manager's table.

| Definitions | Code |
|---|---|
| `Register`, `Startup`, `LoopRuns`, `LoopEnds`, `LastTest`, `RestRuns`, `RestIsEmpty`, `Unregister`, `SendAck`, `ThreadEnds` | `nsThread::ThreadFunc`; `LastTest` is the test of the queue and its closing under one lock |
| `RunFirst` | `ProcessNextEvent`, with the `Run()` of the events of `Shutdown` and of a reply |
| `Put`, `Dispatch`, `DispatchSync`, `TaskReturns`, `TaskReplies` | `PutEvent`, `Dispatch`, `nsThreadSyncDispatch::Run` |
| `NewThread`, `NewThreadReturns` | `nsThreadManager::NewThread`, `nsThread::Init` |
| `BeginsShutdown`, `Shutdown`, `Joins` | `nsThread::Shutdown` |
| `Tests`, `WaitingRuns`, `WaitingSpins` | the loops in which `Shutdown` and a synchronous `Dispatch` wait; a thread that is shutting down does not sleep in them |
| `ManagerShutdown`, `PendingRuns`, `Gathers`, `ShutsOneDown`, `AllAreDown`, `ManagerIsDown` | `nsThreadManager::Shutdown` |

`context[w]` stands for the address `mShutdownContext` by the thread whose stack it
lies on. `late` are the threads that have not registered when the manager takes its
table, which it therefore does not know. Clients are the code in events: they
dispatch each event once, make threads and shut them down. `Env` says who may do so:
in the run threads make each other, and are shut down by whoever made them or by the
main thread; the proofs allow everything. A dispatch that is refused changes
nothing and needs no action.

### Timers

As in `ThreadPool`, what happens in one hold of the timer thread's monitor, or
between two, is one step. `timer[t]` holds the members of an `nsTimerImpl`,
`thread` the place of the timer thread in `Run` and its locals, `queue` the
events on their way to the target thread, `stack` the callbacks in progress
there, one within another when a callback runs an event loop.

| Definitions | Code |
|---|---|
| `InitTimer`, `InitFails`, `Cancel`, `SetDelay`, with `AddTimer`, `TimerDelayChanged` for what they do later under the monitor | `nsTimerImpl` |
| `Insert`, `Place`, `Notified`, `Awakened` | the list of the timer thread, and when it is woken |
| `TakeFirst`, `WaitForFirst`, `Sleep`, `WakeUp`, `Ends` | `TimerThread::Run` |
| `TimeLeft`, `UpdateFilter` | `mTimeoutAdjustment`, which `Fire` sets and `Run` and `AddTimerInternal` add to timeouts |
| `Shutdown`, `ShutdownReturns` | `TimerThread::Shutdown`, and `nsTimerImpl::Shutdown`, which releases `gThread`: a later `Init` fails |
| `NewTimerEvent`, `Arm`, `Rearm`, `DispatchEvent` | `PostTimerEvent`, cut where it takes the monitor or calls out |
| `DropEvent`, `Fire`, `Restores`, `Again`, `FireEnds` | `nsTimerEvent::Run` and `Fire`, cut at the callback |
| `Tick`, `RunsEvents` | external: the clock, the event loop of the target thread |

Time is relative: a timeout is the time left, and `Tick` takes one off all. The
filter of `UpdateFilter` makes timers fire early to be "on time", or late; it is
an average of the last times measured, and in the model may choose any
`mTimeoutAdjustment` between `- MaxAdjustment` and `MaxAdjustment`, which stands
for 1.5 `FILTER_FEEDBACK_MAX`. The rounding of waits to whole milliseconds is left out.
`wanted` records what the client has asked of a timer, and `raced` the timers
that a call has used while the timer thread held them off its list (`Races`), or
whose timeout the timer thread has read while `SetDelay` was changing it, to wait
for it (`ReadsInCall`) or to find the place of a timer which it arms
(`ComparesInCall`): for those the code promises less, and the properties that
leave them out say so.

### FtpClient

All code of the client runs on one thread, so that each call from outside (the
user, a socket's listener, a timer) is one action on the record `ftp`, put
together from operators that stand for the functions: `ReadControl` is
`readControl`, with one operator per kind of command answered, `WriteControl` is
`writeControl`, `RecoverFromDisaster` is `recoverFromDisaster`, and so on.

| Definitions | Code |
|---|---|
| `Ask` with `Commands` | `changeWorkingDirectory`, `makeDirectory`, `remove`, `rename`, `list`, `download`, `upload` |
| `Connect`, `Cancel`, `Abort`, `Disconnect` | the methods of these names |
| `KeepAlive`, `CheckTimeout`, `CheckDataTimeout`, `PollAgain`, `Reconnect` | what `setTimeout` calls |
| `OnDataAvailable`, `StopRequest` | the listener of the control socket |
| `DataMoves`, `DataFinishes` | the data socket: `dataListener`, `progressEventSink` |
| `Accept`, `Execute` and its parts, `TransferEnds` | external: a server as the client expects it |

`ftp.sent` are commands written and not yet carried out, `replies` what the
server has written and the client has not read; the server carries commands out
one by one, and a reply of a transfer (begin, end) comes when it likes with
respect to the data. A file has two blocks; an interrupted transfer leaves one,
so that a wrong offset shows in its contents. A second of silence is not
distinguished from thirty: a timeout in force may pass whenever the condition in
its handler holds, and stands for a connection that died. What each request asks
for is in `asked`, what the server has carried out, where and in which mode, in
`executed`. Of the settings, the defaults are modelled (`passiveMode`,
`reconnectMode`, `keepAliveMode`; `fileMode` as for binary files); `MODE` is left
out, since it is always needless without compression.

`Env` names what else may happen. What it leaves out in the runs is where the
code breaks the properties; section 7 says how.

## 3. What the runs check

The properties were chosen for the hazards listed in `PROJECT.json`; each has a
mutant of a mapped definition, a plausible slip in the code, that violates it.

| Run | Bounds | Shows |
|---|---|---|
| `TxStructure` | 3 items, do stack 3, call stack 9, every fault but `reenter`, batches left open included; limits -2, 0, 1, 2 | whatever fails: `OneHolder`, `WithinMaxCount`, `PopsWhatItPeeked`, `OnlyOpenBatchesStrand`; under `FairSpec` every call returns |
| `TxRecovers` | 4 items, do stack 3, call stack 9; failing do, undo and redo, merges, vetoes; batches are closed | `ChildrenUndoneFirst`, `InContext`, `FailureRecovers`, and the implementation of `UndoHistory` |
| `EdHistory` | 2 effects, 2 placeholders, 2 placeholder batches within each other, one batch, undo by 1 and 2, everything in `EnvKinds` | `OneUndoPerBatch`, `AbsorbersClosed`, and the implementation of `UndoHistory` |
| `EdCount` | 3 effects, 2 placeholders, 2 placeholder batches within each other, one batch, saving at any time | `CountIsExact` |
| `PoolRaces` | 2 calls in progress, 4 threads, 3 events, limit 2 lowered to 1, shutdown, synchronous dispatch, `NewThread` fails | `CountsIdleWorkers`, `WorkersWithinLimit`, `EachThreadHasOneOwner`, `ShutdownJoins` |
| `PoolServes` | 2 calls, 3 threads, 1 event in the pool at a time, idle limit 1 lowered to 0, shutdown, synchronous dispatch | under `FairSpec`: `EveryEventRuns`, `CallsReturn`, `WorkersEnd`; and `ServedUntilShutdown` |
| `PoolStrands` | 2 calls, 3 threads, 2 events, shutdown | finding, see section 7 |
| `ThreadsEnd` | the main thread and 2 others, 2 events, threads make each other, shutdown by hand and by the manager | under `FairSpec`: `EveryEventRuns`, `CallsReturn`; and `ContextIsAlive`, `NoBackgroundThreads` |
| `TimersList` | 2 timers (one-shot, precise, precise that can skip), delays 1 and 2, adjustment -1 to 1, 3 calls, callbacks not nested, 1 event | `ListedOnce`, `NoOversleep` |
| `TimersFire` | 1 timer of any type, delay 2, adjustment -1 to 1, 3 calls, 2 callbacks in progress, 2 events, shutdown | under `FairSpec`: `TimersFire`, `ThreadEnds`; and `NothingAfterCancel`, `NeverEarly`, `OneShotFiresOnce` |
| `FtpQueue` | 2 requests (remove, list, download, upload; resumed or not) in 2 directories, 1 loss, 1 cancel, abort or disconnect, commands refused, transfers broken off | types, `RepliesFindTheirCommands`, `CarriedOutInContext`, `ReportsAreTrue`, `ReportedOnce` |
| `FtpEnds` | 1 request of any of the 7 kinds, 2 losses, 1 stop, 1 attempt to reconnect after each | under `FairSpec`: `RequestsEnd`; and `NoReconnectAfterDisconnect` |

Why the bounds are enough to be of interest:

* Three items are a parent with two children, or a child with a child: the least
  with which a child fails after a sibling was undone. Four allow that below a
  second unit, which a failed recovery would disturb. Limits 0, 1 and 2 are met
  from both sides with two and three units. -2 is stored as -1 (no limit).
* Two effects and two placeholders are the least with which one placeholder
  continues another, and with which a placeholder in an open batch and one on
  the stack exist together. `EdCount` needs a third effect (before the save,
  after it, and one that clears the redo stack). It leaves `Places` empty, so that
  no selection is collapsed and no placeholder continues an earlier one: units
  of several transactions come about within one batch too.
* Two calls in progress race each other at the limit of one or two threads; the
  fourth thread is a spare one made in excess while the third is on its way out.
  Events are reused after they have run, so behaviours are not bounded in
  length. `PoolServes` reduces events and threads because liveness is checked
  without symmetry. With its one event, no burst of events meets one idle worker:
  that `ServedUntilShutdown` holds there too is the theorem `EventsAreServed`.

* Two threads beside the main one are the least of which one makes, waits for and
  shuts down the other while the manager shuts down both. Two events are a
  synchronous one with something dispatched, or waited for, inside it, or two threads
  that wait for each other. 96,077 states: the whole of what two events allow.
* Two timers are the least that have an order in the list, and one that waits
  while another is due; what only a third shows (section 7) is left to the proof of
  `NoOversleep`. Three calls arm a timer, take it back or delay it, and arm it
  again. With one timer in `TimersFire` its events may be stale, two at
  once, and run inside its own callback. Its delay of 2 is more than the adjustment,
  or every callback would come in time. `TimersList` leaves out slack timers, whose
  place in the list is found as that of the others that `Fire` arms ("canSkip").
  `MaxLate` and `MaxOversleep` only bound
  how far a timeout may lie in the past; a precise timer counts its next
  timeout from the last one, and must be able to fall behind.
* Two FTP requests are a command that can be skipped because the other has set
  the directory or mode, a transfer dropped in front of another, and a trash with
  something in it. One loss may strike at each of the some forty steps of a
  session; two, in `FtpEnds`, also while it is being restored, so that the
  client gives up. Reconnecting 40 times differs from once in nothing but the
  bound.

`CountIsExact` is stated for what the code can promise: everything since the
save was done one transaction at a time, counted, on top of what was saved. The
run leaves out `script`, `editFails` and `undoMany`, for which the counter is off by design
of the code (section 7), and lets everything *before* the save be arbitrary:
units of many transactions, undone and redone across the save.

`FailureRecovers` and `InContext` hold while not both an undo and a redo
callback fail for good (`RollbackWorks`): recovery from one needs the other, and
with both broken no manager could restore the document. In `TxStructure`
everything fails and the structure still holds.

Deadlock is not checked in any run: behaviours of the manager and the editor
really stop when the bound on items or effects is reached and everything has
been undone or dropped, a pool that is shut down and whose workers have ended has
nothing left to do, threads end and each event of `Threads` is dispatched once, the
calls of timers are bounded, and so are the requests and
the losses of the FTP client, which may be left without a connection.

## 4. Fairness

* `TransactionManager`: weak fairness of `Progress`, which is the code between
  two callbacks and the returns of the callbacks. One thread runs it and it
  never waits; callbacks are assumed to return. Nothing is assumed of clients:
  that they stop opening nested work is the bound on items.
* `ThreadPool`: weak fairness of each call in progress and of each thread that
  can run, which preemptive threads have. No fairness of `Dispatch`, `Shutdown`
  and the setters, and none of timeouts: the idle timeout can be set as long as one
  likes, so that an event runs must not depend on it. Strong fairness
  of `NewThread` alone: in the program it is always possible, in the model the
  finite set `Threads` may be used up now and then while others come and go.
  "threadFails" is not allowed in the liveness run: with it nothing is promised.
* `Threads`: weak fairness of what each thread does by itself, `Runs(t)`: threads are
  preemptive, and the events of clients are assumed to return. No client is obliged
  to dispatch or to shut down anything, the application not to end.
* `Timers`: weak fairness of the timer thread, of the rest of a call in progress, of
  the return of `Shutdown()`, which runs the events that are left until then,
  of the events on the target thread, and of the clock. Strong fairness of the
  return of a callback, for each depth of nesting: the event loop in it may go on
  running events, but returns. No client is obliged to call anything.
* `FtpClient`: weak fairness of the server, the network and the closing of
  sockets (`Traffic`), and of the timer that reconnects. That replies which have
  come are read, and that the poll after half a second comes, is stated with
  their guards in place of `ENABLED`, which TLC evaluates slowly and which are
  the same, since both actions always change the state. No fairness of the user,
  of losses, of timeouts and of the keep-alive.
* No fairness of the editor: it promises nothing that happens later.

## 5. What is proved

For every value of the constants, under their named assumptions
(`BoundsAssumption`, `CountsAssumption`, `EnvAssumption`; `LimitsAssumption`,
`SetsAssumption`; `EditorAssumption`; `ThreadsAssumption`; `TimersAssumption`; `FtpAssumption`,
`NoneAssumption`).

`TransactionManagerProofs`: `StackInvariance`, `TypeCorrectness` (`TypeOK`),
`SingleHolder` (`OneHolder`), `HistoryIsLimited` (`WithinMaxCount`), with every
kind of behaviour in `Env`, *including* `reenter`, which the runs leave out.
`OneHolder` is not inductive: pushing a new item keeps it only if that item is
on no stack yet. The invariant `StackInv` adds that only items already created
are held. Most steps either leave the stacks alone or only take items off their
ends; one relation, `Shrunk`, covers all of these (clear, pop, pop from the bottom,
prune, and their compositions) and is shown once to keep items distinct. What remains is a push of an item that
was just freed by a pop (`PopFrees`, `PushKeeps`, `PopPushKeeps`), which is also why a
move survives a foreign call that has changed the stacks in between. The limit
follows from arithmetic on the lengths: only `EndTransaction` at top level adds
to the undo stack, after clearing the redo stack and dropping the oldest unit.

Of its calls in progress: `UndoPopsWhatItPeeked` (`PopsWhatItPeeked`) and
`DoingAndUndoingNeverNest`, for `Env` without `reenter`: with it the first fails
(section 7). They follow from `CallsInv`. A child is created after the item that holds
it (`Nested`), so the items of the calls in progress ascend towards the innermost one
(`Descends`), and two loops over children are never of the same item: the only step
that moves items between stacks during an undo, `KidsMove`, touches the stacks of the
innermost loop, and each loop below still finds on top what it peeked at (`Chained`,
`Fits`). That no client step touches them either needs the third part: a
transaction being done is on the do stack until it returns (`BodiesAreDone`), so that
an undo called from within it is refused and the calls in progress are all of one kind.

Five more theorems rest on invariants of their own.
`DoStackFollowsTheCalls` (`OnlyOpenBatchesStrand`) holds for every `Env`: as long as the
transactions on the do stack, batches apart, are those whose `doTransaction()` runs
(`DoStackIsTheCallStack`), the only step that ends this is the return of a
`doTransaction()` with a batch on top of the do stack. `NobodyStaysOnTheDoStack` says
that it is never ended where that does not happen ("openBatch" is not in `Env`). Both
follow from `DoInv`, which is kept also when something is stranded: every running
`doTransaction()` has its item on the do stack, and both ascend, so they are in the
same order. The manager pops what is on top without a look, and until something is
stranded that is the innermost transaction or a batch opened within it.
`ParentsAreUndoneLast` (`ChildrenUndoneFirst`) assumes that a failure lasts and that
nobody interferes (`FailuresLast`: none of "reenter", "flaky", "vetoChild", "didFail" in
`Env`); with any one of the four TLC finds a counterexample. The loop over children counts turns and
returns what its *last* turn returned, so that it tells the truth needs an argument: an
item that has failed must fail again. `Doomed(i)` says why it does, without induction on
the depth of the tree: `i` is in a set of items each of which fails by itself or has
a child to be undone in the set. `ResultsInv` then says of every frame what its local
variables mean (`Honest`: a loop without a failure so far has as many children left as it
counts; one with a failure has a doomed child on top) and of the value being returned
(`Answered`: "fail" if and only if the next child is doomed). A doomed item stays doomed
when children are moved off the stacks, because one that is doomed is never moved
(`DoomLasts`).

`UndoneAndRedoneInContext` (`InContext`) and `FailuresRecover` (`FailureRecovers`) are about
the document: every undo and redo callback runs on the document it expects, and an undo or
redo of an item that fails leaves the document as it was, at any depth of nesting.
A state does not tell what the document was before each of its items, so
`ChartInv` says that there is a *chart* that does: the document before and after each item
(`pre`, `post`), and where each holder's children have got to (`at`). The undone and
the redone children of a holder must be paths from where they begin to `at` (`Laid`): the
end of each is the beginning of the next. The document is then where the innermost call says it is
(`There`, `Here`), what nothing undoes or redoes is wholly done or wholly undone
(`Resting`), and each call began where the holder above it has got to (`Began`).
An undo keeps the chart and only moves a holder's `at` (`MovedLaid`); a new transaction, a
merge and the end of one choose a new chart that differs for the items concerned
(`StepsStill`). That recovery brings back the document is `ResultsInv` again, in the other
direction: since not both an undo and a redo fail for good (`RollbackWorks`), what has
been undone cannot fail when it is redone (`DoomedBothWays`), so the recovery loop ends with
nothing left to do, and by `Began` it is then where it started (`FailedHere`).
`DocInv` adds that effects are numbered by what is done, so that a redo never finds its
effect in force, and that the top level is only undone while nothing is being done.
The hypothesis leaves the four members of `FailuresLast` and "transient" and
"mergeVeto" out of `Env`. For `InContext` it is as weak as can be: with any one of the six added
to what `TxRecovers` allows, TLC finds a counterexample of three items. `FailureRecovers` needs
the first four; it was not seen to fail with the last two alone, but
the chart does not exist there, because a transaction has then been done that no undo takes back.

`EditorProofs`: `TypeCorrectness` (`TypeOK`), `EditsAreNotSwallowed`
(`AbsorbersClosed`) and `BatchIsOneUndo` (`OneUndoPerBatch`), for any number of
transactions, placeholders and levels of nesting and every `Env`. They follow from
`EditorInv`. That nothing absorbs between batches is not inductive: at the end of a batch
the editor closes the one placeholder it remembers, so the invariant has to say, during
the batch, that no other one absorbs (`AbsorberIsOpen`). This in turn rests on what a
new placeholder finds. None absorbs before the batch has one, so the new one is not
swallowed: it goes on top, or makes the one on top absorb again, and in both cases the
editor then remembers that one (`NewPlaceholder`); in an open batch of the manager
nothing comes to absorb. That the unit of the placeholder has its number and no other is
`Numbered`. `SessionIsOnTop` is the rest of `OneUndoPerBatch`: while nothing else used
the manager the remembered placeholder is on top and absorbs, and the document since
the batch was opened is the end of its effects (`Ends`), so that the next edit is merged
into it (`RecordKeeps`, `EndsGrow`). Undo takes as many effects off the document as the
units it moves have: that these are sequences at all needs an induction over
`FlattenSeq`, which `Flattened` makes with the library's theorem on minimal elements.

`EditorIsAHistory` (`EditorImplementsHistory`) is the refinement: every step of the editor is
one of `UndoHistory`, under the mapping that drops units without effects and forgets
the bounds of batches and which placeholder absorbs. Steps that only show in placeholders
(closing and committing one, beginning one that has no effects yet, dropping an empty
batch) map to a step that forgets the future or nothing (`SameHistory`); a transaction
makes the past grow by a unit or its last unit by effects (`Grows`, `GrowsEffects`), in
`RecordWorks` whatever the stacks are. Undo needs the one fact about states, `RecordedIn`:
the document ends with the effects of what can be undone, followed by those of the open
batches, and nothing is kept while undo is disabled. With it the effects undone are the
end of the document, and the units dropped by the mapping take nothing off it
(`OffTheTop`, `UndoShows`, `RedoShows`). The mapping is a `FlattenSeq`, so the lemmas
below it (`FlattenAppend`, `FlattenConcat`, `EffectsAppend`, `EffectsReversed`) are
inductions over the number of units, made once with `AllNaturals`.

Also there: `CountTellsOfChanges` (`CountIsExact`), for any number of
transactions, undos, redos and saves. It assumes that transactions are the editor's own or
given to the manager directly, succeed, and are undone one at a time (`SingleSteps`: none of
"script", "editFails" and "undoMany" in `Env`, which is how `EdCount` runs). A script's or a
failed transaction in a placeholder batch leaves a unit without effects, whose undo counts
one and changes nothing, and `Undo(2)` on a stack of one counts two. The count alone says
too little to be inductive: `IsCount` says what a count of `c` stands for. It is the
number of units on top of the undo stack that came after what was saved, or, below zero, of
the units on top of the redo stack that lead back to it; two more cases remain when
`enableUndo(false)` has forgotten those units, and then no undo or redo comes back to what
was saved. Each operation is a lemma about `IsCount` (`CountDone`, `CountUndone`,
`CountRedone`, `CountDropped`), and `CountTells` reads `c = 0 <=> d = s` off it. It needs
that every unit takes something back (`Solid`): the placeholder made for the first
transaction of a batch has no effects and is on the stack for a moment, within
`nsEditor::DoTransaction`, which `Takes` describes; the transaction that it was made for
then goes into it (`PlaceholderTakes`, `RecordSolid`). In a batch of the manager that is
open and not empty the count is zero, since it was saved there: when the batch ends, its unit
goes on the stack and the count stays.

`ThreadPoolProofs`: all the safety of the pool that the runs check:
`PoolTypeCorrectness` (`TypeOK`), `IdleCountIsExact` (`CountsIdleWorkers`),
`NoLostWakeup` (`SleepersHaveNothingToDo`), `EventsAreServed`
(`Unfailing /\ Spec => []ServedUntilShutdown`), `WorkersAreLimited`
(`WorkersWithinLimit`), `OwnersAreUnique` (`EachThreadHasOneOwner`) and
`ShutdownIsJoined` (`ShutdownJoins`). The first three
follow from `PoolInv`, their conjunction with the fact that a call which handles
a thread or an event has one (`CallsHaveTheirs`). `EventsAreServed` is the deep
one. That a queued event has a worker awake or on its way is not inductive:
the worker may leave, the thread on its way may be dropped at `HasRoom`, the
limits may change. The invariant is `mShutdown \/ Staffed`: until shutdown,
each thread being made is in the hands of one caller and unknown to the pool
(`NewThreadsAreOwned`), each thread of the pool works or is about to be started
by the caller that appended it (`MembersWork`), and a queue with events has
somebody there (`EventsHaveMembers`): with the wakeup property, an idle worker
counted by the pool is then awake. The step that matters is that a thread in
excess is dropped only when `mThreads` is as large as the limit, which is at
least 1, hence somebody else is there.
`WorkersAreLimited` follows from the same `mShutdown \/ Staffed` (which does not
need `Unfailing`): the threads that work are among those the pool counts, and it
counts no more than some limit it was given. `OwnersAreUnique` needs the other
half of the code, what becomes of a thread (`OwnersInv`): `mThreads`, the lists of
`Shutdown()` calls, the threads being appended, those posted to the main thread and
those already shut down are disjoint and cover every thread; each step hands a
thread from one to the next. `ShutdownIsJoined` adds `JoinInv`: a thread shut down
by a call has ended or the call waits for it, and the main thread, which nobody
waits for, gets only threads that have left `Run()`.

`ThreadsProofs`: `TypeCorrectness` (`TypeOK`) and `ContextOutlivesItsUse`
(`ContextIsAlive`), for any number of threads and events and for every `Env`:
whoever shuts down whom, in whatever calls nested within each other. They follow
from `LifeInv`. `ContextIsAlive` alone does not survive an acknowledgement: that the
thread which gets it no longer uses the context, nor anything else on its way, needs
that a thread is asked to end, takes the context and acknowledges it once and one
after the other (`Turn`), with one message at a time about it (`OneAsk`, `OneAck`). That
`Shutdown` is run once for each thread is `mShutdownRequired`, and is why `Turn` says
that nothing has been asked of a thread that has it. Only four kinds of
step touch the protocol: asking, taking the context, acknowledging, and taking the
acknowledgement; all others are `Quiet`: they leave the messages about it and the
contexts, and return only from a `Shutdown` that has been acknowledged (`Keeps`).

`ManagerLeavesNobody` (`NoBackgroundThreads`) assumes that a thread is shut down only by
its creator or the main thread, as `nsIThread.idl` says is usual ("anyoneShutsDown" is not
in `Env`; with it, a `Shutdown` by a third thread may be waiting still when the
manager is through). It follows from `DownInv`: a thread that still lives is to
be shut down by somebody, or its `Shutdown` is in progress in the main thread or its
creator (`Held`); when the manager makes its list all others have
registered themselves (`Lists`); and among any threads left one was created by none of
them (`Family`). At the end of the list the main thread is in no `Shutdown`, so every thread
left would be held by its creator, which is left too: the oldest of them cannot be.

`TimersProofs`: `TypeCorrectness` (`TypeOK`), `OnlyWantedCallbacks`
(`NothingAfterCancel`), `OneShotTimersFireOnce` (`OneShotFiresOnce`),
`NeverFiresEarly` (`NeverEarly`), for any number of timers, calls, events and
depth of nesting. Types need `TypeInv`: whoever handles a timer has one, and no
generation is ahead of the generator. The next two are action properties and
follow from `CallbackInv`: a timer's callback is the one its client wants or
none, and so is the one the innermost `Fire` of this timer would restore, also
when a callback within it has initialized, cancelled or fired the same timer;
a one-shot timer that has fired has no callback. An `Init` after shutdown sets a
callback that never runs, since nothing is on its way then (`EndInv`). `NeverEarly`
says that no callback runs sooner than `MaxAdjustment` before it is due, and that is
all the code promises: a timer is taken off the list when its timeout and the
adjustment have passed, and this has been any value within its bound. It follows from
`DueInv`, which carries the promise from the timeout in the list
(`TimeoutsCover`) over the timer held by the timer thread (`HeldIsDue`) to the
generation in the event (`EventsAreDue`), for timers that are in no race. The
race excluded is the first observation about timers in section 7.

About the list: `ArmedTimersAreListedOnce` (`ListedOnce`), for timers that no call
has used while the timer thread held them, and `TheTimerThreadWakesInTime`
(`NoOversleep`), as long as there was no such race at all; section 7 says what happens
otherwise. The first follows from `ListInv`:
whoever is about to add a timer finds it off the list, and client and timer thread
are not both about to, since the timer thread adds only precise timers, `Fire` only
others, and `Init` of a timer the timer thread holds is a race. The second needs
`OrderInv`, which says more than it: the list is in the order of the timeouts but
for the timer that `SetDelay` is changing and those overdue, and the timer thread
wakes in time for all others in it, within the adjustment, which changes while it
sleeps. Both parts are kept by whatever leaves a part of
the list with its timeouts (`OrderKept`); adding a timer is `InsertedOrder`, where
`Place(l, t) # 1` means that the first timer in the list is overdue or comes before
the one added, and so the wait is short enough. It assumes that "delayInCallback" is
not in `Env` (section 7): the list is then left out of order for good.

`FtpClientProofs`: `ReconnectsOnce` (one timer at most waits to reconnect, and only
without a connection) and `DisconnectIsFinal` (`NoReconnectAfterDisconnect`), for
any number of requests, directories and losses. Both assume that the user asks for
nothing that needs a connection while there is none ("whileDown" is not in `Env`);
what happens otherwise is an observation of section 7. Neither is inductive alone:
`ReconnectInv` adds that what the pending timer will do the user has not ended. The
many functions the handlers are made of (`Cleanup`, `Kill`, `WriteControl`,
`ReadControl`...) are each shown once to be in the relation `Kept`: they may close
a connection, but make none where there is none, and may give up a reconnection, but
start none;
`Kept` is transitive, so each handler's composition of them is too. What remains
are the timers and the notice of a loss, which do start one.

`TypeCorrectness` (`TypeOK`) holds with every `Env`. Its invariant says more than the
types (`Typed`): a command in the queue or in the trash, which is what recovery sends
again, has the parameters its kind needs, and a client that waits to reconnect has an
attempt left. One lemma for each function says that it keeps `Typed`.

`MatchingReplies` (`RepliesFindTheirCommands`) follows from `Talk`, which says where
in the dialogue client and server are. Either nothing is under way on the
connection (`Silent`), or it is one command, the head of the queue when the reply
arrives: sent and not yet read by the server, answered and the answer not yet read,
answered twice (a transfer that has begun and ended), or in the middle of a transfer
(`UnderWay`). While the connection opens there is only the welcome message. Each
function of the client is shown to write nothing or to write the head of a queue when
nothing else was under way (`After`). Nothing is assumed of refusals, losses, timeouts
or broken transfers. The hypothesis `Considerate` leaves out three members of `Env`,
"cancelAnytime", "removeAnytime" and "whileDown"; with any one of them the property
fails, which section 7 describes.

`OneReport` (`ReportedOnce`: done or failed, a request is reported once) holds with
every `Env`. That a report is not repeated follows from what may be in the queue
(`Orderly`): each transfer of data is followed there by its own end, and an end
follows nothing else; of the commands for a request one carries it out, and neither
it nor a `RNFR` comes after that (`Line`); a command that carries a request out is there
only while the request is not reported (`Fine`); and the trash, which recovery sends
again, holds only commands that lead up to such a one (`Leading`). Every function of
the client is made of changes of the queue that have a lemma each: commands are taken
from the head, never a transfer without its end (`CutLine`), commands that lead up to
others are put in front (`FrontLine`), the commands of a new request are appended
(`JoinLine`), or a command is altered in place (`HeadLine`, `SameLine`).
`NoneAssumption` says that `None` is not one of the wishes.

`FtpContextProofs`: `CarriedOutWhereAsked` (`CarriedOutInContext`) is about the commands that the client
leaves out: a `CWD` to where it believes it is, a `TYPE` that it believes is set, and
after a loss everything it has not put in the trash. A *claim* is something a
command relies on: `<<"CWD", d>>`, the server is in `d`; `<<"TYPE", m>>`; and
`<<"PASV", r>>`, the data connection can be for request `r`. `Leave` says which claims
hold after a command, `May` which ones it needs, and a queue is `Sound` from some
claims when they can be carried through it so that each command has what it needs
(`Leads`, if others are to hold at the end). This is monotone and composes, so the
changes of the queue again have a lemma each. `ContextInv` has two halves. `Well` is
about the client alone: unless the user has closed the connection (`Doomed`), its
trash and then its queue are sound from the `Home` of a new session, the directory
the client comes back to and the mode "A" (`Recoverable`); and until it is taken in
it knows nothing of its session (`Settled`). `Session` compares it with the server:
the queue is sound from where the server really is (`Seat`), and the directory and
mode the client remembers are the server's, or are unknown, or the reply that
corrects them is on its way (`Pending`). A `RNTO` that cannot be recovered
is the exception (`Stuck`): nothing is sent any more until the connection closes. Each
function of the client keeps the first half and the second for every session
(`Onward`), or takes the head of the queue away with what it leaves (`Taken`).
It uses `Typed`, `Talk` and `Orderly` from the theorems above. Two hypotheses:
`Considerate`, as for the replies, and `Certain`, which leaves "noCwd" and
"loginLost" out of `Env`. Neither asks for too much: with any one of these five in
`Env`, and none of the others, TLC finds a command carried out elsewhere than asked.
Losses at other times, refusals, timeouts and transfers broken off are all in.
That `None` is neither a directory nor a mode is in `FtpAssumption`.

## 6. What is only model-checked

Liveness (`CallsReturn` and `EveryEventRuns` of the pool and of threads,
`WorkersEnd`, `TimersFire`, `ThreadEnds`, `RequestsEnd`) is out of the prover's reach. What the recursive function `Whole`
computes is not proved, hence not the refinement of `TransactionManagerHistory`.
The truth of the FTP client's reports (`ReportsAreTrue`) is not proved either. `OnlyWantedCallbacks` and its
companions are checked in `TimersFire` as well, on one timer.

## 7. Findings and observations

Checked as a run that ends in a violation:

* **`PoolStrands`** `nsThreadPool.cpp:130`: `Shutdown` ends a thread that was
  appended and not yet started; the dispatch of `Run` to it fails, nobody looks,
  and the event of a successful `Dispatch` stays in the queue.

Seen while modelling, and reproducible as said, without a run of their own:

* `nsTransactionItem.cpp:361`: `RedoChildren` reports each child redone with
  `DidUndoNotify`. `RedoIsReportedAsRedo` in `TransactionManager` fails with three
  items and `Env <- Quiet`.
* `nsTransactionItem.cpp:281`: a child whose undo fails is tried again in the next
  turn of a loop that counts turns; if it succeeds then, the first child is never
  undone and the whole succeeds. `ChildrenUndoneFirst` fails with `Env <- Flaky`; in
  `TxRecovers` a callback that has failed goes on failing.
* `nsEditor.cpp:4500`: the comment says a negative count is flipped to a positive
  one; the code flips a local copy, so save, undo and a new edit give a count of
  zero for a document that is not as saved. `ZeroMeansUnchanged` in
  `EditorModification` fails with three effects and `Env <- EditsOnly`.

* A transaction whose `undoTransaction` does a transaction makes the manager pop
  that one instead of the one it has undone (`reenter`; `PopsWhatItPeeked` fails
  with it, `OneHolder` and `WithinMaxCount` do not).
* A `doTransaction` that returns with a batch open, by itself or because a listener
  interrupts `EndBatch` (`nsTransactionManager.cpp:322`, which reports success), makes the
  manager pop that batch (lines 787, 774) in place of the transaction, which stays on
  the do stack and has every later undo refused. It is the exception in
  `OnlyOpenBatchesStrand`; `ImplementsHistory` fails with "openBatch" in `Env`.
* In an open batch of the manager the placeholder just made belongs to the
  batch, and the editor remembers an older one from the top of the stack.
* A placeholder whose only transaction failed, or was a script's and was not
  merged, stays as a unit without effects: one undo that undoes nothing. The
  mapping of `EditorTransactionsHistory` drops such units.
* A placeholder batch counts its placeholder and every transaction, and its undo
  counts one. `Undo(n)` beyond the end of the stack takes the count down `n`.
* A synchronous `Dispatch` whose event is stranded by shutdown never returns
  (the exception in `CallsReturn`).
* `Dispatch` tests `mShutdown` without the monitor: one that began before
  `Shutdown` may make a worker after `Shutdown` has returned. `WorkersEnd` shows that
  it ends and is joined; `ShutdownJoins` states what holds nevertheless.
* `Run` compares the idle count with the limit by `==`; once the limit was
  lowered below the count, a further worker may become idle in excess.
* A worker that was woken counts as idle until it takes the monitor, so a burst
  of events makes fewer threads than the limit allows. They are all run
  (`EveryEventRuns`).

Threads, each with the member of `Env` that shows it in `Threads`:

* A thread that calls `Shutdown` in an event for which the thread it shuts down waits,
  in a synchronous `Dispatch`, never returns: the other does not leave its loop
  before that event has returned ("tasksShutDown", `CallsReturn`).
* Two threads that shut each other down wait for ever ("anyoneShutsDown",
  `CallsReturn`). `nsIThread.idl:68-69` says that it is "usually" the creator or the main
  thread which does; with these alone `ThreadsEnd` shows that it cannot happen.
* `nsThreadManager.cpp:132-133` says that `NewThread` is called on the main thread only,
  "for now"; `nsThreadPool::PutEvent` calls it on whatever thread dispatches to the
  pool. A thread that has not registered itself when the manager takes its table is
  never joined, and "There are no more background threads at this point" (line 167)
  is not true then. `NoBackgroundThreads` leaves out these threads (`late`), and with
  them, once the main thread has stopped, `EveryEventRuns` and `CallsReturn`
  (`Abandoned`): without "workersCreate" there are none.

Timers:

* `PostTimerEvent` reads the generation (`nsTimerImpl.cpp:605`) after the timer was
  taken off the list and the monitor released. A timer that is initialized again in
  between fires at once with its new callback, which the comment at 601-603 says is
  avoided. `ReinitializedWaits` in `Timers` fails with one one-shot timer, three calls,
  two events, a delay of 2 (more than `MaxAdjustment`) and `Env <- {}`.
* `SetDelay` writes `mTimeout` without the monitor (`nsTimerImpl.cpp:385`), while
  the timer thread may be comparing it: the list is out of order until
  `TimerDelayChanged` (`TimerThread.cpp:416`), and a wait computed in between is
  too long. `NoOversleep` excludes that moment (`call.rest = "change"`).
* If in that moment the timer thread arms a precise timer, it is placed by comparing
  it with the timeout being changed (`TimerThread.cpp:465`), which may put it in
  front of a timer that is due before it. `TimerDelayChanged` moves the timer changed
  and leaves the other two as they are: the timer thread waits for the first and is
  late for the second, long after `SetDelay` has returned. It takes three precise
  timers and four calls; without `ComparesInCall` in `Rearm`, `NoOversleep` fails
  there and holds with two timers.
* `SetDelay` in the callback of a timer that is armed already neither moves the
  timer in the list nor wakes the timer thread (`Env` "delayInCallback"; the runs
  leave it out).
* A precise timer is armed again by the timer thread (`Rearm`) without regard to
  a client that initializes or delays it in the same moment: it is then in the list
  twice. It fires nevertheless (`TimersFire`), hence `raced` in `ListedOnce` only.
* A repeating slack timer cancelled in its callback by code that leaves its type is
  put in the list again by `Fire`, and a precise one that is cancelled stays there
  after `SetDelay`; both are dropped when they come up (`NothingAfterCancel`).

FTP client, each with the member of `Env` that shows it in `FtpClient`:

* `disconnect()` while the client waits to reconnect does not stop it, though the
  comment at `fireFtp.jsm:213` says "don't try to reconnect": `isReconnecting` and
  the timer stay ("whileDown", `NoReconnectAfterDisconnect`). A `connect()` there
  starts a second series of attempts.
* A connection lost while nothing is sent leaves `isReady` set; a request made
  before the welcome message has come is written at once, as is the command
  "welcome" ("whileDown").
* A connection lost again during the login loses or repeats `USER` and `PASS`, and
  what recovery has put in the queue is lost ("loginLost" with two losses,
  `CarriedOutInContext`).
* `REST` refused (line 1950): the data socket has been opened to append, the
  server sends from the beginning, and the file is reported as done ("noRest",
  `ReportsAreTrue`).
* `CWD` refused (line 1990): what follows is carried out in another directory
  ("noCwd", `CarriedOutInContext`).
* `cancel()` and `abort()` when no transfer of data is going on, and `cancel()` of a
  listing: "aborted" takes the reply of another command, and a listing is sent
  again under the name "LIST2" ("cancelAnytime", `RepliesFindTheirCommands`).
* `remove()` puts its commands in front of the one in flight (line 2161,
  "removeAnytime", `RepliesFindTheirCommands`).
* An upload over an older file that is broken off before its first byte is
  recovered as `APPE`, because the file is there ("overwrite", `ReportsAreTrue`).
* Within the runs, and harmless to the properties: the data timeout of a transfer
  that was cancelled or has failed stays in force for the next one; a `RNFR`
  refused drops the whole queue, requests of others too (line 1954: `RequestsEnd`
  counts a dropped request as ended); the recovery of a `RNTO` with an empty
  trash throws; a listing has no data timeout.

## 8. Not modelled

* Lists of transactions (views), listeners' registration, the cycle collector, and
  listeners that call the manager from `WillUndo` or `DidUndo`.
* Merging of transactions other than placeholders (`InsertTextTxn`, `IMETextTxn`): in
  `EditorTransactions` these stay units of their own.
* In the editor: everything but its dealings with the manager; IME only as
  `CommitComposition`; selections only as collapsed or not.
* DOM transactions and HTML rules: their state is a tree and a selection; the
  models take a transaction as an effect that can be taken back.
* The pool's listener, names and the values of timeouts. nsThread is external to
  the pool: it accepts events until it is doomed, and a doomed one can be joined.
  `SetThreadLimit(0)` (`nsThreadPool.cpp:305-313`) is accepted by the code and left out
  by `LimitsAssumption`: no thread is made then, and events wait until it is raised.
* Of the threads: observers, priorities, memory pressure, threads not made by
  `NewThread` and wrapped by `GetCurrentThread`, and failures to make a thread or to
  allocate an event. The pages of the event queue, and failure to allocate one.
* Of the timers: reference counts and `Release`, `SetType`, `SetTarget`, sleep and
  wake of the computer, how the filter computes `mTimeoutAdjustment`, the rounding of
  waits, and a dispatch that fails.
* Of the FTP client: SFTP, FXP, TLS, compression, active mode, text files (`TYPE A`
  for transfers), the parsing and caching of listings, recursive removal,
  `makeBlankFile`, permissions, custom commands, symbolic links, `MDTM` and
  checksums, empty files, replies of several parts, and a control socket that cannot
  be made (the `catch` of `connect()`, lines 1305-1307). The server is the one the
  client expects: it carries commands out in order and answers each once.
* Pipes (`nsPipe3.cpp`): they can be modelled as the pool is; they were left for the
  FTP client, which is BlueGriffon's own, and for the threads below everything.
* User interface, layout, script engine, network, Debian packaging: no protocol
  of their own that this project could state better than their tests, or beyond
  what TLC enumerates.

## 9. Plan

Done: the manager, its abstract history, the editor's placeholders, the
modification count, the pool, the threads, the timers, the FTP client; type
correctness, `OneHolder`, `WithinMaxCount`, `PopsWhatItPeeked`, `OnlyOpenBatchesStrand`,
`ChildrenUndoneFirst`, `InContext` and `FailureRecovers`, all the safety of the pool, the life of threads and their end, the timers' safety, the editor's placeholders
and that it implements `UndoHistory`, the modification count, and the FTP client's types,
reconnection, matching of replies, single report and where requests are carried out proved. What is worth doing next, in this order:

1. `ThreadPool` over `Threads`: its `Doom` and `Fresh` are what `Threads` shows of a
   thread, but the two are not composed, and a synchronous dispatch of a pool's
   caller runs no events there.
2. Proofs: `ReportsAreTrue` for the FTP client.
3. An abstract FTP session (requests in order, each done, failed or dropped), which
   `FtpClient` implements.
4. `Pipe` (`nsPipe3.cpp`).
