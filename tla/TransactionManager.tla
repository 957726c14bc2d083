------------------------- MODULE TransactionManager -------------------------
(***************************************************************************)
(* The transaction manager behind the editor's undo and redo               *)
(* (editor/txmgr/src).  One thread runs it, but every call of it runs code *)
(* of others in its middle: the listeners, and the doTransaction,          *)
(* undoTransaction and redoTransaction of the transactions, which may call *)
(* the manager again.  The model is therefore a machine whose state holds  *)
(* the C++ call stack, and one step is the code between two such calls.    *)
(*                                                                         *)
(* A transaction is known by the item that wraps it.  Its effect on the    *)
(* document is to append itself to `doc', the sequence of the effects in   *)
(* force; undoing it takes its effects off the end of `doc' and redoing it *)
(* puts them there again.  The clients are well                            *)
(* behaved in what the manager cannot check: a transaction has its own     *)
(* effect before it runs the transactions nested in it, it fails only      *)
(* without an effect, and two transactions merge only if neither has       *)
(* children.  That they close the batches they open is left to Env.        *)
(***************************************************************************)
EXTENDS Integers, Sequences, SequencesExt

CONSTANTS
    MaxItems,     \* bound: nsTransactionItems created in a behaviour
    MaxNesting,   \* bound: height of the do stack
    MaxCalls,     \* bound: height of the call stack when a client calls
    Counts,       \* the arguments given to SetMaxTransactionCount
    Env           \* what the clients and listeners may do, see EnvKinds

EnvKinds ==
    { "doFail",     \* a transaction's doTransaction() fails
      "undoFail",   \* its undoTransaction() fails, and goes on failing
      "redoFail",   \* its redoTransaction() fails, and goes on failing
      "flaky",      \* a later call of one that failed may succeed
      "merge",      \* its merge() absorbs the next transaction
      "mergeVeto",  \* a listener's willMerge() fails
      "transient",  \* its isTransient is true
      "veto",       \* a listener interrupts or fails a client's call, but
                    \* for an endBatch() in a doTransaction()
      "openBatch",  \* a doTransaction() returns with a batch open: it has
                    \* called no endBatch(), or a listener interrupted it
      "vetoChild",  \* a listener interrupts or fails the undo of a child
      "didFail",    \* a listener's notification after the fact fails
      "reenter" }   \* undoTransaction() calls the manager

ASSUME BoundsAssumption ==
    /\ MaxItems \in Nat /\ MaxNesting \in Nat /\ MaxCalls \in Nat
ASSUME CountsAssumption == Counts \subseteq Int
ASSUME EnvAssumption == Env \subseteq EnvKinds

Item   == 1 .. MaxItems
Holder == 0 .. MaxItems          \* 0 is the manager, which holds the top level

\* The stacks of the program: mUndoStack and mRedoStack of the manager and of
\* every item, and the manager's mDoStack.
DoStack == <<"do", 0>>
Direction == {"undo", "redo"}
StackId == (Direction \X Holder) \cup {DoStack}

Result == {"ok", "fail"}
Other(dir) == IF dir = "undo" THEN "redo" ELSE "undo"

VARIABLES
    stack,      \* contents of every stack, bottom first
    created,    \* items 1 .. created exist; a child is created after its parent
    batch,      \* the items whose mTransaction is null (made by BeginBatch)
    maxCount,   \* mMaxTransactionCount, -1 for no limit
    calls,      \* the C++ call stack, innermost last
    ret,        \* what the call that returned last returned
    told,       \* the last notification of a completed undo or redo
    faults,     \* <<dir, i>>: that callback of transaction i fails for good
    doc,        \* the document: the effects in force, oldest first
    own,        \* own[i]: the effects transaction i undoes, those of the
                \* transactions it has absorbed included
    before      \* before[i]: the document when transaction i was done

vars == <<stack, created, batch, maxCount, calls, ret, told, faults,
          doc, own, before>>
docVars == <<doc, own, before>>

(***************************************************************************)
(* Frames of the call stack.  "body": a doTransaction() of a client runs.  *)
(* "kids": UndoChildren or RedoChildren of an item is in its loop, or      *)
(* UndoTransaction or RedoTransaction of the manager, whose body is that   *)
(* loop run once.  "item": UndoTransaction or RedoTransaction of an item.  *)
(***************************************************************************)
Frame ==
    LET Frames(fn, dirs, items, ats) ==
          [fn : {fn}, dir : dirs, item : items, at : ats,
           left : Nat,           \* iterations the loop has left (sz)
           res : Result,         \* its local variable result
           doc0 : Seq(Item)]     \* the document when the frame was made
    IN Frames("body", {"do"}, Item, {"running"})
       \cup Frames("kids", Direction, Holder, {"loop", "wait"})
       \cup Frames("item", Direction, Item, {"kids", "calling", "recover"})

MkFrame(fn, dir, i, at, left) ==
    [fn |-> fn, dir |-> dir, item |-> i, at |-> at, left |-> left,
     res |-> "ok", doc0 |-> doc]

KidsMutant(dir, i) ==
    MkFrame("kids", dir, i, "loop", Len(stack[<<dir, i>>]) - 1)

\* The loop over the children, as many as there are when it starts.
Kids(dir, i) == MkFrame("kids", dir, i, "loop", Len(stack[<<dir, i>>]))

Running == calls # <<>>
Callee  == Last(calls)             \* the innermost call

In(fn, at) == Running /\ Callee.fn = fn /\ Callee.at = at

\* The innermost call goes on at `at', having called `callees'.
GoOn(at, callees) ==
    calls' = Append(Front(calls), [Callee EXCEPT !.at = at]) \o callees

Return(r) == calls' = Front(calls) /\ ret' = r

----------------------------------------------------------------------------
(***************************************************************************)
(* nsTransactionStack.                                                     *)
(***************************************************************************)
Push(st, s, i)  == [st EXCEPT ![s] = Append(@, i)]
PopMutant(st, s) == st
Pop(st, s)      == IF st[s] = <<>> THEN st ELSE [st EXCEPT ![s] = Front(@)]
PopBottom(st, s) == IF st[s] = <<>> THEN st ELSE [st EXCEPT ![s] = Tail(@)]
ClearMutant(st, s) == st
Clear(st, s)    == [st EXCEPT ![s] = <<>>]
Peek(s)         == Last(stack[s])

\* item = from.Pop(); to.Push(item): pushing null does nothing.
PopPush(st, from, to) ==
    IF st[from] = <<>> THEN st ELSE Push(Pop(st, from), to, Last(st[from]))

\* Pop from the bottom of s until at most n items are left on it.
Prune(st, s, n) ==
    [st EXCEPT ![s] = IF Len(@) > n THEN SubSeq(@, Len(@) - n + 1, Len(@))
                      ELSE @]

Children(i) == Len(stack[<<"undo", i>>]) + Len(stack[<<"redo", i>>])

(***************************************************************************)
(* Who may call the manager: an event handler when no call of it is in     *)
(* progress, a running doTransaction(), and with "reenter" an              *)
(* undoTransaction() or redoTransaction().                                 *)
(***************************************************************************)
ClientRuns ==
    \/ ~Running
    \/ In("body", "running")
    \/ In("item", "calling") /\ "reenter" \in Env

\* What a call returns when the work returned r: result2 of a failing
\* listener replaces a success.
DidNotify(r) == IF "didFail" \in Env THEN {r, "fail"} ELSE {r}

Vetoed ==
    /\ ClientRuns /\ "veto" \in Env
    /\ ret' \in Result
    /\ UNCHANGED <<stack, created, batch, maxCount, calls, told, faults,
                   docVars>>

----------------------------------------------------------------------------
(***************************************************************************)
(* DoTransaction, up to the call of the transaction's doTransaction().     *)
(***************************************************************************)
RoomForItem == created < MaxItems /\ Len(stack[DoStack]) < MaxNesting

DoTransaction ==
    /\ ClientRuns /\ RoomForItem /\ Len(calls) < MaxCalls
    /\ LET i == created + 1 IN
       /\ created' = i
       /\ stack' = Push(stack, DoStack, i)
       /\ calls' = Append(calls, MkFrame("body", "do", i, "running", 0))
       /\ doc' = Append(doc, i)
       /\ own' = [own EXCEPT ![i] = <<i>>]
       /\ before' = [before EXCEPT ![i] = doc]
    /\ UNCHANGED <<batch, maxCount, ret, told, faults>>

\* The item popped off the do stack is dropped: an empty batch, a transient
\* transaction, or undo is disabled.
Dropped(i) ==
    \/ i \in batch /\ Children(i) = 0
    \/ i \notin batch /\ "transient" \in Env
    \/ maxCount = 0

\* It is dropped too if its GetIsTransient fails, which then is the result.
DropResults(i) ==
    IF i \notin batch /\ "transient" \in Env THEN Result ELSE DidNotify("ok")

Kept(i) == ~(i \in batch /\ Children(i) = 0) /\ maxCount # 0

OverflowsMutant(st) == maxCount > 0 /\ Len(st[<<"undo", 0>>]) > maxCount

\* The undo stack is full.
Overflows(st) == maxCount > 0 /\ Len(st[<<"undo", 0>>]) >= maxCount

\* EndTransaction for item i, the top of the do stack, and the notification
\* after it.
EndTransaction(i) ==
    LET rest   == Pop(stack, DoStack)
        parent == Last(rest[DoStack])
        noRedo == Clear(rest, <<"redo", 0>>)
        top    == Last(noRedo[<<"undo", 0>>])
        mayMerge == /\ i \notin batch
                    /\ noRedo[<<"undo", 0>>] # <<>>
                    /\ top \notin batch
        pruned == IF Overflows(noRedo)
                  THEN PopBottom(noRedo, <<"undo", 0>>)
                  ELSE noRedo
    IN
    \/ /\ Dropped(i)
       /\ stack' = rest /\ ret' \in DropResults(i) /\ UNCHANGED own
    \/ /\ Kept(i) /\ rest[DoStack] # <<>>
       /\ stack' = Push(rest, <<"undo", parent>>, i)
       /\ ret' \in DidNotify("ok") /\ UNCHANGED own
    \/ /\ Kept(i) /\ rest[DoStack] = <<>>
       /\ \/ stack' = Push(pruned, <<"undo", 0>>, i)
             /\ ret' \in DidNotify("ok") /\ UNCHANGED own
          \/ /\ mayMerge /\ "merge" \in Env
             /\ Children(i) = 0 /\ Children(top) = 0
             /\ stack' = noRedo
             /\ own' = [own EXCEPT ![top] = @ \o own[i]]
             /\ ret' \in DidNotify("ok")
          \/ /\ mayMerge /\ "mergeVeto" \in Env
             /\ stack' = noRedo /\ ret' = "fail" /\ UNCHANGED own

BatchOpen == stack[DoStack] # <<>> /\ Peek(DoStack) \in batch

\* A doTransaction() returns.  What it leaves on the do stack is up to its code
\* and the listeners, and the manager does not look: it pops what is on top.
BodyReturns ==
    /\ In("body", "running") /\ stack[DoStack] # <<>>
    /\ BatchOpen => "openBatch" \in Env

\* It returns NS_OK.
DoReturns ==
    /\ BodyReturns
    /\ EndTransaction(Peek(DoStack))
    /\ calls' = Front(calls)
    /\ UNCHANGED <<created, batch, maxCount, told, faults, doc, before>>

DoFailsMutant ==
    /\ BodyReturns /\ "doFail" \in Env
    /\ Children(Callee.item) = 0 /\ doc = Append(before[Callee.item], Callee.item)
    /\ doc' = before[Callee.item]
    /\ Return("fail")
    /\ UNCHANGED <<stack, created, batch, maxCount, told, faults, own, before>>

\* It fails, having taken its effect back.
DoFails ==
    LET i == Callee.item IN
    /\ BodyReturns /\ "doFail" \in Env
    /\ Children(i) = 0 /\ doc = Append(before[i], i)
    /\ stack' = Pop(stack, DoStack)
    /\ doc' = before[i]
    /\ Return("fail")
    /\ UNCHANGED <<created, batch, maxCount, told, faults, own, before>>

BeginBatch ==
    /\ ClientRuns /\ RoomForItem
    /\ created' = created + 1
    /\ batch' = batch \cup {created + 1}
    /\ stack' = Push(stack, DoStack, created + 1)
    /\ ret' \in DidNotify("ok")
    /\ UNCHANGED <<maxCount, calls, told, faults, docVars>>

EndBatch ==
    /\ ClientRuns
    /\ \/ ~BatchOpen /\ ret' = "fail" /\ UNCHANGED <<stack, own>>
       \/ BatchOpen /\ EndTransaction(Peek(DoStack))
    /\ UNCHANGED <<created, batch, maxCount, calls, told, faults, doc, before>>

ClearHistory ==
    /\ ClientRuns
    /\ stack' = Clear(Clear(stack, <<"redo", 0>>), <<"undo", 0>>)
    /\ ret' = "ok"
    /\ UNCHANGED <<created, batch, maxCount, calls, told, faults, docVars>>

\* A negative count is stored as -1.
Normalized(n) == IF n < 0 THEN -1 ELSE n

\* Something is being done: undo, redo and a change of the count are refused.
Busy == stack[DoStack] # <<>>

SetMaxTransactionCount ==
    /\ ClientRuns
    /\ UNCHANGED <<created, batch, calls, told, faults, docVars>>
    /\ \E n \in Counts :
       LET undos == Len(stack[<<"undo", 0>>])
           redos == Len(stack[<<"redo", 0>>])
           undosLeft == IF undos + redos <= n THEN undos
                        ELSE IF redos < n THEN n - redos ELSE 0
       IN
       \/ Busy /\ ret' = "fail" /\ UNCHANGED <<stack, maxCount>>
       \/ /\ ~Busy
          /\ maxCount' = Normalized(n) /\ ret' = "ok"
          /\ stack' = IF n < 0 \/ n > undos + redos THEN stack
                      ELSE Prune(Prune(stack, <<"undo", 0>>, undosLeft),
                                 <<"redo", 0>>, n - undosLeft)

----------------------------------------------------------------------------
(***************************************************************************)
(* UndoTransaction and RedoTransaction of the manager, and of its items.   *)
(***************************************************************************)
UndoOrRedo(dir) ==
    /\ ClientRuns
    /\ \/ Busy /\ ret' = "fail" /\ UNCHANGED calls
       \/ ~Busy /\ stack[<<dir, 0>>] = <<>> /\ ret' = "ok" /\ UNCHANGED calls
       \/ /\ ~Busy /\ stack[<<dir, 0>>] # <<>> /\ Len(calls) < MaxCalls
          /\ calls' = Append(calls, MkFrame("kids", dir, 0, "loop", 1))
          /\ UNCHANGED ret
    /\ UNCHANGED <<stack, created, batch, maxCount, told, faults, docVars>>

\* The call of UndoTransaction or RedoTransaction of item i.
Entered(dir, i) ==
    IF dir = "undo"
    THEN <<MkFrame("item", dir, i, "kids", 0), Kids(dir, i)>>
    ELSE IF i \in batch
    THEN <<MkFrame("item", dir, i, "kids", 0), Kids(dir, i)>>
    ELSE <<MkFrame("item", dir, i, "calling", 0)>>

Source == <<Callee.dir, Callee.item>>
Target == <<Other(Callee.dir), Callee.item>>

KidsEnd ==
    /\ In("kids", "loop")
    /\ \/ Callee.left = 0 /\ Return(Callee.res)
       \/ Callee.left > 0 /\ stack[Source] = <<>> /\ Return("fail")
    /\ UNCHANGED <<stack, created, batch, maxCount, told, faults, docVars>>

\* A listener interrupts the undo or redo of a child, or fails.
KidsVetoed ==
    /\ In("kids", "loop") /\ Callee.left > 0 /\ stack[Source] # <<>>
    /\ Callee.item # 0 /\ "vetoChild" \in Env
    /\ \E r \in Result : Return(r)
    /\ UNCHANGED <<stack, created, batch, maxCount, told, faults, docVars>>

WaitingMutant(f) == [f EXCEPT !.at = "wait"]

\* The loop's frame while it waits for a child.
Waiting(f) == [f EXCEPT !.at = "wait", !.left = @ - 1]

KidsCallMutant ==
    /\ In("kids", "loop") /\ Callee.left > 0 /\ stack[Source] # <<>>
    /\ stack' = Pop(stack, Source)
    /\ calls' = Append(Front(calls), Waiting(Callee))
                \o Entered(Callee.dir, Peek(Source))
    /\ UNCHANGED <<created, batch, maxCount, ret, told, faults, docVars>>

KidsCall ==
    /\ In("kids", "loop") /\ Callee.left > 0 /\ stack[Source] # <<>>
    /\ calls' = Append(Front(calls), Waiting(Callee))
                \o Entered(Callee.dir, Peek(Source))
    /\ UNCHANGED <<stack, created, batch, maxCount, ret, told, faults,
                   docVars>>

\* The item has returned: if it succeeded the top of the stack moves to the
\* other one, and the loop goes on in both cases.
KidsMove ==
    /\ In("kids", "wait")
    /\ stack' = IF ret = "ok" THEN PopPush(stack, Source, Target) ELSE stack
    /\ \E r \in DidNotify(ret) :
          calls' = Append(Front(calls),
                          [Callee EXCEPT !.at = "loop", !.res = r])
    /\ told' = IF Callee.dir = "redo" /\ Callee.item = 0 THEN "didRedo"
               ELSE "didUndo"
    /\ UNCHANGED <<created, batch, maxCount, ret, faults, docVars>>

\* The call of the transaction's own undoTransaction() or redoTransaction().
Succeeds(dir, i) == <<dir, i>> \notin faults /\ UNCHANGED faults
Fails(dir, i) ==
    /\ (IF dir = "undo" THEN "undoFail" ELSE "redoFail") \in Env
    /\ faults' = IF "flaky" \in Env THEN faults ELSE faults \cup {<<dir, i>>}

\* Undone in the order in which they can be, effects es are the last of the
\* document.  Out of that order, or redone while in force, they stay as they
\* are here: that this does not happen is InContext.
Without(es) ==
    IF IsSuffix(es, doc) THEN SubSeq(doc, 1, Len(doc) - Len(es)) ELSE doc

With(es) ==
    IF \E k \in 1 .. Len(doc) : Contains(es, doc[k]) THEN doc ELSE doc \o es

RecoverFromUndoErrorMutant(i) == MkFrame("kids", "redo", i, "loop", 0)

\* The children undone are redone.
RecoverFromUndoError(i) == Kids("redo", i)

RecoverFromRedoErrorMutant(i) == MkFrame("kids", "undo", i, "loop", 0)

\* The children redone are undone, before the transaction itself is.
RecoverFromRedoError(i) == Kids("undo", i)

UndoItemKidsDone ==
    /\ In("item", "kids") /\ Callee.dir = "undo"
    /\ LET i == Callee.item IN
       \/ /\ ret = "fail" /\ GoOn("recover", <<RecoverFromUndoError(i)>>)
          /\ UNCHANGED ret
       \/ ret = "ok" /\ i \in batch /\ Return("ok")
       \/ ret = "ok" /\ i \notin batch /\ GoOn("calling", <<>>) /\ UNCHANGED ret
    /\ UNCHANGED <<stack, created, batch, maxCount, told, faults, docVars>>

UndoItemCalled ==
    /\ In("item", "calling") /\ Callee.dir = "undo" /\ stack[DoStack] = <<>>
    /\ LET i == Callee.item IN
       \/ /\ Succeeds("undo", i)
          /\ doc' = Without(own[i])
          /\ Return("ok")
       \/ /\ Fails("undo", i)
          /\ GoOn("recover", <<RecoverFromUndoError(i)>>)
          /\ UNCHANGED <<doc, ret>>
    /\ UNCHANGED <<stack, created, batch, maxCount, told, own, before>>

UndoItemRecovered ==
    /\ In("item", "recover") /\ Callee.dir = "undo"
    /\ Return("fail")
    /\ UNCHANGED <<stack, created, batch, maxCount, told, faults, docVars>>

RedoItemCalled ==
    /\ In("item", "calling") /\ Callee.dir = "redo" /\ stack[DoStack] = <<>>
    /\ LET i == Callee.item IN
       \/ /\ Succeeds("redo", i)
          /\ doc' = With(own[i])
          /\ GoOn("kids", <<Kids("redo", i)>>) /\ UNCHANGED ret
       \/ Fails("redo", i) /\ Return("fail") /\ UNCHANGED doc
    /\ UNCHANGED <<stack, created, batch, maxCount, told, own, before>>

RedoItemKidsDone ==
    /\ In("item", "kids") /\ Callee.dir = "redo"
    /\ \/ ret = "ok" /\ Return("ok")
       \/ /\ ret = "fail" /\ UNCHANGED ret
          /\ GoOn("recover", <<RecoverFromRedoError(Callee.item)>>)
    /\ UNCHANGED <<stack, created, batch, maxCount, told, faults, docVars>>

\* RecoverFromRedoError has undone the children; it undoes the transaction too
\* unless that failed, and its result is ignored.
RedoItemRecovered ==
    /\ In("item", "recover") /\ Callee.dir = "redo"
    /\ LET i == Callee.item IN
       \/ (ret = "fail" \/ i \in batch) /\ UNCHANGED <<doc, faults>>
       \/ /\ ret = "ok" /\ i \notin batch
          /\ \/ Succeeds("undo", i) /\ doc' = Without(own[i])
             \/ Fails("undo", i) /\ UNCHANGED doc
    /\ Return("fail")
    /\ UNCHANGED <<stack, created, batch, maxCount, told, own, before>>

----------------------------------------------------------------------------
Init ==
    /\ stack = [s \in StackId |-> <<>>]
    /\ created = 0
    /\ batch = {}
    /\ maxCount \in (Counts \cap Nat) \cup {-1}
    /\ calls = <<>>
    /\ ret = "ok"
    /\ told = "nothing"
    /\ faults = {}
    /\ doc = <<>>
    /\ own = [i \in Item |-> <<>>]
    /\ before = [i \in Item |-> <<>>]

\* The steps of the code between two calls of foreign code, and the returns
\* of the foreign code it waits for.
Progress ==
    \/ DoReturns \/ DoFails \/ (Running /\ BatchOpen /\ EndBatch)
    \/ KidsEnd \/ KidsVetoed \/ KidsCall \/ KidsMove
    \/ UndoItemKidsDone \/ UndoItemCalled \/ UndoItemRecovered
    \/ RedoItemCalled \/ RedoItemKidsDone \/ RedoItemRecovered

Client ==
    \/ Vetoed \/ DoTransaction \/ BeginBatch \/ EndBatch
    \/ ClearHistory \/ SetMaxTransactionCount
    \/ \E dir \in Direction : UndoOrRedo(dir)

Next == Client \/ Progress

Spec == Init /\ [][Next]_vars

\* Every call of foreign code returns, and the code between them runs: what
\* a single thread that does not hang does.  Nothing is assumed of clients.
FairSpec == Spec /\ WF_vars(Progress)

----------------------------------------------------------------------------
TypeOK ==
    /\ stack \in [StackId -> Seq(Item)]
    /\ created \in Holder
    /\ batch \subseteq 1 .. created
    /\ maxCount \in Nat \cup {-1}
    /\ calls \in Seq(Frame)
    /\ ret \in Result
    /\ told \in {"nothing", "didUndo", "didRedo"}
    /\ faults \subseteq Direction \X Item
    /\ doc \in Seq(Item)
    /\ own \in [Item -> Seq(Item)]
    /\ before \in [Item -> Seq(Item)]

\* An item is held in one place: it is on at most one stack, at one position
\* of it, so no Pop and Push between the manager's stacks and those of the
\* items has left one behind or in two places.
OneHolder ==
    \A s, t \in StackId :
    \A m \in 1 .. Len(stack[s]), n \in 1 .. Len(stack[t]) :
        stack[s][m] = stack[t][n] => s = t /\ m = n

\* "The max number of transactions that can exist at any time on both the
\* undo and redo stacks" (nsITransactionManager.maxTransactionCount).
WithinMaxCount ==
    maxCount >= 0 =>
        Len(stack[<<"undo", 0>>]) + Len(stack[<<"redo", 0>>]) <= maxCount

\* An undo or redo peeks at a stack, runs foreign code, and pops: what it pops
\* is the item it has peeked at.
PopsWhatItPeeked ==
    \A k \in 1 .. Len(calls) - 1 :
        calls[k].fn = "kids" /\ calls[k + 1].fn = "item" =>
           LET s == stack[<<calls[k].dir, calls[k].item>>]
           IN s # <<>> /\ Last(s) = calls[k + 1].item

\* The transactions on the do stack are those whose doTransaction() runs, in
\* the order of the calls.
DoStackIsTheCallStack ==
    LET bodies == {k \in 1 .. Len(calls) : calls[k].fn = "body"}
        doing  == {m \in 1 .. Len(stack[DoStack]) : stack[DoStack][m] \notin batch}
    IN /\ {calls[k].item : k \in bodies} = {stack[DoStack][m] : m \in doing}
       /\ \A j, k \in bodies, m, n \in doing :
             calls[j].item = stack[DoStack][m] /\ calls[k].item = stack[DoStack][n]
             => (j < k <=> m < n)

\* One left behind there, stranded, would refuse every later undo.  Only the
\* return of a doTransaction() with a batch open leaves one, itself.
OnlyOpenBatchesStrand ==
    [][DoStackIsTheCallStack =>
         \/ DoStackIsTheCallStack'
         \/ In("body", "running") /\ BatchOpen /\ calls' = Front(calls)]_vars

\* When a transaction itself is undone all its children have been.
ChildrenUndoneFirst ==
    \A k \in 1 .. Len(calls) :
        calls[k].fn = "item" /\ calls[k].dir = "undo" /\ calls[k].at = "calling"
        => stack[<<"undo", calls[k].item>>] = <<>>

\* What takes back a failed undo is a redo, and what takes back a failed redo an
\* undo: where both fail the manager promises nothing.
RollbackWorks ==
    ~ \E i, j \in Item : <<"undo", i>> \in faults /\ <<"redo", j>> \in faults

\* A transaction is undone only while its effects are the last ones in force,
\* and redone only on the document it was first done on.
InContext ==
    In("item", "calling") /\ RollbackWorks =>
       LET i == Callee.item IN
       IF Callee.dir = "undo" THEN IsSuffix(own[i], doc) ELSE doc = before[i]

\* The undo or redo of an item that fails leaves the document as it found it:
\* whatever of it had succeeded has been taken back.
FailureRecovers ==
    [][(/\ Running /\ Callee.fn = "item"
        /\ calls' = Front(calls) /\ ret' = "fail" /\ RollbackWorks')
       => doc' = Callee.doc0]_vars

\* What nsITransactionListener.idl says of didRedo.  The code does not keep to it:
\* RedoChildren() reports the redo of a child as an undo.
RedoIsReportedAsRedo ==
    [][KidsMove /\ Callee.dir = "redo" => told' = "didRedo"]_vars

\* Every call of the manager returns.
CallsReturn == Running ~> ~Running
=============================================================================
