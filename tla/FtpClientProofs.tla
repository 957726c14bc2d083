-------------------------- MODULE FtpClientProofs ---------------------------
(***************************************************************************)
(* Theorems about FtpClient, for every value of its constants.             *)
(***************************************************************************)
EXTENDS FtpClient, SequenceFacts

IsClient(c) ==
    {"conn", "sent", "queue", "trash", "isConnected", "isReady",
     "isReconnecting", "legitClose", "reconnectsLeft", "known", "cwd", "mode",
     "data", "ctl", "dat", "polls", "retries", "report"} = DOMAIN c

\* Of what decides whether the client connects again, a call changes only this:
\* it may close a connection, give up a reconnection and the mark of an end, and
\* get all its attempts back.
Kept(c, d) ==
    /\ IsClient(d)
    /\ d.retries = c.retries
    /\ d.conn = c.conn \/ (c.conn # "none" /\ d.conn = "closing")
    /\ d.reconnectsLeft \in {c.reconnectsLeft, Attempts}
    /\ d.legitClose \in {c.legitClose, FALSE}
    /\ d.isReconnecting \in {c.isReconnecting, FALSE}

LEMMA KeptTwice ==
    ASSUME NEW c, NEW d, NEW e, Kept(c, d), Kept(d, e)
    PROVE  Kept(c, e)
  BY DEF Kept

LEMMA CleanupKeeps ==
    ASSUME NEW c, IsClient(c) PROVE Kept(c, Cleanup(c))
  BY DEF Kept, IsClient, Cleanup

LEMMA KillKeeps ==
    ASSUME NEW c, IsClient(c) PROVE Kept(c, Kill(c))
  BY DEF Kept, IsClient, Kill

LEMMA ReportKeeps ==
    ASSUME NEW c, NEW r, NEW what, IsClient(c) PROVE Kept(c, Report(c, r, what))
  BY DEF Kept, IsClient, Report

LEMMA WriteControlKeeps ==
    ASSUME NEW c, IsClient(c) PROVE Kept(c, WriteControl(c))
<1>1. ASSUME NEW d, IsClient(d) PROVE Kept(d, Written(d))
  BY <1>1 DEF Kept, IsClient, Written
<1>2. Kept(c, SkipNeedless(c))
  BY DEF Kept, IsClient, SkipNeedless
<1>3. Kept(SkipNeedless(c), Written(SkipNeedless(c)))
  BY <1>1, <1>2 DEF Kept
<1>4. Kept(c, c)
  BY DEF Kept
<1> QED BY <1>2, <1>3, <1>4, KeptTwice DEF WriteControl

LEMMA NextCommandKeeps ==
    ASSUME NEW c, IsClient(c) PROVE Kept(c, NextCommand(c))
<1> DEFINE d == [c EXCEPT !.isReady = TRUE]
<1>1. Kept(c, d)
  BY DEF Kept, IsClient
<1>2. Kept(d, WriteControl(d))
  BY <1>1, WriteControlKeeps DEF Kept
<1> QED BY <1>1, <1>2, KeptTwice DEF NextCommand

LEMMA RecoverKeeps ==
    ASSUME NEW c, IsClient(c) PROVE Kept(c, RecoverFromDisaster(c))
<1> DEFINE New(q) == [c EXCEPT !.queue = q, !.cwd = None, !.trash = <<>>]
<1>1. \E q : RecoverFromDisaster(c) = New(q)
  BY DEF RecoverFromDisaster
<1>2. \A q : Kept(c, New(q))
  BY DEF Kept, IsClient
<1> QED BY <1>1, <1>2

----------------------------------------------------------------------------
(***************************************************************************)
(* Replies.                                                                *)
(***************************************************************************)
\* Most of them change the client, report and go on.
LEMMA GoesOn ==
    ASSUME NEW c, NEW d, NEW r, NEW what, IsClient(c), Kept(c, d)
    PROVE  /\ Kept(c, NextCommand(d))
           /\ Kept(c, NextCommand(Report(d, r, what)))
<1>0. IsClient(d)
  BY DEF Kept
<1>1. Kept(d, Report(d, r, what))
  BY <1>0, ReportKeeps
<1>2. Kept(d, NextCommand(d))
  BY <1>0, NextCommandKeeps
<1>3. Kept(c, Report(d, r, what)) /\ IsClient(Report(d, r, what))
  BY <1>1, KeptTwice DEF Kept
<1>4. Kept(Report(d, r, what), NextCommand(Report(d, r, what)))
  BY <1>3, NextCommandKeeps
<1> QED BY <1>2, <1>3, <1>4, KeptTwice

LEMMA TransferKeeps ==
    ASSUME NEW c, NEW h, NEW code, IsClient(c)
    PROVE  Kept(c, TransferAnswered(c, h, code))
<1>1. Kept(c, TransferDone(c, h))
  <2>1. Kept(c, [c EXCEPT !.queue = DropTransfer(c.queue), !.trash = <<>>,
                          !.data = None, !.dat = None])
    BY DEF Kept, IsClient
  <2> QED BY <2>1, GoesOn DEF TransferDone
<1>2. Kept(c, TransferFailed(c, h))
  <2>1. Kept(c, [c EXCEPT !.queue = DropTransfer(c.queue), !.trash = <<>>, !.data = None])
    BY DEF Kept, IsClient
  <2> QED BY <2>1, GoesOn DEF TransferFailed
<1>3. Kept(c, Begun(c))
  BY DEF Kept, IsClient, Begun
<1>4. Kept(Begun(c), Poll(Begun(c)))
  BY <1>3 DEF Kept, IsClient, Poll
<1>5. Kept(c, [c EXCEPT !.queue = DropTransfer(c.queue), !.trash = <<>>, !.dat = None])
  BY DEF Kept, IsClient
<1>6. Kept(c, Poll(Begun(c)))
  BY <1>3, <1>4, KeptTwice
<1> QED BY <1>1, <1>2, <1>3, <1>5, <1>6 DEF TransferAnswered

LEMMA PasvKeeps ==
    ASSUME NEW c, NEW code, IsClient(c)
    PROVE  Kept(c, PasvAnswered(c, code))
<1>1. ASSUME NEW q PROVE Kept(c, [c EXCEPT !.queue = q])
  BY DEF Kept, IsClient
<1>2. Kept(c, [c EXCEPT !.data = DataSocket(c.queue)])
  BY DEF Kept, IsClient
<1>3. Kept(c, c)
  BY DEF Kept
<1>4. ASSUME NEW q, NEW r
      PROVE  /\ Kept(c, NextCommand([c EXCEPT !.queue = q]))
             /\ Kept(c, NextCommand(Report([c EXCEPT !.queue = q], r, "failed")))
  BY <1>1, GoesOn
<1>5. Kept(c, NextCommand([c EXCEPT !.data = DataSocket(c.queue)]))
  BY <1>2, GoesOn
<1> QED BY <1>3, <1>4, <1>5 DEF PasvAnswered

LEMMA WelcomeKeeps ==
    ASSUME NEW c, NEW code, IsClient(c)
    PROVE  Kept(c, Welcomed(c, code))
<1>1. Kept(c, NextCommand(Cleanup(c)))
  BY CleanupKeeps, GoesOn
<1>2. Kept(c, [c EXCEPT !.isConnected = TRUE, !.isReconnecting = FALSE,
                        !.reconnectsLeft = Attempts,
                        !.queue = <<Cmd("USER", None, 0)>> \o c.queue])
  BY DEF Kept, IsClient
<1> QED BY <1>1, <1>2, GoesOn DEF Welcomed

LEMMA LoginKeeps ==
    ASSUME NEW c, NEW h, NEW code, IsClient(c), c.legitClose \in BOOLEAN
    PROVE  Kept(c, LoginAnswered(c, h, code))
<1>1. Kept(c, LoggedIn(c))
  <2> DEFINE d == [c EXCEPT !.known = TRUE, !.legitClose = c.legitClose \/ ~ c.known]
             e == [d EXCEPT !.legitClose = FALSE,
                     !.queue = <<Cmd("FEAT", None, 0), Cmd("PWD", None, 0)>> \o c.queue]
  <2>1. Kept(c, e)
    BY DEF Kept, IsClient
  <2>2. Kept(c, NextCommand(e))
    BY <2>1, GoesOn
  <2>3. CASE d.legitClose
    BY <2>2, <2>3 DEF LoggedIn
  <2>4. CASE ~ d.legitClose
    <3>1. Kept(c, d)
      BY <2>4 DEF Kept, IsClient
    <3>2. Kept(c, RecoverFromDisaster(d))
      <4>1. IsClient(d)
        BY <3>1 DEF Kept
      <4>2. Kept(d, RecoverFromDisaster(d))
        BY <4>1, RecoverKeeps
      <4> QED BY <3>1, <4>2, KeptTwice
    <3>3. Kept(c, NextCommand(RecoverFromDisaster(d)))
      BY <3>2, GoesOn
    <3> QED BY <2>4, <3>1, <3>3 DEF LoggedIn
  <2> QED BY <2>3, <2>4
<1>2. Kept(c, NextCommand([c EXCEPT !.queue = <<Cmd("PASS", None, 0)>> \o c.queue]))
  <2>1. Kept(c, [c EXCEPT !.queue = <<Cmd("PASS", None, 0)>> \o c.queue])
    BY DEF Kept, IsClient
  <2> QED BY <2>1, GoesOn
<1>3. Kept(c, Kill([Cleanup(c) EXCEPT !.isConnected = FALSE]))
  <2>1. Kept(c, [Cleanup(c) EXCEPT !.isConnected = FALSE])
    BY DEF Kept, IsClient, Cleanup
  <2> DEFINE d == [Cleanup(c) EXCEPT !.isConnected = FALSE]
  <2> HIDE DEF d
  <2>2. Kept(d, Kill(d))
    <3>1. IsClient(d)
      BY <2>1 DEF Kept, d
    <3> QED BY <3>1, KillKeeps
  <2>3. Kept(c, Kill(d))
    BY <2>1, <2>2, KeptTwice DEF d
  <2> QED BY <2>3 DEF d
<1> QED BY <1>1, <1>2, <1>3 DEF LoginAnswered

LEMMA SizeKeeps ==
    ASSUME NEW c, NEW h, NEW code, NEW size, IsClient(c)
    PROVE  Kept(c, SizeAnswered(c, h, code, size))
<1>1. \E d : Kept(c, d) /\ SizeAnswered(c, h, code, size) = NextCommand(d)
  <2>1. ASSUME NEW k, NEW cmd, NEW arg
        PROVE  Kept(c, [c EXCEPT !.queue[k].cmd = cmd, !.queue[k].arg = arg])
    BY DEF Kept, IsClient
  <2>2. Kept(c, c)
    BY DEF Kept
  <2> QED BY <2>1, <2>2 DEF SizeAnswered
<1> QED BY <1>1, GoesOn

LEMMA ReadControlKeeps ==
    ASSUME NEW c, NEW code, NEW size, IsClient(c), c.legitClose \in BOOLEAN
    PROVE  Kept(c, ReadControl(c, code, size))
<1>1. ASSUME NEW d, NEW h, IsClient(d), d.legitClose \in BOOLEAN
      PROVE  Kept(d, Answered(d, h, code, size))
  <2>1. Kept(d, d)
    BY <1>1 DEF Kept
  <2>2. Kept(d, NextCommand(d))
    BY <1>1, NextCommandKeeps
  <2>3. Kept(d, SimpleAnswered(d, h, code))
    <3>1. Kept(d, [d EXCEPT !.trash = <<>>])
      BY <1>1 DEF Kept, IsClient
    <3> QED BY <1>1, <3>1, GoesOn DEF SimpleAnswered
  <2>4. Kept(d, NextCommand(Report([d EXCEPT !.queue = <<>>, !.trash = <<>>],
                                   h.req, "failed")))
    <3>1. Kept(d, [d EXCEPT !.queue = <<>>, !.trash = <<>>])
      BY <1>1 DEF Kept, IsClient
    <3> QED BY <1>1, <3>1, GoesOn
  <2>5. ASSUME NEW r PROVE Kept(d, NextCommand(Report([d EXCEPT !.cwd = h.arg], r, "done")))
    <3>1. Kept(d, [d EXCEPT !.cwd = h.arg])
      BY <1>1 DEF Kept, IsClient
    <3> QED BY <1>1, <3>1, GoesOn
  <2>6. Kept(d, NextCommand([d EXCEPT !.trash = <<>>,
                                      !.cwd = IF code = 2 THEN Root ELSE d.cwd]))
    <3>1. Kept(d, [d EXCEPT !.trash = <<>>, !.cwd = IF code = 2 THEN Root ELSE d.cwd])
      BY <1>1 DEF Kept, IsClient
    <3> QED BY <1>1, <3>1, GoesOn
  <2>7. Kept(d, NextCommand([d EXCEPT !.mode = h.arg]))
    <3>1. Kept(d, [d EXCEPT !.mode = h.arg])
      BY <1>1 DEF Kept, IsClient
    <3> QED BY <1>1, <3>1, GoesOn
  <2> QED BY <1>1, <2>2, <2>3, <2>4, <2>5, <2>6, <2>7, WelcomeKeeps, LoginKeeps,
             PasvKeeps, TransferKeeps, SizeKeeps DEF Answered
<1> DEFINE h == IF c.queue = <<>> THEN Cmd("default", None, 0) ELSE Head(c.queue)
           d == IF c.queue = <<>> \/ h.cmd \in Transfers THEN c
                ELSE [c EXCEPT !.queue = Tail(c.queue),
                               !.trash = IF h.cmd \in NotKept THEN c.trash
                                         ELSE Append(c.trash, h)]
<1>2. ReadControl(c, code, size) = Answered(d, h, code, size)
  BY DEF ReadControl
<1>3. Kept(c, d) /\ IsClient(d) /\ d.legitClose \in BOOLEAN
  BY DEF Kept, IsClient
<1>4. Kept(d, Answered(d, h, code, size))
  <2> HIDE DEF d, h
  <2> QED BY <1>1, <1>3
<1> QED BY <1>2, <1>3, <1>4, KeptTwice

----------------------------------------------------------------------------
(***************************************************************************)
(* Reconnection.                                                           *)
(***************************************************************************)
\* One timer at most waits to reconnect, and only when there is no connection:
\* it never takes the place of one.
OneTimerWithoutConnection ==
    /\ ftp.retries \in {0, 1}
    /\ ftp.retries = 1 => ftp.conn = "none"

\* What it will do, the user has not ended.
RetriesAreWanted == ftp.retries = 1 /\ ftp.isReconnecting => ~ ftp.legitClose

ReconnectInv ==
    /\ IsClient(ftp)
    /\ ftp.legitClose \in BOOLEAN /\ ftp.isReconnecting \in BOOLEAN
    /\ OneTimerWithoutConnection
    /\ RetriesAreWanted

LEMMA KeptIsEnough ==
    ASSUME ReconnectInv, Kept(ftp, ftp') PROVE ReconnectInv'
  BY DEF ReconnectInv, Kept, OneTimerWithoutConnection, RetriesAreWanted

LEMMA ReconnectInit ==
    ASSUME Init PROVE ReconnectInv
  BY DEF Init, ReconnectInv, IsClient, OneTimerWithoutConnection, RetriesAreWanted

LEMMA UserKeeps ==
    ASSUME ReconnectInv, "whileDown" \notin Env,
           Connect \/ Cancel \/ Abort \/ Disconnect
           \/ \E r \in Requests, a \in Wishes : Ask(r, a)
    PROVE  ReconnectInv'
<1>0. IsClient(ftp)
  BY DEF ReconnectInv
<1>1. CASE Connect
  BY <1>1 DEF Connect, Connecting, ReconnectInv, IsClient, OneTimerWithoutConnection,
              RetriesAreWanted
<1>2. CASE Cancel
  <2>1. \E t, d, q : ftp' = [ftp EXCEPT !.trash = t, !.data = d, !.queue = q]
    BY <1>2 DEF Cancel
  <2>2. Kept(ftp, ftp')
    BY <1>0, <2>1 DEF Kept, IsClient
  <2> QED BY <2>2, KeptIsEnough
<1>3. CASE Abort
  <2> DEFINE b == [ftp EXCEPT !.isReconnecting = FALSE]
             c == Cleanup(b)
             d == [c EXCEPT !.queue = <<Cmd("aborted", None, 0)>>, !.data = None,
                            !.isReady = ftp.data = None]
  <2>1. Kept(ftp, b) /\ IsClient(b)
    BY <1>0 DEF Kept, IsClient
  <2>2. Kept(b, c)
    BY <2>1, CleanupKeeps
  <2>3. Kept(ftp, c) /\ IsClient(c)
    <3>1. Kept(ftp, c)
      BY <2>1, <2>2, KeptTwice
    <3> QED BY <3>1 DEF Kept
  <2>4. Kept(c, d)
    BY <2>3 DEF Kept, IsClient
  <2>5. Kept(ftp, d)
    BY <2>3, <2>4, KeptTwice
  <2>6. ftp' = c \/ ftp' = d
    BY <1>3 DEF Abort
  <2> QED BY <2>3, <2>5, <2>6, KeptIsEnough
<1>4. CASE Disconnect
  <2>1. ftp.retries = 0
    BY <1>4 DEF Disconnect, ReconnectInv, OneTimerWithoutConnection
  <2> DEFINE c == [Cleanup(ftp) EXCEPT !.legitClose = TRUE, !.data = None]
  <2>2. IsClient(c)
    BY <1>0 DEF Cleanup, IsClient
  <2>3. c.retries = 0 /\ c.legitClose = TRUE /\ c.isReconnecting = ftp.isReconnecting
    BY <1>0, <2>1 DEF Cleanup, IsClient
  <2>4. ftp' = Kill(c)
    BY <1>4 DEF Disconnect
  <2> HIDE DEF c
  <2>5. Kept(c, Kill(c))
    BY <2>2, KillKeeps
  <2>6. Kept(c, ftp')
    BY <2>4, <2>5
  <2>7. ftp.isReconnecting \in BOOLEAN
    BY DEF ReconnectInv
  <2>8. /\ IsClient(ftp') /\ ftp'.retries = 0
        /\ ftp'.legitClose \in BOOLEAN /\ ftp'.isReconnecting \in BOOLEAN
    BY <2>3, <2>6, <2>7 DEF Kept
  <2> QED BY <2>8 DEF ReconnectInv, IsClient, OneTimerWithoutConnection, RetriesAreWanted
<1>5. ASSUME NEW r \in Requests, NEW a \in Wishes, Ask(r, a) PROVE ReconnectInv'
  <2> DEFINE With(q) == [ftp EXCEPT !.queue = q]
  <2>1. \E q : ftp' = WriteControl(With(q))
    BY <1>5 DEF Ask
  <2>2. ASSUME NEW q PROVE Kept(ftp, WriteControl(With(q)))
    <3>1. Kept(ftp, With(q)) /\ IsClient(With(q))
      BY <1>0 DEF Kept, IsClient
    <3> QED BY <3>1, WriteControlKeeps, KeptTwice
  <2> QED BY <2>1, <2>2, KeptIsEnough
<1> QED BY <1>1, <1>2, <1>3, <1>4, <1>5

\* Whatever is in the reply that is read.
LEMMA ReadKeeps ==
    ASSUME ReconnectInv, NEW c, NEW code, NEW size, Kept(ftp, c),
           ftp' = ReadControl(c, code, size)
    PROVE  ReconnectInv'
<1>1. IsClient(c) /\ c.legitClose \in BOOLEAN
  BY DEF Kept, ReconnectInv
<1>2. Kept(ftp, ftp')
  BY <1>1, ReadControlKeeps, KeptTwice
<1> QED BY <1>2, KeptIsEnough

LEMMA TimersKeep ==
    ASSUME ReconnectInv,
           KeepAlive \/ CheckTimeout \/ CheckDataTimeout \/ PollAgain \/ Reconnect
    PROVE  ReconnectInv'
<1>0. IsClient(ftp)
  BY DEF ReconnectInv
<1>1. CASE KeepAlive
  <2> DEFINE c == [ftp EXCEPT !.queue = <<Cmd("NOOP", None, 0)>>]
  <2>1. Kept(ftp, c) /\ IsClient(c)
    BY <1>0 DEF Kept, IsClient
  <2>2. Kept(ftp, WriteControl(c))
    BY <2>1, WriteControlKeeps, KeptTwice
  <2> QED BY <1>1, <2>2, KeptIsEnough DEF KeepAlive
<1>2. CASE CheckTimeout \/ CheckDataTimeout
  <2> DEFINE c == [ftp EXCEPT !.legitClose = FALSE, !.data = None]
  <2>1. Kept(ftp, c) /\ IsClient(c)
    BY <1>0 DEF Kept, IsClient
  <2>2. Kept(ftp, Kill(c))
    BY <2>1, KillKeeps, KeptTwice
  <2>3. ftp' = Kill(c)
    BY <1>2 DEF CheckTimeout, CheckDataTimeout, ResetConnection
  <2> QED BY <2>2, <2>3, KeptIsEnough
<1>3. CASE PollAgain
  <2> DEFINE c == [ftp EXCEPT !.polls = ftp.polls - 1]
  <2>1. Kept(ftp, c)
    BY <1>0 DEF Kept, IsClient
  <2>2. ftp' = c \/ ftp' = ReadControl(c, 2, 0)
    BY <1>3 DEF PollAgain
  <2> QED BY <2>1, <2>2, KeptIsEnough, ReadKeeps
<1>4. CASE Reconnect
  <2> DEFINE c == [ftp EXCEPT !.retries = ftp.retries - 1]
             d == [c EXCEPT !.reconnectsLeft = c.reconnectsLeft - 1]
  <2>1. ftp.retries = 1
    BY <1>4 DEF Reconnect, ReconnectInv, OneTimerWithoutConnection
  <2>2. /\ IsClient(c) /\ c.retries = 0 /\ c.legitClose = ftp.legitClose
        /\ c.isReconnecting = ftp.isReconnecting
    BY <1>0, <2>1 DEF IsClient
  <2>3. /\ IsClient(d) /\ d.retries = 0 /\ d.legitClose = ftp.legitClose
        /\ d.isReconnecting = ftp.isReconnecting
    BY <2>2 DEF IsClient
  <2>4. ftp' = c \/ ftp' = Connecting(d)
    BY <1>4 DEF Reconnect
  <2> HIDE DEF c, d
  <2>5. /\ IsClient(ftp') /\ ftp'.retries = 0 /\ ftp'.legitClose = ftp.legitClose
        /\ ftp'.isReconnecting = ftp.isReconnecting
    BY <2>2, <2>3, <2>4 DEF Connecting, IsClient
  <2> QED BY <2>5 DEF ReconnectInv, OneTimerWithoutConnection, RetriesAreWanted
<1> QED BY <1>1, <1>2, <1>3, <1>4

LEMMA ServerKeeps ==
    ASSUME ReconnectInv,
           \/ Accept \/ StopRequest \/ OnDataAvailable
           \/ Execute \/ DataMoves \/ DataFinishes \/ TransferEnds
    PROVE  ReconnectInv'
<1>0. IsClient(ftp)
  BY DEF ReconnectInv
<1>1. CASE Accept
  BY <1>0, <1>1 DEF Accept, ReconnectInv, IsClient, OneTimerWithoutConnection,
                    RetriesAreWanted
<1>2. CASE StopRequest
  <2>1. ftp.conn # "none" /\ ftp.retries = 0
    BY <1>2 DEF StopRequest, ReconnectInv, OneTimerWithoutConnection
  <2>2. ftp' = OnDisconnect(ftp)
    BY <1>2 DEF StopRequest
  <2>3. CASE ftp.legitClose
    BY <1>0, <2>1, <2>2, <2>3 DEF OnDisconnect, Cleanup, ReconnectInv, IsClient,
                                  OneTimerWithoutConnection, RetriesAreWanted
  <2>4. CASE ~ ftp.legitClose
    BY <1>0, <2>1, <2>2, <2>4 DEF OnDisconnect, ReconnectInv, IsClient,
                                  OneTimerWithoutConnection, RetriesAreWanted
  <2> QED BY <2>3, <2>4
<1>3. CASE OnDataAvailable
  <2> DEFINE c == [ftp EXCEPT !.ctl = None]
  <2>1. Kept(ftp, c)
    BY <1>0 DEF Kept, IsClient
  <2>2. PICK n \in 1 .. Len(replies) : ftp' = ReadControl(c, replies[n].code, replies[n].size)
    BY <1>3 DEF OnDataAvailable
  <2> QED BY <2>1, <2>2, ReadKeeps
<1>4. CASE Execute \/ DataMoves \/ DataFinishes \/ TransferEnds
  <2>1. \E s, d : ftp' = ftp \/ ftp' = [ftp EXCEPT !.sent = s] \/ ftp' = [ftp EXCEPT !.data = d]
    BY <1>4 DEF Execute, DataMoves, DataFinishes, TransferEnds
  <2>2. Kept(ftp, ftp')
    BY <1>0, <2>1 DEF Kept, IsClient
  <2> QED BY <2>2, KeptIsEnough
<1> QED BY <1>1, <1>2, <1>3, <1>4

LEMMA ReconnectStep ==
    ASSUME ReconnectInv, "whileDown" \notin Env, [Next]_vars
    PROVE  ReconnectInv'
<1>1. CASE UNCHANGED vars
  BY <1>1 DEF vars, ReconnectInv, IsClient, OneTimerWithoutConnection, RetriesAreWanted
<1> QED BY <1>1, UserKeeps, TimersKeep, ServerKeeps DEF Next

\* When a lost connection is made again there is none, and no other attempt is
\* pending: whatever the server answers, and whatever is lost and when.
THEOREM ReconnectsOnce ==
    ASSUME "whileDown" \notin Env
    PROVE  Spec => []OneTimerWithoutConnection
<1>1. Init => ReconnectInv
  BY ReconnectInit
<1>2. ReconnectInv /\ [Next]_vars => ReconnectInv'
  BY ReconnectStep
<1>3. ReconnectInv => OneTimerWithoutConnection
  BY DEF ReconnectInv
<1> QED BY <1>1, <1>2, <1>3, PTL DEF Spec

\* After disconnect() the client does not connect by itself, unless it was waiting
\* to do so when disconnect() was called.
THEOREM DisconnectIsFinal ==
    ASSUME "whileDown" \notin Env
    PROVE  Spec => NoReconnectAfterDisconnect
<1>1. Init => ReconnectInv
  BY ReconnectInit
<1>2. ReconnectInv /\ [Next]_vars => ReconnectInv'
  BY ReconnectStep
<1>3. ReconnectInv => (Reconnect /\ ftp.isReconnecting => ~ ftp.legitClose)
  BY DEF ReconnectInv, RetriesAreWanted, OneTimerWithoutConnection, Reconnect
<1> QED BY <1>1, <1>2, <1>3, PTL DEF Spec, NoReconnectAfterDisconnect

----------------------------------------------------------------------------
(***************************************************************************)
(* Types.                                                                  *)
(***************************************************************************)
\* A parameter that the code uses in a place has the type that it needs there.
Command ==
    {x \in [cmd : CmdNames,
            arg : Dirs \cup {None, "A", "I", "STOR", "APPE"} \cup Nat,
            req : Requests \cup {0}, begun : BOOLEAN] :
        /\ x.begun => x.cmd \in Transfers
        /\ x.cmd = "CWD" => x.arg \in Dirs
        /\ x.cmd = "TYPE" => x.arg \in {"A", "I"}
        /\ x.cmd \in {"REST", "APPE"} => x.arg \in Nat
        /\ x.cmd = "SIZE" => x.arg \in {"STOR", "APPE"}
        /\ x.cmd \in {"RETR", "STOR", "APPE", "SIZE"} => x.req \in Requests
        /\ x.cmd = "welcome" => x.req = 0}

DataConn ==
    [id : Requests \cup {0, None}, req : Requests \cup {0},
     way : {"list", "get", "put", "none"}, from : Nat, moved : Nat,
     finished : BOOLEAN]

Typed(c) ==
    /\ IsClient(c)
    /\ c.conn \in {"none", "opening", "open", "closing"}
    /\ c.sent \in Seq(Command) /\ c.queue \in Seq(Command) /\ c.trash \in Seq(Command)
    /\ c.isConnected \in BOOLEAN /\ c.isReady \in BOOLEAN
    /\ c.isReconnecting \in BOOLEAN /\ c.legitClose \in BOOLEAN
    /\ c.reconnectsLeft \in 0 .. Attempts /\ c.known \in BOOLEAN
    /\ c.cwd \in Dirs \cup {None} /\ c.mode \in {"A", "I", None}
    /\ c.data \in DataConn \cup {None}
    /\ c.ctl \in CmdNames \cup {None} /\ c.dat \in Requests \cup {0, None}
    /\ c.polls \in Nat /\ c.retries \in Nat
    /\ c.report \in [Requests -> {"none", "done", "failed"}]

Files == [Requests -> Seq(0 .. 2)]

LEMMA RequestTypes ==
    Requests \subseteq Nat /\ 0 \notin Requests /\ Attempts \in Nat \ {0}
  BY FtpAssumption DEF Requests

\* The least element of a set of numbers, as the model chooses it.
LEMMA LeastOf ==
    ASSUME NEW S, S \subseteq Nat, S # {}
    PROVE  LET n == CHOOSE k \in S : \A l \in S : k <= l
           IN n \in S /\ \A l \in S : n <= l
<1> DEFINE R == {ss \in Nat \X Nat : ss[1] < ss[2]}
<1>1. IsWellFoundedOn(R, Nat)
  BY NatLessThanWellFounded DEF OpToRel
<1>2. PICK x \in S : \A y \in S : ~ (<<y, x>> \in R)
  <2> HIDE DEF R
  <2> QED BY <1>1, WFMin
<1>3. \A y \in S : x <= y
  <2> TAKE y \in S
  <2>1. ~ (y < x)
    BY <1>2
  <2> QED BY <2>1
<1> QED BY <1>3

\* A sequence that is not empty is its first element and the others.
LEMMA FirstOf ==
    ASSUME NEW S, NEW s \in Seq(S), s # <<>>
    PROVE  Head(s) \in S /\ Tail(s) \in Seq(S) /\ Len(s) \in Nat \ {0} /\ Head(s) = s[1]
BY Elements, HeadTailProperties

\* What comes after an element of a sequence.
LEMMA RestOf ==
    ASSUME NEW S, NEW s \in Seq(S), NEW n \in Nat
    PROVE  SubSeq(s, n + 1, Len(s)) \in Seq(S)
<1>1. Len(s) \in Nat /\ n + 1 \in Nat \ {0}
  BY Elements
<1> QED BY <1>1, PartOf

\* One element in front of a sequence.
LEMMA Before1 ==
    ASSUME NEW S, NEW s \in Seq(S), NEW x \in S
    PROVE  <<x>> \o s \in Seq(S) /\ <<x>> \o s # <<>> /\ Head(<<x>> \o s) = x
<1>1. <<x>> \in Seq(S) /\ Len(<<x>>) = 1 /\ <<x>>[1] = x
  OBVIOUS
<1> DEFINE u == <<x>>
           t == u \o s
<1>2. u \in Seq(S) /\ Len(u) = 1 /\ u[1] = x
  BY <1>1
<1> HIDE DEF u
<1>3. t \in Seq(S) /\ Len(t) = Len(u) + Len(s) /\ \A i \in 1 .. Len(u) : t[i] = u[i]
  BY <1>2, ConcatProperties
<1> HIDE DEF t
<1>4. Len(t) # 0 /\ t[1] = x
  BY <1>2, <1>3, Elements
<1>5. t # <<>> /\ Head(t) = x
  BY <1>3, <1>4, HeadTailProperties, EmptySeq
<1> QED BY <1>3, <1>5 DEF t, u

LEMMA CommandTypes ==
    ASSUME NEW cmd \in CmdNames, NEW arg \in Dirs \cup {None, "A", "I", "STOR", "APPE"} \cup Nat,
           NEW r \in Requests \cup {0},
           cmd = "CWD" => arg \in Dirs,
           cmd = "TYPE" => arg \in {"A", "I"},
           cmd \in {"REST", "APPE"} => arg \in Nat,
           cmd = "SIZE" => arg \in {"STOR", "APPE"},
           cmd \in {"RETR", "STOR", "APPE", "SIZE"} => r \in Requests,
           cmd = "welcome" => r = 0
    PROVE  Cmd(cmd, arg, r) \in Command
  BY DEF Cmd, Command

LEMMA PlainCommand ==
    ASSUME NEW cmd \in CmdNames \ {"CWD", "TYPE", "REST", "APPE", "SIZE", "RETR", "STOR", "welcome"},
           NEW r \in Requests \cup {0}
    PROVE  Cmd(cmd, None, r) \in Command
  BY CommandTypes

LEMMA InternalCommands ==
    /\ Cmd("welcome", None, 0) \in Command /\ Cmd("USER", None, 0) \in Command
    /\ Cmd("PASS", None, 0) \in Command /\ Cmd("FEAT", None, 0) \in Command
    /\ Cmd("PWD", None, 0) \in Command /\ Cmd("NOOP", None, 0) \in Command
    /\ Cmd("aborted", None, 0) \in Command
<1>1. Cmd("welcome", None, 0) \in Command
  BY CommandTypes DEF CmdNames
<1>2. 0 \in Requests \cup {0}
  OBVIOUS
<1> QED BY <1>1, <1>2, PlainCommand DEF CmdNames

\* What a command has.
LEMMA OfCommand ==
    ASSUME NEW x \in Command
    PROVE  /\ x.cmd \in CmdNames /\ x.req \in Requests \cup {0} /\ x.begun \in BOOLEAN
           /\ x.begun => x.cmd \in Transfers
           /\ x.cmd = "CWD" => x.arg \in Dirs
           /\ x.cmd = "TYPE" => x.arg \in {"A", "I"}
           /\ x.cmd \in {"REST", "APPE"} => x.arg \in Nat
           /\ x.cmd = "SIZE" => x.arg \in {"STOR", "APPE"}
           /\ x.cmd \in {"RETR", "STOR", "APPE", "SIZE"} => x.req \in Requests
           /\ x.cmd = "welcome" => x.req = 0
  BY DEF Command

\* Commands that are made from others.
LEMMA Marked ==
    ASSUME NEW x \in Command
    PROVE  /\ [x EXCEPT !.begun = FALSE] \in Command
           /\ x.cmd \in Transfers => [x EXCEPT !.begun = TRUE] \in Command
           /\ \A n \in Nat : x.cmd = "REST" => [x EXCEPT !.arg = n] \in Command
  BY DEF Command

LEMMA TransferRenamed ==
    ASSUME NEW x \in Command, x.cmd \in {"STOR", "APPE"}, NEW n \in Nat
    PROVE  /\ [[x EXCEPT !.cmd = "APPE"] EXCEPT !.arg = n] \in Command
           /\ [[x EXCEPT !.cmd = "STOR"] EXCEPT !.arg = None] \in Command
  BY DEF Command, CmdNames, Transfers

----------------------------------------------------------------------------
LEMMA CleanupTypes ==
    ASSUME NEW c, Typed(c) PROVE Typed(Cleanup(c))
  BY DEF Cleanup, Typed, IsClient

LEMMA KillTypes ==
    ASSUME NEW c, Typed(c) PROVE Typed(Kill(c))
  BY DEF Kill, Typed, IsClient

LEMMA ReportTypes ==
    ASSUME NEW c, Typed(c), NEW r \in Requests \cup {0}, NEW what \in {"done", "failed"}
    PROVE Typed( Report(c, r, what))
  BY DEF Report, Typed, IsClient

\* What goes into the trash.
LEMMA SkippedTypes ==
    ASSUME NEW q \in Seq(Command) PROVE Skipped(q) \in Seq(Command)
<1> DEFINE ss == [k \in 1 .. Len(q) |->
        IF q[k].cmd \in {"aborted", "transferEnd"} THEN <<>> ELSE <<q[k]>>]
<1>1. \A k \in 1 .. Len(q) : ss[k] \in Seq(Command)
  BY Elements
<1>2. ss \in Seq(Seq(Command))
  <2>1. Len(q) \in Nat
    BY Elements
  <2> HIDE DEF Command
  <2> QED BY <1>1, <2>1
<1> QED BY <1>2, Flattened DEF Skipped

LEMMA SkipTypes ==
    ASSUME NEW c, Typed(c) PROVE Typed(SkipNeedless(c))
<1> DEFINE q == c.queue
           needed == {k \in 1 .. Len(q) : ~ Needless(c, q[k])}
           n == IF needed = {} THEN Len(q)
                ELSE (CHOOSE k \in needed : \A l \in needed : k <= l) - 1
<1>1. q \in Seq(Command) /\ Len(q) \in Nat /\ c.trash \in Seq(Command)
  BY Elements DEF Typed, IsClient
<1>2. n \in 0 .. Len(q)
  <2>1. CASE needed = {}
    BY <1>1, <2>1
  <2>2. CASE needed # {}
    <3> DEFINE l == CHOOSE k \in needed : \A m \in needed : k <= m
    <3>1. needed \subseteq Nat
      BY <1>1
    <3>2. l \in needed
      <4> HIDE DEF needed
      <4> QED BY <2>2, <3>1, LeastOf
    <3>3. l \in 1 .. Len(q)
      BY <3>2
    <3>4. n = l - 1
      BY <2>2
    <3> HIDE DEF l, n
    <3> QED BY <1>1, <3>3, <3>4
  <2> QED BY <2>1, <2>2
<1>3. SkipNeedless(c) = [c EXCEPT !.queue = SubSeq(q, n + 1, Len(q)),
                                  !.trash = c.trash \o Skipped(SubSeq(q, 1, n))]
  BY DEF SkipNeedless
<1> HIDE DEF n
<1>4. SubSeq(q, n + 1, Len(q)) \in Seq(Command) /\ SubSeq(q, 1, n) \in Seq(Command)
  <2>1. n \in Nat /\ n <= Len(q) /\ 1 \in Nat \ {0} /\ n \in Int
    BY <1>1, <1>2
  <2> HIDE DEF q
  <2> QED BY <1>1, <2>1, RestOf, PartOf
<1>5. c.trash \o Skipped(SubSeq(q, 1, n)) \in Seq(Command)
  BY <1>1, <1>4, SkippedTypes, ConcatProperties
<1> HIDE DEF q
<1> QED BY <1>3, <1>4, <1>5 DEF Typed, IsClient

LEMMA WrittenTypes ==
    ASSUME NEW c, Typed(c), c.queue # <<>> PROVE Typed(Written(c))
<1>1. Head(c.queue) \in Command
  BY FirstOf DEF Typed, IsClient
<1>2. Append(c.sent, Head(c.queue)) \in Seq(Command)
  BY <1>1, AppendProperties DEF Typed, IsClient
<1>3. Head(c.queue).cmd \in CmdNames /\ Head(c.queue).req \in Requests \cup {0}
  BY <1>1, OfCommand
<1> QED BY <1>2, <1>3 DEF Written, Typed, IsClient

LEMMA WriteTypes ==
    ASSUME NEW c, Typed(c) PROVE Typed(WriteControl(c))
<1>1. Typed(SkipNeedless(c))
  BY SkipTypes
<1> QED BY <1>1, WrittenTypes DEF WriteControl

LEMMA NextTypes ==
    ASSUME NEW c, Typed(c) PROVE Typed(NextCommand(c))
<1>1. Typed([c EXCEPT !.isReady = TRUE])
  BY DEF Typed, IsClient
<1> QED BY <1>1, WriteTypes DEF NextCommand

LEMMA ConnectingTypes ==
    ASSUME NEW c, Typed(c) PROVE Typed(Connecting(c))
<1>1. <<Cmd("welcome", None, 0)>> \o c.queue \in Seq(Command)
  BY InternalCommands, Before1 DEF Typed, IsClient
<1> QED BY <1>1 DEF Connecting, Typed, IsClient

LEMMA DisconnectTypes ==
    ASSUME NEW c, Typed(c) PROVE Typed(OnDisconnect(c))
<1> DEFINE d == [c EXCEPT !.conn = "none", !.sent = <<>>,
                          !.isConnected = FALSE, !.data = None]
           q == IF c.queue # <<>> /\ Head(c.queue).cmd = "welcome"
                THEN Tail(c.queue) ELSE c.queue
<1>1. Typed(d)
  BY DEF Typed, IsClient
<1>2. Typed(Cleanup(d))
  BY <1>1, CleanupTypes
<1>3. q \in Seq(Command)
  BY FirstOf DEF Typed, IsClient
<1>4. Typed([d EXCEPT !.mode = None, !.isReconnecting = FALSE, !.queue = q])
  <2> HIDE DEF q
  <2> QED BY <1>3 DEF Typed, IsClient
<1>5. Typed([d EXCEPT !.mode = None, !.isReconnecting = TRUE, !.retries = c.retries + 1])
  BY DEF Typed, IsClient
<1> QED BY <1>2, <1>4, <1>5 DEF OnDisconnect

----------------------------------------------------------------------------
LEMMA RestoredTypes ==
    ASSUME NEW t \in Seq(Command), NEW x \in Command
    PROVE  Restored(t, x) \in Seq(Command)
<1> DEFINE y == Cmd("SIZE", x.cmd, x.req)
           ss == [k \in 1 .. Len(t) |-> IF t[k].cmd = "TYPE" /\ x.cmd \in {"STOR", "APPE"}
                                        THEN <<t[k], y>> ELSE <<t[k]>>]
<1>1. x.cmd \in {"STOR", "APPE"} => y \in Command
  BY OfCommand, CommandTypes DEF CmdNames
<1> HIDE DEF y
<1>2. \A k \in 1 .. Len(t) : ss[k] \in Seq(Command)
  <2> TAKE k \in 1 .. Len(t)
  <2>1. t[k] \in Command
    BY Elements
  <2>2. CASE t[k].cmd = "TYPE" /\ x.cmd \in {"STOR", "APPE"}
    BY <1>1, <2>1, <2>2
  <2>3. CASE ~ (t[k].cmd = "TYPE" /\ x.cmd \in {"STOR", "APPE"})
    BY <2>1, <2>3
  <2> QED BY <2>2, <2>3
<1>3. ss \in Seq(Seq(Command))
  <2>1. Len(t) \in Nat
    BY Elements
  <2> QED BY <1>2, <2>1
<1>4. Restored(t, x) = FlattenSeq(ss)
  BY DEF Restored, y
<1> HIDE DEF ss
<1> QED BY <1>3, <1>4, Flattened

LEMMA ResumedTypes ==
    ASSUME NEW q \in Seq(Command), q # <<>>, file \in Files
    PROVE  Resumed(q) \in Seq(Command)
<1> DEFINE x == Head(q)
           size == IF x.req = 0 THEN 0 ELSE Len(file[x.req])
<1>1. x \in Command /\ Tail(q) \in Seq(Command)
  BY FirstOf
<1>2. size \in Nat
  <2>1. x.req \in Requests \cup {0}
    BY <1>1, OfCommand
  <2>2. x.req # 0 => file[x.req] \in Seq(0 .. 2)
    BY <2>1 DEF Files
  <2> QED BY <2>1, <2>2, Elements
<1>3. x.cmd = "REST" => <<[x EXCEPT !.arg = size]>> \o Tail(q) \in Seq(Command)
  <2> HIDE DEF size, x
  <2> QED BY <1>1, <1>2, Marked, Before1
<1>4. x.cmd = "RETR" => <<Cmd("REST", size, x.req)>> \o q \in Seq(Command)
  <2> HIDE DEF size, x
  <2>1. x.cmd = "RETR" => Cmd("REST", size, x.req) \in Command
    BY <1>1, <1>2, OfCommand, CommandTypes DEF CmdNames
  <2> QED BY <2>1, Before1
<1>5. Resumed(q) = CASE x.cmd = "REST" /\ size > 0 -> <<[x EXCEPT !.arg = size]>> \o Tail(q)
                     [] x.cmd = "RETR" /\ size > 0 -> <<Cmd("REST", size, x.req)>> \o q
                     [] OTHER -> q
  BY DEF Resumed
<1> HIDE DEF size, x
<1> QED BY <1>3, <1>4, <1>5

\* The queue that is sent again.
LEMMA RecoverTypes ==
    ASSUME NEW c, Typed(c), file \in Files, ~ RecoveryThrows(c)
    PROVE  Typed(RecoverFromDisaster(c))
<1> DEFINE x == Head(c.queue)
           again == Restored(c.trash, x)
                    \o Resumed(<<[x EXCEPT !.begun = FALSE]>> \o Tail(c.queue))
           q == CASE c.queue = <<>> -> <<>>
                  [] c.queue # <<>> /\ x.cmd \in Transfers \union {"REST", "PASV", "SIZE"} -> again
                  [] c.queue # <<>> /\ x.cmd = "RNTO" /\ Last(c.trash).cmd = "RNFR" ->
                       <<Last(c.trash)>> \o c.queue
                  [] OTHER -> c.queue
           cd == <<Cmd("CWD", c.cwd, 0)>> \o q
<1>1. c.queue \in Seq(Command) /\ c.trash \in Seq(Command) /\ c.cwd \in Dirs \cup {None}
  BY DEF Typed
<1>2. c.queue # <<>> => again \in Seq(Command)
  <2> SUFFICES ASSUME c.queue # <<>> PROVE again \in Seq(Command)
    OBVIOUS
  <2> DEFINE y == [x EXCEPT !.begun = FALSE]
             r == <<y>> \o Tail(c.queue)
  <2>1. x \in Command /\ Tail(c.queue) \in Seq(Command)
    BY <1>1, FirstOf
  <2>2. y \in Command
    BY <2>1, Marked
  <2>3. Restored(c.trash, x) \in Seq(Command)
    BY <1>1, <2>1, RestoredTypes
  <2> HIDE DEF y, x
  <2>4. r \in Seq(Command) /\ r # <<>>
    BY <2>1, <2>2, Before1
  <2> HIDE DEF r
  <2>5. Resumed(r) \in Seq(Command)
    BY <2>4, ResumedTypes
  <2>6. Restored(c.trash, x) \o Resumed(r) \in Seq(Command)
    BY <2>3, <2>5, ConcatProperties
  <2> QED BY <2>6 DEF r, y, x
<1>3. c.queue # <<>> /\ x.cmd = "RNTO" => <<Last(c.trash)>> \o c.queue \in Seq(Command)
  <2> SUFFICES ASSUME c.queue # <<>>, x.cmd = "RNTO"
               PROVE  <<Last(c.trash)>> \o c.queue \in Seq(Command)
    OBVIOUS
  <2>1. c.trash # <<>>
    BY DEF RecoveryThrows
  <2>2. Last(c.trash) \in Command
    BY <1>1, <2>1, Elements
  <2> QED BY <1>1, <2>2, Before1
<1>4. q \in Seq(Command)
  <2>1. <<>> \in Seq(Command)
    OBVIOUS
  <2> HIDE DEF again, x
  <2> QED BY <1>1, <1>2, <1>3, <2>1
<1>5. c.cwd # None => cd \in Seq(Command)
  <2> HIDE DEF q
  <2>1. c.cwd # None => Cmd("CWD", c.cwd, 0) \in Command
    BY <1>1, CommandTypes DEF CmdNames
  <2> QED BY <1>4, <2>1, Before1
<1>6. RecoverFromDisaster(c) =
        [c EXCEPT !.queue = IF c.cwd = None THEN q ELSE cd, !.cwd = None, !.trash = <<>>]
  BY DEF RecoverFromDisaster
<1> DEFINE r == IF c.cwd = None THEN q ELSE cd
<1>7. r \in Seq(Command)
  <2> HIDE DEF q, cd
  <2> QED BY <1>4, <1>5
<1>8. RecoverFromDisaster(c) = [c EXCEPT !.queue = r, !.cwd = None, !.trash = <<>>]
  BY <1>6
<1> HIDE DEF r
<1> QED BY <1>7, <1>8 DEF Typed, IsClient

----------------------------------------------------------------------------
LEMMA NextReportTypes ==
    ASSUME NEW c, Typed(c), NEW r \in Requests \cup {0}, NEW what \in {"done", "failed"}
    PROVE  Typed(NextCommand(Report(c, r, what)))
  BY ReportTypes, NextTypes

LEMMA QueueTypes ==
    ASSUME NEW c, Typed(c), NEW q \in Seq(Command)
    PROVE  /\ Typed([c EXCEPT !.queue = q])
           /\ Typed([c EXCEPT !.queue = q, !.trash = <<>>])
           /\ Typed([c EXCEPT !.queue = q, !.trash = <<>>, !.dat = None])
           /\ Typed([c EXCEPT !.queue = q, !.trash = <<>>, !.data = None])
           /\ Typed([c EXCEPT !.queue = q, !.trash = <<>>, !.data = None, !.dat = None])
  BY DEF Typed, IsClient

LEMMA DropTypes ==
    ASSUME NEW q \in Seq(Command), q # <<>> PROVE DropTransfer(q) \in Seq(Command)
<1>1. Tail(q) \in Seq(Command)
  BY FirstOf
<1>2. SubSeq(q, 3, Len(q)) \in Seq(Command)
  <2>1. 2 \in Nat /\ 2 + 1 = 3
    OBVIOUS
  <2> QED BY <2>1, RestOf
<1> QED BY <1>1, <1>2 DEF DropTransfer

LEMMA BegunTypes ==
    ASSUME NEW c, Typed(c), c.queue # <<>>, Head(c.queue).cmd \in Transfers
    PROVE  Typed(Begun(c)) /\ Typed(Poll(Begun(c)))
<1> DEFINE y == [Head(c.queue) EXCEPT !.begun = TRUE]
           q == <<y>> \o Tail(c.queue)
<1>1. Head(c.queue) \in Command /\ Tail(c.queue) \in Seq(Command)
  BY FirstOf DEF Typed
<1>2. y \in Command
  BY <1>1, Marked
<1>3. q \in Seq(Command)
  <2> HIDE DEF y
  <2> QED BY <1>1, <1>2, Before1
<1>4. Begun(c) = [c EXCEPT !.queue = q]
  BY DEF Begun
<1> HIDE DEF q
<1>5. Typed(Begun(c))
  <2>1. Typed([c EXCEPT !.queue = q])
    BY <1>3, QueueTypes
  <2> QED BY <1>4, <2>1
<1>6. Typed(Poll(Begun(c)))
  BY <1>5 DEF Poll, Typed, IsClient
<1> QED BY <1>5, <1>6

LEMMA TransferTypes ==
    ASSUME NEW c, Typed(c), c.queue # <<>>, NEW h, h = Head(c.queue), h.cmd \in Transfers,
           NEW code
    PROVE  Typed(TransferAnswered(c, h, code))
<1> DEFINE q == DropTransfer(c.queue)
<1>1. q \in Seq(Command) /\ h.req \in Requests \cup {0}
  BY FirstOf, OfCommand, DropTypes DEF Typed
<1> HIDE DEF q
<1>2. Typed(TransferDone(c, h)) /\ Typed(TransferFailed(c, h))
  BY <1>1, QueueTypes, NextReportTypes DEF TransferDone, TransferFailed, q
<1>3. Typed([c EXCEPT !.queue = q, !.trash = <<>>, !.dat = None])
  BY <1>1, QueueTypes
<1>4. Typed(Begun(c)) /\ Typed(Poll(Begun(c)))
  BY BegunTypes
<1> QED BY <1>2, <1>3, <1>4 DEF TransferAnswered, q

\* The end that a data socket is for.
LEMMA FirstEndTypes ==
    ASSUME NEW q \in Seq(Command), Ends(q) # {}
    PROVE  /\ FirstEnd(q) \in 1 .. Len(q) /\ FirstEnd(q) \in Nat /\ q[FirstEnd(q)] \in Command
           /\ q[FirstEnd(q)].req \in Requests \cup {0}
<1>1. Ends(q) \subseteq Nat /\ Ends(q) \subseteq 1 .. Len(q)
  BY Elements DEF Ends
<1>2. FirstEnd(q) \in Ends(q)
  BY <1>1, LeastOf DEF FirstEnd
<1>3. FirstEnd(q) \in 1 .. Len(q) /\ q[FirstEnd(q)] \in Command
  BY <1>1, <1>2, Elements
<1> QED BY <1>1, <1>2, <1>3, OfCommand

LEMMA SocketTypes ==
    ASSUME NEW q \in Seq(Command), q # <<>> PROVE DataSocket(q) \in DataConn
<1> DEFINE x == Head(q)
           id == IF Ends(q) = {} THEN None ELSE q[FirstEnd(q)].req
           Opened(way, from) == [id |-> id, req |-> x.req, way |-> way, from |-> from,
                                 moved |-> 0, finished |-> way = "none"]
<1>1. x \in Command
  BY FirstOf
<1>2. x.req \in Requests \cup {0} /\ (x.cmd \in {"REST", "APPE"} => x.arg \in Nat)
  BY <1>1, OfCommand
<1>3. id \in Requests \cup {0, None}
  BY FirstEndTypes
<1> HIDE DEF x, id
<1>4. \A way \in {"list", "get", "put", "none"} : \A n \in Nat : Opened(way, n) \in DataConn
  BY <1>2, <1>3 DEF DataConn
<1>5. DataSocket(q) = CASE x.cmd = "LIST" -> Opened("list", 0)
                        [] x.cmd = "RETR" -> Opened("get", 0)
                        [] x.cmd = "REST" -> Opened("get", x.arg)
                        [] x.cmd = "STOR" -> Opened("put", 0)
                        [] x.cmd = "APPE" -> Opened("put", x.arg)
                        [] OTHER          -> Opened("none", 0)
  BY DEF DataSocket, x, id
<1> HIDE DEF Opened
<1> QED BY <1>2, <1>4, <1>5

LEMMA PasvTypes ==
    ASSUME NEW c, Typed(c), NEW code PROVE Typed(PasvAnswered(c, code))
<1> DEFINE q == c.queue
<1>1. q \in Seq(Command)
  BY DEF Typed
<1>2. q # <<>> => Typed(NextCommand([c EXCEPT !.data = DataSocket(q)]))
  <2>1. q # <<>> => DataSocket(q) \in DataConn
    BY <1>1, SocketTypes
  <2>2. q # <<>> => Typed([c EXCEPT !.data = DataSocket(q)])
    BY <2>1 DEF Typed, IsClient
  <2> QED BY <2>2, NextTypes
<1>3. q # <<>> => Typed(NextCommand(Report([c EXCEPT !.queue = Tail(q)], Head(q).req, "failed")))
  <2>1. q # <<>> => Tail(q) \in Seq(Command) /\ Head(q).req \in Requests \cup {0}
    BY <1>1, FirstOf, OfCommand
  <2> QED BY <2>1, QueueTypes, NextReportTypes
<1>4. Typed(NextCommand([c EXCEPT !.queue = <<>>]))
  <2>1. <<>> \in Seq(Command)
    OBVIOUS
  <2> QED BY <2>1, QueueTypes, NextTypes
<1>5. Ends(q) # {} =>
        Typed(NextCommand(Report([c EXCEPT !.queue = SubSeq(q, FirstEnd(q) + 1, Len(q))],
                                 q[FirstEnd(q)].req, "failed")))
  <2>1. Ends(q) # {} => /\ SubSeq(q, FirstEnd(q) + 1, Len(q)) \in Seq(Command)
                        /\ q[FirstEnd(q)].req \in Requests \cup {0}
    BY <1>1, FirstEndTypes, RestOf
  <2> QED BY <2>1, QueueTypes, NextReportTypes
<1> QED BY <1>2, <1>3, <1>4, <1>5 DEF PasvAnswered

LEMMA WelcomeTypes ==
    ASSUME NEW c, Typed(c), NEW code PROVE Typed(Welcomed(c, code))
<1>1. Typed(NextCommand(Cleanup(c)))
  BY CleanupTypes, NextTypes
<1> DEFINE q == <<Cmd("USER", None, 0)>> \o c.queue
           d == [c EXCEPT !.isConnected = TRUE, !.isReconnecting = FALSE,
                          !.reconnectsLeft = Attempts, !.queue = q]
<1>2. q \in Seq(Command)
  BY InternalCommands, Before1 DEF Typed
<1>3. Attempts \in 0 .. Attempts
  BY RequestTypes
<1>4. Typed(d)
  <2> HIDE DEF q
  <2> QED BY <1>2, <1>3 DEF Typed, IsClient
<1> QED BY <1>1, <1>4, NextTypes DEF Welcomed

LEMMA LoggedInTypes ==
    ASSUME NEW c, Typed(c), file \in Files PROVE Typed(LoggedIn(c))
<1> DEFINE d == [c EXCEPT !.known = TRUE, !.legitClose = c.legitClose \/ ~ c.known]
           q == <<Cmd("FEAT", None, 0), Cmd("PWD", None, 0)>> \o c.queue
           e == [d EXCEPT !.legitClose = FALSE, !.queue = q]
<1>1. Typed(d)
  BY DEF Typed, IsClient
<1>2. q \in Seq(Command)
  <2>1. <<Cmd("FEAT", None, 0), Cmd("PWD", None, 0)>> \in Seq(Command)
    BY InternalCommands
  <2> QED BY <2>1, ConcatProperties DEF Typed
<1>3. Typed(e)
  <2> HIDE DEF q
  <2> QED BY <1>2 DEF Typed, IsClient
<1>4. ~ RecoveryThrows(d) => Typed(NextCommand(RecoverFromDisaster(d)))
  <2> HIDE DEF d
  <2> QED BY <1>1, RecoverTypes, NextTypes
<1>5. Typed(NextCommand(e))
  BY <1>3, NextTypes
<1> QED BY <1>1, <1>4, <1>5 DEF LoggedIn

LEMMA LoginTypes ==
    ASSUME NEW c, Typed(c), file \in Files, NEW h, NEW code
    PROVE  Typed(LoginAnswered(c, h, code))
<1>1. Typed(NextCommand([c EXCEPT !.queue = <<Cmd("PASS", None, 0)>> \o c.queue]))
  <2>1. <<Cmd("PASS", None, 0)>> \o c.queue \in Seq(Command)
    BY InternalCommands, Before1 DEF Typed
  <2> QED BY <2>1, QueueTypes, NextTypes
<1>2. Typed(Kill([Cleanup(c) EXCEPT !.isConnected = FALSE]))
  <2>1. Typed(Cleanup(c))
    BY CleanupTypes
  <2>2. Typed([Cleanup(c) EXCEPT !.isConnected = FALSE])
    BY <2>1 DEF Typed, IsClient
  <2> QED BY <2>2, KillTypes
<1> QED BY <1>1, <1>2, LoggedInTypes DEF LoginAnswered

LEMMA SizeTypes ==
    ASSUME NEW c, Typed(c), NEW h \in Command, h.cmd = "SIZE", NEW code, NEW size \in Nat
    PROVE  Typed(SizeAnswered(c, h, code, size))
<1> DEFINE At(cmd) == {k \in 1 .. Len(c.queue) :
                         c.queue[k].cmd = cmd /\ ~ c.queue[k].begun}
           Least(S) == CHOOSE k \in S : \A l \in S : k <= l
           Becomes(k, cmd, arg) == [c EXCEPT !.queue[k].cmd = cmd, !.queue[k].arg = arg]
<1>1. c.queue \in Seq(Command) /\ h.arg \in {"STOR", "APPE"}
  BY OfCommand DEF Typed
<1>2. ASSUME NEW cmd \in {"STOR", "APPE"}, At(cmd) # {}
      PROVE  /\ Typed(Becomes(Least(At(cmd)), "APPE", size))
             /\ Typed(Becomes(Least(At(cmd)), "STOR", None))
  <2> DEFINE k == Least(At(cmd))
  <2>1. k \in 1 .. Len(c.queue) /\ c.queue[k].cmd \in {"STOR", "APPE"}
    <3>1. At(cmd) \subseteq Nat
      BY <1>1, Elements
    <3>2. k \in At(cmd)
      <4> HIDE DEF At
      <4> QED BY <1>2, <3>1, LeastOf
    <3> QED BY <3>2
  <2> HIDE DEF k
  <2>2. ASSUME NEW new, NEW arg,
               [[c.queue[k] EXCEPT !.cmd = new] EXCEPT !.arg = arg] \in Command
        PROVE  Typed(Becomes(k, new, arg))
    <3> DEFINE y == [[c.queue[k] EXCEPT !.cmd = new] EXCEPT !.arg = arg]
               q == [c.queue EXCEPT ![k] = y]
    <3>1. y \in Command
      BY <2>2
    <3>2. q \in Seq(Command)
      <4> HIDE DEF y
      <4> QED BY <1>1, <2>1, <3>1, ExceptSeq
    <3>3. Becomes(k, new, arg) = [c EXCEPT !.queue = q]
      BY <1>1, <2>1 DEF Typed, IsClient
    <3> HIDE DEF q, Becomes
    <3>4. Typed([c EXCEPT !.queue = q])
      BY <3>2, QueueTypes
    <3> QED BY <3>3, <3>4
  <2>3. c.queue[k] \in Command
    BY <1>1, <2>1, Elements
  <2> HIDE DEF Becomes
  <2> QED BY <2>1, <2>2, <2>3, TransferRenamed DEF k
<1>3. SizeAnswered(c, h, code, size) = NextCommand(
         CASE code = 2 /\ At(h.arg) # {} -> Becomes(Least(At(h.arg)), "APPE", size)
           [] code # 2 /\ At("APPE") # {} -> Becomes(Least(At("APPE")), "STOR", None)
           [] OTHER -> c)
  BY DEF SizeAnswered
<1> HIDE DEF At, Least, Becomes
<1> QED BY <1>1, <1>2, <1>3, NextTypes

LEMMA AnsweredTypes ==
    ASSUME NEW c, Typed(c), file \in Files, NEW h, NEW code, NEW size \in Nat,
           h \in Command \/ h = Cmd("default", None, 0),
           h.cmd \in Transfers => c.queue # <<>> /\ h = Head(c.queue)
    PROVE  Typed(Answered(c, h, code, size))
<1>0. CASE h = Cmd("default", None, 0)
  <2>1. h.cmd = "default"
    BY <1>0 DEF Cmd
  <2>2. Answered(c, h, code, size) = NextCommand(c)
    BY <2>1 DEF Answered, Transfers
  <2> QED BY <2>2, NextTypes
<1>a. CASE h \in Command
  <2>1. /\ h.req \in Requests \cup {0}
        /\ h.cmd = "CWD" => h.arg \in Dirs
        /\ h.cmd = "TYPE" => h.arg \in {"A", "I"}
    BY <1>a, OfCommand
  <2>2. Typed(Welcomed(c, code)) /\ Typed(LoginAnswered(c, h, code))
        /\ Typed(PasvAnswered(c, code))
    BY WelcomeTypes, LoginTypes, PasvTypes
  <2>3. h.cmd \in Transfers => Typed(TransferAnswered(c, h, code))
    BY TransferTypes
  <2>4. h.cmd = "SIZE" => Typed(SizeAnswered(c, h, code, size))
    BY <1>a, SizeTypes
  <2>5. Typed(SimpleAnswered(c, h, code))
    <3>1. Typed([c EXCEPT !.trash = <<>>])
      BY DEF Typed, IsClient
    <3> QED BY <2>1, <3>1, NextReportTypes DEF SimpleAnswered
  <2>6. Typed(NextCommand(Report([c EXCEPT !.queue = <<>>, !.trash = <<>>], h.req, "failed")))
    <3>1. <<>> \in Seq(Command)
      OBVIOUS
    <3> QED BY <2>1, <3>1, QueueTypes, NextReportTypes
  <2>7. h.cmd = "CWD" =>
          Typed(NextCommand(Report([c EXCEPT !.cwd = h.arg],
                              IF h.req # 0 /\ asked[h.req].kind = "cd"
                              THEN h.req ELSE 0, "done")))
    <3>1. h.cmd = "CWD" => Typed([c EXCEPT !.cwd = h.arg])
      BY <2>1 DEF Typed, IsClient
    <3> QED BY <2>1, <3>1, NextReportTypes
  <2>8. Typed(NextCommand([c EXCEPT !.trash = <<>>,
                                    !.cwd = IF code = 2 THEN Root ELSE c.cwd]))
    <3>1. Typed([c EXCEPT !.trash = <<>>, !.cwd = IF code = 2 THEN Root ELSE c.cwd])
      BY FtpAssumption DEF Typed, IsClient
    <3> QED BY <3>1, NextTypes
  <2>9. h.cmd = "TYPE" => Typed(NextCommand([c EXCEPT !.mode = h.arg]))
    <3>1. h.cmd = "TYPE" => Typed([c EXCEPT !.mode = h.arg])
      BY <2>1 DEF Typed, IsClient
    <3> QED BY <3>1, NextTypes
  <2>10. Typed(NextCommand(c))
    BY NextTypes
  <2> QED BY <2>2, <2>3, <2>4, <2>5, <2>6, <2>7, <2>8, <2>9, <2>10 DEF Answered
<1> QED BY <1>0, <1>a

LEMMA ReadTypes ==
    ASSUME NEW c, Typed(c), file \in Files, NEW code, NEW size \in Nat
    PROVE  Typed(ReadControl(c, code, size))
<1> DEFINE h == IF c.queue = <<>> THEN Cmd("default", None, 0) ELSE Head(c.queue)
           d == IF c.queue = <<>> \/ h.cmd \in Transfers THEN c
                ELSE [c EXCEPT !.queue = Tail(c.queue),
                               !.trash = IF h.cmd \in NotKept THEN c.trash
                                         ELSE Append(c.trash, h)]
<1>1. h \in Command \/ h = Cmd("default", None, 0)
  BY FirstOf DEF Typed
<1>2. h.cmd \in Transfers => c.queue # <<>> /\ h = Head(c.queue) /\ d = c
  <2>1. Cmd("default", None, 0).cmd = "default"
    BY DEF Cmd
  <2> QED BY <2>1 DEF Transfers
<1>3. Typed(d)
  <2> DEFINE t == IF h.cmd \in NotKept THEN c.trash ELSE Append(c.trash, h)
  <2>1. c.queue # <<>> => t \in Seq(Command) /\ Tail(c.queue) \in Seq(Command)
    BY FirstOf, AppendProperties DEF Typed
  <2>2. c.queue # <<>> => Typed([c EXCEPT !.queue = Tail(c.queue), !.trash = t])
    <3> HIDE DEF t
    <3> QED BY <2>1 DEF Typed, IsClient
  <2> QED BY <2>2
<1>4. ReadControl(c, code, size) = Answered(d, h, code, size)
  BY DEF ReadControl
<1> HIDE DEF h, d
<1> QED BY <1>1, <1>2, <1>3, <1>4, AnsweredTypes

----------------------------------------------------------------------------
(***************************************************************************)
(* The types of the state.                                                 *)
(***************************************************************************)
\* A reply says whom it answers, and a transfer on the server what it is for.
Reply == [to : Command, code : 1 .. 5, size : Nat]

Transfer == [of : Command, pos : Nat]

Server ==
    [user : {"none", "asked", "in"}, cwd : Dirs, mode : {"A", "I"}, rest : Nat,
     rnfr : BOOLEAN, pasv : BOOLEAN, xfer : Transfer \cup {None}]

\* A reconnection that is pending has an attempt left, and there is no
\* connection; and the client is not connected before a connection is there.
Attempting ==
    /\ ftp.retries \in {0, 1}
    /\ ftp.retries = 1 => ftp.conn = "none" /\ ftp.reconnectsLeft # 0
    /\ ftp.conn \in {"none", "opening"} => ~ ftp.isConnected

TypeInv ==
    /\ Typed(ftp) /\ Attempting
    /\ replies \in Seq(Reply) /\ file \in Files
    /\ ftp.conn = "open" => srv \in Server

LEMMA TypeInvOK ==
    ASSUME TypeInv PROVE TypeOK
<1>1. \A x \in Command : IsCommand(x)
  BY DEF Command, IsCommand
<1>2. Typed(ftp) /\ file \in Files
  BY DEF TypeInv
<1>3. ASSUME NEW q \in Seq(Command) PROVE \A k \in 1 .. Len(q) : IsCommand(q[k])
  BY <1>1, Elements
<1>4. /\ \A k \in 1 .. Len(ftp.queue) : IsCommand(ftp.queue[k])
      /\ \A k \in 1 .. Len(ftp.trash) : IsCommand(ftp.trash[k])
      /\ \A k \in 1 .. Len(ftp.sent) : IsCommand(ftp.sent[k])
  BY <1>2, <1>3 DEF Typed
<1>5. \A r \in Requests : \A k \in 1 .. Len(file[r]) : file[r][k] \in 0 .. 2
  <2>1. \A r \in Requests : file[r] \in Seq(0 .. 2)
    BY <1>2 DEF Files
  <2> QED BY <2>1, Elements
<1> QED BY <1>2, <1>4, <1>5 DEF Typed, TypeOK

LEMMA TypeInit ==
    ASSUME Init PROVE TypeInv
<1>1. Typed(ftp)
  BY RequestTypes DEF Init, Typed, IsClient
<1>2. Attempting /\ file \in Files /\ replies \in Seq(Reply) /\ ftp.conn # "open"
  BY DEF Init, Attempting, Files
<1> QED BY <1>1, <1>2 DEF TypeInv

\* What a step of the client alone has to show.
LEMMA ClientStep ==
    ASSUME TypeInv, Typed(ftp'), Attempting', UNCHANGED <<replies, srv, file>>,
           ftp'.conn = "open" => ftp.conn = "open"
    PROVE  TypeInv'
  BY DEF TypeInv, Files

\* A call that is only made when there is a connection, or that leaves the
\* attempts alone.
LEMMA KeptAttempting ==
    ASSUME TypeInv, Kept(ftp, ftp'),
           \/ ftp.conn \in {"open", "closing"}
           \/ /\ ftp'.reconnectsLeft = ftp.reconnectsLeft
              /\ ftp'.isConnected \in {ftp.isConnected, FALSE}
    PROVE  Attempting' /\ (ftp'.conn = "open" => ftp.conn = "open")
  BY DEF TypeInv, Kept, Attempting

LEMMA WriteLeaves ==
    ASSUME NEW c, IsClient(c)
    PROVE  LET d == WriteControl(c)
           IN d.isConnected = c.isConnected /\ d.reconnectsLeft = c.reconnectsLeft
  BY DEF WriteControl, SkipNeedless, Written, IsClient

\* What the user asks for.
OfRequest(r) == {x \in Command : x.req = r}

LEMMA WishTypes ==
    ASSUME NEW r \in Requests, NEW a \in Wishes
    PROVE  /\ Commands(r, a) \in Seq(OfRequest(r)) /\ Commands(r, a) \in Seq(Command)
           /\ Before(a) \in Seq(0 .. 2)
<1> DEFINE C(cmd, arg) == Cmd(cmd, arg, r)
           S == OfRequest(r)
<1>0. \A cmd, arg : C(cmd, arg) \in Command => C(cmd, arg) \in S
  BY DEF Cmd, OfRequest
<1>1. a.dir \in Dirs /\ a.resume \in BOOLEAN /\ a.old \in BOOLEAN /\ a.kind \in Kinds
  BY DEF Wishes
<1>a. /\ C("CWD", a.dir) \in Command
      /\ C("TYPE", "A") \in Command /\ C("TYPE", "I") \in Command
      /\ C("SIZE", "APPE") \in Command
      /\ C("REST", 1) \in Command /\ C("APPE", 1) \in Command
      /\ C("RETR", None) \in Command /\ C("STOR", None) \in Command
  BY <1>1, CommandTypes DEF CmdNames
<1>b. /\ C("MKD", None) \in Command /\ C("DELE", None) \in Command
      /\ C("RNFR", None) \in Command /\ C("RNTO", None) \in Command
      /\ C("PASV", None) \in Command /\ C("LIST", None) \in Command
      /\ C("transferEnd", None) \in Command
  BY PlainCommand DEF CmdNames
<1>2. /\ C("CWD", a.dir) \in S
      /\ C("TYPE", "A") \in S /\ C("TYPE", "I") \in S
      /\ C("SIZE", "APPE") \in S
      /\ C("REST", 1) \in S /\ C("APPE", 1) \in S
      /\ C("RETR", None) \in S /\ C("STOR", None) \in S
  BY <1>0, <1>a
<1>3. /\ C("MKD", None) \in S /\ C("DELE", None) \in S
      /\ C("RNFR", None) \in S /\ C("RNTO", None) \in S
      /\ C("PASV", None) \in S /\ C("LIST", None) \in S
      /\ C("transferEnd", None) \in S
  BY <1>0, <1>b
<1> DEFINE rest == IF a.resume THEN <<C("REST", 1)>> ELSE <<>>
           size == IF a.resume THEN <<C("SIZE", "APPE")>> ELSE <<>>
           down == <<C("CWD", a.dir), C("TYPE", "I"), C("PASV", None)>> \o rest
                   \o <<C("RETR", None), C("transferEnd", None)>>
           up == <<C("CWD", a.dir), C("TYPE", "I")>> \o size
                 \o <<C("PASV", None),
                      IF a.resume THEN C("APPE", 1) ELSE C("STOR", None),
                      C("transferEnd", None)>>
           list == <<C("TYPE", "A"), C("CWD", a.dir), C("PASV", None), C("LIST", None)>>
<1>4. Commands(r, a) =
        CASE a.kind = "cd"     -> <<C("CWD", a.dir)>>
          [] a.kind = "mkdir"  -> <<C("CWD", a.dir), C("MKD", None)>>
          [] a.kind = "remove" -> <<C("CWD", a.dir), C("DELE", None)>>
          [] a.kind = "rename" -> <<C("RNFR", None), C("RNTO", None)>>
          [] a.kind = "list" -> list
          [] a.kind = "download" -> down
          [] a.kind = "upload" -> up
  BY DEF Commands
<1> HIDE DEF C, S
<1>5. list \in Seq(S)
  BY <1>2, <1>3
<1>6. down \in Seq(S)
  <2>1. <<C("CWD", a.dir), C("TYPE", "I"), C("PASV", None)>> \in Seq(S)
    BY <1>2, <1>3
  <2>2. rest \in Seq(S)
    BY <1>2
  <2>3. <<C("RETR", None), C("transferEnd", None)>> \in Seq(S)
    BY <1>2, <1>3
  <2> HIDE DEF rest
  <2> QED BY <2>1, <2>2, <2>3, ConcatProperties
<1>7. up \in Seq(S)
  <2>1. <<C("CWD", a.dir), C("TYPE", "I")>> \in Seq(S)
    BY <1>2
  <2>2. size \in Seq(S)
    BY <1>2
  <2>3. <<C("PASV", None), IF a.resume THEN C("APPE", 1) ELSE C("STOR", None),
          C("transferEnd", None)>> \in Seq(S)
    BY <1>2, <1>3
  <2> HIDE DEF size
  <2> QED BY <2>1, <2>2, <2>3, ConcatProperties
<1>8. /\ <<C("CWD", a.dir)>> \in Seq(S)
      /\ <<C("CWD", a.dir), C("MKD", None)>> \in Seq(S)
      /\ <<C("CWD", a.dir), C("DELE", None)>> \in Seq(S)
      /\ <<C("RNFR", None), C("RNTO", None)>> \in Seq(S)
  BY <1>2, <1>3
<1>9. Commands(r, a) \in Seq(S)
  <2>1. a.kind \in {"cd", "mkdir", "remove", "rename", "list", "download", "upload"}
    BY <1>1, FtpAssumption
  <2> HIDE DEF list, down, up
  <2> QED BY <1>4, <1>5, <1>6, <1>7, <1>8, <2>1
<1>10. Before(a) \in Seq(0 .. 2)
  <2>1. <<1>> \in Seq(0 .. 2) /\ <<0>> \in Seq(0 .. 2) /\ <<>> \in Seq(0 .. 2)
    <3>1. 0 \in 0 .. 2 /\ 1 \in 0 .. 2
      OBVIOUS
    <3> QED BY <3>1
  <2> QED BY <2>1 DEF Before
<1>11. Commands(r, a) \in Seq(Command)
  BY <1>9 DEF S, OfRequest
<1> QED BY <1>9, <1>10, <1>11 DEF S

LEMMA UserTypes ==
    ASSUME TypeInv,
           Connect \/ Cancel \/ Abort \/ Disconnect
           \/ \E r \in Requests, a \in Wishes : Ask(r, a)
    PROVE  TypeInv'
<1>0. /\ Typed(ftp) /\ IsClient(ftp) /\ Attempting /\ file \in Files
      /\ ftp.queue \in Seq(Command)
  BY DEF TypeInv, Typed
<1>1. CASE Connect
  <2> DEFINE c == [ftp EXCEPT !.isReconnecting = FALSE, !.reconnectsLeft = Attempts]
  <2>1. Typed(c) /\ c.isConnected = ftp.isConnected /\ c.retries = ftp.retries
    BY <1>0, RequestTypes DEF Typed, IsClient
  <2>2. ftp' = Connecting(c) /\ replies' = <<>> /\ file' = file /\ ftp.retries = 0
        /\ ftp.conn = "none"
    BY <1>1 DEF Connect
  <2> HIDE DEF c
  <2>3. Typed(ftp')
    BY <2>1, <2>2, ConnectingTypes
  <2>4. ftp'.conn = "opening" /\ ftp'.isConnected = FALSE /\ ftp'.retries = 0
    BY <1>0, <2>1, <2>2 DEF Connecting, Typed, IsClient, Attempting
  <2> QED BY <1>0, <2>2, <2>3, <2>4 DEF TypeInv, Attempting
<1>2. CASE Cancel
  <2> DEFINE q == ftp.queue
             ends == {k \in Ends(q) : ftp.data # None /\ ftp.isConnected
                                       /\ q[k].req = ftp.data.id}
             rest == IF ends = {} THEN q
                     ELSE SubSeq(q, (CHOOSE k \in ends : \A l \in ends : k <= l) + 1, Len(q))
             new == IF ftp.isConnected THEN <<Cmd("aborted", None, 0)>> \o rest ELSE rest
             data == IF ftp.isConnected THEN None ELSE ftp.data
  <2>1. rest \in Seq(Command)
    <3>1. ends \subseteq Nat
      BY <1>0, Elements DEF Ends
    <3> HIDE DEF ends
    <3>2. ends # {} => (CHOOSE k \in ends : \A l \in ends : k <= l) \in Nat
      BY <3>1, LeastOf
    <3> QED BY <1>0, <3>2, RestOf
  <2>2. new \in Seq(Command)
    <3> HIDE DEF rest
    <3> QED BY <2>1, InternalCommands, Before1
  <2>3. ftp' = [ftp EXCEPT !.trash = <<>>, !.data = data, !.queue = new]
        /\ UNCHANGED <<replies, srv, file>>
    BY <1>2 DEF Cancel
  <2> HIDE DEF new
  <2>4. Typed(ftp') /\ Attempting' /\ ftp'.conn = ftp.conn
    BY <1>0, <2>2, <2>3 DEF Typed, IsClient, Attempting
  <2> QED BY <2>3, <2>4, ClientStep
<1>3. CASE Abort
  <2> DEFINE b == [ftp EXCEPT !.isReconnecting = FALSE]
             c == Cleanup(b)
             q == <<Cmd("aborted", None, 0)>>
             d == [c EXCEPT !.queue = q, !.data = None, !.isReady = ftp.data = None]
  <2>1. Typed(b)
    BY <1>0 DEF Typed, IsClient
  <2>2. Typed(c)
    BY <2>1, CleanupTypes
  <2>3. /\ c.conn = ftp.conn /\ c.isConnected = ftp.isConnected /\ c.retries = ftp.retries
        /\ c.reconnectsLeft = ftp.reconnectsLeft
    BY <1>0 DEF IsClient, Cleanup
  <2>4. q \in Seq(Command)
    BY InternalCommands
  <2> HIDE DEF c, q
  <2>5. Typed(d) /\ d.conn = c.conn /\ d.isConnected = c.isConnected /\ d.retries = c.retries
        /\ d.reconnectsLeft = c.reconnectsLeft
    BY <2>2, <2>4 DEF Typed, IsClient
  <2>6. (ftp' = c \/ ftp' = d) /\ UNCHANGED <<replies, srv, file>>
    BY <1>3 DEF Abort, c, q
  <2> HIDE DEF d
  <2>7. Typed(ftp') /\ Attempting' /\ ftp'.conn = ftp.conn
    BY <1>0, <2>2, <2>3, <2>5, <2>6 DEF Attempting
  <2> QED BY <2>6, <2>7, ClientStep
<1>4. CASE Disconnect
  <2> DEFINE c == [Cleanup(ftp) EXCEPT !.legitClose = TRUE, !.data = None]
  <2>1. Typed(Cleanup(ftp))
    BY <1>0, CleanupTypes
  <2> DEFINE b == Cleanup(ftp)
  <2>0. /\ b.conn = ftp.conn /\ b.isConnected = ftp.isConnected
        /\ b.retries = ftp.retries /\ b.reconnectsLeft = ftp.reconnectsLeft
    BY <1>0 DEF IsClient, Cleanup
  <2>2. Typed(c) /\ c.conn = ftp.conn /\ c.isConnected = ftp.isConnected
        /\ c.retries = ftp.retries /\ c.reconnectsLeft = ftp.reconnectsLeft
    <3> HIDE DEF b
    <3>1. Typed([b EXCEPT !.legitClose = TRUE, !.data = None])
      BY <2>1 DEF Typed, IsClient, b
    <3>2. IsClient(b)
      BY <2>1 DEF Typed, b
    <3>3. c = [b EXCEPT !.legitClose = TRUE, !.data = None]
      BY DEF b
    <3> QED BY <2>0, <3>1, <3>2, <3>3 DEF IsClient
  <2>3. ftp' = Kill(c) /\ UNCHANGED <<replies, srv, file>>
    BY <1>4 DEF Disconnect
  <2> HIDE DEF c
  <2>4. Typed(ftp')
    BY <2>2, <2>3, KillTypes
  <2>5. /\ ftp'.conn = IF ftp.conn = "none" THEN "none" ELSE "closing"
        /\ ftp'.isConnected = ftp.isConnected
        /\ ftp'.retries = ftp.retries /\ ftp'.reconnectsLeft = ftp.reconnectsLeft
    BY <2>2, <2>3 DEF Kill, Typed, IsClient
  <2>6. Attempting' /\ ftp'.conn # "open"
    BY <1>0, <2>5 DEF Attempting
  <2> QED BY <2>3, <2>4, <2>6, ClientStep
<1>5. ASSUME NEW r \in Requests, NEW a \in Wishes, Ask(r, a) PROVE TypeInv'
  <2> DEFINE cs == Commands(r, a)
             q == IF a.kind = "remove" THEN cs \o ftp.queue ELSE ftp.queue \o cs
             c == [ftp EXCEPT !.queue = q]
  <2>1. q \in Seq(Command)
    <3>1. cs \in Seq(Command)
      BY WishTypes
    <3> HIDE DEF cs
    <3> QED BY <1>0, <3>1, ConcatProperties
  <2>2. ftp' = WriteControl(c) /\ UNCHANGED <<replies, srv>>
        /\ file' = [file EXCEPT ![r] = Before(a)]
    BY <1>5 DEF Ask
  <2> HIDE DEF q
  <2>3. Typed(c) /\ Kept(ftp, c) /\ IsClient(c) /\ c.isConnected = ftp.isConnected
        /\ c.reconnectsLeft = ftp.reconnectsLeft
    BY <1>0, <2>1 DEF Typed, IsClient, Kept
  <2> HIDE DEF c
  <2>4. Typed(ftp') /\ Kept(c, ftp')
    BY <2>2, <2>3, WriteTypes, WriteControlKeeps
  <2>5. ftp'.isConnected = ftp.isConnected /\ ftp'.reconnectsLeft = ftp.reconnectsLeft
    BY <2>2, <2>3, WriteLeaves
  <2>6. Kept(ftp, ftp')
    BY <2>3, <2>4, KeptTwice
  <2>7. Attempting' /\ (ftp'.conn = "open" => ftp.conn = "open")
    BY <2>5, <2>6, KeptAttempting
  <2>8. file' \in Files
    BY <1>0, <2>2, WishTypes DEF Files
  <2> QED BY <2>2, <2>4, <2>7, <2>8 DEF TypeInv
<1> QED BY <1>1, <1>2, <1>3, <1>4, <1>5

\* A reply is read while there is a connection, or one that is being closed.
LEMMA ReadTyped ==
    ASSUME TypeInv, ftp.conn \in {"open", "closing"},
           NEW c, Typed(c), Kept(ftp, c), NEW code, NEW size \in Nat,
           ftp' = ReadControl(c, code, size)
    PROVE  Typed(ftp') /\ Attempting' /\ (ftp'.conn = "open" => ftp.conn = "open")
<1>1. Typed(ftp')
  BY ReadTypes DEF TypeInv
<1>2. Kept(c, ftp')
  BY ReadControlKeeps DEF Typed
<1>3. Kept(ftp, ftp')
  BY <1>2, KeptTwice
<1> QED BY <1>1, <1>3, KeptAttempting

LEMMA TimerTypes ==
    ASSUME TypeInv,
           KeepAlive \/ CheckTimeout \/ CheckDataTimeout \/ PollAgain \/ Reconnect
    PROVE  TypeInv'
<1>0. /\ Typed(ftp) /\ IsClient(ftp) /\ Attempting /\ file \in Files
      /\ ftp.queue \in Seq(Command)
  BY DEF TypeInv, Typed
<1>1. CASE KeepAlive
  <2> DEFINE q == <<Cmd("NOOP", None, 0)>>
             c == [ftp EXCEPT !.queue = q]
  <2>1. q \in Seq(Command)
    BY InternalCommands
  <2>2. ftp' = WriteControl(c) /\ UNCHANGED <<replies, srv, file>>
    BY <1>1 DEF KeepAlive
  <2> HIDE DEF q
  <2>3. Typed(c) /\ Kept(ftp, c) /\ IsClient(c) /\ c.isConnected = ftp.isConnected
        /\ c.reconnectsLeft = ftp.reconnectsLeft
    BY <1>0, <2>1 DEF Typed, IsClient, Kept
  <2> HIDE DEF c
  <2>4. Typed(ftp') /\ Kept(c, ftp')
    BY <2>2, <2>3, WriteTypes, WriteControlKeeps
  <2>5. ftp'.isConnected = ftp.isConnected /\ ftp'.reconnectsLeft = ftp.reconnectsLeft
    BY <2>2, <2>3, WriteLeaves
  <2>6. Kept(ftp, ftp')
    BY <2>3, <2>4, KeptTwice
  <2>7. Attempting' /\ (ftp'.conn = "open" => ftp.conn = "open")
    BY <2>5, <2>6, KeptAttempting
  <2> QED BY <2>2, <2>4, <2>7, ClientStep
<1>2. CASE CheckTimeout \/ CheckDataTimeout
  <2> DEFINE c == [ftp EXCEPT !.legitClose = FALSE, !.data = None]
  <2>1. Typed(c) /\ Kept(ftp, c) /\ c.isConnected = ftp.isConnected
        /\ c.reconnectsLeft = ftp.reconnectsLeft /\ IsClient(c)
    BY <1>0 DEF Typed, IsClient, Kept
  <2>2. ftp' = Kill(c) /\ UNCHANGED <<replies, srv, file>>
    BY <1>2 DEF CheckTimeout, CheckDataTimeout, ResetConnection
  <2> HIDE DEF c
  <2>3. Typed(ftp') /\ Kept(c, ftp') /\ ftp'.isConnected = c.isConnected
        /\ ftp'.reconnectsLeft = c.reconnectsLeft
    <3>1. Kill(c).isConnected = c.isConnected /\ Kill(c).reconnectsLeft = c.reconnectsLeft
      BY <2>1 DEF Kill, IsClient
    <3> QED BY <2>1, <2>2, <3>1, KillTypes, KillKeeps
  <2>4. Kept(ftp, ftp')
    BY <2>1, <2>3, KeptTwice
  <2>5. Attempting' /\ (ftp'.conn = "open" => ftp.conn = "open")
    BY <2>1, <2>3, <2>4, KeptAttempting
  <2> QED BY <2>2, <2>3, <2>5, ClientStep
<1>3. CASE PollAgain
  <2> DEFINE c == [ftp EXCEPT !.polls = ftp.polls - 1]
  <2>1. ftp.polls - 1 \in Nat
    BY <1>0, <1>3 DEF PollAgain, Typed
  <2>2. Typed(c) /\ Kept(ftp, c) /\ c.isConnected = ftp.isConnected
        /\ c.reconnectsLeft = ftp.reconnectsLeft
    BY <1>0, <2>1 DEF Typed, IsClient, Kept
  <2>3. ftp' = (IF ftp.isConnected THEN ReadControl(c, 2, 0) ELSE c)
        /\ UNCHANGED <<replies, srv, file>>
    BY <1>3 DEF PollAgain
  <2> HIDE DEF c
  <2>4. CASE ftp.isConnected
    <3>1. ftp.conn \in {"open", "closing"}
      BY <1>0, <2>4 DEF Attempting, Typed
    <3>2. ftp' = ReadControl(c, 2, 0) /\ 0 \in Nat
      BY <2>3, <2>4
    <3>3. Typed(ftp') /\ Attempting' /\ (ftp'.conn = "open" => ftp.conn = "open")
      BY <2>2, <3>1, <3>2, ReadTyped
    <3> QED BY <2>3, <3>3, ClientStep
  <2>5. CASE ~ ftp.isConnected
    <3>1. ftp' = c
      BY <2>3, <2>5
    <3>2. Attempting' /\ (ftp'.conn = "open" => ftp.conn = "open")
      BY <2>2, <3>1, KeptAttempting
    <3> QED BY <2>2, <2>3, <3>1, <3>2, ClientStep
  <2> QED BY <2>4, <2>5
<1>4. CASE Reconnect
  <2> DEFINE c == [ftp EXCEPT !.retries = ftp.retries - 1]
             d == [c EXCEPT !.reconnectsLeft = c.reconnectsLeft - 1]
  <2>1. /\ ftp.retries = 1 /\ ftp.conn = "none" /\ ~ ftp.isConnected
        /\ ftp.reconnectsLeft \in 1 .. Attempts /\ ftp.reconnectsLeft - 1 \in 0 .. Attempts
    BY <1>0, <1>4, RequestTypes DEF Reconnect, Attempting, Typed
  <2>2. /\ Typed(c) /\ c.retries = 0 /\ c.conn = "none" /\ c.isConnected = ftp.isConnected
        /\ c.reconnectsLeft = ftp.reconnectsLeft
    BY <1>0, <2>1 DEF Typed, IsClient
  <2>3. Typed(d) /\ d.retries = 0 /\ d.isConnected = ftp.isConnected
    BY <1>0, <2>1, <2>2 DEF Typed, IsClient
  <2>4. /\ file' = file
        /\ \/ ftp' = Connecting(d) /\ replies' = <<>>
           \/ ftp' = c /\ replies' = replies
    BY <1>4 DEF Reconnect
  <2> HIDE DEF c, d
  <2>5. Typed(Connecting(d)) /\ Connecting(d).conn = "opening"
        /\ Connecting(d).isConnected = d.isConnected /\ Connecting(d).retries = d.retries
    <3>1. Typed(Connecting(d))
      BY <2>3, ConnectingTypes
    <3> QED BY <2>3, <3>1 DEF Connecting, Typed, IsClient
  <2>6. /\ Typed(ftp') /\ ftp'.retries = 0 /\ ~ ftp'.isConnected
        /\ ftp'.conn # "open"
    BY <2>1, <2>2, <2>3, <2>4, <2>5
  <2>7. replies' \in Seq(Reply)
    <3>1. <<>> \in Seq(Reply) /\ replies \in Seq(Reply)
      BY DEF TypeInv
    <3> QED BY <2>4, <3>1
  <2> QED BY <1>0, <2>4, <2>6, <2>7 DEF TypeInv, Attempting
<1> QED BY <1>1, <1>2, <1>3, <1>4

\* A reply that is written.
LEMMA ReplyTypes ==
    ASSUME TypeInv, NEW x \in Command, NEW code \in 1 .. 5, NEW size \in Nat,
           Replied(x, code, size)
    PROVE  replies' \in Seq(Reply)
<1>1. [to |-> x, code |-> code, size |-> size] \in Reply
  BY DEF Reply
<1> QED BY <1>1, AppendProperties DEF Replied, TypeInv

LEMMA ExecuteTypes ==
    ASSUME TypeInv, Execute PROVE TypeInv'
<1> DEFINE x == Head(ftp.sent)
<1>0. /\ Typed(ftp) /\ IsClient(ftp) /\ Attempting /\ file \in Files
      /\ ftp.sent \in Seq(Command) /\ srv \in Server /\ ftp.conn = "open"
      /\ ftp.sent # <<>> /\ ftp' = [ftp EXCEPT !.sent = Tail(ftp.sent)]
  BY DEF TypeInv, Typed, Execute
<1>1. x \in Command /\ Tail(ftp.sent) \in Seq(Command)
  BY <1>0, FirstOf
<1>2. Typed(ftp') /\ Attempting' /\ ftp'.conn = "open"
  BY <1>0, <1>1 DEF Typed, IsClient, Attempting
<1>3. LogsIn(x) \/ Refuses(x) \/ Sets(x) \/ Changes(x) \/ BeginsTransfer(x)
  BY DEF Execute
<1> HIDE DEF x
<1>a. srv.rest \in Nat /\ srv.pasv \in BOOLEAN
  BY <1>0 DEF Server
<1>4. ASSUME Refuses(x) PROVE replies' \in Seq(Reply) /\ srv' \in Server /\ file' \in Files
  <2>1. replies' \in Seq(Reply)
    BY <1>1, <1>4, ReplyTypes DEF Refuses
  <2> QED BY <1>0, <1>4, <2>1 DEF Refuses, Server
<1>5. CASE LogsIn(x)
  <2>1. /\ file' = file
        /\ \E code \in {2, 3, 5} : Replied(x, code, 0)
        /\ \E u \in {"none", "asked", "in"} : srv' = [srv EXCEPT !.user = u]
    BY <1>5 DEF LogsIn
  <2>2. replies' \in Seq(Reply)
    BY <1>1, <2>1, ReplyTypes
  <2>3. srv' \in Server
    BY <1>0, <2>1 DEF Server
  <2> QED BY <1>0, <1>2, <2>1, <2>2, <2>3 DEF TypeInv
<1>6. CASE Refuses(x)
  BY <1>2, <1>4, <1>6 DEF TypeInv
<1>7. CASE Sets(x)
  <2>0. x.cmd = "SIZE" => file[x.req] \in Seq(0 .. 2)
    BY <1>0, <1>1, OfCommand DEF Files
  <2>1. x.cmd = "SIZE" => Len(file[x.req]) \in Nat
    BY <2>0, Elements
  <2>2. \E code \in 1 .. 5 : \E size \in Nat : Replied(x, code, size)
    BY <1>7, <2>1 DEF Sets
  <2>3. replies' \in Seq(Reply)
    BY <1>1, <2>2, ReplyTypes
  <2>4. /\ x.cmd = "CWD" => x.arg \in Dirs
        /\ x.cmd = "TYPE" => x.arg \in {"A", "I"}
        /\ x.cmd = "REST" => x.arg \in Nat
    BY <1>1, OfCommand
  <2>5. file' = file
        /\ \/ srv' = srv
           \/ x.cmd = "CWD" /\ srv' = [srv EXCEPT !.cwd = x.arg]
           \/ x.cmd = "TYPE" /\ srv' = [srv EXCEPT !.mode = x.arg]
           \/ srv' = [srv EXCEPT !.pasv = TRUE]
           \/ x.cmd = "REST" /\ srv' = [srv EXCEPT !.rest = x.arg]
           \/ srv' = [srv EXCEPT !.rnfr = TRUE]
    BY <1>7 DEF Sets
  <2>6. srv' \in Server
    BY <1>0, <2>4, <2>5 DEF Server
  <2> QED BY <1>0, <1>2, <2>3, <2>5, <2>6 DEF TypeInv
<1>8. CASE Changes(x)
  <2>1. CASE Refuses(x)
    BY <1>2, <1>4, <2>1 DEF TypeInv
  <2>2. CASE ~ Refuses(x)
    <3>1. Replied(x, 2, 0) /\ srv' = [srv EXCEPT !.rnfr = FALSE] /\ file' = file
      BY <1>8, <2>2 DEF Changes
    <3>2. replies' \in Seq(Reply)
      BY <1>1, <3>1, ReplyTypes
    <3>3. srv' \in Server
      BY <1>0, <3>1 DEF Server
    <3> QED BY <1>0, <1>2, <3>1, <3>2, <3>3 DEF TypeInv
  <2> QED BY <2>1, <2>2
<1>9. CASE BeginsTransfer(x)
  <2>1. CASE Refuses(x)
    BY <1>2, <1>4, <2>1 DEF TypeInv
  <2>2. CASE ~ Refuses(x)
    <3> DEFINE t == [of |-> x, pos |-> srv.rest]
    <3>1. /\ Replied(x, 1, 0)
          /\ srv' = [srv EXCEPT !.pasv = FALSE, !.rest = 0, !.xfer = t]
          /\ file' = IF x.cmd = "STOR" THEN [file EXCEPT ![x.req] = <<>>] ELSE file
      BY <1>9, <2>2 DEF BeginsTransfer
    <3>2. replies' \in Seq(Reply)
      BY <1>1, <3>1, ReplyTypes
    <3>3. t \in Transfer
      BY <1>1, <1>a DEF Transfer
    <3> HIDE DEF t
    <3>4. srv' \in Server
      BY <1>0, <3>1, <3>3 DEF Server
    <3>5. file' \in Files
      <4>1. <<>> \in Seq(0 .. 2)
        OBVIOUS
      <4> QED BY <1>0, <3>1, <4>1 DEF Files
    <3> QED BY <1>2, <3>2, <3>4, <3>5 DEF TypeInv
  <2> QED BY <2>1, <2>2
<1> QED BY <1>3, <1>5, <1>6, <1>7, <1>8, <1>9

LEMMA DataTypes ==
    ASSUME TypeInv, DataMoves \/ DataFinishes \/ TransferEnds
    PROVE  TypeInv'
<1>0. /\ Typed(ftp) /\ IsClient(ftp) /\ Attempting /\ file \in Files /\ replies \in Seq(Reply)
      /\ srv \in Server /\ ftp.conn = "open" /\ ftp.data \in DataConn \cup {None}
  BY DEF TypeInv, Typed, DataMoves, DataFinishes, TransferEnds
<1> DEFINE d == ftp.data
<1>1. CASE DataMoves
  <2>1. d # None /\ srv.xfer # None
    BY <1>1 DEF DataMoves
  <2>2. d.from \in Nat /\ d.moved \in Nat /\ [d EXCEPT !.moved = d.moved + 1] \in DataConn
    BY <1>0, <2>1 DEF DataConn
  <2>3. srv.xfer \in Transfer
    BY <1>0, <2>1 DEF Server
  <2>4. Typed(ftp') /\ Attempting' /\ ftp'.conn = "open"
    <3> DEFINE e == [d EXCEPT !.moved = d.moved + 1]
    <3>1. ftp' = [ftp EXCEPT !.data = e]
      BY <1>0, <1>1 DEF DataMoves, IsClient
    <3> HIDE DEF e
    <3> QED BY <1>0, <2>2, <3>1 DEF Typed, IsClient, Attempting, e
  <2>5. \A n \in Nat : n < Len(Source) => Source[n + 1] \in 0 .. 2
    BY DEF Source
  <2>6. replies' = replies
    BY <1>1 DEF DataMoves
  <2>7. CASE /\ srv.xfer.pos < Len(Source)
             /\ file' = [file EXCEPT ![d.req] = Append(
                           IF d.from = 0 /\ d.moved = 0 THEN <<>> ELSE file[d.req],
                           Source[srv.xfer.pos + 1])]
             /\ srv' = [srv EXCEPT !.xfer.pos = srv.xfer.pos + 1]
    <3>1. srv.xfer.pos \in Nat /\ [srv.xfer EXCEPT !.pos = srv.xfer.pos + 1] \in Transfer
      BY <2>3 DEF Transfer
    <3>2. srv' \in Server
      BY <1>0, <2>7, <3>1 DEF Server
    <3> DEFINE b == Source[srv.xfer.pos + 1]
               s == IF d.from = 0 /\ d.moved = 0 THEN <<>> ELSE file[d.req]
    <3>3. b \in 0 .. 2
      BY <2>5, <2>7, <3>1
    <3>4. d.req \in Requests => s \in Seq(0 .. 2)
      BY <1>0 DEF Files
    <3> HIDE DEF b, s
    <3>5. d.req \in Requests => Append(s, b) \in Seq(0 .. 2)
      BY <3>3, <3>4, AppendProperties
    <3>6. file' \in Files
      BY <1>0, <2>7, <3>5 DEF Files, b, s
    <3> QED BY <1>0, <2>4, <2>6, <3>2, <3>6 DEF TypeInv
  <2>8. CASE /\ d.from + d.moved < Len(Source)
             /\ file' = [file EXCEPT ![srv.xfer.of.req] =
                           Append(file[srv.xfer.of.req], Source[d.from + d.moved + 1])]
             /\ srv' = srv
    <3> DEFINE b == Source[d.from + d.moved + 1]
               r == srv.xfer.of.req
    <3>1. d.from + d.moved \in Nat
      BY <2>2
    <3>2. b \in 0 .. 2
      BY <2>5, <2>8, <3>1
    <3>3. r \in Requests => file[r] \in Seq(0 .. 2)
      BY <1>0 DEF Files
    <3> HIDE DEF b, r
    <3>4. r \in Requests => Append(file[r], b) \in Seq(0 .. 2)
      BY <3>2, <3>3, AppendProperties
    <3>5. file' \in Files
      BY <1>0, <2>8, <3>4 DEF Files, b, r
    <3> QED BY <1>0, <2>4, <2>6, <2>8, <3>5 DEF TypeInv
  <2> QED BY <1>1, <2>7, <2>8 DEF DataMoves
<1>2. CASE DataFinishes
  <2> DEFINE e == [d EXCEPT !.finished = TRUE]
  <2>1. e \in DataConn
    BY <1>0, <1>2 DEF DataFinishes, DataConn
  <2>2. ftp' = [ftp EXCEPT !.data = e] /\ UNCHANGED <<replies, srv, file>>
    BY <1>0, <1>2 DEF DataFinishes, IsClient
  <2> HIDE DEF e
  <2>3. Typed(ftp') /\ Attempting' /\ ftp'.conn = "open"
    BY <1>0, <2>1, <2>2 DEF Typed, IsClient, Attempting
  <2> QED BY <1>0, <2>2, <2>3, ClientStep
<1>3. CASE TransferEnds
  <2>1. srv.xfer # None /\ ftp' = ftp /\ file' = file /\ srv' = [srv EXCEPT !.xfer = None]
    BY <1>3 DEF TransferEnds
  <2>2. srv.xfer.of \in Command
    BY <1>0, <2>1 DEF Server, Transfer
  <2>3. \E code \in {2, 4} : Replied(srv.xfer.of, code, 0)
    BY <1>3 DEF TransferEnds
  <2>4. replies' \in Seq(Reply)
    BY <2>2, <2>3, ReplyTypes
  <2>5. srv' \in Server
    BY <1>0, <2>1 DEF Server
  <2> QED BY <1>0, <2>1, <2>4, <2>5 DEF TypeInv, Attempting
<1> QED BY <1>1, <1>2, <1>3

LEMMA ConnectionTypes ==
    ASSUME TypeInv, Accept \/ StopRequest \/ OnDataAvailable
    PROVE  TypeInv'
<1>0. /\ Typed(ftp) /\ IsClient(ftp) /\ Attempting /\ file \in Files /\ replies \in Seq(Reply)
  BY DEF TypeInv, Typed
<1>1. CASE Accept
  <2>1. ftp.conn = "opening" /\ ftp' = [ftp EXCEPT !.conn = "open"] /\ file' = file
    BY <1>1 DEF Accept
  <2>2. Typed(ftp') /\ Attempting'
    BY <1>0, <2>1 DEF Typed, IsClient, Attempting
  <2>3. srv' \in Server
    BY <1>1, FtpAssumption DEF Accept, Server
  <2>4. replies' \in Seq(Reply)
    <3>1. \A code \in {2, 4} :
            [to |-> Cmd("welcome", None, 0), code |-> code, size |-> 0] \in Reply
      BY InternalCommands DEF Reply
    <3>2. \E e \in Reply : replies' = <<e>>
      BY <1>1, <3>1 DEF Accept
    <3> QED BY <3>2
  <2> QED BY <1>0, <2>1, <2>2, <2>3, <2>4 DEF TypeInv
<1>2. CASE StopRequest
  <2>1. ftp.conn # "none" /\ ftp.retries = 0
    BY <1>0, <1>2 DEF StopRequest, Attempting
  <2>2. ftp' = OnDisconnect(ftp) /\ replies' = <<>> /\ file' = file
    BY <1>2 DEF StopRequest
  <2>3. Typed(ftp')
    BY <1>0, <2>2, DisconnectTypes
  <2>4. ftp'.conn = "none" /\ ftp'.isConnected = FALSE
    BY <1>0, <2>2 DEF OnDisconnect, Cleanup, IsClient
  <2>5. \/ ftp'.retries = 0
        \/ ftp'.retries = 1 /\ ftp'.reconnectsLeft # 0
    <3>1. ftp.reconnectsLeft \in Nat
      BY <1>0 DEF Typed
    <3> QED BY <1>0, <2>1, <2>2, <3>1 DEF OnDisconnect, Cleanup, IsClient
  <2> QED BY <1>0, <2>2, <2>3, <2>4, <2>5 DEF TypeInv, Attempting
<1>3. CASE OnDataAvailable
  <2> DEFINE c == [ftp EXCEPT !.ctl = None]
  <2>1. Typed(c) /\ Kept(ftp, c)
    BY <1>0 DEF Typed, Kept, IsClient
  <2>2. PICK n \in 1 .. Len(replies) :
          /\ ftp' = ReadControl(c, replies[n].code, replies[n].size)
          /\ replies' = SubSeq(replies, n + 1, Len(replies))
    BY <1>3 DEF OnDataAvailable
  <2>3. ftp.conn = "open" /\ srv' = srv /\ file' = file
    BY <1>3 DEF OnDataAvailable
  <2>4. n \in Nat /\ replies[n].size \in Nat
    <3>1. replies[n] \in Reply /\ n \in Nat
      BY <1>0, Elements
    <3> QED BY <3>1 DEF Reply
  <2> HIDE DEF c
  <2>5. Typed(ftp') /\ Attempting'
    BY <2>1, <2>2, <2>3, <2>4, ReadTyped
  <2>6. replies' \in Seq(Reply)
    BY <1>0, <2>2, <2>4, RestOf
  <2> QED BY <1>0, <2>3, <2>5, <2>6 DEF TypeInv
<1> QED BY <1>1, <1>2, <1>3

LEMMA TypeStep ==
    ASSUME TypeInv, [Next]_vars PROVE TypeInv'
<1>1. CASE Next
  BY <1>1, UserTypes, TimerTypes, ExecuteTypes, DataTypes, ConnectionTypes DEF Next
<1>2. CASE UNCHANGED vars
  <2>1. UNCHANGED <<ftp, replies, srv, file>>
    BY <1>2 DEF vars
  <2> QED BY <2>1 DEF TypeInv, Attempting, Files
<1> QED BY <1>1, <1>2

\* The state has its types: whatever happens to the connection, the queue only
\* ever holds commands of the protocol with the parameters they need, and so
\* does what is put aside to be sent again.
THEOREM TypeCorrectness == Spec => []TypeOK
<1>1. Init => TypeInv
  BY TypeInit
<1>2. TypeInv /\ [Next]_vars => TypeInv'
  BY TypeStep
<1>3. TypeInv => TypeOK
  BY TypeInvOK
<1> QED BY <1>1, <1>2, <1>3, PTL DEF Spec

----------------------------------------------------------------------------
(***************************************************************************)
(* Commands and replies.  At most one command is under way: it is sent, or *)
(* answered, or its transfer goes on.  Only a transfer has two replies,    *)
(* and both may be there before the client reads the first.                *)
(***************************************************************************)
Silent == ftp.sent = <<>> /\ replies = <<>> /\ srv.xfer = None

\* The head of the queue takes the reply to x.
Fits(x) ==
    \/ Head(ftp.queue).cmd = "aborted"
    \/ Head(ftp.queue).cmd = x.cmd /\ Head(ftp.queue).req = x.req

\* x is at the head of the queue, and its first reply has not been read.
Begins(x) == Head(ftp.queue) = x /\ x.cmd \in Transfers /\ ~ x.begun

\* A command that was cancelled when it was sent was a transfer begun before.
Sent(x) ==
    /\ ftp.sent = <<x>> /\ replies = <<>> /\ srv.xfer = None
    /\ Head(ftp.queue) = x \/ x.begun

Answer(x) ==
    /\ ftp.sent = <<>> /\ srv.xfer = None
    /\ Len(replies) = 1 /\ replies[1].to = x /\ replies[1].code # 1

BothAnswers(x) ==
    /\ ftp.sent = <<>> /\ srv.xfer = None /\ Begins(x)
    /\ Len(replies) = 2 /\ replies[1].to = x /\ replies[2].to = x
    /\ replies[1].code = 1 /\ replies[2].code # 1

Going(x) ==
    /\ ftp.sent = <<>> /\ replies = <<>> /\ x.cmd \in Transfers
    /\ srv.xfer # None => srv.xfer.of = x

Starting(x) ==
    /\ ftp.sent = <<>> /\ Begins(x)
    /\ Len(replies) = 1 /\ replies[1].to = x /\ replies[1].code = 1
    /\ srv.xfer # None => srv.xfer.of = x

UnderWay(x) == Sent(x) \/ Answer(x) \/ BothAnswers(x) \/ Going(x) \/ Starting(x)

\* Before the welcome message nothing but it is waited for.
Greets(c) == c.isConnected \/ c.queue = <<>> \/ Head(c.queue).cmd = "welcome"

\* While a reply is outstanding, nothing is ready to be sent; and when a transfer
\* is looked at again, no reply is.
Talk ==
    /\ Greets(ftp)
    /\ ftp.polls \in {0, 1}
    /\ ftp.polls = 1 => ftp.isConnected /\ ~ ftp.isReady /\ ftp.queue # <<>> /\ Silent
    /\ ftp.isConnected /\ ftp.isReady => Silent
    /\ Silent \/ (ftp.queue # <<>> /\ \E x \in Command : Fits(x) /\ UnderWay(x))

Opening ==
    /\ ftp.sent = <<>> /\ replies = <<>> /\ srv = None /\ ftp.polls = 0
    /\ ~ ftp.isConnected /\ ftp.queue # <<>> /\ Head(ftp.queue).cmd = "welcome"

TalkInv ==
    /\ ftp.conn = "opening" => Opening
    /\ ftp.conn = "open" => Talk

LEMMA TalkMatches ==
    ASSUME TypeInv, TalkInv PROVE RepliesFindTheirCommands
<1>1. CASE ftp.conn = "opening"
  <2>1. InFlight = {}
    BY <1>1 DEF TalkInv, Opening, InFlight
  <2> QED BY <2>1 DEF RepliesFindTheirCommands
<1>2. CASE ftp.conn = "open"
  <2>1. CASE Silent
    <3>1. InFlight = {}
      BY <2>1 DEF Silent, InFlight
    <3> QED BY <3>1 DEF RepliesFindTheirCommands
  <2>2. CASE ~ Silent
    <3>1. PICK x \in Command : Fits(x) /\ UnderWay(x)
      BY <1>2, <2>2 DEF TalkInv, Talk
    <3>2. ftp.queue # <<>>
      BY <1>2, <2>2 DEF TalkInv, Talk
    <3>3. InFlight \subseteq {x}
      BY <3>1 DEF InFlight, UnderWay, Sent, Answer, BothAnswers, Going, Starting
    <3> QED BY <3>1, <3>2, <3>3 DEF RepliesFindTheirCommands, Fits
  <2> QED BY <2>1, <2>2
<1> QED BY <1>1, <1>2 DEF RepliesFindTheirCommands

----------------------------------------------------------------------------
(***************************************************************************)
(* What a call of the client does to its side of this.                     *)
(***************************************************************************)
\* At most one command has been sent: the one now at the head.
Calm(c) ==
    c.sent = <<>> \/ (c.queue # <<>> /\ c.sent = <<Head(c.queue)>> /\ ~ c.isReady)

\* From c, which waits for nothing, a call comes to d.
After(c, d) ==
    /\ Calm(d) /\ Greets(d)
    /\ d.conn \in {c.conn, "closing"}
    /\ \/ d.polls = c.polls
       \/ /\ d.polls = c.polls + 1
          /\ d.sent = <<>> /\ d.queue # <<>> /\ d.isReady = c.isReady
          /\ c.isConnected /\ d.isConnected

\* Before it goes on with the next command.
Same(c, d) ==
    IsClient(d) /\ d.sent = <<>> /\ d.conn = c.conn /\ d.polls = c.polls

LEMMA SameReported ==
    ASSUME NEW c, NEW d, NEW r, NEW what, Same(c, d)
    PROVE  LET e == Report(d, r, what)
           IN Same(c, e) /\ e.isConnected = d.isConnected /\ e.queue = d.queue
  BY DEF Same, Report, IsClient

LEMMA WriteAfter ==
    ASSUME NEW c, NEW d, Same(c, d), d.isConnected PROVE After(c, WriteControl(d))
<1> DEFINE e == SkipNeedless(d)
<1>1. Same(c, e) /\ e.isConnected
  BY DEF Same, SkipNeedless, IsClient
<1> HIDE DEF e
<1>2. e.queue # <<>> => After(c, Written(e))
  <2>1. Append(<<>>, Head(e.queue)) = <<Head(e.queue)>>
    OBVIOUS
  <2>2. Written(e).conn = c.conn /\ Written(e).polls = c.polls /\ Written(e).isConnected
    BY <1>1 DEF Written, Same, IsClient
  <2>3. e.queue # <<>> => Calm(Written(e))
    BY <1>1, <2>1 DEF Written, Same, IsClient, Calm
  <2> QED BY <2>2, <2>3 DEF After, Greets
<1>3. After(c, e) /\ After(c, d)
  BY <1>1 DEF After, Same, Calm, Greets
<1> QED BY <1>2, <1>3 DEF WriteControl, e

LEMMA NextAfter ==
    ASSUME NEW c, NEW d, Same(c, d), d.isConnected \/ d.queue = <<>>
    PROVE  After(c, NextCommand(d))
<1> DEFINE e == [d EXCEPT !.isReady = TRUE]
<1>1. Same(c, e) /\ e.isConnected = d.isConnected /\ e.queue = d.queue /\ e.isReady
  BY DEF Same, IsClient
<1> HIDE DEF e
<1>2. CASE d.isConnected
  <2>1. After(c, WriteControl(e))
    BY <1>1, <1>2, WriteAfter
  <2>2. After(c, e)
    BY <1>1, <1>2 DEF After, Same, Calm, Greets
  <2> QED BY <2>1, <2>2 DEF NextCommand, e
<1>3. CASE d.queue = <<>>
  <2>1. NextCommand(d) = WriteControl(e)
    BY <1>3 DEF NextCommand, e
  <2>2. Same(c, SkipNeedless(e)) /\ SkipNeedless(e).queue = <<>>
    <3>1. SkipNeedless(e).queue = <<>>
      <4>1. SubSeq(e.queue, Len(e.queue) + 1, Len(e.queue)) = <<>>
        BY <1>1, <1>3
      <4>2. {k \in 1 .. Len(e.queue) : ~ Needless(e, e.queue[k])} = {}
        BY <1>1, <1>3
      <4> QED BY <1>1, <4>1, <4>2 DEF SkipNeedless, Same, IsClient
    <3> QED BY <1>1, <3>1 DEF Same, SkipNeedless, IsClient
  <2>3. WriteControl(e) = SkipNeedless(e)
    BY <1>1, <2>2 DEF WriteControl
  <2> QED BY <2>1, <2>2, <2>3 DEF After, Same, Calm, Greets
<1> QED BY <1>2, <1>3

LEMMA ReportAfter ==
    ASSUME NEW c, NEW d, NEW r, NEW what, Same(c, d), d.isConnected \/ d.queue = <<>>
    PROVE  After(c, NextCommand(Report(d, r, what)))
<1> DEFINE e == Report(d, r, what)
<1>1. Same(c, e) /\ (e.isConnected \/ e.queue = <<>>)
  BY SameReported
<1> HIDE DEF e
<1>2. After(c, NextCommand(e))
  BY <1>1, NextAfter
<1> QED BY <1>2 DEF e

\* A reply other than the welcome is only read by a client that is connected.
Reading(c) == IsClient(c) /\ c.sent = <<>> /\ c.isConnected

LEMMA SelfAfter ==
    ASSUME NEW c, Reading(c) PROVE Same(c, c) /\ After(c, c) /\ After(c, NextCommand(c))
<1>1. Same(c, c) /\ After(c, c)
  BY DEF Reading, Same, After, Calm, Greets
<1> QED BY <1>1, NextAfter DEF Reading

LEMMA QueueAfter ==
    ASSUME NEW c, Reading(c), NEW q
    PROVE  /\ Same(c, [c EXCEPT !.queue = q]) /\ [c EXCEPT !.queue = q].isConnected
           /\ LET d == [c EXCEPT !.queue = q, !.trash = <<>>]
              IN Same(c, d) /\ d.isConnected
           /\ LET d == [c EXCEPT !.queue = q, !.trash = <<>>, !.dat = None]
              IN Same(c, d) /\ d.isConnected
           /\ LET d == [c EXCEPT !.queue = q, !.trash = <<>>, !.data = None]
              IN Same(c, d) /\ d.isConnected
           /\ LET d == [c EXCEPT !.queue = q, !.trash = <<>>, !.data = None, !.dat = None]
              IN Same(c, d) /\ d.isConnected
  BY DEF Reading, Same, IsClient

LEMMA BegunAfter ==
    ASSUME NEW c, Reading(c), c.queue \in Seq(Command), c.queue # <<>>
    PROVE  After(c, Begun(c)) /\ After(c, Poll(Begun(c)))
<1> DEFINE q == <<[Head(c.queue) EXCEPT !.begun = TRUE]>> \o Tail(c.queue)
<1>1. q # <<>>
  <2>1. Tail(c.queue) \in Seq(Command)
    BY FirstOf
  <2> DEFINE s == Tail(c.queue)
             y == [Head(c.queue) EXCEPT !.begun = TRUE]
  <2> HIDE DEF s, y
  <2>2. s \in Seq(Command \cup {y}) /\ y \in Command \cup {y}
    BY <2>1, SeqMonotonic DEF s
  <2>3. <<y>> \o s # <<>>
    BY <2>2, Before1
  <2> QED BY <2>3 DEF s, y
<1>2. Begun(c) = [c EXCEPT !.queue = q]
  BY DEF Begun
<1> HIDE DEF q
<1>3. /\ Same(c, Begun(c)) /\ Begun(c).isConnected /\ Begun(c).queue # <<>>
      /\ Begun(c).isReady = c.isReady
  BY <1>1, <1>2 DEF Reading, Same, IsClient
<1> DEFINE d == Begun(c)
<1> HIDE DEF d
<1>4. /\ Poll(d).sent = <<>> /\ Poll(d).conn = c.conn /\ Poll(d).polls = c.polls + 1
      /\ Poll(d).isConnected /\ Poll(d).queue # <<>> /\ Poll(d).isReady = c.isReady
  BY <1>3 DEF d, Poll, Same, IsClient
<1>5. After(c, d)
  BY <1>3 DEF d, After, Same, Calm, Greets
<1>6. After(c, Poll(d))
  BY <1>4 DEF After, Calm, Greets, Reading
<1> QED BY <1>5, <1>6 DEF d

LEMMA TransferAfter ==
    ASSUME NEW c, Reading(c), c.queue \in Seq(Command), c.queue # <<>>, NEW h, NEW code
    PROVE  After(c, TransferAnswered(c, h, code))
<1> DEFINE q == DropTransfer(c.queue)
<1> HIDE DEF q
<1>1. After(c, TransferDone(c, h)) /\ After(c, TransferFailed(c, h))
  BY QueueAfter, ReportAfter DEF TransferDone, TransferFailed, q
<1>2. After(c, [c EXCEPT !.queue = q, !.trash = <<>>, !.dat = None])
  BY QueueAfter DEF After, Same, Calm, Greets
<1>3. After(c, Begun(c)) /\ After(c, Poll(Begun(c)))
  BY BegunAfter
<1> QED BY <1>1, <1>2, <1>3 DEF TransferAnswered, q

LEMMA PasvAfter ==
    ASSUME NEW c, Reading(c), NEW code PROVE After(c, PasvAnswered(c, code))
<1>1. ASSUME NEW q, NEW r
      PROVE  /\ After(c, NextCommand([c EXCEPT !.queue = q]))
             /\ After(c, NextCommand(Report([c EXCEPT !.queue = q], r, "failed")))
  BY QueueAfter, NextAfter, ReportAfter
<1>2. After(c, NextCommand([c EXCEPT !.data = DataSocket(c.queue)]))
  <2>1. LET d == [c EXCEPT !.data = DataSocket(c.queue)] IN Same(c, d) /\ d.isConnected
    BY DEF Reading, Same, IsClient
  <2> QED BY <2>1, NextAfter
<1> QED BY <1>1, <1>2, SelfAfter DEF PasvAnswered

LEMMA WelcomeAfter ==
    ASSUME NEW c, IsClient(c), c.sent = <<>>, NEW code PROVE After(c, Welcomed(c, code))
<1>1. Same(c, Cleanup(c)) /\ Cleanup(c).queue = <<>>
  BY DEF Cleanup, Same, IsClient
<1> DEFINE d == [c EXCEPT !.isConnected = TRUE, !.isReconnecting = FALSE,
                          !.reconnectsLeft = Attempts,
                          !.queue = <<Cmd("USER", None, 0)>> \o c.queue]
<1>2. Same(c, d) /\ d.isConnected
  BY DEF Same, IsClient
<1> HIDE DEF d
<1>3. After(c, NextCommand(d)) /\ After(c, NextCommand(Cleanup(c)))
  BY <1>1, <1>2, NextAfter
<1> QED BY <1>3 DEF Welcomed, d

LEMMA LoginAfter ==
    ASSUME NEW c, Reading(c), c.conn = "open", NEW h, NEW code
    PROVE  After(c, LoginAnswered(c, h, code))
<1>1. After(c, LoggedIn(c))
  <2> DEFINE d == [c EXCEPT !.known = TRUE, !.legitClose = c.legitClose \/ ~ c.known]
             e == [d EXCEPT !.legitClose = FALSE,
                     !.queue = <<Cmd("FEAT", None, 0), Cmd("PWD", None, 0)>> \o c.queue]
  <2>1. Same(c, d) /\ d.isConnected /\ IsClient(d)
    BY DEF Reading, Same, IsClient
  <2>2. Same(c, e) /\ e.isConnected
    BY DEF Reading, Same, IsClient
  <2>3. After(c, NextCommand(e))
    BY <2>2, NextAfter
  <2>4. After(c, d)
    BY <2>1 DEF After, Same, Calm, Greets
  <2>5. After(c, NextCommand(RecoverFromDisaster(d)))
    <3> HIDE DEF d
    <3> DEFINE New(q) == [d EXCEPT !.queue = q, !.cwd = None, !.trash = <<>>]
    <3>1. \E q : RecoverFromDisaster(d) = New(q)
      BY DEF RecoverFromDisaster
    <3>2. \A q : Same(c, New(q)) /\ New(q).isConnected
      BY <2>1 DEF Same, IsClient
    <3> QED BY <3>1, <3>2, NextAfter
  <2> QED BY <2>3, <2>4, <2>5 DEF LoggedIn
<1>2. After(c, NextCommand([c EXCEPT !.queue = <<Cmd("PASS", None, 0)>> \o c.queue]))
  BY QueueAfter, NextAfter
<1>3. After(c, Kill([Cleanup(c) EXCEPT !.isConnected = FALSE]))
  <2> DEFINE d == [Cleanup(c) EXCEPT !.isConnected = FALSE]
  <2>1. Same(c, d) /\ d.queue = <<>>
    BY DEF Reading, Same, IsClient, Cleanup
  <2> HIDE DEF d
  <2>2. /\ Kill(d).sent = <<>> /\ Kill(d).queue = <<>> /\ Kill(d).polls = c.polls
        /\ Kill(d).conn = "closing"
    BY <2>1 DEF Kill, Same, IsClient
  <2>3. After(c, Kill(d))
    BY <2>2 DEF After, Calm, Greets
  <2> QED BY <2>3 DEF d
<1> QED BY <1>1, <1>2, <1>3 DEF LoginAnswered

LEMMA SizeAfter ==
    ASSUME NEW c, Reading(c), NEW h, NEW code, NEW size
    PROVE  After(c, SizeAnswered(c, h, code, size))
<1>1. \E d : Same(c, d) /\ d.isConnected /\ SizeAnswered(c, h, code, size) = NextCommand(d)
  <2>1. ASSUME NEW k, NEW cmd, NEW arg
        PROVE  LET d == [c EXCEPT !.queue[k].cmd = cmd, !.queue[k].arg = arg]
               IN Same(c, d) /\ d.isConnected
    BY DEF Reading, Same, IsClient
  <2>2. Same(c, c) /\ c.isConnected
    BY SelfAfter DEF Reading
  <2> QED BY <2>1, <2>2 DEF SizeAnswered
<1> QED BY <1>1, NextAfter

LEMMA AnsweredAfter ==
    ASSUME NEW c, IsClient(c), c.sent = <<>>, c.conn = "open",
           c.queue \in Seq(Command), NEW h, NEW code, NEW size,
           h.cmd \in Transfers => c.queue # <<>>,
           \/ c.isConnected
           \/ h.cmd = "welcome"
           \/ h.cmd = "default" /\ c.queue = <<>>
    PROVE  After(c, Answered(c, h, code, size))
<1>1. CASE h.cmd = "welcome"
  <2>1. Answered(c, h, code, size) = Welcomed(c, code)
    BY <1>1 DEF Answered, Transfers
  <2> QED BY <2>1, WelcomeAfter
<1>2. CASE h.cmd = "default" /\ c.queue = <<>>
  <2>1. Answered(c, h, code, size) = NextCommand(c)
    BY <1>2 DEF Answered, Transfers
  <2>2. Same(c, c)
    BY DEF Same
  <2> QED BY <1>2, <2>1, <2>2, NextAfter
<1>3. CASE c.isConnected
  <2>0. Reading(c)
    BY <1>3 DEF Reading
  <2>1. After(c, Welcomed(c, code)) /\ After(c, LoginAnswered(c, h, code))
        /\ After(c, PasvAnswered(c, code)) /\ After(c, SizeAnswered(c, h, code, size))
        /\ After(c, NextCommand(c))
    BY <2>0, WelcomeAfter, LoginAfter, PasvAfter, SizeAfter, SelfAfter
  <2>2. h.cmd \in Transfers => After(c, TransferAnswered(c, h, code))
    BY <2>0, TransferAfter
  <2>3. After(c, SimpleAnswered(c, h, code))
    <3>1. LET d == [c EXCEPT !.trash = <<>>] IN Same(c, d) /\ d.isConnected
      BY <2>0 DEF Reading, Same, IsClient
    <3> QED BY <3>1, ReportAfter DEF SimpleAnswered
  <2>4. After(c, NextCommand(Report([c EXCEPT !.queue = <<>>, !.trash = <<>>],
                                    h.req, "failed")))
    BY <2>0, QueueAfter, ReportAfter
  <2>5. ASSUME NEW r PROVE After(c, NextCommand(Report([c EXCEPT !.cwd = h.arg], r, "done")))
    <3>1. LET d == [c EXCEPT !.cwd = h.arg] IN Same(c, d) /\ d.isConnected
      BY <2>0 DEF Reading, Same, IsClient
    <3> QED BY <3>1, ReportAfter
  <2>6. After(c, NextCommand([c EXCEPT !.trash = <<>>,
                                       !.cwd = IF code = 2 THEN Root ELSE c.cwd]))
    <3>1. LET d == [c EXCEPT !.trash = <<>>, !.cwd = IF code = 2 THEN Root ELSE c.cwd]
          IN Same(c, d) /\ d.isConnected
      BY <2>0 DEF Reading, Same, IsClient
    <3> QED BY <3>1, NextAfter
  <2>7. After(c, NextCommand([c EXCEPT !.mode = h.arg]))
    <3>1. LET d == [c EXCEPT !.mode = h.arg] IN Same(c, d) /\ d.isConnected
      BY <2>0 DEF Reading, Same, IsClient
    <3> QED BY <3>1, NextAfter
  <2> QED BY <2>1, <2>2, <2>3, <2>4, <2>5, <2>6, <2>7 DEF Answered
<1> QED BY <1>1, <1>2, <1>3

\* A reply is read after which no other is outstanding.
LEMMA ReadAfter ==
    ASSUME NEW c, IsClient(c), c.sent = <<>>, c.conn = "open", Greets(c),
           c.queue \in Seq(Command), NEW code, NEW size
    PROVE  After(c, ReadControl(c, code, size))
<1> DEFINE h == IF c.queue = <<>> THEN Cmd("default", None, 0) ELSE Head(c.queue)
           t == IF h.cmd \in NotKept THEN c.trash ELSE Append(c.trash, h)
           d == IF c.queue = <<>> \/ h.cmd \in Transfers THEN c
                ELSE [c EXCEPT !.queue = Tail(c.queue), !.trash = t]
<1>1. ReadControl(c, code, size) = Answered(d, h, code, size)
  BY DEF ReadControl
<1>2. c.queue = <<>> => h.cmd = "default"
  BY DEF Cmd
<1>3. h.cmd \in Transfers => c.queue # <<>> /\ d = c
  BY <1>2 DEF Transfers
<1>4. /\ IsClient(d) /\ d.sent = <<>> /\ d.conn = c.conn /\ d.polls = c.polls
      /\ d.isReady = c.isReady /\ d.isConnected = c.isConnected
  <2> HIDE DEF t, h
  <2> QED BY DEF IsClient
<1>5. d.queue \in Seq(Command)
  <2>1. c.queue # <<>> => Tail(c.queue) \in Seq(Command)
    BY FirstOf
  <2> HIDE DEF t, h
  <2> QED BY <2>1 DEF IsClient
<1>6. \/ d.isConnected
      \/ h.cmd = "welcome"
      \/ h.cmd = "default" /\ d.queue = <<>>
  <2>1. CASE c.queue = <<>>
    BY <1>2, <2>1
  <2>2. CASE c.queue # <<>>
    <3>1. h = Head(c.queue)
      BY <2>2
    <3> QED BY <1>4, <2>2, <3>1 DEF Greets
  <2> QED BY <2>1, <2>2
<1> HIDE DEF h, t, d
<1>7. After(d, Answered(d, h, code, size))
  BY <1>3, <1>4, <1>5, <1>6, AnsweredAfter
<1> QED BY <1>1, <1>4, <1>7 DEF After

\* The first reply to a transfer only marks it.
LEMMA ReadBegins ==
    ASSUME NEW c, c.queue # <<>>, Head(c.queue).cmd \in Transfers, ~ Head(c.queue).begun,
           NEW size
    PROVE  ReadControl(c, 1, size) = Begun(c)
<1> DEFINE h == Head(c.queue)
<1>1. ReadControl(c, 1, size) = Answered(c, h, 1, size)
  BY DEF ReadControl
<1>2. Answered(c, h, 1, size) = TransferAnswered(c, h, 1)
  BY DEF Answered, Transfers
<1>3. TransferAnswered(c, h, 1) = Begun(c)
  BY DEF TransferAnswered
<1> QED BY <1>1, <1>2, <1>3

LEMMA WriteStays ==
    ASSUME NEW c, IsClient(c)
    PROVE  LET d == WriteControl(c) IN d.conn = c.conn /\ d.polls = c.polls
  BY DEF WriteControl, SkipNeedless, Written, IsClient

LEMMA ConnectingGreets ==
    ASSUME NEW c, IsClient(c), c.queue \in Seq(Command)
    PROVE  LET d == Connecting(c)
           IN /\ d.conn = "opening" /\ d.sent = <<>> /\ d.polls = c.polls
              /\ d.isConnected = c.isConnected
              /\ d.queue # <<>> /\ Head(d.queue).cmd = "welcome"
<1> DEFINE q == IF c.queue # <<>> /\ Head(c.queue).cmd = "welcome" THEN c.queue
                ELSE <<Cmd("welcome", None, 0)>> \o c.queue
<1>1. q # <<>> /\ Head(q).cmd = "welcome"
  <2>1. Cmd("welcome", None, 0).cmd = "welcome"
    BY DEF Cmd
  <2> QED BY <2>1, InternalCommands, Before1
<1>2. Connecting(c) = [c EXCEPT !.conn = "opening", !.sent = <<>>, !.ctl = None,
                                !.dat = None, !.queue = q]
  BY DEF Connecting
<1> HIDE DEF q
<1> QED BY <1>1, <1>2 DEF IsClient

----------------------------------------------------------------------------
(***************************************************************************)
(* The conversation goes on.                                               *)
(***************************************************************************)
\* Requests and what stops them come while there is a connection, and what is
\* stopped is a transfer of data.
Considerate == {"cancelAnytime", "removeAnytime", "whileDown"} \cap Env = {}

LEMMA TalkInit ==
    ASSUME Init PROVE TalkInv
  BY DEF Init, TalkInv

\* Nothing is outstanding any more, but for what the call has sent.
LEMMA Settles ==
    ASSUME TypeInv', ftp.conn = "open", ftp'.conn = "open",
           NEW c, After(c, ftp'), c.polls = 0,
           ftp'.polls = 0 \/ ~ c.isReady \/ ~ c.isConnected,
           replies' = <<>>, srv' = srv, srv.xfer = None
    PROVE  Talk'
<1>1. Calm(ftp') /\ Greets(ftp')
  BY DEF After
<1>2. CASE ftp'.sent = <<>>
  <2>1. Silent'
    BY <1>2 DEF Silent
  <2>2. \/ ftp'.polls = 0
        \/ ftp'.polls = 1 /\ ftp'.isConnected /\ ~ ftp'.isReady /\ ftp'.queue # <<>>
    BY DEF After
  <2> QED BY <1>1, <2>1, <2>2 DEF Talk
<1>3. CASE ftp'.sent # <<>>
  <2>1. /\ ftp'.queue # <<>> /\ ftp'.sent = <<Head(ftp'.queue)>>
        /\ ~ ftp'.isReady /\ ftp'.polls = 0
    BY <1>1, <1>3 DEF Calm, After
  <2>2. PICK x \in Command : x = Head(ftp'.queue)
    BY <2>1, FirstOf DEF TypeInv, Typed
  <2>3. (Fits(x) /\ UnderWay(x))'
    BY <2>1, <2>2 DEF Fits, UnderWay, Sent
  <2> QED BY <1>1, <2>1, <2>3 DEF Talk
<1> QED BY <1>2, <1>3

\* What is at the head of the queue stays there.
LEMMA HeadStays ==
    ASSUME TypeInv, Talk, ftp'.sent = ftp.sent, replies' = replies,
           ftp'.isConnected = ftp.isConnected, ftp'.isReady = ftp.isReady,
           ftp'.polls = ftp.polls,
           srv'.xfer = srv.xfer \/ (srv.xfer # None /\ srv'.xfer.of = srv.xfer.of),
           ftp'.queue = ftp.queue
           \/ /\ ftp.isConnected
              /\ ftp.queue # <<>> => ftp'.queue # <<>> /\ Head(ftp'.queue) = Head(ftp.queue)
    PROVE  Talk'
<1>1. Greets(ftp)'
  BY DEF Talk, Greets
<1>2. CASE Silent
  <2>1. Silent'
    BY <1>2 DEF Silent
  <2> QED BY <1>1, <2>1 DEF Talk
<1>3. CASE ~ Silent
  <2>1. PICK x \in Command : Fits(x) /\ UnderWay(x)
    BY <1>3 DEF Talk
  <2>2. ftp.queue # <<>> /\ ftp'.queue # <<>> /\ Head(ftp'.queue) = Head(ftp.queue)
    BY <1>3 DEF Talk
  <2>3. Fits(x)'
    BY <2>1, <2>2 DEF Fits
  <2>4. Begins(x) => Begins(x)'
    BY <2>2 DEF Begins
  <2>5. UnderWay(x)'
    BY <2>1, <2>2, <2>4 DEF UnderWay, Sent, Answer, BothAnswers, Going, Starting
  <2> QED BY <1>1, <1>3, <2>2, <2>3, <2>5 DEF Talk
<1> QED BY <1>2, <1>3

\* Nothing is asked of the head's transfer: it is stopped, and "aborted" waits
\* for its reply.
LEMMA Stopped ==
    ASSUME TypeInv, Talk, ftp'.sent = ftp.sent, replies' = replies, srv' = srv,
           ftp'.isConnected, ftp'.polls = ftp.polls,
           ftp'.queue # <<>>, Head(ftp'.queue).cmd = "aborted",
           ftp.queue # <<>> => Head(ftp.queue).begun,
           ftp.polls = 1 => ~ ftp'.isReady,
           ftp'.isReady => Silent
    PROVE  Talk'
<1>1. Greets(ftp)'
  BY DEF Greets
<1>2. CASE Silent
  <2>1. Silent'
    BY <1>2 DEF Silent
  <2> QED BY <1>1, <2>1 DEF Talk
<1>3. CASE ~ Silent
  <2>1. PICK x \in Command : Fits(x) /\ UnderWay(x)
    BY <1>3 DEF Talk
  <2>2. ftp.queue # <<>> /\ Head(ftp.queue).begun
    BY <1>3 DEF Talk
  <2>3. Fits(x)' /\ ~ Begins(x)
    BY <2>2 DEF Fits, Begins
  <2>4. UnderWay(x)'
    BY <2>1, <2>2, <2>3 DEF UnderWay, Sent, Answer, BothAnswers, Going, Starting
  <2> QED BY <1>1, <1>3, <2>3, <2>4 DEF Talk
<1> QED BY <1>2, <1>3

\* The command at the head when the user stops something.
LEMMA SteadyHead ==
    ASSUME TypeInv, Considerate, NEW cmds, Steady(cmds), ftp.queue # <<>>
    PROVE  Head(ftp.queue).cmd \in cmds /\ Head(ftp.queue).begun /\ ftp.data # None
<1>1. Len(ftp.queue) \in Nat \ {0} /\ Head(ftp.queue) = ftp.queue[1]
  BY FirstOf DEF TypeInv, Typed
<1>2. 1 \in 1 .. Len(ftp.queue)
  BY <1>1
<1> QED BY <1>1, <1>2 DEF Steady, Considerate

\* One sequence before another.
LEMMA HeadOfBoth ==
    ASSUME NEW S, NEW s \in Seq(S), NEW t \in Seq(S), s # <<>>
    PROVE  s \o t # <<>> /\ Head(s \o t) = Head(s)
<1> DEFINE u == s \o t
<1>1. Len(s) \in Nat \ {0} /\ Len(t) \in Nat /\ Head(s) = s[1]
  BY FirstOf, Elements
<1>2. u \in Seq(S) /\ Len(u) = Len(s) + Len(t) /\ \A i \in 1 .. Len(s) : u[i] = s[i]
  BY ConcatProperties
<1> HIDE DEF u
<1>3. u # <<>> /\ u[1] = s[1]
  BY <1>1, <1>2, EmptySeq
<1>4. Head(u) = u[1]
  BY <1>2, <1>3, FirstOf
<1> QED BY <1>1, <1>3, <1>4 DEF u

LEMMA UserTalk ==
    ASSUME TypeInv, TalkInv, TypeInv', Considerate,
           Connect \/ Cancel \/ Abort \/ Disconnect
           \/ \E r \in Requests, a \in Wishes : Ask(r, a)
    PROVE  TalkInv'
<1>0. /\ Typed(ftp) /\ IsClient(ftp) /\ Attempting /\ ftp.queue \in Seq(Command)
      /\ ftp.conn \in {"none", "opening", "open", "closing"}
  BY DEF TypeInv, Typed
<1>1. CASE Connect
  <2> DEFINE c == [ftp EXCEPT !.isReconnecting = FALSE, !.reconnectsLeft = Attempts]
  <2>1. IsClient(c) /\ c.isConnected = ftp.isConnected /\ c.polls = ftp.polls
        /\ c.queue = ftp.queue
    BY <1>0 DEF IsClient
  <2>2. /\ ftp' = Connecting(c) /\ replies' = <<>> /\ srv' = None
        /\ ftp.polls = 0 /\ ~ ftp.isConnected
    BY <1>0, <1>1 DEF Connect, Attempting
  <2> HIDE DEF c
  <2>3. /\ ftp'.conn = "opening" /\ ftp'.sent = <<>> /\ ftp'.polls = 0
        /\ ~ ftp'.isConnected /\ ftp'.queue # <<>> /\ Head(ftp'.queue).cmd = "welcome"
    BY <1>0, <2>1, <2>2, ConnectingGreets
  <2> QED BY <2>2, <2>3 DEF TalkInv, Opening
<1>2. CASE Cancel
  <2>1. ftp.isConnected /\ ftp.conn # "opening" /\ Steady(Transfers \ {"LIST"})
    BY <1>0, <1>2 DEF Cancel, Considerate, Attempting
  <2>2. \E rest \in Seq(Command) : ftp' = [ftp EXCEPT !.trash = <<>>, !.data = None,
                               !.queue = <<Cmd("aborted", None, 0)>> \o rest]
    <3> DEFINE q == ftp.queue
               ends == {k \in Ends(q) : ftp.data # None /\ ftp.isConnected
                                         /\ q[k].req = ftp.data.id}
               rest == IF ends = {} THEN q
                       ELSE SubSeq(q, (CHOOSE k \in ends : \A l \in ends : k <= l) + 1, Len(q))
    <3>1. ends \subseteq Nat
      BY <1>0, Elements DEF Ends
    <3>2. rest \in Seq(Command)
      <4> HIDE DEF ends
      <4>1. ends # {} => (CHOOSE k \in ends : \A l \in ends : k <= l) \in Nat
        BY <3>1, LeastOf
      <4> QED BY <1>0, <4>1, RestOf
    <3>3. ftp' = [ftp EXCEPT !.trash = <<>>, !.data = None,
                             !.queue = <<Cmd("aborted", None, 0)>> \o rest]
      BY <1>2, <2>1 DEF Cancel
    <3> HIDE DEF rest
    <3> QED BY <3>2, <3>3
  <2>3. PICK rest \in Seq(Command) : ftp' = [ftp EXCEPT !.trash = <<>>, !.data = None,
                               !.queue = <<Cmd("aborted", None, 0)>> \o rest]
    BY <2>2
  <2> DEFINE q == <<Cmd("aborted", None, 0)>> \o rest
  <2>4. q # <<>> /\ Head(q).cmd = "aborted"
    <3>1. Cmd("aborted", None, 0).cmd = "aborted"
      BY DEF Cmd
    <3> QED BY <3>1, InternalCommands, Before1
  <2> HIDE DEF q
  <2>5. /\ ftp'.sent = ftp.sent /\ ftp'.isConnected /\ ftp'.polls = ftp.polls
        /\ ftp'.queue = q /\ ftp'.isReady = ftp.isReady /\ ftp'.conn = ftp.conn
    BY <1>0, <2>1, <2>3 DEF IsClient, q
  <2>6. replies' = replies /\ srv' = srv
    BY <1>2 DEF Cancel
  <2>7. ASSUME ftp.conn = "open" PROVE Talk'
    <3>1. Talk
      BY <2>7 DEF TalkInv
    <3>2. ftp.queue # <<>> => Head(ftp.queue).begun
      BY <2>1, SteadyHead
    <3>3. (ftp.polls = 1 => ~ ftp'.isReady) /\ (ftp'.isReady => Silent)
      BY <2>1, <2>5, <3>1 DEF Talk
    <3> QED BY <2>4, <2>5, <2>6, <3>1, <3>2, <3>3, Stopped
  <2> QED BY <2>1, <2>5, <2>7 DEF TalkInv
<1>3. CASE Abort
  <2> DEFINE c == Cleanup([ftp EXCEPT !.isReconnecting = FALSE])
             d == [c EXCEPT !.queue = <<Cmd("aborted", None, 0)>>, !.data = None,
                            !.isReady = ftp.data = None]
  <2>1. /\ IsClient(c) /\ c.sent = ftp.sent /\ c.conn = ftp.conn /\ c.polls = ftp.polls
        /\ c.isConnected = ftp.isConnected /\ c.queue = <<>> /\ ~ c.isReady
    BY <1>0 DEF IsClient, Cleanup
  <2>2. /\ ftp' = IF ftp.isConnected THEN d ELSE c
        /\ Steady(Transfers) /\ replies' = replies /\ srv' = srv
    BY <1>3 DEF Abort
  <2> HIDE DEF c
  <2>3. /\ d.sent = ftp.sent /\ d.conn = ftp.conn /\ d.polls = ftp.polls
        /\ d.isConnected = ftp.isConnected /\ d.queue = <<Cmd("aborted", None, 0)>>
        /\ d.isReady = (ftp.data = None)
    BY <2>1 DEF IsClient
  <2>4. d.queue # <<>> /\ Head(d.queue).cmd = "aborted"
    BY <2>3 DEF Cmd
  <2> HIDE DEF d
  <2>5. ftp.queue # <<>> =>
            Head(ftp.queue).cmd \in Transfers /\ Head(ftp.queue).begun /\ ftp.data # None
    BY <2>2, SteadyHead
  <2>6. ftp'.conn = ftp.conn
    BY <2>1, <2>2, <2>3
  <2>7. ftp.conn # "opening"
    BY <2>5 DEF TalkInv, Opening, Transfers
  <2>8. ASSUME ftp.conn = "open" PROVE Talk'
    <3>0. Talk
      BY <2>8 DEF TalkInv
    <3>1. CASE ftp.isConnected
      <4>1. ftp.polls = 1 => ~ d.isReady
        BY <2>3, <2>5, <3>0 DEF Talk
      <4>2. d.isReady => Silent
        BY <2>3, <2>5, <3>0 DEF Talk
      <4>3. ftp' = d
        BY <2>2, <3>1
      <4> QED BY <2>2, <2>3, <2>4, <2>5, <3>0, <3>1, <4>1, <4>2, <4>3, Stopped
    <3>2. CASE ~ ftp.isConnected
      <4>1. ftp.queue = <<>>
        BY <2>5, <3>0, <3>2 DEF Talk, Greets, Transfers
      <4>2. Silent /\ ftp.polls = 0
        BY <3>0, <4>1 DEF Talk
      <4>3. ftp' = c
        BY <2>2, <3>2
      <4>4. Silent'
        BY <2>1, <2>2, <4>2, <4>3 DEF Silent
      <4> QED BY <2>1, <4>2, <4>3, <4>4 DEF Talk, Greets
    <3> QED BY <3>1, <3>2
  <2> QED BY <2>6, <2>7, <2>8 DEF TalkInv
<1>4. CASE Disconnect
  <2>1. \E c : ftp' = Kill(c) /\ IsClient(c)
    <3>1. IsClient([Cleanup(ftp) EXCEPT !.legitClose = TRUE, !.data = None])
      BY <1>0 DEF Cleanup, IsClient
    <3> QED BY <1>4, <3>1 DEF Disconnect
  <2>2. ftp'.conn \in {"none", "closing"}
    BY <2>1 DEF Kill, IsClient
  <2> QED BY <2>2 DEF TalkInv
<1>5. ASSUME NEW r \in Requests, NEW a \in Wishes, Ask(r, a) PROVE TalkInv'
  <2> DEFINE cs == Commands(r, a)
             q == IF a.kind = "remove" THEN cs \o ftp.queue ELSE ftp.queue \o cs
             c == [ftp EXCEPT !.queue = q]
  <2>1. /\ ftp.isConnected /\ ftp.conn # "opening"
        /\ a.kind = "remove" => ftp.queue = <<>>
        /\ ftp' = WriteControl(c) /\ replies' = replies /\ srv' = srv
    BY <1>0, <1>5 DEF Ask, Considerate, Attempting
  <2>2. ftp.queue # <<>> => q # <<>> /\ Head(q) = Head(ftp.queue)
    <3>1. cs \in Seq(Command)
      BY WishTypes
    <3> HIDE DEF cs
    <3> QED BY <1>0, <2>1, <3>1, HeadOfBoth
  <2> HIDE DEF q
  <2>3. /\ IsClient(c) /\ c.sent = ftp.sent /\ c.conn = ftp.conn /\ c.polls = ftp.polls
        /\ c.isConnected = ftp.isConnected /\ c.isReady = ftp.isReady /\ c.queue = q
    BY <1>0 DEF IsClient
  <2> HIDE DEF c
  <2>4. ftp'.conn = ftp.conn /\ ftp'.polls = ftp.polls
    BY <2>1, <2>3, WriteStays
  <2>5. ASSUME ftp.conn = "open" PROVE Talk'
    <3>0. Talk
      BY <2>5 DEF TalkInv
    <3>1. CASE ftp.isReady
      <4>1. Silent /\ ftp.polls = 0
        BY <2>1, <3>0, <3>1 DEF Talk
      <4>2. Same(c, c)
        BY <2>3, <4>1 DEF Same, Silent
      <4>3. After(c, ftp')
        BY <2>1, <2>3, <4>2, WriteAfter
      <4> QED BY <2>1, <2>3, <2>4, <2>5, <4>1, <4>3, Settles DEF Silent
    <3>2. CASE ~ ftp.isReady
      <4>1. ftp' = c
        BY <2>1, <2>3, <3>2 DEF WriteControl
      <4> QED BY <2>1, <2>2, <2>3, <3>0, <4>1, HeadStays
    <3> QED BY <3>1, <3>2
  <2> QED BY <2>1, <2>4, <2>5 DEF TalkInv
<1> QED BY <1>1, <1>2, <1>3, <1>4, <1>5

LEMMA TimerTalk ==
    ASSUME TypeInv, TalkInv, TypeInv',
           KeepAlive \/ CheckTimeout \/ CheckDataTimeout \/ PollAgain \/ Reconnect
    PROVE  TalkInv'
<1>0. /\ Typed(ftp) /\ IsClient(ftp) /\ Attempting /\ ftp.queue \in Seq(Command)
      /\ ftp.conn \in {"none", "opening", "open", "closing"}
  BY DEF TypeInv, Typed
<1>1. CASE KeepAlive
  <2> DEFINE c == [ftp EXCEPT !.queue = <<Cmd("NOOP", None, 0)>>]
  <2>1. /\ ftp.isConnected /\ ftp.conn # "opening" /\ ftp.queue = <<>>
        /\ ftp' = WriteControl(c) /\ replies' = replies /\ srv' = srv
    BY <1>0, <1>1 DEF KeepAlive, Attempting
  <2>2. /\ IsClient(c) /\ c.sent = ftp.sent /\ c.conn = ftp.conn /\ c.polls = ftp.polls
        /\ c.isConnected = ftp.isConnected
    BY <1>0 DEF IsClient
  <2> HIDE DEF c
  <2>3. ftp'.conn = ftp.conn /\ ftp'.polls = ftp.polls
    BY <2>1, <2>2, WriteStays
  <2>4. ASSUME ftp.conn = "open" PROVE Talk'
    <3>1. Silent /\ ftp.polls = 0
      BY <2>1, <2>4 DEF TalkInv, Talk
    <3>2. Same(c, c)
      BY <2>2, <3>1 DEF Same, Silent
    <3>3. After(c, ftp')
      BY <2>1, <2>2, <3>2, WriteAfter
    <3> QED BY <2>1, <2>2, <2>3, <2>4, <3>1, <3>3, Settles DEF Silent
  <2> QED BY <2>1, <2>3, <2>4 DEF TalkInv
<1>2. CASE CheckTimeout \/ CheckDataTimeout
  <2>1. \E c : ftp' = Kill(c) /\ IsClient(c)
    <3>1. IsClient([ftp EXCEPT !.legitClose = FALSE, !.data = None])
      BY <1>0 DEF IsClient
    <3> QED BY <1>2, <3>1 DEF CheckTimeout, CheckDataTimeout, ResetConnection
  <2>2. ftp'.conn \in {"none", "closing"}
    BY <2>1 DEF Kill, IsClient
  <2> QED BY <2>2 DEF TalkInv
<1>3. CASE PollAgain
  <2> DEFINE c == [ftp EXCEPT !.polls = ftp.polls - 1]
  <2>1. /\ ftp.polls > 0 /\ replies' = replies /\ srv' = srv
        /\ ftp' = IF ftp.isConnected THEN ReadControl(c, 2, 0) ELSE c
    BY <1>3 DEF PollAgain
  <2>2. /\ IsClient(c) /\ c.sent = ftp.sent /\ c.conn = ftp.conn
        /\ c.polls = ftp.polls - 1 /\ c.isReady = ftp.isReady
        /\ c.isConnected = ftp.isConnected /\ c.queue = ftp.queue
        /\ c.legitClose = ftp.legitClose
    BY <1>0 DEF IsClient
  <2> HIDE DEF c
  <2>3. ftp'.conn \in {ftp.conn, "closing"}
    <3>1. c.legitClose \in BOOLEAN
      BY <1>0, <2>2 DEF Typed
    <3>2. Kept(c, ReadControl(c, 2, 0))
      BY <2>2, <3>1, ReadControlKeeps
    <3> QED BY <2>1, <2>2, <3>2 DEF Kept
  <2>4. ftp.conn # "opening"
    BY <2>1 DEF TalkInv, Opening
  <2>5. ASSUME ftp.conn = "open", ftp'.conn = "open" PROVE Talk'
    <3>1. Silent /\ ftp.polls = 1 /\ ftp.isConnected /\ ~ ftp.isReady /\ Greets(ftp)
      BY <2>1, <2>5 DEF TalkInv, Talk
    <3>2. c.polls = 0 /\ c.sent = <<>> /\ Greets(c)
      BY <2>2, <3>1 DEF Silent, Greets
    <3>3. After(c, ftp')
      BY <1>0, <2>1, <2>2, <2>5, <3>1, <3>2, ReadAfter
    <3> QED BY <2>1, <2>2, <2>5, <3>1, <3>2, <3>3, Settles DEF Silent
  <2> QED BY <1>0, <2>3, <2>4, <2>5 DEF TalkInv
<1>4. CASE Reconnect
  <2> DEFINE c == [ftp EXCEPT !.retries = ftp.retries - 1]
             d == [c EXCEPT !.reconnectsLeft = c.reconnectsLeft - 1]
  <2>1. ftp.polls = 0 /\ ftp.conn = "none" /\ ~ ftp.isConnected
    BY <1>0, <1>4 DEF Reconnect, Attempting
  <2>2. /\ IsClient(c) /\ c.conn = ftp.conn
        /\ IsClient(d) /\ d.queue = ftp.queue /\ d.polls = ftp.polls
        /\ d.isConnected = ftp.isConnected
    BY <1>0 DEF IsClient
  <2>3. \/ ftp' = Connecting(d) /\ replies' = <<>> /\ srv' = None
        \/ ftp' = c
    BY <1>4 DEF Reconnect
  <2> HIDE DEF c, d
  <2>4. CASE ftp' = c
    BY <2>1, <2>2, <2>4 DEF TalkInv
  <2>5. CASE ftp' = Connecting(d) /\ replies' = <<>> /\ srv' = None
    <3>1. /\ ftp'.conn = "opening" /\ ftp'.sent = <<>> /\ ftp'.polls = 0
          /\ ~ ftp'.isConnected /\ ftp'.queue # <<>> /\ Head(ftp'.queue).cmd = "welcome"
      BY <1>0, <2>1, <2>2, <2>5, ConnectingGreets
    <3> QED BY <2>5, <3>1 DEF TalkInv, Opening
  <2> QED BY <2>3, <2>4, <2>5
<1> QED BY <1>1, <1>2, <1>3, <1>4

\* One reply, or two, of a command are read.
LEMMA ReadTalk ==
    ASSUME TypeInv, TalkInv, TypeInv', OnDataAvailable PROVE TalkInv'
<1> DEFINE c == [ftp EXCEPT !.ctl = None]
<1>0. /\ IsClient(ftp) /\ ftp.queue \in Seq(Command) /\ replies \in Seq(Reply)
      /\ ftp.conn = "open" /\ ftp.legitClose \in BOOLEAN
  BY DEF TypeInv, Typed, OnDataAvailable
<1>1. PICK n \in 1 .. Len(replies) :
        /\ ftp' = ReadControl(c, replies[n].code, replies[n].size)
        /\ replies' = SubSeq(replies, n + 1, Len(replies))
  BY DEF OnDataAvailable
<1>2. srv' = srv
  BY DEF OnDataAvailable
<1>3. /\ IsClient(c) /\ c.sent = ftp.sent /\ c.conn = ftp.conn /\ c.polls = ftp.polls
      /\ c.isReady = ftp.isReady /\ c.isConnected = ftp.isConnected
      /\ c.queue = ftp.queue /\ c.legitClose = ftp.legitClose
  BY <1>0 DEF IsClient
<1> HIDE DEF c
<1>4. Talk /\ replies # <<>> /\ Len(replies) \in Nat \ {0} /\ n \in Nat
  BY <1>0, <1>1, Elements DEF TalkInv
<1>5. ~ Silent
  BY <1>4 DEF Silent
<1>6. /\ ftp.polls = 0 /\ ftp.queue # <<>> /\ Greets(ftp)
      /\ ~ ftp.isConnected \/ ~ ftp.isReady
  BY <1>4, <1>5 DEF Talk
<1>7. PICK x \in Command : Fits(x) /\ UnderWay(x)
  BY <1>4, <1>5 DEF Talk
<1>8. ~ Sent(x) /\ ~ Going(x) /\ ftp.sent = <<>>
  BY <1>4, <1>7 DEF UnderWay, Sent, Answer, BothAnswers, Going, Starting
<1>9. ftp'.conn \in {"open", "closing"}
  <2>1. Kept(c, ftp')
    BY <1>0, <1>1, <1>3, ReadControlKeeps
  <2> QED BY <1>0, <1>3, <2>1 DEF Kept
<1>10. ASSUME ftp'.conn = "open" PROVE Talk'
  <2>1. CASE n = Len(replies) /\ srv.xfer = None
    <3>1. replies' = <<>>
      BY <1>0, <1>1, <1>4, <2>1, SubSeqProperties, EmptySeq
    <3>2. Greets(c)
      BY <1>3, <1>6 DEF Greets
    <3>3. After(c, ftp')
      BY <1>0, <1>1, <1>3, <1>8, <3>2, ReadAfter
    <3> QED BY <1>0, <1>2, <1>3, <1>6, <1>10, <2>1, <3>1, <3>3, Settles
  <2>2. CASE ~ (n = Len(replies) /\ srv.xfer = None)
    <3>1. (BothAnswers(x) \/ Starting(x)) /\ n = 1
      BY <1>4, <1>1, <1>7, <1>8, <2>2 DEF UnderWay, Answer, BothAnswers, Starting
    <3>2. Begins(x) /\ replies[n].code = 1
      BY <3>1 DEF BothAnswers, Starting
    <3>3. ftp' = Begun(c)
      BY <1>1, <1>3, <1>6, <3>2, ReadBegins DEF Begins
    <3> DEFINE y == [x EXCEPT !.begun = TRUE]
               q == <<y>> \o Tail(ftp.queue)
    <3>4. ftp' = [c EXCEPT !.queue = q]
      BY <1>3, <3>2, <3>3 DEF Begun, Begins
    <3>5. y \in Command /\ y.cmd = x.cmd /\ y.req = x.req
      BY <3>2, Marked DEF Begins, Command
    <3> HIDE DEF y
    <3>6. q # <<>> /\ Head(q) = y
      BY <1>0, <1>6, <3>5, FirstOf, Before1
    <3> HIDE DEF q
    <3>7. /\ ftp'.sent = <<>> /\ ftp'.queue = q /\ ftp'.polls = 0
          /\ ftp'.isReady = ftp.isReady /\ ftp'.isConnected = ftp.isConnected
      BY <1>3, <1>6, <1>8, <3>4 DEF IsClient
    <3>8. ftp.isConnected /\ ~ ftp'.isReady /\ Greets(ftp)'
      BY <1>6, <3>2, <3>7 DEF Greets, Begins, Transfers
    <3>9. Fits(x)'
      BY <3>5, <3>6, <3>7 DEF Fits
    <3>10. CASE BothAnswers(x)
      <4>1. /\ Len(replies') = 1 /\ replies'[1] = replies[2]
        <5>1. Len(replies) = 2 /\ n = 1
          BY <3>1, <3>10 DEF BothAnswers
        <5>2. replies' = SubSeq(replies, 2, 2)
          BY <1>1, <5>1
        <5>3. SubSeq(replies, 2, 2) = <<replies[2]>>
          <6>1. replies[2] \in Reply
            <7>1. 2 \in 1 .. Len(replies)
              BY <5>1
            <7> QED BY <1>0, <7>1, Elements
          <6> DEFINE t == SubSeq(replies, 2, 2)
          <6>2. \A i \in 2 .. 2 : replies[i] \in Reply
            BY <6>1
          <6>3. t \in Seq(Reply) /\ Len(t) = 1 /\ t[1] = replies[2]
            BY <6>2, SubSeqProperties
          <6> DEFINE u == <<replies[2]>>
          <6>4. u \in Seq(Reply) /\ Len(u) = 1 /\ u[1] = replies[2]
            BY <6>1
          <6> HIDE DEF t, u
          <6>5. \A i \in 1 .. Len(t) : t[i] = u[i]
            BY <6>3, <6>4
          <6>6. t = u
            BY <6>3, <6>4, <6>5, SeqEqual
          <6> QED BY <6>6 DEF t, u
        <5> QED BY <5>2, <5>3
      <4>2. Answer(x)'
        BY <1>2, <3>7, <3>10, <4>1 DEF BothAnswers, Answer
      <4>3. UnderWay(x)'
        BY <4>2 DEF UnderWay
      <4> QED BY <3>6, <3>7, <3>8, <3>9, <4>3 DEF Talk
    <3>11. CASE Starting(x)
      <4>1. replies' = <<>>
        <5>1. Len(replies) = 1 /\ n = 1
          BY <3>1, <3>11, <1>4 DEF Starting, BothAnswers
        <5> QED BY <1>0, <1>1, <5>1, SubSeqProperties, EmptySeq
      <4>2. Going(x)'
        BY <1>2, <3>7, <3>11, <4>1 DEF Starting, Going, Begins
      <4>3. UnderWay(x)'
        BY <4>2 DEF UnderWay
      <4> QED BY <3>6, <3>7, <3>8, <3>9, <4>3 DEF Talk
    <3> QED BY <3>1, <3>10, <3>11
  <2> QED BY <2>1, <2>2
<1> QED BY <1>9, <1>10 DEF TalkInv

\* What the server answers to a command, and whether a transfer begins.
LEMMA Executed ==
    ASSUME TypeInv, Execute
    PROVE  LET x == Head(ftp.sent)
           IN \E code \in 1 .. 5, size \in Nat :
                /\ Replied(x, code, size)
                /\ \/ code # 1 /\ srv'.xfer = srv.xfer
                   \/ /\ code = 1 /\ x.cmd \in Transfers /\ ~ x.begun
                      /\ srv'.xfer.of = x
<1> DEFINE x == Head(ftp.sent)
           Answers(code, size) ==
                /\ Replied(x, code, size)
                /\ \/ code # 1 /\ srv'.xfer = srv.xfer
                   \/ /\ code = 1 /\ x.cmd \in Transfers /\ ~ x.begun
                      /\ srv'.xfer.of = x
<1>0. /\ x \in Command /\ srv \in Server /\ file \in Files
  BY FirstOf DEF TypeInv, Typed, Execute
<1>1. LogsIn(x) \/ Refuses(x) \/ Sets(x) \/ Changes(x) \/ BeginsTransfer(x)
  BY DEF Execute
<1> HIDE DEF x
<1>2. Refuses(x) => Answers(5, 0)
  BY <1>0 DEF Refuses, Server
<1>3. LogsIn(x) => \E code \in {2, 3, 5} : Answers(code, 0)
  BY <1>0 DEF LogsIn, Server
<1>4. Sets(x) => \E code \in {2, 3, 5} : \E size \in Nat : Answers(code, size)
  <2>1. x.cmd = "SIZE" => file[x.req] \in Seq(0 .. 2)
    BY <1>0, OfCommand DEF Files
  <2>2. x.cmd = "SIZE" => Len(file[x.req]) \in Nat
    BY <2>1, Elements
  <2> QED BY <1>0, <2>2 DEF Sets, Server
<1>5. Changes(x) => \E code \in {2, 5} : Answers(code, 0)
  BY <1>0, <1>2 DEF Changes, Server
<1>6. BeginsTransfer(x) => \E code \in {1, 5} : Answers(code, 0)
  <2>1. CASE BeginsTransfer(x) /\ srv.pasv
    <3> DEFINE t == [of |-> x, pos |-> srv.rest]
    <3>1. /\ Replied(x, 1, 0) /\ x.cmd \in Transfers /\ ~ x.begun
          /\ srv' = [srv EXCEPT !.pasv = FALSE, !.rest = 0, !.xfer = t]
      BY <2>1 DEF BeginsTransfer
    <3>2. t.of = x
      OBVIOUS
    <3> HIDE DEF t
    <3>3. srv'.xfer = t
      BY <1>0, <3>1 DEF Server
    <3> QED BY <3>1, <3>2, <3>3
  <2>2. CASE BeginsTransfer(x) /\ ~ srv.pasv
    BY <1>2, <2>2 DEF BeginsTransfer
  <2> QED BY <2>1, <2>2
<1>7. \E code \in 1 .. 5, size \in Nat : Answers(code, size)
  <2> HIDE DEF Answers
  <2> QED BY <1>1, <1>2, <1>3, <1>4, <1>5, <1>6
<1> QED BY <1>7 DEF x

LEMMA ServerTalk ==
    ASSUME TypeInv, TalkInv, TypeInv',
           \/ Accept \/ StopRequest \/ OnDataAvailable
           \/ Execute \/ DataMoves \/ DataFinishes \/ TransferEnds
    PROVE  TalkInv'
<1>0. /\ Typed(ftp) /\ IsClient(ftp) /\ ftp.queue \in Seq(Command) /\ replies \in Seq(Reply)
  BY DEF TypeInv, Typed
<1>1. CASE Accept
  <2>1. ftp.conn = "opening" /\ ftp' = [ftp EXCEPT !.conn = "open"] /\ Opening
    BY <1>1 DEF Accept, TalkInv
  <2>2. /\ ftp'.conn = "open" /\ ftp'.sent = <<>> /\ ftp'.polls = 0
        /\ ~ ftp'.isConnected /\ ftp'.queue = ftp.queue
    BY <1>0, <2>1 DEF Opening, IsClient
  <2> DEFINE x == Cmd("welcome", None, 0)
  <2>3. x \in Command /\ x.cmd = "welcome" /\ x.req = 0
    BY InternalCommands DEF Cmd
  <2>4. srv'.xfer = None /\ Len(replies') = 1 /\ replies'[1].to = x /\ replies'[1].code # 1
    BY <1>1 DEF Accept
  <2> HIDE DEF x
  <2>5. Head(ftp.queue).req = 0 /\ Head(ftp.queue).cmd = "welcome" /\ ftp.queue # <<>>
    <3>1. Head(ftp.queue) \in Command
      BY <1>0, <2>1, FirstOf DEF Opening
    <3> QED BY <2>1, <3>1, OfCommand DEF Opening
  <2>6. (Fits(x) /\ UnderWay(x) /\ Greets(ftp))'
    BY <2>2, <2>3, <2>4, <2>5 DEF Fits, UnderWay, Answer, Greets
  <2> QED BY <2>2, <2>3, <2>5, <2>6 DEF TalkInv, Talk
<1>2. CASE StopRequest
  <2>1. ftp'.conn = "none"
    BY <1>0, <1>2 DEF StopRequest, OnDisconnect, Cleanup, IsClient
  <2> QED BY <2>1 DEF TalkInv
<1>3. CASE OnDataAvailable
  BY <1>3, ReadTalk
<1>4. CASE Execute
  <2> DEFINE x == Head(ftp.sent)
  <2>1. /\ ftp.conn = "open" /\ Talk /\ ftp.sent # <<>> /\ ~ Silent
        /\ ftp' = [ftp EXCEPT !.sent = Tail(ftp.sent)]
    BY <1>4 DEF Execute, TalkInv, Silent
  <2>2. PICK y \in Command : Fits(y) /\ UnderWay(y)
    BY <2>1 DEF Talk
  <2>3. Sent(y)
    BY <2>1, <2>2 DEF UnderWay, Sent, Answer, BothAnswers, Going, Starting
  <2>4. x = y /\ Tail(ftp.sent) = <<>>
    BY <2>3 DEF Sent
  <2>5. PICK code \in 1 .. 5, size \in Nat :
            /\ Replied(y, code, size)
            /\ \/ code # 1 /\ srv'.xfer = srv.xfer
               \/ code = 1 /\ y.cmd \in Transfers /\ ~ y.begun /\ srv'.xfer.of = y
    BY <1>4, <2>4, Executed
  <2> HIDE DEF x
  <2>6. /\ ftp'.sent = <<>> /\ ftp'.queue = ftp.queue /\ ftp'.polls = ftp.polls
        /\ ftp'.isReady = ftp.isReady /\ ftp'.isConnected = ftp.isConnected
        /\ ftp'.conn = "open"
    BY <1>0, <2>1, <2>4 DEF IsClient
  <2>7. Len(replies') = 1 /\ replies'[1].to = y /\ replies'[1].code = code
    BY <2>3, <2>5 DEF Sent, Replied
  <2>8. Answer(y)' \/ Starting(y)'
    <3>1. CASE code # 1
      BY <2>3, <2>5, <2>6, <2>7, <3>1 DEF Sent, Answer
    <3>2. CASE code = 1
      <4>1. Begins(y)'
        BY <2>3, <2>5, <2>6, <3>2 DEF Sent, Begins
      <4> QED BY <2>5, <2>6, <2>7, <3>2, <4>1 DEF Starting
    <3> QED BY <3>1, <3>2
  <2>9. Fits(y)' /\ Greets(ftp)'
    BY <2>1, <2>2, <2>6 DEF Fits, Talk, Greets
  <2>10. UnderWay(y)'
    BY <2>8 DEF UnderWay
  <2> QED BY <2>1, <2>6, <2>9, <2>10 DEF TalkInv, Talk
<1>5. CASE DataMoves
  <2>1. /\ ftp.conn = "open" /\ replies' = replies /\ srv.xfer # None
        /\ srv' = srv \/ srv' = [srv EXCEPT !.xfer.pos = srv.xfer.pos + 1]
        /\ \E d : ftp' = [ftp EXCEPT !.data = d]
    BY <1>0, <1>5 DEF DataMoves, IsClient
  <2>2. /\ ftp'.sent = ftp.sent /\ ftp'.queue = ftp.queue /\ ftp'.polls = ftp.polls
        /\ ftp'.isReady = ftp.isReady /\ ftp'.isConnected = ftp.isConnected
        /\ ftp'.conn = ftp.conn
    BY <1>0, <2>1 DEF IsClient
  <2>3. srv'.xfer.of = srv.xfer.of
    <3>1. srv \in Server /\ srv.xfer \in Transfer
      BY <2>1 DEF TypeInv, Server
    <3> QED BY <2>1, <3>1 DEF Server, Transfer
  <2>4. Talk'
    BY <2>1, <2>2, <2>3, HeadStays DEF TalkInv
  <2> QED BY <2>1, <2>2, <2>4 DEF TalkInv
<1>6. CASE DataFinishes
  <2>1. /\ ftp.conn = "open" /\ replies' = replies /\ srv' = srv
        /\ \E d : ftp' = [ftp EXCEPT !.data = d]
    BY <1>0, <1>6 DEF DataFinishes, IsClient
  <2>2. /\ ftp'.sent = ftp.sent /\ ftp'.queue = ftp.queue /\ ftp'.polls = ftp.polls
        /\ ftp'.isReady = ftp.isReady /\ ftp'.isConnected = ftp.isConnected
        /\ ftp'.conn = ftp.conn
    BY <1>0, <2>1 DEF IsClient
  <2>3. Talk'
    BY <2>1, <2>2, HeadStays DEF TalkInv
  <2> QED BY <2>1, <2>2, <2>3 DEF TalkInv
<1>7. CASE TransferEnds
  <2> DEFINE z == srv.xfer.of
  <2>1. /\ ftp.conn = "open" /\ ftp' = ftp /\ srv.xfer # None /\ Talk /\ ~ Silent
        /\ srv \in Server /\ srv' = [srv EXCEPT !.xfer = None]
    BY <1>7 DEF TransferEnds, TalkInv, Silent, TypeInv
  <2>2. PICK code \in {2, 4} : Replied(z, code, 0)
    BY <1>7 DEF TransferEnds
  <2>3. PICK y \in Command : Fits(y) /\ UnderWay(y)
    BY <2>1 DEF Talk
  <2>4. Going(y) \/ Starting(y)
    BY <2>1, <2>3 DEF UnderWay, Sent, Answer, BothAnswers
  <2>5. z = y /\ srv'.xfer = None
    BY <2>1, <2>4 DEF Going, Starting, Server
  <2> HIDE DEF z
  <2>6. CASE Going(y)
    <3>1. Len(replies') = 1 /\ replies'[1].to = y /\ replies'[1].code # 1
      BY <2>2, <2>5, <2>6 DEF Going, Replied
    <3>2. (Fits(y) /\ UnderWay(y))'
      BY <2>1, <2>3, <2>5, <2>6, <3>1 DEF Fits, UnderWay, Going, Answer
    <3> QED BY <2>1, <2>3, <3>2 DEF TalkInv, Talk
  <2>7. CASE Starting(y)
    <3> DEFINE e == [to |-> z, code |-> code, size |-> 0]
    <3>1. e.to = y /\ e.code # 1 /\ replies' = Append(replies, e)
      BY <2>2, <2>5 DEF Replied
    <3> HIDE DEF e
    <3>2. Len(replies') = 2 /\ replies'[1] = replies[1] /\ replies'[2] = e
      <4>1. Len(replies) = 1
        BY <2>7 DEF Starting
      <4>2. e \in Reply
        <5>1. e \in [to : Command, code : 1 .. 5, size : Nat]
          BY <2>5 DEF e
        <5> QED BY <5>1 DEF Reply
      <4> DEFINE t == Append(replies, e)
      <4>3. /\ Len(t) = Len(replies) + 1 /\ t[Len(replies) + 1] = e
            /\ \A i \in 1 .. Len(replies) : t[i] = replies[i]
        BY <1>0, <4>2, AppendProperties
      <4> HIDE DEF t
      <4>4. Len(t) = 2 /\ t[1] = replies[1] /\ t[2] = e
        BY <4>1, <4>3
      <4> QED BY <3>1, <4>4 DEF t
    <3>3. (Fits(y) /\ BothAnswers(y))'
      BY <2>1, <2>3, <2>5, <2>7, <3>1, <3>2 DEF Fits, Starting, BothAnswers, Begins
    <3>4. UnderWay(y)'
      BY <3>3 DEF UnderWay
    <3> QED BY <2>1, <2>3, <3>3, <3>4 DEF TalkInv, Talk
  <2> QED BY <2>4, <2>6, <2>7
<1> QED BY <1>1, <1>2, <1>3, <1>4, <1>5, <1>6, <1>7

LEMMA TalkStep ==
    ASSUME TypeInv, TalkInv, TypeInv', Considerate, [Next]_vars PROVE TalkInv'
<1>1. CASE Next
  BY <1>1, UserTalk, TimerTalk, ServerTalk DEF Next
<1>2. CASE UNCHANGED vars
  <2>1. UNCHANGED <<ftp, replies, srv>>
    BY <1>2 DEF vars
  <2> QED BY <2>1 DEF TalkInv, Opening, Talk, Greets, Silent, Fits, UnderWay, Sent,
                      Answer, BothAnswers, Begins, Going, Starting
<1> QED BY <1>1, <1>2

\* The client never takes a reply for the answer to another command: whatever is
\* refused, broken off, lost, resumed or timed out, and however replies are read
\* together.  For users who ask for something and stop something only when
\* there is a connection, stop only transfers of data, and remove when nothing else
\* is queued.
THEOREM MatchingReplies ==
    ASSUME Considerate PROVE Spec => []RepliesFindTheirCommands
<1>1. Init => TypeInv /\ TalkInv
  BY TypeInit, TalkInit
<1>2. (TypeInv /\ TalkInv) /\ [Next]_vars => (TypeInv /\ TalkInv)'
  <2> SUFFICES ASSUME TypeInv, TalkInv, [Next]_vars PROVE TypeInv' /\ TalkInv'
    OBVIOUS
  <2>1. TypeInv'
    BY TypeStep
  <2> QED BY <2>1, TalkStep
<1>3. TypeInv /\ TalkInv => RepliesFindTheirCommands
  BY TalkMatches
<1> QED BY <1>1, <1>2, <1>3, PTL DEF Spec

----------------------------------------------------------------------------
(***************************************************************************)
(* What is reported, for every Env.                                        *)
(***************************************************************************)
\* The commands that carry out what was asked for, and those of them that an
\* end follows.
Carrying == Transfers \cup {"MKD", "DELE", "RNTO"}

Carriers == {"RETR", "STOR", "APPE"}

\* A command for one of the wishes w, that is not reported while it is to be
\* carried out.
Fine(w, report, x) ==
    /\ x.cmd \in Carrying \cup {"RNFR", "transferEnd"} => x.req # 0
    /\ x.req # 0 => w[x.req] # None
    /\ x.cmd \in Carrying \cup {"RNFR"} => report[x.req] = "none"
    /\ x.cmd \in {"RNFR", "RNTO"} => w[x.req].kind = "rename"
    /\ x.cmd \in Carrying \ {"RNTO"} => w[x.req].kind \notin {"rename", "cd"}

\* A transfer of data is followed by its end, which follows nothing else; and a
\* request is carried out once, by the last command for it but for that end.
Line(w, report, q) ==
    /\ \A k \in 1 .. Len(q) : Fine(w, report, q[k])
    /\ \A k \in 1 .. Len(q) : q[k].cmd \in Carriers =>
         k < Len(q) /\ IsEnd(q[k + 1]) /\ q[k + 1].req = q[k].req
    /\ \A k \in 1 .. Len(q) : IsEnd(q[k]) =>
         k > 1 /\ q[k - 1].cmd \in Carriers /\ q[k - 1].req = q[k].req
    /\ \A k \in 1 .. Len(q) : q[k].cmd \in Carrying => \A l \in 1 .. Len(q) :
         l > k /\ q[l].cmd \in Carrying \cup {"RNFR"} => q[l].req # q[k].req

\* What is sent again only leads to the command that carries a request out.
Leading(w, report) ==
    {x \in Command : Fine(w, report, x) /\ x.cmd \in {"CWD", "TYPE", "PASV", "RNFR"}}

Truthful(w, report) ==
    \A r \in Requests : /\ report[r] # "none" => w[r] # None
                        /\ report[r] = "failed" => w[r].kind # "cd"

Orderly(w, c) ==
    /\ Line(w, c.report, c.queue)
    /\ c.trash \in Seq(Leading(w, c.report))
    /\ Truthful(w, c.report)

\* What was reported stays.
Stays(c, d) ==
    \A r \in Requests : c.report[r] # "none" => d.report[r] = c.report[r]

\* t is what comes in q after its first n elements.
Cut(t, q, n) == Len(t) = Len(q) - n /\ \A k \in 1 .. Len(q) - n : t[k] = q[k + n]

LEMMA SubSeqCuts ==
    ASSUME NEW q \in Seq(Command), NEW n \in 0 .. Len(q)
    PROVE  Cut(SubSeq(q, n + 1, Len(q)), q, n)
<1>1. Len(q) \in Nat /\ n \in Nat /\ n <= Len(q)
  BY Elements
<1> QED BY <1>1, SubSeqProperties DEF Cut

LEMMA TailCuts ==
    ASSUME NEW q \in Seq(Command), q # <<>>
    PROVE  Cut(Tail(q), q, 1)
<1>1. Len(q) \in Nat \ {0}
  BY Elements
<1> QED BY <1>1, HeadTailProperties DEF Cut

LEMMA CutLine ==
    ASSUME NEW w, NEW report, NEW q \in Seq(Command), Line(w, report, q),
           NEW n \in 0 .. Len(q), n = 0 \/ q[n].cmd \notin Carriers,
           NEW t, Cut(t, q, n)
    PROVE  /\ Line(w, report, t)
           /\ \A k \in 1 .. n : q[k].cmd \in Carrying => \A l \in 1 .. Len(t) :
                t[l].cmd \in Carrying \cup {"RNFR"} => t[l].req # q[k].req
<1> DEFINE m == Len(q)
<1>1. m \in Nat /\ n \in Nat /\ n <= m
  BY Elements
<1>2. Len(t) = m - n /\ \A k \in 1 .. m - n : t[k] = q[k + n]
  BY DEF Cut
<1> HIDE DEF m
<1>3. \A k \in 1 .. Len(t) : k + n \in 1 .. m /\ t[k] = q[k + n] /\ Len(t) = m - n
  BY <1>1, <1>2
<1>4. \A k \in 1 .. Len(t) : Fine(w, report, t[k])
  BY <1>3 DEF Line, m
<1>5. \A k \in 1 .. Len(t) : t[k].cmd \in Carriers =>
        k < Len(t) /\ IsEnd(t[k + 1]) /\ t[k + 1].req = t[k].req
  <2> SUFFICES ASSUME NEW k \in 1 .. Len(t), t[k].cmd \in Carriers
               PROVE  k < Len(t) /\ IsEnd(t[k + 1]) /\ t[k + 1].req = t[k].req
    OBVIOUS
  <2>1. k + n < m /\ IsEnd(q[k + n + 1]) /\ q[k + n + 1].req = q[k + n].req
    BY <1>3 DEF Line, m
  <2>4. k \in Nat /\ Len(t) = m - n /\ k \in 1 .. m - n
    BY <1>2
  <2>2. k + 1 \in 1 .. Len(t) /\ (k + 1) + n = k + n + 1
    BY <1>1, <2>1, <2>4
  <2>3. t[k + 1] = q[k + n + 1] /\ t[k] = q[k + n]
    BY <1>3, <2>2
  <2> QED BY <2>1, <2>2, <2>3
<1>6. \A k \in 1 .. Len(t) : IsEnd(t[k]) =>
        k > 1 /\ t[k - 1].cmd \in Carriers /\ t[k - 1].req = t[k].req
  <2> SUFFICES ASSUME NEW k \in 1 .. Len(t), IsEnd(t[k])
               PROVE  k > 1 /\ t[k - 1].cmd \in Carriers /\ t[k - 1].req = t[k].req
    OBVIOUS
  <2>1. q[k + n - 1].cmd \in Carriers /\ q[k + n - 1].req = q[k + n].req
    BY <1>3 DEF Line, m
  <2>2. k # 1
    <3> SUFFICES ASSUME k = 1 PROVE FALSE
      OBVIOUS
    <3>1. k + n - 1 = n /\ k + n > 1
      <4>1. k + n \in 1 .. m /\ IsEnd(q[k + n])
        BY <1>3
      <4>2. k + n > 1
        BY <4>1 DEF Line, m
      <4> QED BY <1>1, <4>2
    <3> QED BY <1>1, <2>1, <3>1
  <2>3. k - 1 \in 1 .. Len(t) /\ (k - 1) + n = k + n - 1
    BY <1>1, <1>2, <2>2
  <2>4. t[k - 1] = q[k + n - 1] /\ t[k] = q[k + n]
    BY <1>3, <2>3
  <2> QED BY <2>1, <2>3, <2>4
<1>7. \A k \in 1 .. Len(t) : t[k].cmd \in Carrying => \A l \in 1 .. Len(t) :
        l > k /\ t[l].cmd \in Carrying \cup {"RNFR"} => t[l].req # t[k].req
  <2> SUFFICES ASSUME NEW k \in 1 .. Len(t), t[k].cmd \in Carrying, NEW l \in 1 .. Len(t),
                      l > k, t[l].cmd \in Carrying \cup {"RNFR"}
               PROVE  t[l].req # t[k].req
    OBVIOUS
  <2>1. k + n \in 1 .. m /\ l + n \in 1 .. m /\ l + n > k + n
    BY <1>1, <1>3
  <2>2. t[k] = q[k + n] /\ t[l] = q[l + n]
    BY <1>3
  <2>3. \A i, j \in 1 .. m : q[i].cmd \in Carrying /\ j > i
          /\ q[j].cmd \in Carrying \cup {"RNFR"} => q[j].req # q[i].req
    BY DEF Line, m
  <2> QED BY <2>1, <2>2, <2>3
<1>8. \A k \in 1 .. n : q[k].cmd \in Carrying => \A l \in 1 .. Len(t) :
        t[l].cmd \in Carrying \cup {"RNFR"} => t[l].req # q[k].req
  <2> SUFFICES ASSUME NEW k \in 1 .. n, q[k].cmd \in Carrying, NEW l \in 1 .. Len(t),
                      t[l].cmd \in Carrying \cup {"RNFR"}
               PROVE  t[l].req # q[k].req
    OBVIOUS
  <2>1. k \in 1 .. m /\ l + n \in 1 .. m /\ l + n > k /\ t[l] = q[l + n]
    BY <1>1, <1>3
  <2> QED BY <2>1 DEF Line, m
<1> QED BY <1>4, <1>5, <1>6, <1>7, <1>8 DEF Line

LEMMA JoinLine ==
    ASSUME NEW w, NEW report, NEW p \in Seq(Command), NEW q \in Seq(Command),
           Line(w, report, p), Line(w, report, q),
           \A k \in 1 .. Len(p) : p[k].cmd \in Carrying => \A l \in 1 .. Len(q) :
             q[l].cmd \in Carrying \cup {"RNFR"} => q[l].req # p[k].req
    PROVE  Line(w, report, p \o q)
<1> DEFINE m == Len(p)
           n == Len(q)
           t == p \o q
<1>1. m \in Nat /\ n \in Nat
  BY Elements
<1>2. /\ Len(t) = m + n
      /\ \A k \in 1 .. m + n : t[k] = IF k <= m THEN p[k] ELSE q[k - m]
  BY <1>1
<1> HIDE DEF m, n, t
<1>3. \A k \in 1 .. Len(t) : \/ k \in 1 .. m /\ t[k] = p[k]
                             \/ k > m /\ k - m \in 1 .. n /\ t[k] = q[k - m]
  BY <1>1, <1>2
<1>4. \A k \in 1 .. Len(t) : Fine(w, report, t[k])
  BY <1>3 DEF Line, m, n
<1>5. \A k \in 1 .. Len(t) : t[k].cmd \in Carriers =>
        k < Len(t) /\ IsEnd(t[k + 1]) /\ t[k + 1].req = t[k].req
  <2> SUFFICES ASSUME NEW k \in 1 .. Len(t), t[k].cmd \in Carriers
               PROVE  k < Len(t) /\ IsEnd(t[k + 1]) /\ t[k + 1].req = t[k].req
    OBVIOUS
  <2>1. CASE k \in 1 .. m /\ t[k] = p[k]
    <3>1. k < m /\ IsEnd(p[k + 1]) /\ p[k + 1].req = p[k].req
      BY <2>1 DEF Line, m
    <3>2. k + 1 \in 1 .. Len(t) /\ k + 1 <= m
      BY <1>1, <1>2, <3>1
    <3>3. t[k + 1] = p[k + 1]
      BY <1>2, <3>2
    <3> QED BY <1>1, <1>2, <2>1, <3>1, <3>3
  <2>2. CASE k > m /\ k - m \in 1 .. n /\ t[k] = q[k - m]
    <3> DEFINE j == k - m
    <3>1. j < n /\ IsEnd(q[j + 1]) /\ q[j + 1].req = q[j].req
      BY <2>2 DEF Line, n
    <3>2. k + 1 \in 1 .. Len(t) /\ ~ (k + 1 <= m) /\ (k + 1) - m = j + 1
      BY <1>1, <1>2, <2>2, <3>1
    <3>3. t[k + 1] = q[j + 1]
      BY <1>2, <3>2
    <3> QED BY <1>1, <1>2, <2>2, <3>1, <3>2, <3>3
  <2> QED BY <1>3, <2>1, <2>2
<1>6. \A k \in 1 .. Len(t) : IsEnd(t[k]) =>
        k > 1 /\ t[k - 1].cmd \in Carriers /\ t[k - 1].req = t[k].req
  <2> SUFFICES ASSUME NEW k \in 1 .. Len(t), IsEnd(t[k])
               PROVE  k > 1 /\ t[k - 1].cmd \in Carriers /\ t[k - 1].req = t[k].req
    OBVIOUS
  <2>1. CASE k \in 1 .. m /\ t[k] = p[k]
    <3>1. k > 1 /\ p[k - 1].cmd \in Carriers /\ p[k - 1].req = p[k].req
      BY <2>1 DEF Line, m
    <3>2. k - 1 \in 1 .. Len(t) /\ k - 1 <= m
      BY <1>1, <1>2, <2>1, <3>1
    <3>3. t[k - 1] = p[k - 1]
      BY <1>2, <3>2
    <3> QED BY <2>1, <3>1, <3>3
  <2>2. CASE k > m /\ k - m \in 1 .. n /\ t[k] = q[k - m]
    <3> DEFINE j == k - m
    <3>1. j > 1 /\ q[j - 1].cmd \in Carriers /\ q[j - 1].req = q[j].req
      BY <2>2 DEF Line, n
    <3>2. k - 1 \in 1 .. Len(t) /\ ~ (k - 1 <= m) /\ (k - 1) - m = j - 1
      BY <1>1, <1>2, <2>2, <3>1
    <3>3. t[k - 1] = q[j - 1]
      BY <1>2, <3>2
    <3> QED BY <1>1, <2>2, <3>1, <3>2, <3>3
  <2> QED BY <1>3, <2>1, <2>2
<1>7. \A k \in 1 .. Len(t) : t[k].cmd \in Carrying => \A l \in 1 .. Len(t) :
        l > k /\ t[l].cmd \in Carrying \cup {"RNFR"} => t[l].req # t[k].req
  <2> SUFFICES ASSUME NEW k \in 1 .. Len(t), t[k].cmd \in Carrying, NEW l \in 1 .. Len(t),
                      l > k, t[l].cmd \in Carrying \cup {"RNFR"}
               PROVE  t[l].req # t[k].req
    OBVIOUS
  <2>1. CASE l <= m
    <3>1. k \in 1 .. m /\ t[k] = p[k] /\ l \in 1 .. m /\ t[l] = p[l]
      BY <1>1, <1>2, <2>1
    <3> QED BY <3>1 DEF Line, m
  <2>2. CASE l > m /\ k <= m
    <3>1. k \in 1 .. m /\ t[k] = p[k] /\ l - m \in 1 .. n /\ t[l] = q[l - m]
      BY <1>1, <1>2, <2>2
    <3> QED BY <3>1 DEF m, n
  <2>3. CASE k > m
    <3>1. k - m \in 1 .. n /\ t[k] = q[k - m] /\ l - m \in 1 .. n /\ t[l] = q[l - m]
          /\ l - m > k - m
      BY <1>1, <1>2, <2>3
    <3> QED BY <3>1 DEF Line, n
  <2> QED BY <1>1, <2>1, <2>2, <2>3
<1> QED BY <1>4, <1>5, <1>6, <1>7 DEF Line, t

\* Commands that carry nothing out.
Light(w, report) ==
    {x \in Command : Fine(w, report, x) /\ x.cmd \notin Carrying \cup {"transferEnd"}}

LEMMA FrontLine ==
    ASSUME NEW w, NEW report, NEW p \in Seq(Light(w, report)), NEW q \in Seq(Command),
           Line(w, report, q)
    PROVE  p \in Seq(Command) /\ Line(w, report, p \o q)
<1>1. Carriers \subseteq Carrying
  BY DEF Carriers, Carrying, Transfers
<1>2. \A k \in 1 .. Len(p) : p[k] \in Light(w, report)
  BY Elements
<1>3. Line(w, report, p)
  BY <1>1, <1>2 DEF Light, Line, IsEnd
<1>4. \A k \in 1 .. Len(p) : p[k].cmd \notin Carrying
  BY <1>2 DEF Light
<1>5. p \in Seq(Command)
  BY DEF Light
<1> QED BY <1>3, <1>4, <1>5, JoinLine

LEMMA SameLine ==
    ASSUME NEW w, NEW report, NEW q, NEW t, Line(w, report, q), Len(t) = Len(q),
           \A k \in 1 .. Len(q) :
             /\ t[k].req = q[k].req
             /\ t[k].cmd = q[k].cmd \/ {t[k].cmd, q[k].cmd} \subseteq {"STOR", "APPE"},
           Len(q) \in Nat
    PROVE  Line(w, report, t)
<1>1. \A k \in 1 .. Len(q) :
        /\ t[k].req = q[k].req
        /\ t[k].cmd \in Carrying <=> q[k].cmd \in Carrying
        /\ t[k].cmd \in Carriers <=> q[k].cmd \in Carriers
        /\ IsEnd(t[k]) <=> IsEnd(q[k])
        /\ t[k].cmd = "RNFR" <=> q[k].cmd = "RNFR"
        /\ t[k].cmd = "RNTO" <=> q[k].cmd = "RNTO"
  BY DEF Carrying, Carriers, Transfers, IsEnd
<1>2. \A k \in 1 .. Len(t) : Fine(w, report, t[k])
  BY <1>1 DEF Line, Fine, IsEnd
<1>3. \A k \in 1 .. Len(t) : k < Len(t) => k + 1 \in 1 .. Len(q)
  OBVIOUS
<1>4. \A k \in 1 .. Len(t) : k > 1 => k - 1 \in 1 .. Len(q)
  OBVIOUS
<1>5. \A k \in 1 .. Len(t) : t[k].cmd \in Carriers =>
        k < Len(t) /\ IsEnd(t[k + 1]) /\ t[k + 1].req = t[k].req
  BY <1>1, <1>3 DEF Line
<1>6. \A k \in 1 .. Len(t) : IsEnd(t[k]) =>
        k > 1 /\ t[k - 1].cmd \in Carriers /\ t[k - 1].req = t[k].req
  BY <1>1, <1>4 DEF Line
<1>7. \A k \in 1 .. Len(t) : t[k].cmd \in Carrying => \A l \in 1 .. Len(t) :
        l > k /\ t[l].cmd \in Carrying \cup {"RNFR"} => t[l].req # t[k].req
  BY <1>1 DEF Line
<1> QED BY <1>2, <1>5, <1>6, <1>7 DEF Line

LEMMA EmptyLine ==
    ASSUME NEW w, NEW report PROVE Line(w, report, <<>>)
  BY DEF Line

\* The head of the queue is changed, but neither its kind nor its request.
LEMMA HeadLine ==
    ASSUME NEW w, NEW report, NEW q \in Seq(Command), q # <<>>, Line(w, report, q),
           NEW y \in Command, y.cmd = Head(q).cmd, y.req = Head(q).req
    PROVE  Line(w, report, <<y>> \o Tail(q))
<1> DEFINE t == <<y>> \o Tail(q)
           m == Len(q)
           u == Tail(q)
<1>1. m \in Nat \ {0} /\ q[1] = Head(q) /\ u \in Seq(Command) /\ Len(u) = m - 1
      /\ \A k \in 1 .. m - 1 : u[k] = q[k + 1]
  BY Elements, HeadTailProperties
<1> HIDE DEF u
<1>2. Len(t) = 1 + Len(u) /\ t[1] = y /\ \A k \in 2 .. 1 + Len(u) : t[k] = u[k - 1]
  BY <1>1
<1> HIDE DEF t, m
<1>3. Len(t) = m /\ \A k \in 1 .. m : k = 1 \/ t[k] = q[k]
  <2>1. Len(t) = m
    BY <1>1, <1>2
  <2>2. ASSUME NEW k \in 2 .. m PROVE t[k] = q[k]
    <3>1. k - 1 \in 1 .. m - 1 /\ (k - 1) + 1 = k /\ k \in 2 .. 1 + Len(u)
      BY <1>1
    <3> QED BY <1>1, <1>2, <3>1
  <2>3. \A k \in 1 .. m : k = 1 \/ k \in 2 .. m
    BY <1>1
  <2> QED BY <2>1, <2>2, <2>3
<1>4. \A k \in 1 .. m : t[k].req = q[k].req /\ t[k].cmd = q[k].cmd
  BY <1>1, <1>2, <1>3
<1> QED BY <1>1, <1>3, <1>4, SameLine DEF t, m, u

\* A request is reported that no command carries out any more.
LEMMA ReportLine ==
    ASSUME NEW w, NEW report, NEW q, Line(w, report, q), NEW r, NEW v,
           \A k \in 1 .. Len(q) : q[k].cmd \in Carrying \cup {"RNFR"} => q[k].req # r
    PROVE  Line(w, [report EXCEPT ![r] = v], q)
<1>1. \A k \in 1 .. Len(q) : Fine(w, [report EXCEPT ![r] = v], q[k])
  <2> SUFFICES ASSUME NEW k \in 1 .. Len(q) PROVE Fine(w, [report EXCEPT ![r] = v], q[k])
    OBVIOUS
  <2>1. Fine(w, report, q[k])
    BY DEF Line
  <2> QED BY <2>1 DEF Fine
<1> QED BY <1>1 DEF Line

LEMMA ReportLeading ==
    ASSUME NEW w, NEW report, NEW t \in Seq(Leading(w, report)), NEW r, NEW v,
           \A k \in 1 .. Len(t) : t[k].cmd = "RNFR" => t[k].req # r
    PROVE  t \in Seq(Leading(w, [report EXCEPT ![r] = v]))
<1> DEFINE S == Leading(w, [report EXCEPT ![r] = v])
<1>1. \A k \in 1 .. Len(t) : t[k] \in S
  <2> SUFFICES ASSUME NEW k \in 1 .. Len(t) PROVE t[k] \in S
    OBVIOUS
  <2>1. t[k] \in Leading(w, report)
    BY Elements
  <2>2. t[k] \in Command /\ Fine(w, report, t[k]) /\ t[k].cmd \in {"CWD", "TYPE", "PASV", "RNFR"}
    BY <2>1 DEF Leading
  <2>3. Fine(w, [report EXCEPT ![r] = v], t[k])
    BY <2>2 DEF Fine, Carrying, Transfers
  <2> QED BY <2>2, <2>3 DEF Leading
<1> HIDE DEF S
<1> DEFINE n == Len(t)
<1>2. n \in Nat /\ t = [k \in 1 .. n |-> t[k]]
  BY Elements
<1> HIDE DEF n
<1>3. \A k \in 1 .. n : t[k] \in S
  BY <1>1 DEF n
<1>4. [k \in 1 .. n |-> t[k]] \in Seq(S)
  BY <1>2, <1>3
<1> QED BY <1>2, <1>4 DEF S

LEMMA LeadingIsLight ==
    ASSUME NEW w, NEW report PROVE Leading(w, report) \subseteq Light(w, report)
  BY DEF Leading, Light, Carrying, Transfers

\* A call that leaves the queue, the trash and the reports.
LEMMA SameOrder ==
    ASSUME NEW w, NEW c, NEW d, Orderly(w, c), d.queue = c.queue, d.trash = c.trash,
           d.report = c.report
    PROVE  Orderly(w, d)
  BY DEF Orderly

LEMMA SkipOrder ==
    ASSUME NEW w, NEW c, Typed(c), Orderly(w, c)
    PROVE  Orderly(w, SkipNeedless(c)) /\ SkipNeedless(c).report = c.report
<1> DEFINE q == c.queue
           needed == {k \in 1 .. Len(q) : ~ Needless(c, q[k])}
           n == IF needed = {} THEN Len(q)
                ELSE (CHOOSE k \in needed : \A l \in needed : k <= l) - 1
           t == SubSeq(q, n + 1, Len(q))
           u == c.trash \o Skipped(SubSeq(q, 1, n))
           L == Leading(w, c.report)
<1>1. q \in Seq(Command) /\ Len(q) \in Nat /\ Line(w, c.report, q) /\ c.trash \in Seq(L)
  BY Elements DEF Typed, Orderly
<1>2. n \in 0 .. Len(q) /\ \A k \in 1 .. n : Needless(c, q[k])
  <2>1. CASE needed = {}
    BY <1>1, <2>1
  <2>2. CASE needed # {}
    <3> DEFINE l == CHOOSE k \in needed : \A m \in needed : k <= m
    <3>1. needed \subseteq Nat
      BY <1>1
    <3>2. l \in needed /\ \A m \in needed : l <= m
      <4> HIDE DEF needed
      <4> QED BY <2>2, <3>1, LeastOf
    <3>3. l \in 1 .. Len(q)
      BY <3>2
    <3>4. n = l - 1
      BY <2>2
    <3> HIDE DEF l, n
    <3>5. \A k \in 1 .. n : k \in 1 .. Len(q) /\ k \notin needed
      BY <1>1, <3>2, <3>3, <3>4
    <3> QED BY <1>1, <3>3, <3>4, <3>5
  <2> QED BY <2>1, <2>2
<1>3. SkipNeedless(c) = [c EXCEPT !.queue = t, !.trash = u]
  BY DEF SkipNeedless
<1> HIDE DEF n
<1>4. \A k \in 1 .. n : k \in 1 .. Len(q) /\ q[k].cmd \in {"aborted", "TYPE", "CWD"}
  <2>1. \A k \in 1 .. n : k \in 1 .. Len(q)
                          /\ q[k].cmd \in {"aborted", "transferEnd", "TYPE", "CWD"}
    BY <1>1, <1>2 DEF Needless
  <2>2. \A k \in 1 .. n : IsEnd(q[k]) => k - 1 \in 1 .. n /\ q[k - 1].cmd \in Carriers
    BY <1>1, <1>2, <2>1 DEF Line
  <2>3. \A k \in 1 .. n : ~ IsEnd(q[k])
    BY <2>1, <2>2 DEF Carriers
  <2> QED BY <2>1, <2>3 DEF IsEnd
<1>5. n = 0 \/ q[n].cmd \notin Carriers
  <2>1. n = 0 \/ n \in 1 .. n
    BY <1>2
  <2> QED BY <1>4, <2>1 DEF Carriers
<1>6. Line(w, c.report, t)
  <2>1. Cut(t, q, n)
    BY <1>1, <1>2, SubSeqCuts
  <2> HIDE DEF t, q
  <2> QED BY <1>1, <1>2, <1>5, <2>1, CutLine
<1>7. u \in Seq(L)
  <2> DEFINE p == SubSeq(q, 1, n)
             ss == [k \in 1 .. Len(p) |->
                      IF p[k].cmd \in {"aborted", "transferEnd"} THEN <<>> ELSE <<p[k]>>]
  <2>1. Len(p) = n /\ n \in Nat /\ \A k \in 1 .. n : p[k] = q[k]
    BY <1>1, <1>2, SubSeqProperties
  <2>2. \A k \in 1 .. n : ss[k] \in Seq(L)
    <3> SUFFICES ASSUME NEW k \in 1 .. n PROVE ss[k] \in Seq(L)
      OBVIOUS
    <3>1. p[k] = q[k] /\ q[k] \in Command /\ Fine(w, c.report, q[k])
          /\ q[k].cmd \in {"aborted", "TYPE", "CWD"}
      BY <1>1, <1>4, <2>1, Elements DEF Line
    <3>2. q[k].cmd # "aborted" => q[k] \in L
      BY <3>1 DEF Leading
    <3>3. ss[k] = IF q[k].cmd \in {"aborted", "transferEnd"} THEN <<>> ELSE <<q[k]>>
      BY <2>1, <3>1
    <3> HIDE DEF L, ss
    <3> QED BY <3>2, <3>3
  <2>3. ss \in Seq(Seq(L))
    <3> HIDE DEF L
    <3>1. Len(p) = n /\ n \in Nat
      BY <2>1
    <3> HIDE DEF p
    <3> QED BY <2>2, <3>1
  <2>4. Skipped(p) \in Seq(L)
    <3> HIDE DEF L
    <3> QED BY <2>3, Flattened DEF Skipped
  <2> HIDE DEF p, L
  <2>5. c.trash \o Skipped(p) \in Seq(L)
    BY <1>1, <2>4, ConcatProperties
  <2> QED BY <2>5 DEF p
<1> HIDE DEF q, t, u
<1>8. SkipNeedless(c).queue = t /\ SkipNeedless(c).trash = u
      /\ SkipNeedless(c).report = c.report
  BY <1>3 DEF Typed, IsClient
<1> QED BY <1>6, <1>7, <1>8 DEF Orderly

LEMMA WriteOrder ==
    ASSUME NEW w, NEW c, Typed(c), Orderly(w, c)
    PROVE  Orderly(w, WriteControl(c)) /\ WriteControl(c).report = c.report
<1>1. Orderly(w, SkipNeedless(c)) /\ SkipNeedless(c).report = c.report
      /\ Typed(SkipNeedless(c))
  BY SkipOrder, SkipTypes
<1>2. ASSUME NEW d, Typed(d)
      PROVE  Written(d).queue = d.queue /\ Written(d).trash = d.trash
             /\ Written(d).report = d.report
  BY <1>2 DEF Written, Typed, IsClient
<1>3. /\ Orderly(w, Written(SkipNeedless(c)))
      /\ Written(SkipNeedless(c)).report = c.report
  BY <1>1, <1>2, SameOrder
<1> QED BY <1>1, <1>3 DEF WriteControl

LEMMA NextOrder ==
    ASSUME NEW w, NEW c, Typed(c), Orderly(w, c)
    PROVE  Orderly(w, NextCommand(c)) /\ NextCommand(c).report = c.report
<1> DEFINE d == [c EXCEPT !.isReady = TRUE]
<1>1. Typed(d) /\ d.queue = c.queue /\ d.trash = c.trash /\ d.report = c.report
  BY DEF Typed, IsClient
<1>2. Orderly(w, d)
  BY <1>1, SameOrder
<1>3. Orderly(w, WriteControl(d)) /\ WriteControl(d).report = c.report
  <2> HIDE DEF d
  <2> QED BY <1>1, <1>2, WriteOrder
<1> QED BY <1>1, <1>2, <1>3 DEF NextCommand

LEMMA QueueOrder ==
    ASSUME NEW w, NEW c, NEW d, Orderly(w, c), Line(w, c.report, d.queue),
           d.trash \in {c.trash, <<>>}, d.report = c.report
    PROVE  Orderly(w, d)
<1>1. <<>> \in Seq(Leading(w, c.report))
  OBVIOUS
<1> QED BY <1>1 DEF Orderly

LEMMA FrontOne ==
    ASSUME NEW w, NEW report, NEW q \in Seq(Command), Line(w, report, q),
           NEW x \in Light(w, report)
    PROVE  Line(w, report, <<x>> \o q)
<1>1. <<x>> \in Seq(Light(w, report))
  OBVIOUS
<1> QED BY <1>1, FrontLine

\* What the client itself asks for.
LEMMA InternalLight ==
    ASSUME NEW w, NEW report
    PROVE  /\ Cmd("welcome", None, 0) \in Light(w, report)
           /\ Cmd("USER", None, 0) \in Light(w, report)
           /\ Cmd("PASS", None, 0) \in Light(w, report)
           /\ Cmd("FEAT", None, 0) \in Light(w, report)
           /\ Cmd("PWD", None, 0) \in Light(w, report)
           /\ Cmd("NOOP", None, 0) \in Light(w, report)
           /\ Cmd("aborted", None, 0) \in Light(w, report)
           /\ \A dir \in Dirs : Cmd("CWD", dir, 0) \in Light(w, report)
<1> DEFINE Own == {"welcome", "USER", "PASS", "FEAT", "PWD", "NOOP", "aborted", "CWD"}
<1>1. ASSUME NEW cmd \in Own, NEW arg, Cmd(cmd, arg, 0) \in Command
      PROVE  Cmd(cmd, arg, 0) \in Light(w, report)
  <2>1. Cmd(cmd, arg, 0).cmd = cmd /\ Cmd(cmd, arg, 0).req = 0
    BY DEF Cmd
  <2>2. cmd \notin Carrying \cup {"RNFR", "RNTO", "transferEnd"}
    BY DEF Carrying, Transfers
  <2>3. Fine(w, report, Cmd(cmd, arg, 0))
    BY <2>1, <2>2 DEF Fine
  <2> QED BY <1>1, <2>1, <2>2, <2>3 DEF Light
<1>2. \A dir \in Dirs : Cmd("CWD", dir, 0) \in Command
  BY CommandTypes DEF CmdNames
<1> QED BY <1>1, <1>2, InternalCommands

LEMMA CleanupOrder ==
    ASSUME NEW w, NEW c, Typed(c), Orderly(w, c)
    PROVE  Orderly(w, Cleanup(c)) /\ Cleanup(c).report = c.report
           /\ Cleanup(c).queue = <<>> /\ Cleanup(c).trash = <<>>
<1>1. Cleanup(c).queue = <<>> /\ Cleanup(c).trash = <<>> /\ Cleanup(c).report = c.report
  BY DEF Cleanup, Typed, IsClient
<1> QED BY <1>1, EmptyLine, QueueOrder

LEMMA KillOrder ==
    ASSUME NEW w, NEW c, Typed(c), Orderly(w, c)
    PROVE  Orderly(w, Kill(c)) /\ Kill(c).report = c.report
<1>1. Kill(c).queue = c.queue /\ Kill(c).trash = c.trash /\ Kill(c).report = c.report
  BY DEF Kill, Typed, IsClient
<1> QED BY <1>1, SameOrder

LEMMA ConnectingOrder ==
    ASSUME NEW w, NEW c, Typed(c), Orderly(w, c)
    PROVE  Orderly(w, Connecting(c)) /\ Connecting(c).report = c.report
<1> DEFINE q == IF c.queue # <<>> /\ Head(c.queue).cmd = "welcome" THEN c.queue
                ELSE <<Cmd("welcome", None, 0)>> \o c.queue
<1>1. Line(w, c.report, q)
  <2>1. c.queue \in Seq(Command) /\ Line(w, c.report, c.queue)
    BY DEF Typed, Orderly
  <2>2. Line(w, c.report, <<Cmd("welcome", None, 0)>> \o c.queue)
    BY <2>1, FrontOne, InternalLight
  <2> QED BY <2>1, <2>2
<1>2. Connecting(c) = [c EXCEPT !.conn = "opening", !.sent = <<>>, !.ctl = None,
                                !.dat = None, !.queue = q]
  BY DEF Connecting
<1> HIDE DEF q
<1>3. Connecting(c).queue = q /\ Connecting(c).trash = c.trash
      /\ Connecting(c).report = c.report
  BY <1>2 DEF Typed, IsClient
<1> QED BY <1>1, <1>3, QueueOrder

\* The first command is gone, if it was not one that an end follows.
LEMMA TailOrder ==
    ASSUME NEW w, NEW report, NEW q \in Seq(Command), q # <<>>, Line(w, report, q),
           Head(q).cmd \notin Carriers
    PROVE  /\ Line(w, report, Tail(q)) /\ Fine(w, report, Head(q)) /\ ~ IsEnd(Head(q))
           /\ Head(q).cmd \in Carrying => \A l \in 1 .. Len(Tail(q)) :
                Tail(q)[l].cmd \in Carrying \cup {"RNFR"} => Tail(q)[l].req # Head(q).req
<1>1. Len(q) \in Nat \ {0} /\ Head(q) = q[1] /\ Cut(Tail(q), q, 1)
  BY FirstOf, TailCuts
<1>2. 1 \in 0 .. Len(q) /\ 1 \in 1 .. Len(q) /\ 1 \in 1 .. 1 /\ ~ (1 > 1)
  BY <1>1
<1>3. Fine(w, report, q[1]) /\ ~ IsEnd(q[1])
  BY <1>2 DEF Line
<1> DEFINE t == Tail(q)
<1> HIDE DEF t
<1>4. Cut(t, q, 1) /\ q[1].cmd \notin Carriers
  BY <1>1 DEF t
<1>5. /\ Line(w, report, t)
      /\ \A k \in 1 .. 1 : q[k].cmd \in Carrying => \A l \in 1 .. Len(t) :
           t[l].cmd \in Carrying \cup {"RNFR"} => t[l].req # q[k].req
  BY ONLY <1>2, <1>4, CutLine, q \in Seq(Command), Line(w, report, q)
<1>6. q[1].cmd \in Carrying => \A l \in 1 .. Len(t) :
           t[l].cmd \in Carrying \cup {"RNFR"} => t[l].req # q[1].req
  BY <1>2, <1>5
<1> QED BY <1>1, <1>3, <1>5, <1>6 DEF t

LEMMA DisconnectOrder ==
    ASSUME NEW w, NEW c, Typed(c), Orderly(w, c)
    PROVE  Orderly(w, OnDisconnect(c)) /\ OnDisconnect(c).report = c.report
<1> DEFINE d == [c EXCEPT !.conn = "none", !.sent = <<>>,
                          !.isConnected = FALSE, !.data = None]
           q == IF c.queue # <<>> /\ Head(c.queue).cmd = "welcome"
                THEN Tail(c.queue) ELSE c.queue
           e == [d EXCEPT !.mode = None, !.isReconnecting = FALSE, !.queue = q]
           f == [d EXCEPT !.mode = None, !.isReconnecting = TRUE, !.retries = c.retries + 1]
<1>1. Typed(d) /\ d.queue = c.queue /\ d.trash = c.trash /\ d.report = c.report
  BY DEF Typed, IsClient
<1>2. Orderly(w, d)
  BY <1>1, SameOrder
<1>3. Orderly(w, Cleanup(d)) /\ Cleanup(d).report = c.report
  <2> HIDE DEF d
  <2> QED BY <1>1, <1>2, CleanupOrder
<1>4. Line(w, c.report, q)
  <2>1. c.queue \in Seq(Command) /\ Line(w, c.report, c.queue)
    BY DEF Typed, Orderly
  <2>2. "welcome" \notin Carriers
    BY DEF Carriers
  <2> QED BY <2>1, <2>2, TailOrder
<1>5. Orderly(w, e) /\ e.report = c.report
  <2> HIDE DEF q
  <2>1. e.queue = q /\ e.trash = c.trash /\ e.report = c.report
    BY DEF Typed, IsClient
  <2> HIDE DEF e
  <2> QED BY <1>4, <2>1, QueueOrder
<1>6. Orderly(w, f) /\ f.report = c.report
  <2>1. f.queue = c.queue /\ f.trash = c.trash /\ f.report = c.report
    BY DEF Typed, IsClient
  <2> HIDE DEF f
  <2> QED BY <2>1, SameOrder
<1>7. OnDisconnect(c) \in {Cleanup(d), e, f}
  BY DEF OnDisconnect
<1> HIDE DEF e, f, d
<1> QED BY <1>3, <1>5, <1>6, <1>7

LEMMA RestoredLight ==
    ASSUME NEW w, NEW report, NEW t \in Seq(Leading(w, report)), NEW x \in Command,
           Fine(w, report, x)
    PROVE  Restored(t, x) \in Seq(Light(w, report))
<1> DEFINE L == Light(w, report)
           y == Cmd("SIZE", x.cmd, x.req)
           ss == [k \in 1 .. Len(t) |-> IF t[k].cmd = "TYPE" /\ x.cmd \in {"STOR", "APPE"}
                                        THEN <<t[k], y>> ELSE <<t[k]>>]
<1>1. x.cmd \in {"STOR", "APPE"} => y \in L
  <2>1. x.cmd \in {"STOR", "APPE"} => y \in Command
    BY OfCommand, CommandTypes DEF CmdNames
  <2>2. y.cmd = "SIZE" /\ y.req = x.req
    BY DEF Cmd
  <2>3. "SIZE" \notin Carrying \cup {"RNFR", "RNTO", "transferEnd"}
    BY DEF Carrying, Transfers
  <2>4. Fine(w, report, y)
    BY <2>2, <2>3 DEF Fine
  <2> HIDE DEF y
  <2> QED BY <2>1, <2>2, <2>3, <2>4 DEF Light
<1> HIDE DEF y, L
<1>2. \A k \in 1 .. Len(t) : ss[k] \in Seq(L)
  <2> TAKE k \in 1 .. Len(t)
  <2>1. t[k] \in L
    BY Elements, LeadingIsLight DEF L
  <2>2. CASE t[k].cmd = "TYPE" /\ x.cmd \in {"STOR", "APPE"}
    BY <1>1, <2>1, <2>2
  <2>3. CASE ~ (t[k].cmd = "TYPE" /\ x.cmd \in {"STOR", "APPE"})
    BY <2>1, <2>3
  <2> QED BY <2>2, <2>3
<1>3. ss \in Seq(Seq(L))
  <2>1. Len(t) \in Nat
    BY Elements
  <2> QED BY <1>2, <2>1
<1>4. Restored(t, x) = FlattenSeq(ss)
  BY DEF Restored, y
<1> HIDE DEF ss
<1> QED BY <1>3, <1>4, Flattened DEF L

LEMMA ResumedOrder ==
    ASSUME NEW w, NEW report, NEW q \in Seq(Command), q # <<>>, file \in Files,
           Line(w, report, q)
    PROVE  Line(w, report, Resumed(q))
<1> DEFINE x == Head(q)
           size == IF x.req = 0 THEN 0 ELSE Len(file[x.req])
<1>1. x \in Command /\ Tail(q) \in Seq(Command) /\ Fine(w, report, x)
  <2>1. 1 \in 1 .. Len(q) /\ x = q[1]
    BY FirstOf
  <2> QED BY <2>1, FirstOf DEF Line
<1>2. size \in Nat
  <2>1. x.req \in Requests \cup {0}
    BY <1>1, OfCommand
  <2>2. x.req # 0 => file[x.req] \in Seq(0 .. 2)
    BY <2>1 DEF Files
  <2> QED BY <2>1, <2>2, Elements
<1>3. x.cmd = "REST" => Line(w, report, <<[x EXCEPT !.arg = size]>> \o Tail(q))
  <2> DEFINE y == [x EXCEPT !.arg = size]
  <2> HIDE DEF size
  <2>1. x.cmd = "REST" => y \in Command
    BY <1>1, <1>2, Marked
  <2>2. y.cmd = x.cmd /\ y.req = x.req
    BY <1>1 DEF Command
  <2> HIDE DEF y
  <2>3. x.cmd = "REST" => Line(w, report, <<y>> \o Tail(q))
    BY <2>1, <2>2, HeadLine
  <2> QED BY <2>3 DEF y
<1>4. x.cmd = "RETR" => Line(w, report, <<Cmd("REST", size, x.req)>> \o q)
  <2> DEFINE y == Cmd("REST", size, x.req)
  <2> HIDE DEF size, x
  <2>1. x.cmd = "RETR" => y \in Command
    BY <1>1, <1>2, OfCommand, CommandTypes DEF CmdNames
  <2>2. y.cmd = "REST" /\ y.req = x.req
    BY DEF Cmd
  <2>3. "REST" \notin Carrying \cup {"RNFR", "RNTO", "transferEnd"}
    BY DEF Carrying, Transfers
  <2>4. Fine(w, report, y)
    BY <1>1, <2>2, <2>3 DEF Fine
  <2> HIDE DEF y
  <2>5. x.cmd = "RETR" => y \in Light(w, report)
    BY <2>1, <2>2, <2>3, <2>4 DEF Light
  <2>6. x.cmd = "RETR" => Line(w, report, <<y>> \o q)
    BY <2>5, FrontOne
  <2> QED BY <2>6 DEF y
<1>5. Resumed(q) = CASE x.cmd = "REST" /\ size > 0 -> <<[x EXCEPT !.arg = size]>> \o Tail(q)
                     [] x.cmd = "RETR" /\ size > 0 -> <<Cmd("REST", size, x.req)>> \o q
                     [] OTHER -> q
  BY DEF Resumed
<1> HIDE DEF size, x
<1> QED BY <1>3, <1>4, <1>5

LEMMA RecoverOrder ==
    ASSUME NEW w, NEW c, Typed(c), Orderly(w, c), file \in Files, ~ RecoveryThrows(c)
    PROVE  Orderly(w, RecoverFromDisaster(c)) /\ RecoverFromDisaster(c).report = c.report
<1> DEFINE x == Head(c.queue)
           again == Restored(c.trash, x)
                    \o Resumed(<<[x EXCEPT !.begun = FALSE]>> \o Tail(c.queue))
           q == CASE c.queue = <<>> -> <<>>
                  [] c.queue # <<>> /\ x.cmd \in Transfers \union {"REST", "PASV", "SIZE"} -> again
                  [] c.queue # <<>> /\ x.cmd = "RNTO" /\ Last(c.trash).cmd = "RNFR" ->
                       <<Last(c.trash)>> \o c.queue
                  [] OTHER -> c.queue
           cd == <<Cmd("CWD", c.cwd, 0)>> \o q
           report == c.report
<1>1. c.queue \in Seq(Command) /\ c.cwd \in Dirs \cup {None}
      /\ Line(w, report, c.queue) /\ c.trash \in Seq(Leading(w, report))
  BY DEF Typed, Orderly
<1>2. c.queue # <<>> => again \in Seq(Command) /\ Line(w, report, again)
  <2> SUFFICES ASSUME c.queue # <<>> PROVE again \in Seq(Command) /\ Line(w, report, again)
    OBVIOUS
  <2> DEFINE y == [x EXCEPT !.begun = FALSE]
             r == <<y>> \o Tail(c.queue)
  <2>1. x \in Command /\ Tail(c.queue) \in Seq(Command) /\ Fine(w, report, x)
    <3>1. 1 \in 1 .. Len(c.queue) /\ x = c.queue[1]
      BY <1>1, FirstOf
    <3> QED BY <1>1, <3>1, FirstOf DEF Line
  <2>2. y \in Command /\ y.cmd = x.cmd /\ y.req = x.req
    BY <2>1, Marked DEF Command
  <2>3. Restored(c.trash, x) \in Seq(Light(w, report))
    BY <1>1, <2>1, RestoredLight
  <2> HIDE DEF y
  <2>4. r \in Seq(Command) /\ r # <<>> /\ Line(w, report, r)
    BY <1>1, <2>1, <2>2, Before1, HeadLine
  <2> HIDE DEF r, x
  <2>5. Resumed(r) \in Seq(Command) /\ Line(w, report, Resumed(r))
    BY <2>4, ResumedTypes, ResumedOrder
  <2>6. Restored(c.trash, x) \in Seq(Command)
        /\ Line(w, report, Restored(c.trash, x) \o Resumed(r))
    BY <2>3, <2>5, FrontLine
  <2>7. Restored(c.trash, x) \o Resumed(r) \in Seq(Command)
    BY <2>5, <2>6, ConcatProperties
  <2> QED BY <2>6, <2>7 DEF r, y, x
<1>3. c.queue # <<>> /\ x.cmd = "RNTO" =>
        <<Last(c.trash)>> \o c.queue \in Seq(Command)
        /\ Line(w, report, <<Last(c.trash)>> \o c.queue)
  <2> SUFFICES ASSUME c.queue # <<>>, x.cmd = "RNTO"
               PROVE  <<Last(c.trash)>> \o c.queue \in Seq(Command)
                      /\ Line(w, report, <<Last(c.trash)>> \o c.queue)
    OBVIOUS
  <2>1. c.trash # <<>>
    BY DEF RecoveryThrows
  <2>2. Last(c.trash) \in Light(w, report) /\ Last(c.trash) \in Command
    BY <1>1, <2>1, Elements, LeadingIsLight DEF Light
  <2> QED BY <1>1, <2>2, Before1, FrontOne
<1>4. q \in Seq(Command) /\ Line(w, report, q)
  <2>1. <<>> \in Seq(Command) /\ Line(w, report, <<>>)
    BY EmptyLine
  <2> HIDE DEF again, x
  <2> QED BY <1>1, <1>2, <1>3, <2>1
<1>5. c.cwd # None => Line(w, report, cd)
  <2> HIDE DEF q
  <2>1. c.cwd # None => Cmd("CWD", c.cwd, 0) \in Light(w, report)
    BY <1>1, InternalLight
  <2> QED BY <1>4, <2>1, FrontOne
<1>6. RecoverFromDisaster(c) =
        [c EXCEPT !.queue = IF c.cwd = None THEN q ELSE cd, !.cwd = None, !.trash = <<>>]
  BY DEF RecoverFromDisaster
<1> DEFINE r == IF c.cwd = None THEN q ELSE cd
<1>7. Line(w, report, r)
  <2> HIDE DEF q, cd
  <2> QED BY <1>4, <1>5
<1>8. RecoverFromDisaster(c) = [c EXCEPT !.queue = r, !.cwd = None, !.trash = <<>>]
  BY <1>6
<1> HIDE DEF r
<1> DEFINE d == RecoverFromDisaster(c)
<1>9. d.queue = r /\ d.trash = <<>> /\ d.report = c.report
  BY <1>8 DEF Typed, IsClient
<1> HIDE DEF d
<1>10. Orderly(w, d) /\ d.report = c.report
  BY <1>7, <1>9, QueueOrder
<1> QED BY <1>10 DEF d

----------------------------------------------------------------------------
\* Nothing that is queued or kept would carry r out.
Clear(c, r) ==
    /\ \A k \in 1 .. Len(c.queue) :
         c.queue[k].cmd \in Carrying \cup {"RNFR"} => c.queue[k].req # r
    /\ \A k \in 1 .. Len(c.trash) : c.trash[k].cmd = "RNFR" => c.trash[k].req # r

LEMMA ReportOrder ==
    ASSUME NEW w, NEW c, Typed(c), Orderly(w, c), NEW r \in Requests,
           NEW what \in {"done", "failed"}, w[r] # None, what = "failed" => w[r].kind # "cd",
           c.report[r] \in {"none", what}, Clear(c, r)
    PROVE  /\ Orderly(w, NextCommand(Report(c, r, what)))
           /\ Stays(c, NextCommand(Report(c, r, what)))
<1> DEFINE d == Report(c, r, what)
           report == [c.report EXCEPT ![r] = what]
<1>1. r # 0
  BY RequestTypes
<1>2. c.report \in [Requests -> {"none", "done", "failed"}]
  BY DEF Typed
<1>3. d.queue = c.queue /\ d.trash = c.trash /\ d.report = report
  BY <1>1 DEF Report, Typed, IsClient
<1>4. Typed(d)
  BY ReportTypes
<1> HIDE DEF d
<1>5. Line(w, report, c.queue)
  BY ReportLine DEF Orderly, Clear
<1>6. c.trash \in Seq(Leading(w, report))
  BY ReportLeading DEF Orderly, Clear
<1>7. Truthful(w, report)
  BY <1>2 DEF Orderly, Truthful
<1>8. Orderly(w, d)
  BY <1>3, <1>5, <1>6, <1>7 DEF Orderly
<1>9. Orderly(w, NextCommand(d)) /\ NextCommand(d).report = report
  BY <1>3, <1>4, <1>8, NextOrder
<1> QED BY <1>2, <1>9 DEF Stays, d

\* The request of a command that carries it out is reported, when this command
\* is gone and what is left of the trash is part of what was there.
LEMMA CarriedReport ==
    ASSUME NEW w, NEW c, Typed(c), Orderly(w, c), NEW x, Fine(w, c.report, x),
           x.cmd \in Carrying, x.req \in Requests \cup {0},
           NEW what \in {"done", "failed"},
           NEW d, Typed(d), d.report = c.report, Line(w, c.report, d.queue),
           d.trash = <<>> \/ (d.trash = c.trash /\ x.cmd # "RNTO"),
           \A l \in 1 .. Len(d.queue) :
             d.queue[l].cmd \in Carrying \cup {"RNFR"} => d.queue[l].req # x.req
    PROVE  LET e == NextCommand(Report(d, x.req, what))
           IN Orderly(w, e) /\ Stays(c, e)
<1>1. Orderly(w, d)
  BY QueueOrder
<1>2. /\ x.req \in Requests /\ w[x.req] # None /\ c.report[x.req] = "none"
      /\ x.cmd # "RNTO" => w[x.req].kind # "rename"
      /\ w[x.req].kind # "cd"
  BY DEF Fine
<1>3. ASSUME NEW k \in 1 .. Len(d.trash), d.trash[k].cmd = "RNFR"
      PROVE  d.trash[k].req # x.req
  <2>1. d.trash = c.trash /\ x.cmd # "RNTO"
    BY <1>3
  <2>2. c.trash[k] \in Leading(w, c.report)
    BY <1>3, <2>1, Elements DEF Orderly
  <2>3. w[c.trash[k].req].kind = "rename"
    BY <1>3, <2>1, <2>2 DEF Leading, Fine
  <2> QED BY <1>2, <2>1, <2>3
<1>4. Clear(d, x.req)
  BY <1>3 DEF Clear
<1> DEFINE e == NextCommand(Report(d, x.req, what))
<1>5. Orderly(w, e) /\ Stays(d, e)
  BY <1>1, <1>2, <1>4, ReportOrder
<1> HIDE DEF e
<1>6. Stays(c, e)
  BY <1>5 DEF Stays
<1> QED BY <1>5, <1>6 DEF e

LEMMA SelfStays ==
    ASSUME NEW c, NEW d, d.report = c.report PROVE Stays(c, d)
  BY DEF Stays

\* What is left when a transfer is over.
LEMMA DropLine ==
    ASSUME NEW w, NEW report, NEW q \in Seq(Command), q # <<>>, Line(w, report, q),
           Head(q).cmd \in Transfers
    PROVE  /\ Line(w, report, DropTransfer(q)) /\ Fine(w, report, Head(q))
           /\ \A l \in 1 .. Len(DropTransfer(q)) :
                DropTransfer(q)[l].cmd \in Carrying \cup {"RNFR"}
                  => DropTransfer(q)[l].req # Head(q).req
<1> DEFINE t == DropTransfer(q)
           m == Len(q)
<1>1. m \in Nat \ {0} /\ Head(q) = q[1]
  BY FirstOf
<1>2. 1 \in 1 .. m
  BY <1>1
<1>3. Fine(w, report, q[1])
  BY <1>2 DEF Line
<1>4. \E n \in 1 .. m : Cut(t, q, n) /\ q[n].cmd \notin Carriers
  <2>1. CASE m > 1 /\ IsEnd(q[2])
    <3>1. t = SubSeq(q, 3, m)
      BY <2>1 DEF DropTransfer
    <3>2. 2 \in 0 .. m /\ 2 \in 1 .. m /\ 2 + 1 = 3
      BY <1>1, <2>1
    <3>3. Cut(SubSeq(q, 2 + 1, m), q, 2)
      BY <3>2, SubSeqCuts
    <3>4. q[2].cmd \notin Carriers
      BY <2>1 DEF IsEnd, Carriers
    <3> HIDE DEF t, m
    <3> QED BY <3>1, <3>2, <3>3, <3>4
  <2>2. CASE ~ (m > 1 /\ IsEnd(q[2]))
    <3>1. t = Tail(q)
      BY <2>2 DEF DropTransfer
    <3>2. q[1].cmd \notin Carriers
      <4>1. q[1].cmd \in Carriers => 1 < m /\ IsEnd(q[1 + 1])
        BY <1>2 DEF Line
      <4> QED BY <2>2, <4>1
    <3>3. Cut(Tail(q), q, 1)
      BY TailCuts
    <3> HIDE DEF t, m
    <3> QED BY <1>2, <3>1, <3>2, <3>3
  <2> QED BY <2>1, <2>2
<1> HIDE DEF t
<1>5. PICK n \in 1 .. m : Cut(t, q, n) /\ q[n].cmd \notin Carriers
  BY <1>4
<1>6. n \in 0 .. m /\ 1 \in 1 .. n
  BY <1>1
<1>7. /\ Line(w, report, t)
      /\ \A k \in 1 .. n : q[k].cmd \in Carrying => \A l \in 1 .. Len(t) :
           t[l].cmd \in Carrying \cup {"RNFR"} => t[l].req # q[k].req
  BY <1>5, <1>6, CutLine
<1>8. q[1].cmd \in Carrying
  BY <1>1 DEF Carrying
<1> QED BY <1>1, <1>3, <1>6, <1>7, <1>8 DEF t

LEMMA TransferOrder ==
    ASSUME NEW c, Typed(c), Orderly(asked, c), c.queue # <<>>, NEW h, h = Head(c.queue),
           h.cmd \in Transfers, NEW code
    PROVE  LET d == TransferAnswered(c, h, code) IN Orderly(asked, d) /\ Stays(c, d)
<1> DEFINE q == DropTransfer(c.queue)
           Holds(d) == Orderly(asked, d) /\ Stays(c, d)
<1>1. /\ q \in Seq(Command) /\ h.req \in Requests \cup {0} /\ h \in Command
      /\ c.queue \in Seq(Command) /\ Line(asked, c.report, c.queue)
  BY FirstOf, OfCommand, DropTypes DEF Typed, Orderly
<1>2. /\ Line(asked, c.report, q) /\ Fine(asked, c.report, h) /\ h.cmd \in Carrying
      /\ \A l \in 1 .. Len(q) : q[l].cmd \in Carrying \cup {"RNFR"} => q[l].req # h.req
  BY <1>1, DropLine DEF Carrying
<1> HIDE DEF q
<1>3. ASSUME NEW d, Typed(d), d.queue = q, d.trash = <<>>, d.report = c.report,
             NEW what \in {"done", "failed"}
      PROVE  Holds(NextCommand(Report(d, h.req, what)))
  BY <1>1, <1>2, <1>3, CarriedReport
<1>4. Holds(TransferDone(c, h))
  <2> DEFINE d == [c EXCEPT !.queue = q, !.trash = <<>>, !.data = None, !.dat = None]
  <2>1. Typed(d)
    BY <1>1, QueueTypes
  <2>2. d.queue = q /\ d.trash = <<>> /\ d.report = c.report
    BY DEF Typed, IsClient
  <2>3. TransferDone(c, h) = NextCommand(Report(d, h.req, "done"))
    BY DEF TransferDone, q
  <2> HIDE DEF d, Holds
  <2> QED BY <1>3, <2>1, <2>2, <2>3
<1>5. Holds(TransferFailed(c, h))
  <2> DEFINE d == [c EXCEPT !.queue = q, !.trash = <<>>, !.data = None]
  <2>1. Typed(d)
    BY <1>1, QueueTypes
  <2>2. d.queue = q /\ d.trash = <<>> /\ d.report = c.report
    BY DEF Typed, IsClient
  <2>3. TransferFailed(c, h) = NextCommand(Report(d, h.req, "failed"))
    BY DEF TransferFailed, q
  <2> HIDE DEF d, Holds
  <2> QED BY <1>3, <2>1, <2>2, <2>3
<1>6. Holds([c EXCEPT !.queue = q, !.trash = <<>>, !.dat = None])
  <2> DEFINE d == [c EXCEPT !.queue = q, !.trash = <<>>, !.dat = None]
  <2>1. d.queue = q /\ d.trash = <<>> /\ d.report = c.report
    BY DEF Typed, IsClient
  <2> HIDE DEF d
  <2>2. Holds(d)
    BY <1>2, <2>1, QueueOrder, SelfStays
  <2> QED BY <2>2 DEF d
<1>7. Holds(Begun(c)) /\ Holds(Poll(Begun(c)))
  <2> DEFINE y == [h EXCEPT !.begun = TRUE]
             p == <<y>> \o Tail(c.queue)
             b == Begun(c)
  <2>1. y \in Command /\ y.cmd = h.cmd /\ y.req = h.req
    BY <1>1, Marked DEF Command
  <2>2. b = [c EXCEPT !.queue = p]
    BY DEF Begun
  <2> HIDE DEF y
  <2>3. Line(asked, c.report, p)
    BY <1>1, <2>1, HeadLine
  <2> HIDE DEF p, b
  <2>4. b.queue = p /\ b.trash = c.trash /\ b.report = c.report /\ IsClient(b)
    BY <2>2 DEF Typed, IsClient
  <2>5. Poll(b).queue = p /\ Poll(b).trash = c.trash /\ Poll(b).report = c.report
    BY <2>4 DEF Poll, IsClient
  <2> QED BY <2>3, <2>4, <2>5, QueueOrder, SelfStays DEF b
<1> HIDE DEF Holds
<1>8. Holds(TransferAnswered(c, h, code))
  BY <1>4, <1>5, <1>6, <1>7 DEF TransferAnswered, q
<1> QED BY <1>8 DEF Holds

LEMMA PasvOrder ==
    ASSUME NEW c, Typed(c), Orderly(asked, c), NEW code
    PROVE  LET d == PasvAnswered(c, code) IN Orderly(asked, d) /\ Stays(c, d)
<1> DEFINE q == c.queue
           e == FirstEnd(q)
           t == SubSeq(q, e + 1, Len(q))
           Holds(d) == Orderly(asked, d) /\ Stays(c, d)
<1>1. q \in Seq(Command) /\ Line(asked, c.report, q)
  BY DEF Typed, Orderly
<1>2. Holds(c)
  BY SelfStays
<1>3. q # <<>> => Holds(NextCommand([c EXCEPT !.data = DataSocket(q)]))
  <2> SUFFICES ASSUME q # <<>> PROVE Holds(NextCommand([c EXCEPT !.data = DataSocket(q)]))
    OBVIOUS
  <2> DEFINE d == [c EXCEPT !.data = DataSocket(q)]
  <2>1. DataSocket(q) \in DataConn
    BY <1>1, SocketTypes
  <2>2. Typed(d) /\ d.queue = c.queue /\ d.trash = c.trash /\ d.report = c.report
    BY <2>1 DEF Typed, IsClient
  <2> HIDE DEF d
  <2>3. Orderly(asked, d)
    BY <2>2, SameOrder
  <2>4. Orderly(asked, NextCommand(d)) /\ NextCommand(d).report = c.report
    BY <2>2, <2>3, NextOrder
  <2>5. Stays(c, NextCommand(d))
    BY <2>4, SelfStays
  <2> QED BY <2>4, <2>5 DEF d
<1>4. q # <<>> /\ Head(q).cmd = "LIST" =>
        Holds(NextCommand(Report([c EXCEPT !.queue = Tail(q)], Head(q).req, "failed")))
  <2> SUFFICES ASSUME q # <<>>, Head(q).cmd = "LIST"
               PROVE Holds(NextCommand(Report([c EXCEPT !.queue = Tail(q)], Head(q).req, "failed")))
    OBVIOUS
  <2> DEFINE d == [c EXCEPT !.queue = Tail(q)]
             x == Head(q)
  <2>0. "LIST" \notin Carriers /\ "LIST" \in Carrying
    BY DEF Carriers, Carrying, Transfers
  <2>1. Tail(q) \in Seq(Command) /\ x \in Command /\ x.req \in Requests \cup {0}
    BY <1>1, FirstOf, OfCommand
  <2>2. /\ Line(asked, c.report, Tail(q)) /\ Fine(asked, c.report, x)
        /\ \A l \in 1 .. Len(Tail(q)) :
             Tail(q)[l].cmd \in Carrying \cup {"RNFR"} => Tail(q)[l].req # x.req
    BY <1>1, <2>0, TailOrder
  <2>3. Typed(d)
    BY <2>1, QueueTypes
  <2>4. d.queue = Tail(q) /\ d.trash = c.trash /\ d.report = c.report
    BY DEF Typed, IsClient
  <2>5. x.cmd \in Carrying /\ x.cmd # "RNTO"
    BY <2>0
  <2> HIDE DEF d, x
  <2>6. Holds(NextCommand(Report(d, x.req, "failed")))
    BY <2>1, <2>2, <2>3, <2>4, <2>5, CarriedReport
  <2> QED BY <2>6 DEF d, x
<1>5. Holds(NextCommand([c EXCEPT !.queue = <<>>]))
  <2> DEFINE d == [c EXCEPT !.queue = <<>>]
  <2>1. <<>> \in Seq(Command)
    OBVIOUS
  <2>2. Typed(d)
    BY <2>1, QueueTypes
  <2>3. d.queue = <<>> /\ d.trash = c.trash /\ d.report = c.report
    BY DEF Typed, IsClient
  <2> HIDE DEF d
  <2>4. Orderly(asked, d)
    BY <2>3, EmptyLine, QueueOrder
  <2>5. Orderly(asked, NextCommand(d)) /\ NextCommand(d).report = c.report
    BY <2>2, <2>3, <2>4, NextOrder
  <2>6. Stays(c, NextCommand(d))
    BY <2>5, SelfStays
  <2> QED BY <2>5, <2>6 DEF d
<1>6. Ends(q) # {} => Holds(NextCommand(Report([c EXCEPT !.queue = t], q[e].req, "failed")))
  <2> SUFFICES ASSUME Ends(q) # {}
               PROVE Holds(NextCommand(Report([c EXCEPT !.queue = t], q[e].req, "failed")))
    OBVIOUS
  <2> DEFINE d == [c EXCEPT !.queue = t]
  <2>1. /\ e \in 1 .. Len(q) /\ e \in Nat /\ t \in Seq(Command)
        /\ q[e].req \in Requests \cup {0} /\ Len(q) \in Nat
    BY <1>1, FirstEndTypes, RestOf, Elements
  <2>2. IsEnd(q[e])
    <3>1. Ends(q) \subseteq Nat
      BY <1>1, Elements DEF Ends
    <3>2. e \in Ends(q)
      BY <3>1, LeastOf DEF FirstEnd
    <3> QED BY <3>2 DEF Ends
  <2> HIDE DEF e, q
  <2>3. e > 1 /\ q[e - 1].cmd \in Carriers /\ q[e - 1].req = q[e].req
    BY <1>1, <2>1, <2>2 DEF Line
  <2>4. e - 1 \in 1 .. e /\ e - 1 \in 1 .. Len(q) /\ e \in 0 .. Len(q)
    BY <2>1, <2>3
  <2>5. Fine(asked, c.report, q[e - 1]) /\ q[e - 1].cmd \in Carrying /\ q[e - 1].cmd # "RNTO"
    BY <1>1, <2>3, <2>4 DEF Line, Carriers, Carrying, Transfers
  <2>6. q[e].cmd \notin Carriers
    BY <2>2 DEF IsEnd, Carriers
  <2>7. Cut(t, q, e)
    BY <1>1, <2>4, SubSeqCuts
  <2> HIDE DEF t
  <2>8. /\ Line(asked, c.report, t)
        /\ \A k \in 1 .. e : q[k].cmd \in Carrying => \A l \in 1 .. Len(t) :
             t[l].cmd \in Carrying \cup {"RNFR"} => t[l].req # q[k].req
    BY <1>1, <2>4, <2>6, <2>7, CutLine
  <2>9. Typed(d)
    BY <2>1, QueueTypes
  <2>10. d.queue = t /\ d.trash = c.trash /\ d.report = c.report
    BY DEF Typed, IsClient
  <2> DEFINE x == q[e - 1]
  <2>11. /\ x.req = q[e].req /\ x.cmd \in Carrying /\ x.cmd # "RNTO"
         /\ Fine(asked, c.report, x)
         /\ \A l \in 1 .. Len(t) : t[l].cmd \in Carrying \cup {"RNFR"} => t[l].req # x.req
    BY <2>3, <2>4, <2>5, <2>8
  <2> HIDE DEF d, x
  <2>12. Holds(NextCommand(Report(d, x.req, "failed")))
    BY <2>1, <2>8, <2>9, <2>10, <2>11, CarriedReport
  <2> QED BY <2>11, <2>12 DEF d
<1> HIDE DEF Holds
<1>7. Holds(PasvAnswered(c, code))
  BY <1>2, <1>3, <1>4, <1>5, <1>6 DEF PasvAnswered
<1> QED BY <1>7 DEF Holds

LEMMA NextFollows ==
    ASSUME NEW c, NEW d, Typed(d), Orderly(asked, d), d.report = c.report
    PROVE  Orderly(asked, NextCommand(d)) /\ Stays(c, NextCommand(d))
<1>1. Orderly(asked, NextCommand(d)) /\ NextCommand(d).report = c.report
  BY NextOrder
<1> QED BY <1>1, SelfStays

LEMMA WelcomeOrder ==
    ASSUME NEW c, Typed(c), Orderly(asked, c), NEW code
    PROVE  LET d == Welcomed(c, code) IN Orderly(asked, d) /\ Stays(c, d)
<1> DEFINE q == <<Cmd("USER", None, 0)>> \o c.queue
           d == [c EXCEPT !.isConnected = TRUE, !.isReconnecting = FALSE,
                          !.reconnectsLeft = Attempts, !.queue = q]
           Holds(e) == Orderly(asked, e) /\ Stays(c, e)
<1>1. Holds(NextCommand(Cleanup(c)))
  BY CleanupTypes, CleanupOrder, NextFollows
<1>2. q \in Seq(Command)
  BY InternalCommands, Before1 DEF Typed
<1>3. Line(asked, c.report, q)
  BY InternalLight, FrontOne DEF Typed, Orderly
<1>4. Attempts \in 0 .. Attempts
  BY RequestTypes
<1> HIDE DEF q
<1>5. Typed(d) /\ d.queue = q /\ d.trash = c.trash /\ d.report = c.report
  BY <1>2, <1>4 DEF Typed, IsClient
<1>6. Welcomed(c, code) \in {NextCommand(Cleanup(c)), NextCommand(d)}
  BY DEF Welcomed, q
<1> HIDE DEF d
<1>7. Orderly(asked, d)
  BY <1>3, <1>5, QueueOrder
<1>8. Holds(NextCommand(d))
  BY <1>5, <1>7, NextFollows
<1> QED BY <1>1, <1>6, <1>8

LEMMA LoggedInOrder ==
    ASSUME NEW c, Typed(c), Orderly(asked, c), file \in Files
    PROVE  LET d == LoggedIn(c) IN Orderly(asked, d) /\ Stays(c, d)
<1> DEFINE d == [c EXCEPT !.known = TRUE, !.legitClose = c.legitClose \/ ~ c.known]
           p == <<Cmd("FEAT", None, 0), Cmd("PWD", None, 0)>>
           q == p \o c.queue
           e == [d EXCEPT !.legitClose = FALSE, !.queue = q]
           r == RecoverFromDisaster(d)
           Holds(f) == Orderly(asked, f) /\ Stays(c, f)
<1>1. Typed(d) /\ d.queue = c.queue /\ d.trash = c.trash /\ d.report = c.report
  BY DEF Typed, IsClient
<1>2. Orderly(asked, d)
  BY <1>1, SameOrder
<1>3. q \in Seq(Command) /\ Line(asked, c.report, q)
  <2>1. p \in Seq(Light(asked, c.report))
    BY InternalLight
  <2>2. c.queue \in Seq(Command) /\ Line(asked, c.report, c.queue)
    BY DEF Typed, Orderly
  <2> HIDE DEF p
  <2>3. p \in Seq(Command) /\ Line(asked, c.report, p \o c.queue)
    BY <2>1, <2>2, FrontLine
  <2> QED BY <2>2, <2>3, ConcatProperties
<1>4. Holds(NextCommand(e))
  <2> HIDE DEF q
  <2>1. Typed(e) /\ e.queue = q /\ e.trash = c.trash /\ e.report = c.report
    BY <1>3 DEF Typed, IsClient
  <2> HIDE DEF e
  <2>2. Orderly(asked, e)
    BY <1>3, <2>1, QueueOrder
  <2> QED BY <2>1, <2>2, NextFollows
<1>5. Holds(d)
  <2> HIDE DEF d
  <2> QED BY <1>1, <1>2, SelfStays
<1>6. ~ RecoveryThrows(d) => Holds(NextCommand(r))
  <2> HIDE DEF d
  <2>1. ~ RecoveryThrows(d) => Typed(r) /\ Orderly(asked, r) /\ r.report = d.report
    BY <1>1, <1>2, RecoverTypes, RecoverOrder
  <2> HIDE DEF r
  <2> QED BY <1>1, <2>1, NextFollows
<1>7. LoggedIn(c) = IF d.legitClose THEN NextCommand(e)
                    ELSE IF RecoveryThrows(d) THEN d ELSE NextCommand(r)
  BY DEF LoggedIn
<1> HIDE DEF d, e, r, Holds
<1>8. Holds(LoggedIn(c))
  BY <1>4, <1>5, <1>6, <1>7
<1> QED BY <1>8 DEF Holds

LEMMA LoginOrder ==
    ASSUME NEW c, Typed(c), Orderly(asked, c), file \in Files, NEW h, NEW code
    PROVE  LET d == LoginAnswered(c, h, code) IN Orderly(asked, d) /\ Stays(c, d)
<1> DEFINE q == <<Cmd("PASS", None, 0)>> \o c.queue
           d == [c EXCEPT !.queue = q]
           b == [Cleanup(c) EXCEPT !.isConnected = FALSE]
           Holds(e) == Orderly(asked, e) /\ Stays(c, e)
<1>1. Holds(NextCommand(d))
  <2>1. q \in Seq(Command) /\ Line(asked, c.report, q)
    BY InternalCommands, Before1, InternalLight, FrontOne DEF Typed, Orderly
  <2> HIDE DEF q
  <2>2. Typed(d)
    BY <2>1, QueueTypes
  <2>3. d.queue = q /\ d.trash = c.trash /\ d.report = c.report
    BY DEF Typed, IsClient
  <2> HIDE DEF d
  <2>4. Orderly(asked, d)
    BY <2>1, <2>3, QueueOrder
  <2> QED BY <2>2, <2>3, <2>4, NextFollows
<1>2. Holds(Kill(b))
  <2>1. Typed(Cleanup(c)) /\ Orderly(asked, Cleanup(c)) /\ Cleanup(c).report = c.report
    BY CleanupTypes, CleanupOrder
  <2>2. /\ Typed(b) /\ b.queue = Cleanup(c).queue /\ b.trash = Cleanup(c).trash
        /\ b.report = c.report
    BY <2>1 DEF Typed, IsClient
  <2> HIDE DEF b
  <2>3. Orderly(asked, b)
    BY <2>1, <2>2, SameOrder
  <2>4. Orderly(asked, Kill(b)) /\ Kill(b).report = c.report
    BY <2>2, <2>3, KillOrder
  <2> QED BY <2>4, SelfStays
<1>3. LoginAnswered(c, h, code) \in {LoggedIn(c), NextCommand(d), Kill(b)}
  BY DEF LoginAnswered
<1> HIDE DEF d, b
<1> QED BY <1>1, <1>2, <1>3, LoggedInOrder

LEMMA SizeOrder ==
    ASSUME NEW c, Typed(c), Orderly(asked, c), NEW h \in Command, h.cmd = "SIZE", NEW code,
           NEW size \in Nat
    PROVE  LET d == SizeAnswered(c, h, code, size) IN Orderly(asked, d) /\ Stays(c, d)
<1> DEFINE At(cmd) == {k \in 1 .. Len(c.queue) :
                         c.queue[k].cmd = cmd /\ ~ c.queue[k].begun}
           Least(S) == CHOOSE k \in S : \A l \in S : k <= l
           Becomes(k, cmd, arg) == [c EXCEPT !.queue[k].cmd = cmd, !.queue[k].arg = arg]
           Holds(d) == Orderly(asked, d) /\ Stays(c, d)
<1>1. c.queue \in Seq(Command) /\ h.arg \in {"STOR", "APPE"} /\ Len(c.queue) \in Nat
      /\ Line(asked, c.report, c.queue)
  BY OfCommand, Elements DEF Typed, Orderly
<1>2. ASSUME NEW cmd \in {"STOR", "APPE"}, At(cmd) # {}
      PROVE  /\ Holds(NextCommand(Becomes(Least(At(cmd)), "APPE", size)))
             /\ Holds(NextCommand(Becomes(Least(At(cmd)), "STOR", None)))
  <2> DEFINE k == Least(At(cmd))
  <2>1. k \in 1 .. Len(c.queue) /\ c.queue[k].cmd \in {"STOR", "APPE"}
    <3>1. At(cmd) \subseteq Nat
      BY <1>1, Elements
    <3>2. k \in At(cmd)
      <4> HIDE DEF At
      <4> QED BY <1>2, <3>1, LeastOf
    <3> QED BY <3>2
  <2> HIDE DEF k
  <2>2. ASSUME NEW new \in {"STOR", "APPE"}, NEW arg,
               [[c.queue[k] EXCEPT !.cmd = new] EXCEPT !.arg = arg] \in Command
        PROVE  Holds(NextCommand(Becomes(k, new, arg)))
    <3> DEFINE y == [[c.queue[k] EXCEPT !.cmd = new] EXCEPT !.arg = arg]
               q == [c.queue EXCEPT ![k] = y]
               d == [c EXCEPT !.queue = q]
    <3>1. y \in Command /\ y.cmd = new /\ y.req = c.queue[k].req
      <4>1. c.queue[k] \in Command
        BY <1>1, <2>1, Elements
      <4> QED BY <2>2, <4>1 DEF Command
    <3>2. q \in Seq(Command) /\ Len(q) = Len(c.queue)
          /\ \A i \in 1 .. Len(c.queue) : q[i] = IF i = k THEN y ELSE c.queue[i]
      <4> HIDE DEF y
      <4> QED BY <1>1, <2>1, <3>1, ExceptSeq
    <3>3. Becomes(k, new, arg) = d
      BY <1>1, <2>1 DEF Typed, IsClient
    <3> HIDE DEF q, Becomes, y
    <3>4. Line(asked, c.report, q)
      <4>1. \A i \in 1 .. Len(c.queue) :
              /\ q[i].req = c.queue[i].req
              /\ q[i].cmd = c.queue[i].cmd
                 \/ {q[i].cmd, c.queue[i].cmd} \subseteq {"STOR", "APPE"}
        BY <2>1, <3>1, <3>2
      <4> QED BY <1>1, <3>2, <4>1, SameLine
    <3>5. Typed(d) /\ d.queue = q /\ d.trash = c.trash /\ d.report = c.report
      BY <3>2, QueueTypes DEF Typed, IsClient
    <3> HIDE DEF d
    <3>6. Orderly(asked, d)
      BY <3>4, <3>5, QueueOrder
    <3> QED BY <3>3, <3>5, <3>6, NextFollows
  <2>3. c.queue[k] \in Command
    BY <1>1, <2>1, Elements
  <2> HIDE DEF Becomes, Holds
  <2> QED BY <2>1, <2>2, <2>3, TransferRenamed DEF k
<1>3. SizeAnswered(c, h, code, size) = NextCommand(
         CASE code = 2 /\ At(h.arg) # {} -> Becomes(Least(At(h.arg)), "APPE", size)
           [] code # 2 /\ At("APPE") # {} -> Becomes(Least(At("APPE")), "STOR", None)
           [] OTHER -> c)
  BY DEF SizeAnswered
<1>4. Holds(NextCommand(c))
  BY NextFollows
<1> HIDE DEF At, Least, Becomes, Holds
<1>5. Holds(SizeAnswered(c, h, code, size))
  BY <1>1, <1>2, <1>3, <1>4
<1> QED BY <1>5 DEF Holds

LEMMA RefusedRename ==
    ASSUME NEW c, Typed(c), Orderly(asked, c), NEW h, h.req \in Requests \cup {0},
           h.cmd = "RNFR", Fine(asked, c.report, h)
    PROVE  LET d == NextCommand(Report([c EXCEPT !.queue = <<>>, !.trash = <<>>],
                                       h.req, "failed"))
           IN Orderly(asked, d) /\ Stays(c, d)
<1> DEFINE b == [c EXCEPT !.queue = <<>>, !.trash = <<>>]
           d == NextCommand(Report(b, h.req, "failed"))
<1>1. <<>> \in Seq(Command)
  OBVIOUS
<1>2. Typed(b)
  BY <1>1, QueueTypes
<1>3. b.queue = <<>> /\ b.trash = <<>> /\ b.report = c.report
  BY DEF Typed, IsClient
<1> HIDE DEF b
<1>4. Orderly(asked, b)
  BY <1>3, EmptyLine, QueueOrder
<1>5. Clear(b, h.req)
  BY <1>3 DEF Clear
<1>6. h.req \in Requests /\ asked[h.req] # None /\ asked[h.req].kind # "cd"
      /\ b.report[h.req] = "none"
  BY <1>3 DEF Fine
<1>7. Orderly(asked, d) /\ Stays(b, d)
  BY <1>2, <1>4, <1>5, <1>6, ReportOrder
<1> HIDE DEF d
<1>8. Stays(c, d)
  BY <1>3, <1>7 DEF Stays
<1> QED BY <1>7, <1>8 DEF d, b

\* A change of directory that was asked for may be carried out again by recovery.
LEMMA DirectoryReport ==
    ASSUME NEW c, Typed(c), Orderly(asked, c), NEW h \in Command, h.cmd = "CWD",
           Fine(asked, c.report, h)
    PROVE  LET d == NextCommand(Report([c EXCEPT !.cwd = h.arg],
                              IF h.req # 0 /\ asked[h.req].kind = "cd"
                              THEN h.req ELSE 0, "done"))
           IN Orderly(asked, d) /\ Stays(c, d)
<1> DEFINE b == [c EXCEPT !.cwd = h.arg]
           r == IF h.req # 0 /\ asked[h.req].kind = "cd" THEN h.req ELSE 0
           d == NextCommand(Report(b, r, "done"))
<1>1. h.arg \in Dirs /\ h.req \in Requests \cup {0}
  BY OfCommand
<1>2. Typed(b) /\ b.queue = c.queue /\ b.trash = c.trash /\ b.report = c.report
  BY <1>1 DEF Typed, IsClient
<1> HIDE DEF b
<1>3. Orderly(asked, b)
  BY <1>2, SameOrder
<1>4. CASE r = 0
  <2>1. Report(b, r, "done") = b
    BY <1>4 DEF Report
  <2>2. Orderly(asked, d) /\ Stays(c, d)
    BY <1>2, <1>3, <2>1, NextFollows
  <2> QED BY <2>2 DEF b
<1>5. CASE r # 0
  <2>1. r \in Requests /\ r = h.req /\ asked[r] # None /\ asked[r].kind = "cd"
    BY <1>1, <1>5 DEF Fine
  <2>2. b.report[r] \in {"none", "done"}
    BY <1>2, <2>1 DEF Typed, Orderly, Truthful
  <2>3. \A x : Fine(asked, b.report, x) /\ x.cmd \in Carrying \cup {"RNFR"} => x.req # r
    <3>1. \A x : Fine(asked, b.report, x) /\ x.cmd \in Carrying \cup {"RNFR"}
            => asked[x.req].kind # "cd"
      BY DEF Fine
    <3> QED BY <2>1, <3>1
  <2>4. \A k \in 1 .. Len(b.queue) : Fine(asked, b.report, b.queue[k])
    BY <1>3 DEF Orderly, Line
  <2>5. \A k \in 1 .. Len(b.trash) : Fine(asked, b.report, b.trash[k])
    <3>1. b.trash \in Seq(Leading(asked, b.report))
      BY <1>3 DEF Orderly
    <3>2. \A k \in 1 .. Len(b.trash) : b.trash[k] \in Leading(asked, b.report)
      BY <3>1, Elements
    <3> QED BY <3>2 DEF Leading
  <2>6. Clear(b, r)
    BY <2>3, <2>4, <2>5 DEF Clear
  <2> HIDE DEF r
  <2>7. Orderly(asked, d) /\ Stays(b, d)
    BY <1>2, <1>3, <2>1, <2>2, <2>6, ReportOrder
  <2> HIDE DEF d
  <2>8. Stays(c, d)
    BY <1>2, <2>7 DEF Stays
  <2> QED BY <2>7, <2>8 DEF d, b, r
<1> QED BY <1>4, <1>5

LEMMA AnsweredOrder ==
    ASSUME NEW c, Typed(c), Orderly(asked, c), file \in Files, NEW h, NEW code,
           NEW size \in Nat, h \in Command \/ h = Cmd("default", None, 0),
           h.cmd \notin Carrying, Fine(asked, c.report, h)
    PROVE  LET d == Answered(c, h, code, size) IN Orderly(asked, d) /\ Stays(c, d)
<1> DEFINE Holds(d) == Orderly(asked, d) /\ Stays(c, d)
<1>0. h.cmd \notin Transfers \cup {"MKD", "DELE", "RNTO"}
  BY DEF Carrying
<1>1. ASSUME NEW d, Typed(d), d.queue = c.queue, d.trash \in {c.trash, <<>>},
             d.report = c.report
      PROVE  Holds(NextCommand(d))
  <2>1. Orderly(asked, d)
    BY <1>1, QueueOrder DEF Orderly
  <2> QED BY <1>1, <2>1, NextFollows
<1>2. Holds(NextCommand(c))
  BY <1>1
<1>3. CASE h = Cmd("default", None, 0)
  <2>1. h.cmd = "default"
    BY <1>3 DEF Cmd
  <2>2. Answered(c, h, code, size) = NextCommand(c)
    BY <2>1 DEF Answered, Transfers
  <2> QED BY <1>2, <2>2
<1>4. CASE h \in Command
  <2>1. /\ h.req \in Requests \cup {0}
        /\ h.cmd = "CWD" => h.arg \in Dirs
        /\ h.cmd = "TYPE" => h.arg \in {"A", "I"}
    BY <1>4, OfCommand
  <2>2. Holds(Welcomed(c, code)) /\ Holds(LoginAnswered(c, h, code))
        /\ Holds(PasvAnswered(c, code))
    BY WelcomeOrder, LoginOrder, PasvOrder
  <2>3. h.cmd = "SIZE" => Holds(SizeAnswered(c, h, code, size))
    BY <1>4, SizeOrder
  <2>4. h.cmd = "RNFR" =>
          Holds(NextCommand(Report([c EXCEPT !.queue = <<>>, !.trash = <<>>], h.req, "failed")))
    BY <2>1, RefusedRename
  <2>5. h.cmd = "CWD" =>
          Holds(NextCommand(Report([c EXCEPT !.cwd = h.arg],
                              IF h.req # 0 /\ asked[h.req].kind = "cd"
                              THEN h.req ELSE 0, "done")))
    BY <1>4, DirectoryReport
  <2>6. Holds(NextCommand([c EXCEPT !.trash = <<>>,
                                    !.cwd = IF code = 2 THEN Root ELSE c.cwd]))
    <3> DEFINE d == [c EXCEPT !.trash = <<>>, !.cwd = IF code = 2 THEN Root ELSE c.cwd]
    <3>1. Typed(d) /\ d.queue = c.queue /\ d.trash = <<>> /\ d.report = c.report
      BY FtpAssumption DEF Typed, IsClient
    <3> HIDE DEF d, Holds
    <3>2. Holds(NextCommand(d))
      BY <1>1, <3>1
    <3> QED BY <3>2 DEF d
  <2>7. h.cmd = "TYPE" => Holds(NextCommand([c EXCEPT !.mode = h.arg]))
    <3> DEFINE d == [c EXCEPT !.mode = h.arg]
    <3>1. h.cmd = "TYPE" => Typed(d) /\ d.queue = c.queue /\ d.trash = c.trash
                            /\ d.report = c.report
      BY <2>1 DEF Typed, IsClient
    <3> HIDE DEF d, Holds
    <3>2. h.cmd = "TYPE" => Holds(NextCommand(d))
      BY <1>1, <3>1
    <3> QED BY <3>2 DEF d
  <2> HIDE DEF Holds
  <2>8. Holds(Answered(c, h, code, size))
    BY <1>0, <1>2, <2>2, <2>3, <2>4, <2>5, <2>6, <2>7 DEF Answered
  <2> QED BY <2>8 DEF Holds
<1> QED BY <1>3, <1>4

LEMMA ReadOrder ==
    ASSUME NEW c, Typed(c), Orderly(asked, c), file \in Files, NEW code, NEW size \in Nat
    PROVE  LET d == ReadControl(c, code, size) IN Orderly(asked, d) /\ Stays(c, d)
<1> DEFINE h == IF c.queue = <<>> THEN Cmd("default", None, 0) ELSE Head(c.queue)
           t == IF h.cmd \in NotKept THEN c.trash ELSE Append(c.trash, h)
           d == IF c.queue = <<>> \/ h.cmd \in Transfers THEN c
                ELSE [c EXCEPT !.queue = Tail(c.queue), !.trash = t]
           Holds(e) == Orderly(asked, e) /\ Stays(c, e)
<1>1. ReadControl(c, code, size) = Answered(d, h, code, size)
  BY DEF ReadControl
<1>2. Cmd("default", None, 0).cmd = "default" /\ Cmd("default", None, 0).req = 0
  BY DEF Cmd
<1>3. c.queue \in Seq(Command) /\ Line(asked, c.report, c.queue)
      /\ c.trash \in Seq(Leading(asked, c.report)) /\ c.trash \in Seq(Command)
  BY DEF Typed, Orderly
<1>4. CASE c.queue = <<>>
  <2>1. d = c /\ h = Cmd("default", None, 0)
    BY <1>4
  <2>2. h.cmd \notin Carrying /\ Fine(asked, c.report, h)
    BY <1>2, <2>1 DEF Carrying, Transfers, Fine
  <2> HIDE DEF d, h
  <2>3. Holds(Answered(c, h, code, size))
    BY <2>1, <2>2, AnsweredOrder
  <2> QED BY <1>1, <2>1, <2>3
<1>5. CASE c.queue # <<>> /\ Head(c.queue).cmd \in Transfers
  <2>1. d = c /\ h = Head(c.queue)
    BY <1>5
  <2> HIDE DEF d, h
  <2>2. Answered(c, h, code, size) = TransferAnswered(c, h, code)
    BY <1>5, <2>1 DEF Answered, Transfers
  <2>3. Holds(TransferAnswered(c, h, code))
    BY <1>5, <2>1, TransferOrder
  <2> QED BY <1>1, <2>1, <2>2, <2>3
<1>6. CASE c.queue # <<>> /\ Head(c.queue).cmd \notin Transfers
  <2>1. d = [c EXCEPT !.queue = Tail(c.queue), !.trash = t] /\ h = Head(c.queue)
    BY <1>6
  <2>2. h \in Command /\ Tail(c.queue) \in Seq(Command) /\ h.cmd \notin Transfers
        /\ h.req \in Requests \cup {0} /\ h.cmd \in CmdNames
    BY <1>3, <1>6, FirstOf, OfCommand
  <2> HIDE DEF h
  <2>3. t \in Seq(Command)
    BY <1>3, <2>2, AppendProperties
  <2>4. Typed(d) /\ d.queue = Tail(c.queue) /\ d.trash = t /\ d.report = c.report
    <3> HIDE DEF t
    <3> QED BY <2>1, <2>2, <2>3 DEF Typed, IsClient
  <2> HIDE DEF d
  <2>5. h.cmd \notin Carriers
    BY <2>2 DEF Carriers, Transfers
  <2>6. /\ Line(asked, c.report, Tail(c.queue)) /\ Fine(asked, c.report, h)
        /\ h.cmd # "transferEnd"
        /\ h.cmd \in Carrying => \A l \in 1 .. Len(Tail(c.queue)) :
             Tail(c.queue)[l].cmd \in Carrying \cup {"RNFR"} => Tail(c.queue)[l].req # h.req
    BY <1>3, <1>6, <2>1, <2>5, TailOrder DEF IsEnd
  <2>7. CASE h.cmd \in Carrying
    <3> DEFINE e == [d EXCEPT !.trash = <<>>]
    <3>1. h.cmd \in {"MKD", "DELE", "RNTO"}
      BY <2>2, <2>7 DEF Carrying
    <3>2. Answered(d, h, code, size) = SimpleAnswered(d, h, code)
      BY <3>1 DEF Answered, Transfers
    <3>3. Typed(e) /\ e.queue = Tail(c.queue) /\ e.trash = <<>> /\ e.report = c.report
      <4>1. Typed(d) /\ IsClient(d)
        BY <2>4 DEF Typed
      <4>2. e.queue = d.queue /\ e.trash = <<>> /\ e.report = d.report
        BY <4>1 DEF IsClient
      <4>3. Typed(e)
        BY <4>1 DEF Typed, IsClient
      <4> QED BY <2>4, <4>2, <4>3
    <3>4. SimpleAnswered(d, h, code) =
            NextCommand(Report(e, h.req, IF code = 2 THEN "done" ELSE "failed"))
      BY DEF SimpleAnswered
    <3> HIDE DEF e, Holds
    <3>5. ASSUME NEW what \in {"done", "failed"}
          PROVE Holds(NextCommand(Report(e, h.req, what)))
      BY <2>2, <2>6, <2>7, <3>3, CarriedReport DEF Holds
    <3>6. Holds(SimpleAnswered(d, h, code))
      BY <3>4, <3>5
    <3> QED BY <1>1, <3>2, <3>6 DEF Holds
  <2>8. CASE h.cmd \notin Carrying
    <3> DEFINE L == Leading(asked, c.report)
    <3>1. h.cmd \in NotKept \/ h.cmd \in {"CWD", "TYPE", "PASV", "RNFR"}
      BY <2>2, <2>6, <2>8 DEF CmdNames, NotKept, Carrying, Transfers
    <3>2. h.cmd \notin NotKept => h \in L
      BY <2>2, <2>6, <3>1 DEF Leading
    <3>3. t \in Seq(L)
      <4> HIDE DEF L
      <4> QED BY <1>3, <3>2, AppendProperties DEF L
    <3>4. Orderly(asked, d)
      BY <2>4, <2>6, <3>3 DEF Orderly
    <3>5. Fine(asked, d.report, h)
      BY <2>4, <2>6
    <3>6. Orderly(asked, Answered(d, h, code, size)) /\ Stays(d, Answered(d, h, code, size))
      BY <2>2, <2>4, <2>8, <3>4, <3>5, AnsweredOrder
    <3>7. Stays(c, Answered(d, h, code, size))
      BY <2>4, <3>6 DEF Stays
    <3> QED BY <1>1, <3>6, <3>7
  <2> QED BY <2>7, <2>8
<1> QED BY <1>4, <1>5, <1>6

\* What a request puts in the queue carries it out once, at the end.
LEMMA WishLine ==
    ASSUME NEW r \in Requests, NEW a \in Wishes, NEW w, NEW report, w[r] = a, a # None,
           report[r] = "none"
    PROVE  Line(w, report, Commands(r, a))
<1> DEFINE C(cmd, arg) == Cmd(cmd, arg, r)
           L == Light(w, report)
           Free == {"CWD", "TYPE", "SIZE", "REST", "PASV"}
<1>1. /\ r # 0 /\ a.dir \in Dirs /\ a.resume \in BOOLEAN /\ a.kind \in Kinds
      /\ \A cmd, arg : C(cmd, arg).cmd = cmd /\ C(cmd, arg).req = r
  BY RequestTypes DEF Wishes, Cmd
<1>2. \A cmd \in Free : \A arg : Fine(w, report, C(cmd, arg)) /\ cmd \notin Carrying
                                 /\ cmd # "transferEnd"
  <2>1. \A cmd \in Free : cmd \notin Carrying \cup {"RNFR", "RNTO", "transferEnd"}
    BY DEF Carrying, Transfers
  <2> HIDE DEF C, Free
  <2> QED BY <1>1, <2>1 DEF Fine
<1>3. \A arg : Fine(w, report, C("transferEnd", arg))
  BY <1>1 DEF Fine, Carrying, Transfers
<1>4. a.kind = "rename" => \A cmd \in {"RNFR", "RNTO"} : Fine(w, report, C(cmd, None))
  <2>1. "RNFR" \notin Carrying
    BY DEF Carrying, Transfers
  <2> HIDE DEF C
  <2> QED BY <1>1, <2>1 DEF Fine
<1>5. a.kind \notin {"rename", "cd"} =>
        \A cmd \in Carrying \ {"RNTO"} : \A arg : Fine(w, report, C(cmd, arg))
  <2>1. "RNFR" \notin Carrying
    BY DEF Carrying, Transfers
  <2> HIDE DEF C
  <2> QED BY <1>1, <2>1 DEF Fine
<1>a. /\ C("CWD", a.dir) \in Command
      /\ C("TYPE", "A") \in Command /\ C("TYPE", "I") \in Command
      /\ C("SIZE", "APPE") \in Command
      /\ C("REST", 1) \in Command /\ C("APPE", 1) \in Command
      /\ C("RETR", None) \in Command /\ C("STOR", None) \in Command
  BY <1>1, CommandTypes DEF CmdNames
<1>b. /\ C("MKD", None) \in Command /\ C("DELE", None) \in Command
      /\ C("RNFR", None) \in Command /\ C("RNTO", None) \in Command
      /\ C("PASV", None) \in Command /\ C("LIST", None) \in Command
      /\ C("transferEnd", None) \in Command
  BY PlainCommand DEF CmdNames
<1>6. /\ C("CWD", a.dir) \in L /\ C("TYPE", "A") \in L /\ C("TYPE", "I") \in L
      /\ C("SIZE", "APPE") \in L /\ C("REST", 1) \in L /\ C("PASV", None) \in L
  <2>1. \A cmd \in Free : \A arg : C(cmd, arg) \in Command => C(cmd, arg) \in L
    <3> HIDE DEF C, Free
    <3> QED BY <1>1, <1>2 DEF Light
  <2>2. {"CWD", "TYPE", "SIZE", "REST", "PASV"} \subseteq Free
    OBVIOUS
  <2> HIDE DEF C, Free, L
  <2> QED BY <1>a, <1>b, <2>1, <2>2
<1>7. a.kind = "rename" => C("RNFR", None) \in L
  <2>1. "RNFR" \notin Carrying
    BY DEF Carrying, Transfers
  <2> HIDE DEF C
  <2> QED BY <1>1, <1>4, <1>b, <2>1 DEF Light
<1>8. ASSUME NEW x, Fine(w, report, x), x.cmd \in Carrying \ Carriers
      PROVE  Line(w, report, <<x>>)
  <2> DEFINE t == <<x>>
  <2>1. Len(t) = 1 /\ t[1] = x
    OBVIOUS
  <2>2. ~ IsEnd(x) /\ x.cmd \notin Carriers
    BY <1>8 DEF IsEnd, Carrying, Transfers
  <2> HIDE DEF t
  <2>3. \A k \in 1 .. Len(t) : k = 1 /\ t[k] = x
    BY <2>1
  <2>4. Line(w, report, t)
    BY <1>8, <2>2, <2>3 DEF Line
  <2> QED BY <2>4 DEF t
<1>9. ASSUME NEW x, NEW y, Fine(w, report, x), x.cmd \in Carriers, Fine(w, report, y),
             y.cmd = "transferEnd", x.req = y.req
      PROVE  Line(w, report, <<x, y>>)
  <2> DEFINE t == <<x, y>>
  <2>1. Len(t) = 2 /\ t[1] = x /\ t[2] = y
    OBVIOUS
  <2>2. ~ IsEnd(x) /\ y.cmd \notin Carriers /\ IsEnd(y)
        /\ y.cmd \notin Carrying \cup {"RNFR"}
    BY <1>9 DEF IsEnd, Carriers, Carrying, Transfers
  <2> HIDE DEF t
  <2>3. \A k \in 1 .. Len(t) : (k = 1 /\ t[k] = x) \/ (k = 2 /\ t[k] = y)
    BY <2>1
  <2>4. \A k \in 1 .. Len(t) : Fine(w, report, t[k])
    BY <1>9, <2>3
  <2>5. \A k \in 1 .. Len(t) : t[k].cmd \in Carriers =>
          k < Len(t) /\ IsEnd(t[k + 1]) /\ t[k + 1].req = t[k].req
    BY <1>9, <2>1, <2>2, <2>3
  <2>6. \A k \in 1 .. Len(t) : IsEnd(t[k]) =>
          k > 1 /\ t[k - 1].cmd \in Carriers /\ t[k - 1].req = t[k].req
    BY <1>9, <2>1, <2>2, <2>3
  <2>7. \A k \in 1 .. Len(t) : t[k].cmd \in Carrying => \A l \in 1 .. Len(t) :
          l > k /\ t[l].cmd \in Carrying \cup {"RNFR"} => t[l].req # t[k].req
    BY <2>2, <2>3
  <2>8. Line(w, report, t)
    BY <2>4, <2>5, <2>6, <2>7 DEF Line
  <2> QED BY <2>8 DEF t
<1> DEFINE rest == IF a.resume THEN <<C("REST", 1)>> ELSE <<>>
           size == IF a.resume THEN <<C("SIZE", "APPE")>> ELSE <<>>
           up == IF a.resume THEN C("APPE", 1) ELSE C("STOR", None)
           end == C("transferEnd", None)
           Goal == Line(w, report, Commands(r, a))
<1>10. {"MKD", "DELE", "RNTO", "LIST"} \subseteq Carrying \ Carriers
       /\ {"RETR", "STOR", "APPE"} = Carriers /\ Carriers \subseteq Carrying \ {"RNTO"}
  BY DEF Carrying, Carriers, Transfers
<1>11. a.kind \in {"cd", "mkdir", "remove", "rename", "list", "download", "upload"}
  BY <1>1, FtpAssumption
<1>12. CASE a.kind = "cd"
  <2>1. Commands(r, a) = <<C("CWD", a.dir)>> \o <<>>
    BY <1>12 DEF Commands
  <2> HIDE DEF C, L
  <2>2. <<C("CWD", a.dir)>> \in Seq(L) /\ <<>> \in Seq(Command)
    BY <1>6
  <2> QED BY <2>1, <2>2, EmptyLine, FrontLine DEF L
<1>13. ASSUME NEW p \in Seq(L), NEW cmd \in {"MKD", "DELE", "RNTO", "LIST"},
              C(cmd, None) \in Command, Fine(w, report, C(cmd, None)),
              Commands(r, a) = p \o <<C(cmd, None)>>
       PROVE  Goal
  <2> HIDE DEF C
  <2>1. Line(w, report, <<C(cmd, None)>>) /\ <<C(cmd, None)>> \in Seq(Command)
    BY <1>1, <1>8, <1>10, <1>13
  <2> QED BY <1>13, <2>1, FrontLine DEF L
<1>14. CASE a.kind \in {"mkdir", "remove"}
  <2> DEFINE cmd == IF a.kind = "mkdir" THEN "MKD" ELSE "DELE"
             p == <<C("CWD", a.dir)>>
  <2>1. Commands(r, a) = p \o <<C(cmd, None)>>
    BY <1>14 DEF Commands
  <2>2. cmd \in {"MKD", "DELE"} /\ cmd \in Carrying \ {"RNTO"}
    BY DEF Carrying
  <2> HIDE DEF C, L, cmd, Goal
  <2>3. p \in Seq(L)
    BY <1>6
  <2>4. Fine(w, report, C(cmd, None)) /\ C(cmd, None) \in Command
    BY <1>14, <1>5, <1>b, <2>2
  <2> HIDE DEF p
  <2>5. Goal
    BY <1>13, <2>1, <2>2, <2>3, <2>4
  <2> QED BY <2>5 DEF Goal
<1>15. CASE a.kind = "rename"
  <2> DEFINE p == <<C("RNFR", None)>>
  <2>1. Commands(r, a) = p \o <<C("RNTO", None)>>
    BY <1>15 DEF Commands
  <2> HIDE DEF C, L, Goal
  <2>3. p \in Seq(L)
    BY <1>7, <1>15
  <2> HIDE DEF p
  <2>5. Goal
    BY <1>13, <1>15, <1>4, <1>b, <2>1, <2>3
  <2> QED BY <2>5 DEF Goal
<1>16. CASE a.kind = "list"
  <2> DEFINE p == <<C("TYPE", "A"), C("CWD", a.dir), C("PASV", None)>>
  <2>1. Commands(r, a) = p \o <<C("LIST", None)>>
    BY <1>16 DEF Commands
  <2> HIDE DEF C, L, Goal
  <2>3. p \in Seq(L)
    BY <1>6
  <2>4. Fine(w, report, C("LIST", None))
    BY <1>16, <1>5, <1>10
  <2> HIDE DEF p
  <2>5. Goal
    BY <1>13, <1>b, <2>1, <2>3, <2>4
  <2> QED BY <2>5 DEF Goal
<1>17. ASSUME NEW p \in Seq(L), NEW x \in Command, Fine(w, report, x), x.cmd \in Carriers,
              x.req = r, Commands(r, a) = p \o <<x, end>>
       PROVE  Goal
  <2>1. end.cmd = "transferEnd" /\ end.req = r /\ Fine(w, report, end) /\ end \in Command
    BY <1>1, <1>3, <1>b
  <2> HIDE DEF C, end
  <2>2. Line(w, report, <<x, end>>) /\ <<x, end>> \in Seq(Command)
    BY <1>9, <1>17, <2>1
  <2> QED BY <1>17, <2>2, FrontLine DEF L
<1>18. CASE a.kind = "download"
  <2> DEFINE s == <<C("CWD", a.dir), C("TYPE", "I"), C("PASV", None)>>
             p == s \o rest
  <2>1. Commands(r, a) = p \o <<C("RETR", None), end>>
    BY <1>18 DEF Commands
  <2> HIDE DEF C, L, end, Goal
  <2>3. s \in Seq(L) /\ rest \in Seq(L)
    BY <1>6
  <2>4. p \in Seq(L)
    <3> HIDE DEF s, rest
    <3> QED BY <2>3, ConcatProperties
  <2>5. Fine(w, report, C("RETR", None))
    BY <1>18, <1>5, <1>10
  <2> HIDE DEF p
  <2>6. Goal
    BY <1>1, <1>10, <1>17, <1>a, <2>1, <2>4, <2>5
  <2> QED BY <2>6 DEF Goal
<1>19. CASE a.kind = "upload"
  <2> DEFINE s == <<C("CWD", a.dir), C("TYPE", "I")>>
             v == <<C("PASV", None)>>
             p == (s \o size) \o v
  <2>1. Commands(r, a) = (s \o size) \o <<C("PASV", None), up, end>>
    BY <1>19 DEF Commands
  <2> HIDE DEF C, L, end, Goal
  <2>2. s \in Seq(L) /\ size \in Seq(L) /\ v \in Seq(L)
    BY <1>6
  <2>3. s \o size \in Seq(L)
    <3> HIDE DEF s, size
    <3> QED BY <2>2, ConcatProperties
  <2>4. p \in Seq(L)
    <3> HIDE DEF s, size, v
    <3> QED BY <2>2, <2>3, ConcatProperties
  <2>5. /\ up \in Command /\ Fine(w, report, up) /\ up.cmd \in Carriers /\ up.req = r
    BY <1>1, <1>10, <1>19, <1>5, <1>a
  <2> HIDE DEF up
  <2>6. Commands(r, a) = p \o <<up, end>>
    <3> DEFINE u == s \o size
    <3>1. u \in Seq(L)
      BY <2>3
    <3> HIDE DEF u, s, size
    <3>2. u \o <<C("PASV", None), up, end>> = (u \o <<C("PASV", None)>>) \o <<up, end>>
      BY <3>1
    <3> QED BY <2>1, <3>2 DEF u, v
  <2> HIDE DEF p
  <2>7. Goal
    BY <1>17, <2>4, <2>5, <2>6
  <2> QED BY <2>7 DEF Goal
<1> QED BY <1>11, <1>12, <1>14, <1>15, <1>16, <1>18, <1>19 DEF Goal

----------------------------------------------------------------------------
OrderInv == asked \in [Requests -> Wishes \cup {None}] /\ Orderly(asked, ftp)

LEMMA OrderInit ==
    ASSUME Init PROVE OrderInv
<1>1. ftp.queue = <<>> /\ ftp.trash = <<>> /\ \A r \in Requests : ftp.report[r] = "none"
  BY DEF Init
<1>2. Line(asked, ftp.report, ftp.queue)
  BY <1>1, EmptyLine
<1>3. ftp.trash \in Seq(Leading(asked, ftp.report))
  BY <1>1
<1>4. Truthful(asked, ftp.report)
  BY <1>1 DEF Truthful
<1>5. asked \in [Requests -> Wishes \cup {None}]
  BY DEF Init
<1> QED BY <1>2, <1>3, <1>4, <1>5 DEF Orderly, OrderInv

\* What was in order stays so when a request is added that nothing belongs to yet.
LEMMA NewWish ==
    ASSUME NEW w, w \in [Requests -> Wishes \cup {None}], NEW c, Typed(c), Orderly(w, c),
           NEW r \in Requests, NEW a \in Wishes, w[r] = None
    PROVE  LET v == [w EXCEPT ![r] = a]
           IN /\ Orderly(v, c) /\ c.report[r] = "none"
              /\ \A k \in 1 .. Len(c.queue) :
                   c.queue[k].cmd \in Carrying \cup {"RNFR"} => c.queue[k].req # r
<1> DEFINE v == [w EXCEPT ![r] = a]
           report == c.report
<1>1. /\ v[r] = a /\ a # None
      /\ \A s \in Requests : s # r => v[s] = w[s]
  BY NoneAssumption
<1>2. Line(w, report, c.queue) /\ c.trash \in Seq(Leading(w, report)) /\ Truthful(w, report)
      /\ c.queue \in Seq(Command)
  BY DEF Orderly, Typed
<1> HIDE DEF v, report
<1>3. ASSUME NEW x \in Command, Fine(w, report, x)
      PROVE  Fine(v, report, x) /\ x.req # r
  <2>1. x.req \in Requests \cup {0} /\ 0 \notin Requests
    BY OfCommand, RequestTypes
  <2>2. x.req # r
    BY <1>3, <2>1 DEF Fine
  <2>3. x.req = 0 \/ v[x.req] = w[x.req]
    BY <1>1, <2>1, <2>2
  <2>4. x.req = 0 => x.cmd \notin Carrying \cup {"RNFR", "RNTO", "transferEnd"}
    BY <1>3 DEF Fine, Carrying
  <2> QED BY <1>3, <2>2, <2>3, <2>4 DEF Fine
<1>4. \A k \in 1 .. Len(c.queue) : Fine(v, report, c.queue[k]) /\ c.queue[k].req # r
  <2>1. \A k \in 1 .. Len(c.queue) : c.queue[k] \in Command /\ Fine(w, report, c.queue[k])
    BY <1>2, Elements DEF Line
  <2> QED BY <1>3, <2>1
<1>5. Line(v, report, c.queue)
  BY <1>2, <1>4 DEF Line
<1>6. Leading(w, report) \subseteq Leading(v, report)
  BY <1>3 DEF Leading
<1>7. c.trash \in Seq(Leading(v, report))
  BY <1>2, <1>6
<1>8. report[r] = "none"
  BY <1>2 DEF Truthful
<1>9. Truthful(v, report)
  BY <1>1, <1>2, <1>8 DEF Truthful
<1> QED BY <1>4, <1>5, <1>7, <1>8, <1>9 DEF Orderly, report, v

LEMMA AskOrder ==
    ASSUME TypeInv, OrderInv, NEW r \in Requests, NEW a \in Wishes, Ask(r, a)
    PROVE  OrderInv' /\ Stays(ftp, ftp')
<1> DEFINE cs == Commands(r, a)
           q == IF a.kind = "remove" THEN cs \o ftp.queue ELSE ftp.queue \o cs
           c == [ftp EXCEPT !.queue = q]
           w == [asked EXCEPT ![r] = a]
<1>1. Typed(ftp) /\ ftp.queue \in Seq(Command) /\ cs \in Seq(OfRequest(r))
      /\ cs \in Seq(Command)
  BY WishTypes DEF TypeInv, Typed
<1>2. asked[r] = None /\ asked' = w /\ ftp' = WriteControl(c)
  <2>1. r >= r
    BY RequestTypes
  <2> QED BY <2>1 DEF Ask
<1>3. asked \in [Requests -> Wishes \cup {None}] /\ Orderly(asked, ftp)
  BY DEF OrderInv
<1>4. /\ Orderly(w, ftp) /\ ftp.report[r] = "none"
      /\ \A k \in 1 .. Len(ftp.queue) :
           ftp.queue[k].cmd \in Carrying \cup {"RNFR"} => ftp.queue[k].req # r
  BY <1>1, <1>2, <1>3, NewWish
<1>5. w[r] = a /\ a # None /\ w \in [Requests -> Wishes \cup {None}]
  BY <1>3, NoneAssumption
<1> HIDE DEF w
<1>6. Line(w, ftp.report, cs)
  BY <1>4, <1>5, WishLine
<1>7. \A k \in 1 .. Len(cs) : cs[k].req = r
  <2>1. \A k \in 1 .. Len(cs) : cs[k] \in OfRequest(r)
    BY <1>1, Elements
  <2> QED BY <2>1 DEF OfRequest
<1>8. Line(w, ftp.report, ftp.queue)
  BY <1>4 DEF Orderly
<1> HIDE DEF cs
<1>9. \A k \in 1 .. Len(ftp.queue) : ftp.queue[k].cmd \in Carrying => ftp.queue[k].req # r
  BY <1>4
<1>10. \A k \in 1 .. Len(ftp.queue) : ftp.queue[k].cmd \in Carrying => \A l \in 1 .. Len(cs) :
         cs[l].cmd \in Carrying \cup {"RNFR"} => cs[l].req # ftp.queue[k].req
  BY <1>7, <1>9
<1>11. \A k \in 1 .. Len(cs) : cs[k].cmd \in Carrying => \A l \in 1 .. Len(ftp.queue) :
         ftp.queue[l].cmd \in Carrying \cup {"RNFR"} => ftp.queue[l].req # cs[k].req
  BY <1>4, <1>7
<1>12. Line(w, ftp.report, ftp.queue \o cs)
  BY <1>1, <1>6, <1>8, <1>10, JoinLine
<1>13. Line(w, ftp.report, cs \o ftp.queue)
  BY <1>1, <1>6, <1>8, <1>11, JoinLine
<1>14. q \in Seq(Command) /\ Line(w, ftp.report, q)
  BY <1>1, <1>12, <1>13, ConcatProperties
<1> HIDE DEF q
<1>15. Typed(c)
  BY <1>1, <1>14, QueueTypes
<1>16. c.queue = q /\ c.trash = ftp.trash /\ c.report = ftp.report
  BY <1>1 DEF Typed, IsClient
<1> HIDE DEF c
<1>17. Orderly(w, c)
  BY <1>4, <1>14, <1>16, QueueOrder
<1>18. Orderly(w, ftp') /\ ftp'.report = ftp.report
  BY <1>2, <1>15, <1>16, <1>17, WriteOrder
<1> QED BY <1>2, <1>5, <1>18, SelfStays DEF OrderInv

\* A step that asks for nothing.
LEMMA OrderKept ==
    ASSUME OrderInv, asked' = asked, Orderly(asked, ftp') PROVE OrderInv'
  BY DEF OrderInv

LEMMA UserOrder ==
    ASSUME TypeInv, OrderInv, Connect \/ Cancel \/ Abort \/ Disconnect
    PROVE  OrderInv' /\ Stays(ftp, ftp')
<1>0. /\ Typed(ftp) /\ IsClient(ftp) /\ Orderly(asked, ftp) /\ asked' = asked
      /\ ftp.queue \in Seq(Command) /\ Line(asked, ftp.report, ftp.queue)
  BY DEF TypeInv, Typed, OrderInv, Orderly, Connect, Cancel, Abort, Disconnect
<1> SUFFICES Orderly(asked, ftp') /\ ftp'.report = ftp.report
  BY <1>0, OrderKept, SelfStays
<1>1. CASE Connect
  <2> DEFINE c == [ftp EXCEPT !.isReconnecting = FALSE, !.reconnectsLeft = Attempts]
  <2>1. Typed(c) /\ c.queue = ftp.queue /\ c.trash = ftp.trash /\ c.report = ftp.report
    BY <1>0, RequestTypes DEF Typed, IsClient
  <2>2. ftp' = Connecting(c)
    BY <1>1 DEF Connect
  <2> HIDE DEF c
  <2>3. Orderly(asked, c)
    BY <1>0, <2>1, SameOrder
  <2> QED BY <2>1, <2>2, <2>3, ConnectingOrder
<1>2. CASE Cancel
  <2> DEFINE q == ftp.queue
             ends == {k \in Ends(q) : ftp.data # None /\ ftp.isConnected
                                       /\ q[k].req = ftp.data.id}
             n == CHOOSE k \in ends : \A l \in ends : k <= l
             rest == IF ends = {} THEN q ELSE SubSeq(q, n + 1, Len(q))
             new == IF ftp.isConnected THEN <<Cmd("aborted", None, 0)>> \o rest ELSE rest
             data == IF ftp.isConnected THEN None ELSE ftp.data
  <2>1. rest \in Seq(Command) /\ Line(asked, ftp.report, rest)
    <3>1. ends \subseteq Nat
      BY <1>0, Elements DEF Ends
    <3>2. ends # {} => n \in ends
      <4> HIDE DEF ends
      <4> QED BY <3>1, LeastOf
    <3>3. ends # {} => n \in 0 .. Len(q) /\ n \in Nat /\ q[n].cmd \notin Carriers
      BY <1>0, <3>2, Elements DEF Ends, IsEnd, Carriers
    <3> HIDE DEF n, q, ends
    <3>4. ends # {} => Cut(SubSeq(q, n + 1, Len(q)), q, n)
      BY <1>0, <3>3, SubSeqCuts DEF q
    <3>5. ends # {} => Line(asked, ftp.report, SubSeq(q, n + 1, Len(q)))
      BY <1>0, <3>3, <3>4, CutLine DEF q
    <3>6. ends # {} => SubSeq(q, n + 1, Len(q)) \in Seq(Command)
      BY <1>0, <3>3, RestOf DEF q
    <3> QED BY <1>0, <3>5, <3>6 DEF q
  <2>2. Line(asked, ftp.report, new)
    <3> HIDE DEF rest
    <3>1. Line(asked, ftp.report, <<Cmd("aborted", None, 0)>> \o rest)
      BY <2>1, InternalLight, FrontOne
    <3> QED BY <2>1, <3>1
  <2>3. ftp' = [ftp EXCEPT !.trash = <<>>, !.data = data, !.queue = new]
    BY <1>2 DEF Cancel
  <2> HIDE DEF new, data
  <2>4. ftp'.queue = new /\ ftp'.trash = <<>> /\ ftp'.report = ftp.report
    BY <1>0, <2>3 DEF IsClient
  <2> QED BY <1>0, <2>2, <2>4, QueueOrder
<1>3. CASE Abort
  <2> DEFINE b == [ftp EXCEPT !.isReconnecting = FALSE]
             c == Cleanup(b)
             q == <<Cmd("aborted", None, 0)>>
             d == [c EXCEPT !.queue = q, !.data = None, !.isReady = ftp.data = None]
  <2>1. Typed(b) /\ b.queue = ftp.queue /\ b.trash = ftp.trash /\ b.report = ftp.report
    BY <1>0 DEF Typed, IsClient
  <2> HIDE DEF b
  <2>2. Orderly(asked, b)
    BY <1>0, <2>1, SameOrder
  <2>3. Typed(c) /\ Orderly(asked, c) /\ c.report = ftp.report /\ c.trash = <<>>
    BY <2>1, <2>2, CleanupTypes, CleanupOrder
  <2>4. Line(asked, ftp.report, q)
    <3>1. <<Cmd("aborted", None, 0)>> \o <<>> = <<Cmd("aborted", None, 0)>>
          /\ <<>> \in Seq(Command)
      OBVIOUS
    <3>2. Line(asked, ftp.report, <<Cmd("aborted", None, 0)>> \o <<>>)
      BY <3>1, EmptyLine, InternalLight, FrontOne
    <3> QED BY <3>1, <3>2
  <2> HIDE DEF c, q
  <2>5. d.queue = q /\ d.trash = <<>> /\ d.report = ftp.report
    BY <2>3 DEF Typed, IsClient
  <2>6. ftp' = c \/ ftp' = d
    BY <1>3 DEF Abort, b, c, q
  <2> HIDE DEF d
  <2>7. Orderly(asked, d)
    BY <1>0, <2>4, <2>5, QueueOrder
  <2> QED BY <2>3, <2>5, <2>6, <2>7
<1>4. CASE Disconnect
  <2> DEFINE b == Cleanup(ftp)
             c == [b EXCEPT !.legitClose = TRUE, !.data = None]
  <2>1. Typed(b) /\ Orderly(asked, b) /\ b.report = ftp.report
    BY <1>0, CleanupTypes, CleanupOrder
  <2>2. ftp' = Kill(c)
    BY <1>4 DEF Disconnect
  <2> HIDE DEF b
  <2>3. Typed(c) /\ c.queue = b.queue /\ c.trash = b.trash /\ c.report = b.report
    BY <2>1 DEF Typed, IsClient
  <2> HIDE DEF c
  <2>4. Orderly(asked, c)
    BY <2>1, <2>3, SameOrder
  <2> QED BY <2>1, <2>2, <2>3, <2>4, KillOrder
<1> QED BY <1>1, <1>2, <1>3, <1>4

\* A reply is read, or a finished transfer is looked at again.
LEMMA ReadStays ==
    ASSUME TypeInv, OrderInv, asked' = asked, NEW c, Typed(c), c.queue = ftp.queue,
           c.trash = ftp.trash, c.report = ftp.report, NEW code, NEW size \in Nat,
           ftp' = ReadControl(c, code, size)
    PROVE  OrderInv' /\ Stays(ftp, ftp')
<1>1. Orderly(asked, c)
  BY SameOrder DEF OrderInv
<1>2. Orderly(asked, ftp') /\ Stays(c, ftp')
  BY <1>1, ReadOrder DEF TypeInv
<1>3. Stays(ftp, ftp')
  BY <1>2 DEF Stays
<1> QED BY <1>2, <1>3, OrderKept

LEMMA TimerOrder ==
    ASSUME TypeInv, OrderInv,
           KeepAlive \/ CheckTimeout \/ CheckDataTimeout \/ PollAgain \/ Reconnect
    PROVE  OrderInv' /\ Stays(ftp, ftp')
<1>0. /\ Typed(ftp) /\ IsClient(ftp) /\ Attempting /\ Orderly(asked, ftp) /\ asked' = asked
  BY DEF TypeInv, Typed, OrderInv, KeepAlive, CheckTimeout, CheckDataTimeout, PollAgain, Reconnect
<1>1. CASE KeepAlive
  <2> DEFINE q == <<Cmd("NOOP", None, 0)>>
             c == [ftp EXCEPT !.queue = q]
  <2>1. q \in Seq(Command) /\ Line(asked, ftp.report, q)
    <3>1. <<Cmd("NOOP", None, 0)>> \o <<>> = <<Cmd("NOOP", None, 0)>>
          /\ <<>> \in Seq(Command)
      OBVIOUS
    <3>2. Line(asked, ftp.report, <<Cmd("NOOP", None, 0)>> \o <<>>)
      BY <3>1, EmptyLine, InternalLight, FrontOne
    <3> QED BY <3>1, <3>2, InternalCommands
  <2>2. ftp' = WriteControl(c)
    BY <1>1 DEF KeepAlive
  <2> HIDE DEF q
  <2>3. Typed(c) /\ c.queue = q /\ c.trash = ftp.trash /\ c.report = ftp.report
    BY <1>0, <2>1, QueueTypes DEF Typed, IsClient
  <2> HIDE DEF c
  <2>4. Orderly(asked, c)
    BY <1>0, <2>1, <2>3, QueueOrder
  <2>5. Orderly(asked, ftp') /\ ftp'.report = ftp.report
    BY <2>2, <2>3, <2>4, WriteOrder
  <2> QED BY <1>0, <2>5, OrderKept, SelfStays
<1>2. CASE CheckTimeout \/ CheckDataTimeout
  <2> DEFINE c == [ftp EXCEPT !.legitClose = FALSE, !.data = None]
  <2>1. Typed(c) /\ c.queue = ftp.queue /\ c.trash = ftp.trash /\ c.report = ftp.report
    BY <1>0 DEF Typed, IsClient
  <2>2. ftp' = Kill(c)
    BY <1>2 DEF CheckTimeout, CheckDataTimeout, ResetConnection
  <2> HIDE DEF c
  <2>3. Orderly(asked, c)
    BY <1>0, <2>1, SameOrder
  <2>4. Orderly(asked, ftp') /\ ftp'.report = ftp.report
    BY <2>1, <2>2, <2>3, KillOrder
  <2> QED BY <1>0, <2>4, OrderKept, SelfStays
<1>3. CASE PollAgain
  <2> DEFINE c == [ftp EXCEPT !.polls = ftp.polls - 1]
  <2>1. ftp.polls \in Nat /\ ftp.polls > 0
    BY <1>0, <1>3 DEF PollAgain, Typed
  <2>2. Typed(c) /\ c.queue = ftp.queue /\ c.trash = ftp.trash /\ c.report = ftp.report
    BY <1>0, <2>1 DEF Typed, IsClient
  <2>3. ftp' = c \/ ftp' = ReadControl(c, 2, 0)
    BY <1>3 DEF PollAgain
  <2> HIDE DEF c
  <2>4. ftp' = c => OrderInv' /\ Stays(ftp, ftp')
    <3>1. Orderly(asked, c)
      BY <1>0, <2>2, SameOrder
    <3> QED BY <1>0, <2>2, <3>1, OrderKept, SelfStays
  <2>5. 0 \in Nat
    OBVIOUS
  <2> QED BY <1>0, <2>2, <2>3, <2>4, <2>5, ReadStays
<1>4. CASE Reconnect
  <2> DEFINE c == [ftp EXCEPT !.retries = ftp.retries - 1]
             d == [c EXCEPT !.reconnectsLeft = c.reconnectsLeft - 1]
  <2>1. ftp.retries = 1 /\ ftp.reconnectsLeft - 1 \in 0 .. Attempts
    BY <1>0, <1>4, RequestTypes DEF Reconnect, Attempting, Typed
  <2>2. Typed(c) /\ c.queue = ftp.queue /\ c.trash = ftp.trash /\ c.report = ftp.report
        /\ c.reconnectsLeft = ftp.reconnectsLeft
    BY <1>0, <2>1 DEF Typed, IsClient
  <2>3. ftp' = c \/ ftp' = Connecting(d)
    BY <1>4 DEF Reconnect
  <2> HIDE DEF c
  <2>4. Typed(d) /\ d.queue = ftp.queue /\ d.trash = ftp.trash /\ d.report = ftp.report
    BY <2>1, <2>2 DEF Typed, IsClient
  <2> HIDE DEF d
  <2>5. Orderly(asked, c) /\ Orderly(asked, d)
    BY <1>0, <2>2, <2>4, SameOrder
  <2>6. Orderly(asked, Connecting(d)) /\ Connecting(d).report = ftp.report
    BY <2>4, <2>5, ConnectingOrder
  <2> QED BY <1>0, <2>2, <2>3, <2>5, <2>6, OrderKept, SelfStays
<1> QED BY <1>1, <1>2, <1>3, <1>4

LEMMA ServerOrder ==
    ASSUME TypeInv, OrderInv,
           Accept \/ StopRequest \/ OnDataAvailable \/ Execute \/ DataMoves \/ DataFinishes
           \/ TransferEnds
    PROVE  OrderInv' /\ Stays(ftp, ftp')
<1>0. /\ Typed(ftp) /\ IsClient(ftp) /\ Orderly(asked, ftp) /\ asked' = asked
      /\ replies \in Seq(Reply)
  BY DEF TypeInv, Typed, OrderInv, Accept, StopRequest, OnDataAvailable, Execute, DataMoves,
         DataFinishes, TransferEnds
<1>1. CASE Accept \/ Execute \/ DataMoves \/ DataFinishes \/ TransferEnds
  <2>1. /\ ftp'.queue = ftp.queue /\ ftp'.trash = ftp.trash /\ ftp'.report = ftp.report
    <3>1. CASE Accept
      BY <1>0, <3>1 DEF Accept, IsClient
    <3>2. CASE Execute
      BY <1>0, <3>2 DEF Execute, IsClient
    <3>3. CASE DataMoves
      BY <1>0, <3>3 DEF DataMoves, IsClient
    <3>4. CASE DataFinishes
      BY <1>0, <3>4 DEF DataFinishes, IsClient
    <3>5. CASE TransferEnds
      BY <3>5 DEF TransferEnds
    <3> QED BY <1>1, <3>1, <3>2, <3>3, <3>4, <3>5
  <2>2. Orderly(asked, ftp')
    BY <1>0, <2>1, SameOrder
  <2> QED BY <1>0, <2>1, <2>2, OrderKept, SelfStays
<1>2. CASE StopRequest
  <2>1. ftp' = OnDisconnect(ftp)
    BY <1>2 DEF StopRequest
  <2>2. Orderly(asked, ftp') /\ ftp'.report = ftp.report
    BY <1>0, <2>1, DisconnectOrder
  <2> QED BY <1>0, <2>2, OrderKept, SelfStays
<1>3. CASE OnDataAvailable
  <2> DEFINE c == [ftp EXCEPT !.ctl = None]
  <2>1. Typed(c) /\ c.queue = ftp.queue /\ c.trash = ftp.trash /\ c.report = ftp.report
    BY <1>0 DEF Typed, IsClient
  <2>2. PICK n \in 1 .. Len(replies) :
          ftp' = ReadControl(c, replies[n].code, replies[n].size)
    BY <1>3 DEF OnDataAvailable
  <2>3. replies[n].size \in Nat
    <3>1. replies[n] \in Reply
      BY <1>0, Elements
    <3> QED BY <3>1 DEF Reply
  <2> HIDE DEF c
  <2> QED BY <1>0, <2>1, <2>2, <2>3, ReadStays
<1> QED BY <1>1, <1>2, <1>3

LEMMA OrderStep ==
    ASSUME TypeInv, OrderInv, [Next]_vars PROVE OrderInv' /\ Stays(ftp, ftp')
<1>1. CASE Next
  BY <1>1, AskOrder, UserOrder, TimerOrder, ServerOrder DEF Next
<1>2. CASE UNCHANGED vars
  <2>1. UNCHANGED <<ftp, asked>>
    BY <1>2 DEF vars
  <2> QED BY <2>1 DEF OrderInv, Stays
<1> QED BY <1>1, <1>2

\* What was reported of a request is never reported otherwise: no command that
\* carries it out is queued or sent again once it is done or has failed, however
\* the connection is lost and recovered, and whatever the user asks for or stops.
THEOREM OneReport == Spec => ReportedOnce
<1>1. Init => TypeInv /\ OrderInv
  BY TypeInit, OrderInit
<1>2. (TypeInv /\ OrderInv) /\ [Next]_vars => (TypeInv /\ OrderInv)'
  <2> SUFFICES ASSUME TypeInv, OrderInv, [Next]_vars PROVE TypeInv' /\ OrderInv'
    OBVIOUS
  <2> QED BY TypeStep, OrderStep
<1>3. (TypeInv /\ OrderInv) /\ [Next]_vars =>
        [\A r \in Requests : ftp.report[r] # "none" => ftp'.report[r] = ftp.report[r]]_vars
  <2> SUFFICES ASSUME TypeInv, OrderInv, [Next]_vars
               PROVE  \A r \in Requests : ftp.report[r] # "none" => ftp'.report[r] = ftp.report[r]
    OBVIOUS
  <2> QED BY OrderStep DEF Stays
<1> QED BY <1>1, <1>2, <1>3, PTL DEF Spec, ReportedOnce
=============================================================================
