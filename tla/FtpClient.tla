----------------------------- MODULE FtpClient -----------------------------
(***************************************************************************)
(* BlueGriffon's FTP client: the object ftpMozilla of fireFtp.jsm, for the *)
(* plain protocol with passive transfers.  All its code runs on one        *)
(* thread; it is called by the user, by the listeners of its sockets and   *)
(* by timers.  Each of these calls is one action, and the functions they   *)
(* are made of are operators from the client's record to its new record.   *)
(*                                                                         *)
(* The server, the network and the data connections are the environment.   *)
(* A file has the blocks 1 and 2; block 0 is of another file of its name.  *)
(***************************************************************************)
EXTENDS Integers, Sequences, SequencesExt

CONSTANTS
    Dirs,           \* the directories of the server
    Root,           \* the one a session begins in
    Kinds,          \* the kinds of requests made
    MaxRequests,    \* bound: requests made
    MaxLosses,      \* bound: connections lost or given up
    MaxStops,       \* bound: cancel(), abort() and disconnect()
    Attempts,       \* reconnectAttempts
    Env,            \* what else happens, of EnvKinds
    None

EnvKinds ==
    {"fails",           \* the server refuses single commands
     "breaks",          \* the server breaks off transfers
     "overwrite",       \* an upload goes where another file is
     "noRest",          \* the server cannot resume a download
     "noCwd",           \* the server refuses to change the directory
     "loginLost",       \* the connection is lost while the client logs in
     "cancelAnytime",   \* cancel() and abort() also when no data is transferred,
                        \* and cancel() of listings
     "removeAnytime",   \* remove() also when other commands are queued
     "whileDown"}       \* requests and disconnect() also with no connection

ASSUME FtpAssumption ==
    /\ Root \in Dirs /\ None \notin Dirs \union {"A", "I"}
    /\ Kinds \subseteq
         {"cd", "mkdir", "remove", "rename", "list", "download", "upload"}
    /\ Env \subseteq EnvKinds
    /\ MaxRequests \in Nat /\ MaxLosses \in Nat /\ MaxStops \in Nat
    /\ Attempts \in Nat \ {0}

Requests == 1 .. MaxRequests

Source == <<1, 2>>      \* the file that is transferred

VARIABLES
    ftp,        \* the client
    replies,    \* written by the server and not read by the client
    srv,        \* the server's side of the connection
    file,       \* the file each request writes: here (download) or there
    asked,      \* what each request asks for
    executed,   \* history variable: what the server has carried out, and where
    budget      \* what is left of MaxLosses and MaxStops

vars == <<ftp, replies, srv, file, asked, executed, budget>>

----------------------------------------------------------------------------
(***************************************************************************)
(* Commands.  A command belongs to a request, or to none (0).  Its         *)
(* argument is the parameter that matters: a directory, a mode, an offset, *)
(* or the command a SIZE is for.  One that has begun to transfer data has  *)
(* a 2 appended to its name in the code.                                   *)
(***************************************************************************)
Cmd(cmd, arg, r) == [cmd |-> cmd, arg |-> arg, req |-> r, begun |-> FALSE]

CmdNames ==
    {"welcome", "USER", "PASS", "FEAT", "PWD", "CWD", "TYPE", "PASV", "LIST",
     "RETR", "STOR", "APPE", "SIZE", "REST", "RNFR", "RNTO", "MKD", "DELE",
     "NOOP", "aborted", "transferEnd"}

Transfers == {"LIST", "RETR", "STOR", "APPE"}

\* Answered commands of these kinds are never sent again.
NotKept == {"USER", "PASS", "PWD", "FEAT", "welcome", "aborted", "NOOP",
            "REST", "SIZE"}

\* What a request asks for: its kind, its directory, and whether to resume.
Commands(r, a) ==
    LET C(cmd, arg) == Cmd(cmd, arg, r)
    IN CASE a.kind = "cd"     -> <<C("CWD", a.dir)>>
         [] a.kind = "mkdir"  -> <<C("CWD", a.dir), C("MKD", None)>>
         [] a.kind = "remove" -> <<C("CWD", a.dir), C("DELE", None)>>
         [] a.kind = "rename" -> <<C("RNFR", None), C("RNTO", None)>>
         [] a.kind = "list"   -> <<C("TYPE", "A"), C("CWD", a.dir),
                                   C("PASV", None), C("LIST", None)>>
         [] a.kind = "download" ->
              <<C("CWD", a.dir), C("TYPE", "I"), C("PASV", None)>>
              \o (IF a.resume THEN <<C("REST", 1)>> ELSE <<>>)
              \o <<C("RETR", None), C("transferEnd", None)>>
         [] a.kind = "upload" ->
              <<C("CWD", a.dir), C("TYPE", "I")>>
              \o (IF a.resume THEN <<C("SIZE", "APPE")>> ELSE <<>>)
              \o <<C("PASV", None),
                   IF a.resume THEN C("APPE", 1) ELSE C("STOR", None),
                   C("transferEnd", None)>>

Init ==
    /\ ftp = [conn |-> "none",          \* the control socket
              sent |-> <<>>,            \* written to it, not carried out yet
              queue |-> <<>>, trash |-> <<>>,
              isConnected |-> FALSE, isReady |-> FALSE,
              isReconnecting |-> FALSE, legitClose |-> TRUE,
              reconnectsLeft |-> 0,
              known |-> FALSE,          \* connectedHost is this host
              cwd |-> None,             \* currentWorkingDir
              mode |-> None,            \* transferMode
              data |-> None,            \* dataSocket
              ctl |-> None,             \* the command of the timeout in force
              dat |-> None,             \* the request of the data timeout
              polls |-> 0,              \* pending readControl("2")
              retries |-> 0,            \* pending reconnect()
              report |-> [r \in Requests |-> "none"]]
    /\ replies = <<>> /\ srv = None
    /\ file = [r \in Requests |-> <<>>]
    /\ asked = [r \in Requests |-> None]
    /\ executed = {}
    /\ budget = [losses |-> MaxLosses, stops |-> MaxStops]

----------------------------------------------------------------------------
(***************************************************************************)
(* The functions the handlers call.                                        *)
(***************************************************************************)
Cleanup(c) ==
    [c EXCEPT !.queue = <<>>, !.trash = <<>>, !.mode = None, !.cwd = None,
              !.isReady = FALSE, !.ctl = None, !.dat = None]

\* The streams of the control socket are closed; its listener will be told.
Kill(c) ==
    [c EXCEPT !.conn = IF c.conn = "none" THEN "none" ELSE "closing",
              !.sent = <<>>]

\* The command at the head of the queue is shifted out without being sent.
Needless(c, x) ==
    \/ x.cmd \in {"aborted", "transferEnd"}
    \/ x.cmd = "TYPE" /\ x.arg = c.mode
    \/ x.cmd = "CWD" /\ x.arg = c.cwd

\* Of those shifted out, the ones that are for the server go into the trash.
Skipped(q) ==
    FlattenSeq([k \in 1 .. Len(q) |->
        IF q[k].cmd \in {"aborted", "transferEnd"} THEN <<>> ELSE <<q[k]>>])

SkipNeedless(c) ==
    LET needed == {k \in 1 .. Len(c.queue) : ~ Needless(c, c.queue[k])}
        n == IF needed = {} THEN Len(c.queue)
             ELSE (CHOOSE k \in needed : \A l \in needed : k <= l) - 1
    IN [c EXCEPT !.queue = SubSeq(c.queue, n + 1, Len(c.queue)),
                 !.trash = c.trash \o Skipped(SubSeq(c.queue, 1, n))]

\* A mutant: a command is written though another one waits for its reply.
WrittenMutant(c) ==
    LET x == Head(c.queue)
    IN IF c.conn \notin {"opening", "open"} THEN c
       ELSE [c EXCEPT !.sent = Append(c.sent, x), !.ctl = x.cmd,
                      !.dat = IF x.cmd \in {"RETR", "STOR", "APPE"} /\ ~ x.begun
                              THEN x.req ELSE c.dat]

\* Writing throws when the socket is closed, after isReady has been reset.
Written(c) ==
    LET x == Head(c.queue)
        d == [c EXCEPT !.isReady = FALSE]
    IN IF c.conn \notin {"opening", "open"} THEN d
       ELSE [d EXCEPT !.sent = Append(c.sent, x), !.ctl = x.cmd,
                      !.dat = IF x.cmd \in {"RETR", "STOR", "APPE"} /\ ~ x.begun
                              THEN x.req ELSE c.dat]

WriteControl(c) ==
    IF ~ c.isReady THEN c
    ELSE LET d == SkipNeedless(c)
         IN IF d.queue = <<>> THEN d ELSE Written(d)

NextCommand(c) ==
    LET d == [c EXCEPT !.isReady = TRUE]
    IN IF d.queue # <<>> /\ Head(d.queue).cmd = "welcome" THEN d
       ELSE WriteControl(d)

\* connect(), the socket apart, which is made: a welcome message is waited for.
Connecting(c) ==
    [c EXCEPT !.conn = "opening", !.sent = <<>>, !.ctl = None, !.dat = None,
              !.queue = IF c.queue # <<>> /\ Head(c.queue).cmd = "welcome"
                        THEN c.queue
                        ELSE <<Cmd("welcome", None, 0)>> \o c.queue]

ResetConnection(c) == Kill([c EXCEPT !.legitClose = FALSE, !.data = None])

\* A mutant: transferMode is kept for the next connection.
OnDisconnectMutant(c) ==
    LET d == [c EXCEPT !.conn = "none", !.sent = <<>>,
                       !.isConnected = FALSE, !.data = None]
    IN IF c.legitClose THEN Cleanup(d)
       ELSE IF c.reconnectsLeft < 1 THEN [d EXCEPT !.isReconnecting = FALSE]
       ELSE [d EXCEPT !.isReconnecting = TRUE, !.retries = c.retries + 1]

\* A mutant: the connection is taken for lost whoever has closed it.
PersistentMutant(c) ==
    LET d == [c EXCEPT !.conn = "none", !.sent = <<>>,
                       !.isConnected = FALSE, !.data = None, !.mode = None]
    IN IF c.reconnectsLeft < 1 THEN [d EXCEPT !.isReconnecting = FALSE]
       ELSE [d EXCEPT !.isReconnecting = TRUE, !.retries = c.retries + 1]

OnDisconnect(c) ==
    LET d == [c EXCEPT !.conn = "none", !.sent = <<>>,
                       !.isConnected = FALSE, !.data = None]
    IN IF c.legitClose THEN Cleanup(d)
       ELSE IF c.reconnectsLeft < 1
       THEN [d EXCEPT !.mode = None, !.isReconnecting = FALSE,
                      !.queue = IF c.queue # <<>> /\ Head(c.queue).cmd = "welcome"
                                THEN Tail(c.queue) ELSE c.queue]
       ELSE [d EXCEPT !.mode = None, !.isReconnecting = TRUE,
                      !.retries = c.retries + 1]

\* The trash is put in front of the queue again, and a transfer x to the server
\* asks first how much of it has arrived.
Restored(trash, x) ==
    FlattenSeq([k \in 1 .. Len(trash) |->
        IF trash[k].cmd = "TYPE" /\ x.cmd \in {"STOR", "APPE"}
        THEN <<trash[k], Cmd("SIZE", x.cmd, x.req)>>
        ELSE <<trash[k]>>])

\* A download goes on where the file it has written ends.
Resumed(q) ==
    LET x == Head(q)
        size == IF x.req = 0 THEN 0 ELSE Len(file[x.req])
    IN CASE x.cmd = "REST" /\ size > 0 ->
              <<[x EXCEPT !.arg = size]>> \o Tail(q)
         [] x.cmd = "RETR" /\ size > 0 -> <<Cmd("REST", size, x.req)>> \o q
         [] OTHER -> q

RecoverFromDisaster(c) ==
    LET x == Head(c.queue)
        cmd == x.cmd
        q == CASE c.queue = <<>> -> <<>>
               [] c.queue # <<>> /\ cmd \in Transfers \union {"REST", "PASV", "SIZE"} ->
                    Restored(c.trash, x)
                    \o Resumed(<<[x EXCEPT !.begun = FALSE]>> \o Tail(c.queue))
               [] c.queue # <<>> /\ cmd = "RNTO" /\ Last(c.trash).cmd = "RNFR" ->
                    <<Last(c.trash)>> \o c.queue
               [] OTHER -> c.queue
    IN [c EXCEPT !.queue = IF c.cwd = None THEN q
                           ELSE <<Cmd("CWD", c.cwd, 0)>> \o q,
                 !.cwd = None, !.trash = <<>>]

\* Its access to the last command of an empty trash throws.
RecoveryThrows(c) ==
    c.queue # <<>> /\ Head(c.queue).cmd = "RNTO" /\ c.trash = <<>>

----------------------------------------------------------------------------
(***************************************************************************)
(* readControl(): the reply with this code (and size, for SIZE) is taken   *)
(* for the command h, the head of the queue.                               *)
(***************************************************************************)
Report(c, r, what) == IF r = 0 THEN c ELSE [c EXCEPT !.report[r] = what]

IsEnd(x) == x.cmd = "transferEnd"

\* The transfer at the head of the queue, and the end that belongs to it.
DropTransfer(q) ==
    IF Len(q) > 1 /\ IsEnd(q[2]) THEN SubSeq(q, 3, Len(q)) ELSE Tail(q)

TransferDone(c, h) ==
    NextCommand(Report([c EXCEPT !.queue = DropTransfer(c.queue), !.trash = <<>>,
                                 !.data = None, !.dat = None], h.req, "done"))

TransferFailed(c, h) ==
    NextCommand(Report([c EXCEPT !.queue = DropTransfer(c.queue), !.trash = <<>>,
                                 !.data = None], h.req, "failed"))

\* A mutant: the transfer is not looked at again.
PollMutant(c) == c

\* Looked at again in half a second.
Poll(c) == [c EXCEPT !.polls = c.polls + 1]

Begun(c) == [c EXCEPT !.queue = <<[Head(c.queue) EXCEPT !.begun = TRUE]>>
                                \o Tail(c.queue)]

TransferAnswered(c, h, code) ==
    LET d == Begun(c)
    IN CASE ~ h.begun /\ c.data = None -> d         \* dataSocket is null: throws
         [] ~ h.begun /\ c.data # None /\ code = 1 -> d
         [] code = 2 /\ c.data = None /\ h.cmd = "LIST" ->  \* throws later
              [c EXCEPT !.queue = DropTransfer(c.queue), !.trash = <<>>,
                        !.dat = None]
         [] code = 2 /\ c.data = None /\ h.cmd # "LIST" -> TransferDone(c, h)
         [] code = 2 /\ c.data # None /\ c.data.finished -> TransferDone(c, h)
         [] code = 2 /\ c.data # None /\ ~ c.data.finished -> Poll(d)
         [] OTHER -> TransferFailed(c, h)

Ends(q) == {k \in 1 .. Len(q) : IsEnd(q[k])}

FirstEnd(q) == CHOOSE k \in Ends(q) : \A l \in Ends(q) : k <= l

\* A mutant: a download that is resumed begins its file anew.
DataSocketMutant(q) ==
    LET x == Head(q)
        Opened(way, from) ==
            [id |-> IF Ends(q) = {} THEN None ELSE q[FirstEnd(q)].req,
             req |-> x.req, way |-> way, from |-> from, moved |-> 0,
             finished |-> way = "none"]
    IN CASE x.cmd = "LIST" -> Opened("list", 0)
         [] x.cmd \in {"RETR", "REST"} -> Opened("get", 0)
         [] x.cmd = "STOR" -> Opened("put", 0)
         [] x.cmd = "APPE" -> Opened("put", x.arg)
         [] OTHER          -> Opened("none", 0)

\* The data socket is made for the next transferEnd in the queue, and connected
\* for the command that follows.
DataSocket(q) ==
    LET x == Head(q)
        Opened(way, from) ==
            [id |-> IF Ends(q) = {} THEN None ELSE q[FirstEnd(q)].req,
             req |-> x.req, way |-> way, from |-> from, moved |-> 0,
             finished |-> way = "none"]
    IN CASE x.cmd = "LIST" -> Opened("list", 0)
         [] x.cmd = "RETR" -> Opened("get", 0)
         [] x.cmd = "REST" -> Opened("get", x.arg)
         [] x.cmd = "STOR" -> Opened("put", 0)
         [] x.cmd = "APPE" -> Opened("put", x.arg)
         [] OTHER          -> Opened("none", 0)

PasvAnswered(c, code) ==
    LET q == c.queue
    IN CASE q = <<>> -> c                           \* eventQueue[0]: throws
         [] q # <<>> /\ code = 2 ->
              NextCommand([c EXCEPT !.data = DataSocket(q)])
         [] q # <<>> /\ code # 2 /\ Head(q).cmd = "LIST" ->
              NextCommand(Report([c EXCEPT !.queue = Tail(q)],
                                 Head(q).req, "failed"))
         [] OTHER ->
              IF Ends(q) = {} THEN NextCommand([c EXCEPT !.queue = <<>>])
              ELSE NextCommand(Report([c EXCEPT
                       !.queue = SubSeq(q, FirstEnd(q) + 1, Len(q))],
                       q[FirstEnd(q)].req, "failed"))

Welcomed(c, code) ==
    IF code # 2 THEN NextCommand(Cleanup(c))
    ELSE NextCommand([c EXCEPT !.isConnected = TRUE, !.isReconnecting = FALSE,
                               !.reconnectsLeft = Attempts,
                               !.queue = <<Cmd("USER", None, 0)>> \o c.queue])

LoggedIn(c) ==
    LET d == [c EXCEPT !.known = TRUE, !.legitClose = c.legitClose \/ ~ c.known]
    IN IF d.legitClose
       THEN NextCommand([d EXCEPT !.legitClose = FALSE,
                !.queue = <<Cmd("FEAT", None, 0), Cmd("PWD", None, 0)>> \o c.queue])
       ELSE IF RecoveryThrows(d) THEN d
       ELSE NextCommand(RecoverFromDisaster(d))

LoginAnswered(c, h, code) ==
    CASE code = 2 -> LoggedIn(c)
      [] h.cmd = "USER" /\ code = 3 ->
           NextCommand([c EXCEPT !.queue = <<Cmd("PASS", None, 0)>> \o c.queue])
      [] OTHER -> Kill([Cleanup(c) EXCEPT !.isConnected = FALSE])

\* The size found makes a STOR an APPE, or corrects its offset.
SizeAnswered(c, h, code, size) ==
    LET At(cmd) == {k \in 1 .. Len(c.queue) :
                      c.queue[k].cmd = cmd /\ ~ c.queue[k].begun}
        Least(S) == CHOOSE k \in S : \A l \in S : k <= l
        Becomes(k, cmd, arg) ==
            [c EXCEPT !.queue[k].cmd = cmd, !.queue[k].arg = arg]
    IN NextCommand(
         CASE code = 2 /\ At(h.arg) # {} -> Becomes(Least(At(h.arg)), "APPE", size)
           [] code # 2 /\ At("APPE") # {} -> Becomes(Least(At("APPE")), "STOR", None)
           [] OTHER -> c)

\* A mutant: the commands that led to it stay in the trash.
SimpleAnsweredMutant(c, h, code) ==
    NextCommand(Report(c, h.req, IF code = 2 THEN "done" ELSE "failed"))

SimpleAnswered(c, h, code) ==
    NextCommand(Report([c EXCEPT !.trash = <<>>], h.req,
                       IF code = 2 THEN "done" ELSE "failed"))

Answered(c, h, code, size) ==
    CASE h.cmd = "welcome" -> Welcomed(c, code)
      [] h.cmd \in {"USER", "PASS"} -> LoginAnswered(c, h, code)
      [] h.cmd = "PASV" -> PasvAnswered(c, code)
      [] h.cmd \in Transfers -> TransferAnswered(c, h, code)
      [] h.cmd = "SIZE" -> SizeAnswered(c, h, code, size)
      [] h.cmd \in {"MKD", "DELE", "RNTO"} -> SimpleAnswered(c, h, code)
      [] h.cmd = "RNFR" /\ code # 3 ->
           NextCommand(Report([c EXCEPT !.queue = <<>>, !.trash = <<>>],
                              h.req, "failed"))
      [] h.cmd = "CWD" /\ code = 2 ->
           NextCommand(Report([c EXCEPT !.cwd = h.arg],
                              IF h.req # 0 /\ asked[h.req].kind = "cd"
                              THEN h.req ELSE 0, "done"))
      [] h.cmd = "PWD" ->
           NextCommand([c EXCEPT !.trash = <<>>,
                                 !.cwd = IF code = 2 THEN Root ELSE c.cwd])
      [] h.cmd = "TYPE" /\ code = 2 -> NextCommand([c EXCEPT !.mode = h.arg])
      [] OTHER -> NextCommand(c)

\* A mutant: a download is shifted out of the queue by its first reply.
ReadControlMutant(c, code, size) ==
    LET h == IF c.queue = <<>> THEN Cmd("default", None, 0) ELSE Head(c.queue)
        d == IF c.queue = <<>> \/ h.cmd \in Transfers \ {"RETR"} THEN c
             ELSE [c EXCEPT !.queue = Tail(c.queue),
                            !.trash = IF h.cmd \in NotKept THEN c.trash
                                      ELSE Append(c.trash, h)]
    IN Answered(d, h, code, size)

\* The head of the queue is shifted out of it unless it transfers data.
ReadControl(c, code, size) ==
    LET h == IF c.queue = <<>> THEN Cmd("default", None, 0) ELSE Head(c.queue)
        d == IF c.queue = <<>> \/ h.cmd \in Transfers THEN c
             ELSE [c EXCEPT !.queue = Tail(c.queue),
                            !.trash = IF h.cmd \in NotKept THEN c.trash
                                      ELSE Append(c.trash, h)]
    IN Answered(d, h, code, size)

----------------------------------------------------------------------------
(***************************************************************************)
(* The user.                                                               *)
(***************************************************************************)
\* connect() is not called while there is a connection, nor while the client
\* is going to connect itself.
Connect ==
    /\ ftp.conn = "none" /\ ftp.polls = 0 /\ ftp.retries = 0
    /\ ftp' = Connecting([ftp EXCEPT !.isReconnecting = FALSE,
                                     !.reconnectsLeft = Attempts])
    /\ replies' = <<>> /\ srv' = None
    /\ UNCHANGED <<file, asked, executed, budget>>

Wishes == [kind : Kinds, dir : Dirs, resume : BOOLEAN, old : BOOLEAN]

ASSUME NoneAssumption == None \notin Wishes

\* What is in the file before the transfer.
Before(a) ==
    CASE a.resume -> <<1>> [] a.old -> <<0>> [] OTHER -> <<>>

\* remove() puts its commands in front of the queue, the others at its end.
Ask(r, a) ==
    LET cs == Commands(r, a)
    IN /\ \A q \in Requests : (asked[q] = None) <=> (q >= r)
       /\ a.resume => a.kind \in {"download", "upload"}
       /\ a.kind = "rename" => a.dir = Root
       /\ a.old => a.kind = "upload" /\ ~ a.resume /\ "overwrite" \in Env
       /\ ftp.isConnected \/ "whileDown" \in Env
       /\ a.kind = "remove" => ftp.queue = <<>> \/ "removeAnytime" \in Env
       /\ asked' = [asked EXCEPT ![r] = a]
       /\ file' = [file EXCEPT ![r] = Before(a)]
       /\ ftp' = WriteControl([ftp EXCEPT !.queue =
                    IF a.kind = "remove" THEN cs \o ftp.queue
                                         ELSE ftp.queue \o cs])
       /\ UNCHANGED <<replies, srv, executed, budget>>

\* What the user stops is a transfer of data, of one of these commands.
Steady(cmds) ==
    "cancelAnytime" \in Env \/ (\A k \in 1 .. Len(ftp.queue) : k = 1 =>
        /\ ftp.queue[k].cmd \in cmds /\ ftp.queue[k].begun
        /\ ftp.data # None)

Stop == budget.stops > 0 /\ budget' = [budget EXCEPT !.stops = budget.stops - 1]

\* cancel(): the data connection is closed and the commands of its transfer are
\* dropped; "aborted" takes the reply that is on its way.
Cancel ==
    LET q == ftp.queue
        ends == {k \in Ends(q) : ftp.data # None /\ ftp.isConnected
                                  /\ q[k].req = ftp.data.id}
        rest == IF ends = {} THEN q
                ELSE SubSeq(q, (CHOOSE k \in ends : \A l \in ends : k <= l) + 1,
                            Len(q))
    IN /\ Stop /\ Steady(Transfers \ {"LIST"}) /\ (ftp.isConnected \/ "whileDown" \in Env)
       /\ ftp' = [ftp EXCEPT
            !.trash = <<>>,
            !.data = IF ftp.isConnected THEN None ELSE ftp.data,
            !.queue = IF ftp.isConnected THEN <<Cmd("aborted", None, 0)>> \o rest
                                         ELSE rest]
       /\ UNCHANGED <<replies, srv, file, asked, executed>>

\* abort(): everything queued is dropped.
Abort ==
    LET c == Cleanup([ftp EXCEPT !.isReconnecting = FALSE])
        d == [c EXCEPT !.queue = <<Cmd("aborted", None, 0)>>, !.data = None,
                       !.isReady = ftp.data = None]
    IN /\ Stop /\ Steady(Transfers)
       /\ ftp' = IF ftp.isConnected THEN d ELSE c
       /\ UNCHANGED <<replies, srv, file, asked, executed>>

Disconnect ==
    /\ Stop
    /\ ftp.conn # "none" \/ "whileDown" \in Env
    /\ ftp' = Kill([Cleanup(ftp) EXCEPT !.legitClose = TRUE, !.data = None])
    /\ UNCHANGED <<replies, srv, file, asked, executed>>

----------------------------------------------------------------------------
(***************************************************************************)
(* Timers.                                                                 *)
(***************************************************************************)
KeepAlive ==
    /\ ftp.isConnected /\ ftp.queue = <<>>
    /\ ftp' = WriteControl([ftp EXCEPT !.queue = <<Cmd("NOOP", None, 0)>>])
    /\ UNCHANGED <<replies, srv, file, asked, executed, budget>>

Lose ==
    /\ budget.losses > 0 /\ budget' = [budget EXCEPT !.losses = budget.losses - 1]
    /\ "loginLost" \in Env \/ (\A k \in 1 .. Len(ftp.queue) :
            k = 1 => ftp.queue[k].cmd \notin {"USER", "PASS"})

\* checkTimeout(), for the last command written, if nothing was read since.  That it
\* compares with indexOf() makes no difference: the names that contain another
\* ("LIST2" and the like) become heads only after something was read.
CheckTimeout ==
    /\ ftp.ctl # None /\ ftp.isConnected
    /\ ftp.queue # <<>> /\ Head(ftp.queue).cmd = ftp.ctl
    /\ Lose
    /\ ftp' = ResetConnection(ftp)
    /\ UNCHANGED <<replies, srv, file, asked, executed>>

\* checkDataTimeout(), when the bytes counted are those of the last time.
CheckDataTimeout ==
    /\ ftp.dat # None /\ ftp.isConnected /\ ftp.data # None
    /\ Lose
    /\ ftp' = ResetConnection(ftp)
    /\ UNCHANGED <<replies, srv, file, asked, executed>>

\* readControl("2"), half a second after data was found to be on its way still.
PollAgain ==
    LET c == [ftp EXCEPT !.polls = ftp.polls - 1]
    IN /\ ftp.polls > 0
       /\ ftp' = IF ftp.isConnected THEN ReadControl(c, 2, 0) ELSE c
       /\ UNCHANGED <<replies, srv, file, asked, executed, budget>>

\* The interval is longer than that of the polls.
Reconnect ==
    LET c == [ftp EXCEPT !.retries = ftp.retries - 1]
    IN /\ ftp.retries > 0 /\ ftp.polls = 0
       /\ IF ftp.isReconnecting
          THEN /\ ftp' = Connecting([c EXCEPT !.reconnectsLeft = c.reconnectsLeft - 1])
               /\ replies' = <<>> /\ srv' = None
          ELSE /\ ftp' = c
               /\ UNCHANGED <<replies, srv>>
       /\ UNCHANGED <<file, asked, executed, budget>>

----------------------------------------------------------------------------
(***************************************************************************)
(* The control connection and its other end.                               *)
(***************************************************************************)
\* The server takes the connection and says welcome, or that it cannot serve.
Accept ==
    /\ ftp.conn = "opening"
    /\ ftp' = [ftp EXCEPT !.conn = "open"]
    /\ srv' = [user |-> "none", cwd |-> Root, mode |-> "A", rest |-> 0,
               rnfr |-> FALSE, pasv |-> FALSE, xfer |-> None]
    /\ \E code \in IF "fails" \in Env THEN {2, 4} ELSE {2} :
         replies' = <<[to |-> Cmd("welcome", None, 0), code |-> code, size |-> 0]>>
    /\ UNCHANGED <<file, asked, executed, budget>>

\* onStopRequest(): the connection is lost, or was closed by the client.
StopRequest ==
    /\ \/ ftp.conn = "closing" /\ UNCHANGED budget
       \/ ftp.conn \in {"opening", "open"} /\ Lose
    /\ ftp' = OnDisconnect(ftp)
    /\ replies' = <<>> /\ srv' = None
    /\ UNCHANGED <<file, asked, executed>>

\* onDataAvailable(): all of the replies there are, or the first of them; the
\* last one counts.
OnDataAvailable ==
    /\ ftp.conn = "open"
    /\ \E n \in 1 .. Len(replies) :
         /\ ftp' = ReadControl([ftp EXCEPT !.ctl = None],
                               replies[n].code, replies[n].size)
         /\ replies' = SubSeq(replies, n + 1, Len(replies))
    /\ UNCHANGED <<srv, file, asked, executed, budget>>

\* The server carries out a command and answers.
Replied(x, code, size) ==
    replies' = Append(replies, [to |-> x, code |-> code, size |-> size])

Refuses(x) ==
    Replied(x, 5, 0) /\ srv' = [srv EXCEPT !.rest = 0] /\ UNCHANGED <<file, executed>>

\* What this server may refuse although it could carry it out.
Refused ==
    (IF "fails" \in Env
     THEN CmdNames \ {"CWD", "REST", "TYPE", "PWD", "NOOP"} ELSE {})
    \union (IF "noCwd" \in Env THEN {"CWD"} ELSE {})
    \union (IF "noRest" \in Env THEN {"REST"} ELSE {})

CarriedOut(x) ==
    executed' = executed \union
        {[cmd |-> x.cmd, req |-> x.req, cwd |-> srv.cwd, mode |-> srv.mode]}

WasExecuted(r) == \E e \in executed : e.req = r

LogsIn(x) ==
    /\ UNCHANGED <<file, executed>>
    /\ IF x.cmd = "USER"
       THEN \E code \in IF srv.user = "in" THEN {3, 5} ELSE {3} :
              /\ Replied(x, code, 0)
              /\ srv' = [srv EXCEPT !.user = IF srv.user = "in" THEN "in"
                                             ELSE "asked"]
       ELSE /\ Replied(x, IF srv.user = "none" THEN 5 ELSE 2, 0)
            /\ srv' = [srv EXCEPT !.user = IF srv.user = "none" THEN "none"
                                           ELSE "in"]

Sets(x) ==
    /\ UNCHANGED <<file, executed>>
    /\ \/ /\ x.cmd \in {"PWD", "FEAT", "NOOP"}
          /\ Replied(x, 2, 0) /\ UNCHANGED srv
       \/ x.cmd = "CWD" /\ Replied(x, 2, 0) /\ srv' = [srv EXCEPT !.cwd = x.arg]
       \/ x.cmd = "TYPE" /\ Replied(x, 2, 0) /\ srv' = [srv EXCEPT !.mode = x.arg]
       \/ x.cmd = "PASV" /\ Replied(x, 2, 0) /\ srv' = [srv EXCEPT !.pasv = TRUE]
       \/ x.cmd = "REST" /\ Replied(x, 3, 0) /\ srv' = [srv EXCEPT !.rest = x.arg]
       \/ x.cmd = "RNFR" /\ Replied(x, 3, 0) /\ srv' = [srv EXCEPT !.rnfr = TRUE]
       \/ /\ x.cmd = "SIZE" /\ UNCHANGED srv
          /\ IF file[x.req] = <<>> THEN Replied(x, 5, 0)
             ELSE Replied(x, 2, Len(file[x.req]))

Changes(x) ==
    /\ x.cmd \in {"MKD", "DELE", "RNTO"}
    /\ IF WasExecuted(x.req) \/ (x.cmd = "RNTO" /\ ~ srv.rnfr)
       THEN Refuses(x)
       ELSE /\ Replied(x, 2, 0) /\ CarriedOut(x)
            /\ srv' = [srv EXCEPT !.rnfr = FALSE]
            /\ UNCHANGED file

BeginsTransfer(x) ==
    /\ x.cmd \in Transfers /\ ~ x.begun
    /\ IF ~ srv.pasv THEN Refuses(x)
       ELSE /\ Replied(x, 1, 0) /\ CarriedOut(x)
            /\ srv' = [srv EXCEPT !.pasv = FALSE, !.rest = 0,
                                  !.xfer = [of |-> x, pos |-> srv.rest]]
            /\ file' = IF x.cmd = "STOR" THEN [file EXCEPT ![x.req] = <<>>]
                                         ELSE file

Execute ==
    LET x == Head(ftp.sent)
    IN /\ ftp.conn = "open" /\ ftp.sent # <<>> /\ srv.xfer = None
       /\ ftp' = [ftp EXCEPT !.sent = Tail(ftp.sent)]
       /\ IF x.cmd \in {"USER", "PASS"} THEN LogsIn(x)
          ELSE IF srv.user # "in" \/ x.cmd = "welcome" \/ x.begun THEN Refuses(x)
          ELSE \/ Sets(x) \/ Changes(x) \/ BeginsTransfer(x)
               \/ x.cmd \in Refused /\ Refuses(x)
       /\ UNCHANGED <<asked, budget>>

\* A block comes or goes: a download is appended to the file if it was to be
\* resumed, and makes a new one if not.
DataMoves ==
    LET d == ftp.data
        at == d.from + d.moved
    IN /\ d # None /\ ftp.conn = "open" /\ srv.xfer # None /\ ~ d.finished
       /\ ftp' = [ftp EXCEPT !.data.moved = d.moved + 1]
       /\ \/ /\ d.way = "get" /\ srv.xfer.pos < Len(Source)
             /\ file' = [file EXCEPT ![d.req] = Append(
                           IF d.from = 0 /\ d.moved = 0 THEN <<>> ELSE file[d.req],
                           Source[srv.xfer.pos + 1])]
             /\ srv' = [srv EXCEPT !.xfer.pos = srv.xfer.pos + 1]
          \/ /\ d.way = "put" /\ at < Len(Source)
             /\ file' = [file EXCEPT ![srv.xfer.of.req] =
                           Append(file[srv.xfer.of.req], Source[at + 1])]
             /\ UNCHANGED srv
       /\ UNCHANGED <<replies, asked, executed, budget>>

\* The client's side of the data connection ends: all is sent, or the server has
\* closed it.
DataFinishes ==
    LET d == ftp.data
    IN /\ d # None /\ ftp.conn = "open" /\ ~ d.finished
       /\ \/ d.way = "put" /\ d.from + d.moved = Len(Source)
          \/ srv.xfer = None /\ ~ srv.pasv
       /\ ftp' = [ftp EXCEPT !.data.finished = TRUE]
       /\ UNCHANGED <<replies, srv, file, asked, executed, budget>>

\* The server's side ends: well, or because the data connection is broken.
TransferEnds ==
    LET x == srv.xfer
        gone == ftp.data = None
    IN /\ ftp.conn = "open" /\ x # None
       /\ \E code \in {2, 4} :
            /\ code = 2 => CASE x.of.cmd = "RETR" -> x.pos >= Len(Source)
                             [] x.of.cmd = "LIST" -> ~ gone
                             [] OTHER -> ~ gone => ftp.data.finished
            /\ code = 4 => gone \/ "breaks" \in Env
            /\ Replied(x.of, code, 0)
       /\ srv' = [srv EXCEPT !.xfer = None]
       /\ UNCHANGED <<ftp, file, asked, executed, budget>>

Next ==
    \/ Connect \/ Cancel \/ Abort \/ Disconnect
    \/ \E r \in Requests, a \in Wishes : Ask(r, a)
    \/ KeepAlive \/ CheckTimeout \/ CheckDataTimeout \/ PollAgain \/ Reconnect
    \/ Accept \/ StopRequest \/ OnDataAvailable
    \/ Execute \/ DataMoves \/ DataFinishes \/ TransferEnds

Spec == Init /\ [][Next]_vars

----------------------------------------------------------------------------
IsCommand(x) ==
    /\ DOMAIN x = {"cmd", "arg", "req", "begun"}
    /\ x.cmd \in CmdNames /\ x.req \in Requests \union {0}
    /\ x.begun => x.cmd \in Transfers

\* The types of the state.
TypeOK ==
    /\ ftp.conn \in {"none", "opening", "open", "closing"}
    /\ \A k \in 1 .. Len(ftp.queue) : IsCommand(ftp.queue[k])
    /\ \A k \in 1 .. Len(ftp.trash) : IsCommand(ftp.trash[k])
    /\ \A k \in 1 .. Len(ftp.sent) : IsCommand(ftp.sent[k])
    /\ ftp.reconnectsLeft \in 0 .. Attempts
    /\ ftp.polls \in Nat /\ ftp.retries \in Nat
    /\ ftp.cwd \in Dirs \union {None} /\ ftp.mode \in {"A", "I", None}
    /\ ftp.report \in [Requests -> {"none", "done", "failed"}]
    /\ \A r \in Requests : \A k \in 1 .. Len(file[r]) : file[r][k] \in 0 .. 2

\* What is sent and not answered, or answered and not read, or going on.
InFlight ==
    {ftp.sent[k] : k \in 1 .. Len(ftp.sent)}
    \union {replies[k].to : k \in 1 .. Len(replies)}
    \union (IF srv = None THEN {} ELSE
            IF srv.xfer = None THEN {} ELSE {srv.xfer.of})

\* The client takes a reply for the answer to the command at the head of its
\* queue.  It is that one's, or stands for one that was cancelled: whatever was
\* put in the queue, skipped, dropped and sent again in the meantime.
RepliesFindTheirCommands ==
    ftp.conn \in {"opening", "open"} =>
        \A x \in InFlight :
            /\ ftp.queue # <<>>
            /\ \/ Head(ftp.queue).cmd = "aborted"
               \/ Head(ftp.queue).cmd = x.cmd /\ Head(ftp.queue).req = x.req

\* A file or directory is only changed in the directory and a file only
\* transferred in the mode its request was for: also when the commands that set
\* them were skipped as needless, or were given on a connection that is lost.
CarriedOutInContext ==
    \A e \in executed :
        LET kind == asked[e.req].kind
        IN /\ kind # "rename" => e.cwd = asked[e.req].dir
           /\ kind = "list" => e.mode = "A"
           /\ kind \in {"download", "upload"} => e.mode = "I"

\* What is reported as done is done: files are transferred whole and unmixed,
\* however often the transfer was broken off and resumed.
ReportsAreTrue ==
    \A r \in Requests : ftp.report[r] = "done" =>
        CASE asked[r].kind \in {"download", "upload"} -> file[r] = Source
          [] asked[r].kind = "cd" -> TRUE
          [] OTHER -> WasExecuted(r)

\* A request is reported once: no command is left in the trash, or in the queue,
\* that carries it out again after a loss.
ReportedOnce ==
    [][\A r \in Requests :
         ftp.report[r] # "none" => ftp'.report[r] = ftp.report[r]]_vars

\* "this close() is ok, don't try to reconnect".
NoReconnectAfterDisconnect ==
    [][Reconnect /\ ftp.isReconnecting => ~ ftp.legitClose]_vars

\* The server and the network go on, and so do the timers.  Of the actions that
\* read a reply the guards stand for ENABLED: they always change the state.
Traffic ==
    \/ Accept \/ Execute \/ DataMoves \/ DataFinishes \/ TransferEnds
    \/ ftp.conn = "closing" /\ StopRequest

Fairness ==
    /\ WF_vars(Traffic) /\ WF_vars(Reconnect)
    /\ []<>(ftp.conn # "open" \/ replies = <<>>) \/ []<><<OnDataAvailable>>_vars
    /\ []<>(ftp.polls = 0) \/ []<><<PollAgain>>_vars

FairSpec == Spec /\ Fairness

Queued(r) == \E k \in 1 .. Len(ftp.queue) : ftp.queue[k].req = r

\* Nobody goes on trying to connect.
Down == ftp.conn = "none" /\ ~ ftp.isReconnecting

\* A request does not stay in the queue: it is done, fails or is dropped, unless
\* the client has no connection and gives up.
RequestsEnd == \A r \in Requests : Queued(r) ~> (~ Queued(r) \/ Down)
=============================================================================
