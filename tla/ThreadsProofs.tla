--------------------------- MODULE ThreadsProofs ----------------------------
(***************************************************************************)
(* Theorems about Threads, for any number of threads and events and        *)
(* whoever creates threads and shuts them down.                            *)
(***************************************************************************)
EXTENDS Threads, SequenceTheorems, TLAPS

\* The messages that Shutdown() is about, and where a thread may still use the
\* context it was given.
Control == {"shutdown", "ack"}
Serving == {"starting", "startup", "loop", "last", "rest", "leaving", "acking"}
Ending  == {"last", "rest", "leaving", "acking", "exiting", "ended", "joined"}
MainPC  == {"loop", "before", "shutall", "after", "over"}

\* A shutdown event waits for w; an acknowledgement of w waits for somebody.
HasAsk(w) == \E k \in 1 .. Len(queue[w]) : queue[w][k].kind = "shutdown"
HasAck(w) ==
    \E t \in Threads : \E k \in 1 .. Len(queue[t]) : queue[t][k] = Msg("ack", w)

OneAsk ==
    \A w \in Threads : \A i, j \in 1 .. Len(queue[w]) :
        queue[w][i].kind = "shutdown" /\ queue[w][j].kind = "shutdown" => i = j

OneAck ==
    \A t, u \in Threads : \A i \in 1 .. Len(queue[t]), j \in 1 .. Len(queue[u]) :
        queue[t][i].kind = "ack" /\ queue[t][i] = queue[u][j] => t = u /\ i = j

\* A thread is asked to end, has taken the context, and has acknowledged, one
\* after the other.
Turn(w) ==
    /\ HasAsk(w) => ~ShuttingDown(w)
    /\ HasAsk(w) \/ (ShuttingDown(w) /\ pc[w] \in Serving)
       => ~HasAck(w) /\ w \notin acked
    /\ HasAck(w) => w \notin acked
    /\ w \in required \/ pc[w] = "unborn"
       => ~HasAsk(w) /\ ~ShuttingDown(w) /\ ~HasAck(w) /\ w \notin acked
    /\ w \in required => pc[w] # "unborn"
    /\ pc[w] \in Ending => ShuttingDown(w)

MainStays == ~HasAsk(Main) /\ ~ShuttingDown(Main) /\ pc[Main] \in MainPC

\* ContextIsAlive of w, from its birth: the caller of Shutdown() waits as long as w
\* may use the context, and as long as a message about it is on the way.
ContextIsHeld(w) ==
    ShuttingDown(w) /\ pc[w] \in Serving => WaitsFor(context[w], w)

MailIsAwaited(w) ==
    \A t \in Threads :
       /\ \A k \in 1 .. Len(queue[w]) :
             queue[w][k] = Msg("shutdown", t) => WaitsFor(t, w)
       /\ \A k \in 1 .. Len(queue[t]) :
             queue[t][k] = Msg("ack", w) => WaitsFor(t, w)

Life(w) == Turn(w) /\ ContextIsHeld(w) /\ MailIsAwaited(w)

LifeInv == TypeOK /\ OneAsk /\ OneAck /\ MainStays /\ \A w \in Workers : Life(w)

----------------------------------------------------------------------------
(***************************************************************************)
(* Sequences, frames and queues.                                           *)
(***************************************************************************)

LEMMA SeqAppend ==
    ASSUME NEW S, NEW s \in Seq(S), NEW x \in S
    PROVE  /\ Append(s, x) \in Seq(S) /\ Len(Append(s, x)) = Len(s) + 1
           /\ \A k \in 1 .. Len(s) : Append(s, x)[k] = s[k]
           /\ Append(s, x)[Len(s) + 1] = x
           /\ Len(s) \in Nat /\ \A k \in 1 .. Len(s) : s[k] \in S
<1>1. Append(s, x) \in Seq(S) /\ Len(Append(s, x)) = Len(s) + 1
  BY AppendProperties
<1>2. (\A k \in 1 .. Len(s) : Append(s, x)[k] = s[k]) /\ Append(s, x)[Len(s) + 1] = x
  BY AppendProperties
<1>3. Len(s) \in Nat /\ \A k \in 1 .. Len(s) : s[k] \in S
  BY ElementOfSeq, LenProperties
<1> QED BY <1>1, <1>2, <1>3

LEMMA SeqTail ==
    ASSUME NEW S, NEW s \in Seq(S), s # <<>>
    PROVE  /\ Head(s) \in S /\ Head(s) = s[1] /\ Tail(s) \in Seq(S)
           /\ Len(s) \in Nat \ {0} /\ Len(Tail(s)) = Len(s) - 1
           /\ \A k \in 1 .. Len(Tail(s)) : Tail(s)[k] = s[k + 1]
<1>1. Head(s) \in S /\ Head(s) = s[1] /\ Tail(s) \in Seq(S)
  BY HeadTailProperties
<1>2. Len(s) \in Nat \ {0} /\ Len(Tail(s)) = Len(s) - 1
  BY EmptySeq, HeadTailProperties, LenProperties
<1>3. \A k \in 1 .. Len(Tail(s)) : Tail(s)[k] = s[k + 1]
  BY HeadTailProperties
<1> QED BY <1>1, <1>2, <1>3

LEMMA SeqFront ==
    ASSUME NEW S, NEW s \in Seq(S), s # <<>>
    PROVE  /\ Last(s) \in S /\ Last(s) = s[Len(s)] /\ Front(s) \in Seq(S)
           /\ Len(s) \in Nat \ {0} /\ Len(Front(s)) = Len(s) - 1
           /\ \A k \in 1 .. Len(s) - 1 : Front(s)[k] = s[k]
<1>2. Len(s) \in Nat \ {0} /\ \A k \in 1 .. Len(s) : s[k] \in S
  BY EmptySeq, ElementOfSeq, LenProperties
<1> DEFINE n == Len(s) - 1
<1>4. n \in Int /\ n >= 0 /\ \A k \in 1 .. n : s[k] \in S
  BY <1>2
<1>5. /\ SubSeq(s, 1, n) \in Seq(S)
      /\ Len(SubSeq(s, 1, n)) = n
      /\ \A k \in 1 .. n : SubSeq(s, 1, n)[k] = s[k]
  <2> HIDE DEF n
  <2>1. /\ SubSeq(s, 1, n) \in Seq(S)
        /\ Len(SubSeq(s, 1, n)) = IF 1 <= n THEN n - 1 + 1 ELSE 0
        /\ \A k \in 1 .. n - 1 + 1 : SubSeq(s, 1, n)[k] = s[1 + k - 1]
    BY <1>4, SubSeqProperties
  <2> QED BY <2>1, <1>4
<1>6. Last(s) = s[Len(s)] /\ Front(s) = SubSeq(s, 1, n)
  BY DEF Last, Front
<1>7. s[Len(s)] \in S
  BY <1>2
<1> QED BY <1>2, <1>5, <1>6, <1>7

\* Thread t waits in Shutdown() of w, when its frames are fs.
Awaits(fs, t, w) ==
    \E k \in 1 .. Len(fs[t]) : fs[t][k].fn = "shutdown" /\ fs[t][k].of = w
                               /\ fs[t][k].at # "join"

FrameTable == [Threads -> Seq(Frame)]

\* The frames fs still wait for all threads that those of now wait for, if these
\* have not acknowledged.
Keeps(fs) ==
    /\ fs \in FrameTable
    /\ \A t \in Threads, w \in Workers :
          Awaits(frames, t, w) /\ w \notin acked => Awaits(fs, t, w)

LEMMA CallKeeps ==
    ASSUME NEW fs, Keeps(fs), NEW t \in Threads, NEW f \in Frame
    PROVE  /\ Keeps([fs EXCEPT ![t] = Append(@, f)])
           /\ \A w \in Workers : f = MkFrame("shutdown", w, "test")
              => Awaits([fs EXCEPT ![t] = Append(@, f)], t, w)
<1> DEFINE g == [fs EXCEPT ![t] = Append(@, f)]
<1>1. fs \in FrameTable /\ fs[t] \in Seq(Frame)
  BY DEF Keeps, FrameTable
<1>2. /\ Append(fs[t], f) \in Seq(Frame) /\ Len(Append(fs[t], f)) = Len(fs[t]) + 1
      /\ \A k \in 1 .. Len(fs[t]) : Append(fs[t], f)[k] = fs[t][k]
      /\ Append(fs[t], f)[Len(fs[t]) + 1] = f
      /\ Len(fs[t]) \in Nat
  BY <1>1, SeqAppend
<1>3. g \in FrameTable /\ g[t] = Append(fs[t], f) /\ \A u \in Threads \ {t} : g[u] = fs[u]
  BY <1>1, <1>2 DEF FrameTable
<1>4. \A u \in Threads, w \in Workers : Awaits(fs, u, w) => Awaits(g, u, w)
  BY <1>2, <1>3 DEF Awaits
<1>5. ASSUME NEW w \in Workers, f = MkFrame("shutdown", w, "test") PROVE Awaits(g, t, w)
  <2>1. Len(fs[t]) + 1 \in 1 .. Len(g[t]) /\ g[t][Len(fs[t]) + 1] = f
    BY <1>2, <1>3
  <2>2. f.fn = "shutdown" /\ f.of = w /\ f.at # "join"
    BY <1>5 DEF MkFrame
  <2> QED BY <2>1, <2>2 DEF Awaits
<1> QED BY <1>3, <1>4, <1>5 DEF Keeps

LEMMA TopFrame ==
    ASSUME TypeOK, NEW t \in Threads, ~Idle(t)
    PROVE  /\ frames[t] \in Seq(Frame) /\ Top(t) \in Frame
           /\ Top(t) = frames[t][Len(frames[t])] /\ Front(frames[t]) \in Seq(Frame)
           /\ Len(frames[t]) \in Nat \ {0} /\ Len(Front(frames[t])) = Len(frames[t]) - 1
           /\ \A k \in 1 .. Len(frames[t]) - 1 : Front(frames[t])[k] = frames[t][k]
<1>1. frames[t] \in Seq(Frame) /\ frames[t] # <<>>
  BY DEF TypeOK, Idle
<1> QED BY <1>1, SeqFront DEF Top

LEMMA StayKeeps == TypeOK => Keeps(frames)
BY DEF TypeOK, Keeps, FrameTable

\* The innermost call returns.
LEMMA ReturnKeeps ==
    ASSUME TypeOK, NEW t \in Threads, ~Idle(t),
           Top(t).fn # "shutdown" \/ Top(t).at = "join"
    PROVE  Keeps(Returned(t))
<1> DEFINE g == Returned(t)
           n == Len(frames[t])
<1>1. /\ Front(frames[t]) \in Seq(Frame) /\ n \in Nat \ {0}
      /\ Top(t) = frames[t][n] /\ Len(Front(frames[t])) = n - 1
      /\ \A k \in 1 .. n - 1 : Front(frames[t])[k] = frames[t][k]
  BY TopFrame
<1>2. /\ g \in FrameTable /\ g[t] = Front(frames[t])
      /\ \A u \in Threads \ {t} : g[u] = frames[u]
  BY <1>1 DEF Returned, TypeOK, FrameTable
<1>3. ASSUME NEW u \in Threads, NEW w \in Workers, Awaits(frames, u, w)
      PROVE  Awaits(g, u, w)
  <2>1. CASE u # t
    BY <1>2, <1>3, <2>1 DEF Awaits
  <2>2. CASE u = t
    <3>1. PICK k \in 1 .. n : /\ frames[t][k].fn = "shutdown" /\ frames[t][k].of = w
                              /\ frames[t][k].at # "join"
      BY <1>3, <2>2 DEF Awaits
    <3>2. k \in 1 .. n - 1
      BY <1>1, <3>1
    <3>3. k \in 1 .. Len(g[t]) /\ g[t][k] = frames[t][k]
      BY <1>1, <1>2, <3>2
    <3> QED BY <2>2, <3>1, <3>3 DEF Awaits
  <2> QED BY <2>1, <2>2
<1> HIDE DEF g
<1> QED BY <1>2, <1>3 DEF Keeps, g

\* The innermost call goes on; one that goes on to join has been acknowledged.
LEMMA MoveKeeps ==
    ASSUME TypeOK, NEW t \in Threads, ~Idle(t), NEW at,
           [Top(t) EXCEPT !.at = at] \in Frame,
           Top(t).fn = "shutdown" /\ at = "join" => Top(t).of \in acked
    PROVE  Keeps(Moved(t, at))
<1> DEFINE g == Moved(t, at)
           n == Len(frames[t])
           f == [Top(t) EXCEPT !.at = at]
<1>1. /\ Front(frames[t]) \in Seq(Frame) /\ n \in Nat \ {0}
      /\ Top(t) = frames[t][n] /\ Len(Front(frames[t])) = n - 1
      /\ \A k \in 1 .. n - 1 : Front(frames[t])[k] = frames[t][k]
      /\ Top(t) \in Frame
  BY TopFrame
<1>2. /\ Append(Front(frames[t]), f) \in Seq(Frame)
      /\ Len(Append(Front(frames[t]), f)) = n
      /\ \A k \in 1 .. n - 1 : Append(Front(frames[t]), f)[k] = frames[t][k]
      /\ Append(Front(frames[t]), f)[n] = f
  <2> HIDE DEF f
  <2>1. f \in Frame
    BY DEF f
  <2>2. /\ Append(Front(frames[t]), f) \in Seq(Frame)
        /\ Len(Append(Front(frames[t]), f)) = Len(Front(frames[t])) + 1
        /\ \A k \in 1 .. Len(Front(frames[t])) :
              Append(Front(frames[t]), f)[k] = Front(frames[t])[k]
        /\ Append(Front(frames[t]), f)[Len(Front(frames[t])) + 1] = f
    BY <1>1, <2>1, SeqAppend
  <2> QED BY <1>1, <2>2
<1>3. /\ g \in FrameTable /\ g[t] = Append(Front(frames[t]), f)
      /\ \A u \in Threads \ {t} : g[u] = frames[u]
  BY <1>2 DEF Moved, TypeOK, FrameTable, Top
<1>4. f.fn = Top(t).fn /\ f.of = Top(t).of /\ f.at = at
  <2>1. /\ DOMAIN Top(t) = {"fn", "of", "at"}
    BY <1>1 DEF Frame
  <2> QED BY <2>1
<1>5. ASSUME NEW u \in Threads, NEW w \in Workers, Awaits(frames, u, w), w \notin acked
      PROVE  Awaits(g, u, w)
  <2>1. CASE u # t
    BY <1>3, <1>5, <2>1 DEF Awaits
  <2>2. CASE u = t
    <3>1. PICK k \in 1 .. n : /\ frames[t][k].fn = "shutdown" /\ frames[t][k].of = w
                              /\ frames[t][k].at # "join"
      BY <1>5, <2>2 DEF Awaits
    <3>2. /\ k \in 1 .. Len(g[t]) /\ g[t][k].fn = "shutdown" /\ g[t][k].of = w
          /\ g[t][k].at # "join"
      <4> HIDE DEF f, g
      <4>1. CASE k = n
        BY <1>1, <1>2, <1>3, <1>4, <1>5, <3>1, <4>1
      <4>2. CASE k # n
        BY <1>1, <1>2, <1>3, <3>1, <4>2
      <4> QED BY <4>1, <4>2
    <3> QED BY <2>2, <3>2 DEF Awaits
  <2> QED BY <2>1, <2>2
<1> HIDE DEF g
<1> QED BY <1>3, <1>5 DEF Keeps, g

QueueTable == [Threads -> Seq(Message)]

\* In the queues q2 there are no messages of Control but those of q, and no message
\* has passed another or become two.
SameMail(q, q2) ==
    \A t \in Threads : \E d \in {0, 1} : \A k \in 1 .. Len(q2[t]) :
        q2[t][k].kind \in Control =>
            k + d \in 1 .. Len(q[t]) /\ q[t][k + d] = q2[t][k]

LEMMA StayMail ==
    ASSUME TypeOK
    PROVE  queue \in QueueTable /\ SameMail(queue, queue)
<1>1. queue \in QueueTable
  BY DEF TypeOK, QueueTable
<1>2. ASSUME NEW t \in Threads, NEW k \in 1 .. Len(queue[t])
      PROVE  k + 0 \in 1 .. Len(queue[t]) /\ queue[t][k + 0] = queue[t][k]
  OBVIOUS
<1> QED BY <1>1, <1>2 DEF SameMail

\* What a Put() adds is at the end, and is not about Shutdown().
LEMMA PutMail ==
    ASSUME TypeOK, NEW t \in Threads, NEW m \in Message
    PROVE  /\ Put(t, m) \in QueueTable
           /\ m.kind \notin Control => SameMail(queue, Put(t, m))
           /\ \A u \in Threads : \A k \in 1 .. Len(Put(t, m)[u]) :
                \/ k \in 1 .. Len(queue[u]) /\ Put(t, m)[u][k] = queue[u][k]
                \/ u = t /\ k = Len(queue[t]) + 1 /\ Put(t, m)[u][k] = m
<1> DEFINE q == Put(t, m)
<1>1. queue \in QueueTable /\ queue[t] \in Seq(Message)
  BY DEF TypeOK, QueueTable
<1>2. /\ Append(queue[t], m) \in Seq(Message)
      /\ Len(Append(queue[t], m)) = Len(queue[t]) + 1
      /\ \A k \in 1 .. Len(queue[t]) : Append(queue[t], m)[k] = queue[t][k]
      /\ Append(queue[t], m)[Len(queue[t]) + 1] = m /\ Len(queue[t]) \in Nat
  BY <1>1, SeqAppend
<1>3. CASE Doomed(t)
  BY <1>1, <1>3, StayMail DEF Put
<1>4. CASE ~Doomed(t)
  <2>1. q \in QueueTable /\ q[t] = Append(queue[t], m) /\ \A u \in Threads \ {t} : q[u] = queue[u]
    BY <1>1, <1>2, <1>4 DEF Put, QueueTable
  <2> HIDE DEF q
  <2>2. ASSUME NEW u \in Threads, NEW k \in 1 .. Len(q[u])
        PROVE  \/ k \in 1 .. Len(queue[u]) /\ q[u][k] = queue[u][k]
               \/ u = t /\ k = Len(queue[t]) + 1 /\ q[u][k] = m
    BY <1>2, <2>1
  <2>3. ASSUME m.kind \notin Control, NEW u \in Threads, NEW k \in 1 .. Len(q[u]),
               q[u][k].kind \in Control
        PROVE  k + 0 \in 1 .. Len(queue[u]) /\ queue[u][k + 0] = q[u][k]
    BY <2>2, <2>3
  <2>4. m.kind \notin Control => SameMail(queue, q)
    BY <2>3 DEF SameMail
  <2> QED BY <2>1, <2>2, <2>4 DEF q
<1> QED BY <1>3, <1>4

LEMMA TailMail ==
    ASSUME TypeOK, NEW t \in Threads, queue[t] # <<>>
    PROVE  LET q == [queue EXCEPT ![t] = Tail(@)]
           IN /\ q \in QueueTable /\ SameMail(queue, q)
              /\ Head(queue[t]) \in Message /\ Head(queue[t]) = queue[t][1]
              /\ 1 \in 1 .. Len(queue[t])
              /\ \A k \in 1 .. Len(q[t]) :
                    k + 1 \in 1 .. Len(queue[t]) /\ q[t][k] = queue[t][k + 1]
              /\ \A u \in Threads \ {t} : q[u] = queue[u]
<1> DEFINE q == [queue EXCEPT ![t] = Tail(@)]
<1>1. queue \in QueueTable /\ queue[t] \in Seq(Message)
  BY DEF TypeOK, QueueTable
<1>2. /\ Head(queue[t]) \in Message /\ Head(queue[t]) = queue[t][1]
      /\ Tail(queue[t]) \in Seq(Message)
      /\ Len(queue[t]) \in Nat \ {0} /\ Len(Tail(queue[t])) = Len(queue[t]) - 1
      /\ \A k \in 1 .. Len(Tail(queue[t])) : Tail(queue[t])[k] = queue[t][k + 1]
  BY <1>1, SeqTail
<1>3. q \in QueueTable /\ q[t] = Tail(queue[t]) /\ \A u \in Threads \ {t} : q[u] = queue[u]
  BY <1>1, <1>2 DEF QueueTable
<1> HIDE DEF q
<1>4. \A k \in 1 .. Len(q[t]) :
          k + 1 \in 1 .. Len(queue[t]) /\ q[t][k] = queue[t][k + 1]
  BY <1>2, <1>3
<1>5. ASSUME NEW u \in Threads, u # t, NEW k \in 1 .. Len(q[u])
      PROVE  k + 0 \in 1 .. Len(queue[u]) /\ queue[u][k + 0] = q[u][k]
  BY <1>3, <1>5
<1>6. ASSUME NEW u \in Threads
      PROVE  \E d \in {0, 1} : \A k \in 1 .. Len(q[u]) : q[u][k].kind \in Control =>
                k + d \in 1 .. Len(queue[u]) /\ queue[u][k + d] = q[u][k]
  <2>1. CASE u = t
    BY <1>4, <2>1
  <2>2. CASE u # t
    BY <1>5, <2>2
  <2> QED BY <2>1, <2>2
<1>7. SameMail(queue, q) /\ 1 \in 1 .. Len(queue[t])
  BY <1>2, <1>6 DEF SameMail
<1> QED BY <1>2, <1>3, <1>4, <1>7 DEF q

\* A queue that was replaced by one without messages of Control.
LEMMA FreshMail ==
    ASSUME TypeOK, NEW t \in Threads, NEW m \in Message, m.kind \notin Control
    PROVE  LET q == [queue EXCEPT ![t] = <<m>>]
           IN q \in QueueTable /\ SameMail(queue, q)
<1> DEFINE q == [queue EXCEPT ![t] = <<m>>]
<1>1. q \in QueueTable /\ q[t] = <<m>> /\ \A u \in Threads \ {t} : q[u] = queue[u]
  BY DEF TypeOK, QueueTable
<1> HIDE DEF q
<1>2. Len(q[t]) = 1 /\ q[t][1] = m
  BY <1>1
<1>3. ASSUME NEW u \in Threads, NEW k \in 1 .. Len(q[u]), q[u][k].kind \in Control
      PROVE  k + 0 \in 1 .. Len(queue[u]) /\ queue[u][k + 0] = q[u][k]
  <2>1. u # t
    BY <1>2, <1>3
  <2> QED BY <1>1, <2>1
<1>4. SameMail(queue, q)
  BY <1>3 DEF SameMail
<1> QED BY <1>1, <1>4 DEF q

----------------------------------------------------------------------------
(***************************************************************************)
(* Most steps send nothing about Shutdown(), take no such message, and end *)
(* no wait for it.                                                         *)
(***************************************************************************)
Quiet ==
    /\ SameMail(queue, queue')
    /\ context' = context /\ acked' = acked
    /\ Keeps(frames')
    /\ pc'[Main] \in MainPC
    /\ \A w \in Workers :
          /\ pc'[w] = "unborn" => pc[w] = "unborn"
          /\ w \in required' => w \in required \/ (pc[w] = "unborn" /\ pc'[w] # "unborn")
          /\ pc'[w] \in Serving => pc[w] \in Serving \/ pc[w] = "unborn"
          /\ pc'[w] \in Ending => pc[w] \in Ending \/ ShuttingDown(w)

\* A step that adds no message about Shutdown() makes no thread have one more.
LEMMA MailOf ==
    ASSUME SameMail(queue, queue')
    PROVE  /\ \A w \in Threads : HasAsk(w)' => HasAsk(w)
           /\ \A w \in Workers : HasAck(w)' => HasAck(w)
           /\ OneAsk => OneAsk'
           /\ OneAck => OneAck'
<1>0. \A t \in Threads : \E d \in {0, 1} : \A k \in 1 .. Len(queue'[t]) :
        queue'[t][k].kind \in Control =>
            k + d \in 1 .. Len(queue[t]) /\ queue[t][k + d] = queue'[t][k]
  BY DEF SameMail
<1>1. ASSUME NEW w \in Threads, HasAsk(w)' PROVE HasAsk(w)
  <2>1. PICK k \in 1 .. Len(queue'[w]) : queue'[w][k].kind = "shutdown"
    BY <1>1 DEF HasAsk
  <2>2. PICK j \in 1 .. Len(queue[w]) : queue[w][j] = queue'[w][k]
    BY <1>0, <2>1 DEF Control
  <2> QED BY <2>1, <2>2 DEF HasAsk
<1>2. ASSUME NEW w \in Workers, HasAck(w)' PROVE HasAck(w)
  <2>1. PICK t \in Threads : \E k \in 1 .. Len(queue'[t]) : queue'[t][k] = Msg("ack", w)
    BY <1>2 DEF HasAck
  <2>2. PICK k \in 1 .. Len(queue'[t]) : queue'[t][k] = Msg("ack", w)
    BY <2>1
  <2>3. queue'[t][k].kind \in Control
    BY <2>2 DEF Msg, Control
  <2>4. PICK j \in 1 .. Len(queue[t]) : queue[t][j] = queue'[t][k]
    BY <1>0, <2>3
  <2> QED BY <2>2, <2>4 DEF HasAck
<1>3. ASSUME OneAsk PROVE OneAsk'
  <2> SUFFICES ASSUME NEW w \in Threads, NEW i \in 1 .. Len(queue'[w]),
                      NEW j \in 1 .. Len(queue'[w]), queue'[w][i].kind = "shutdown",
                      queue'[w][j].kind = "shutdown"
               PROVE  i = j
    BY DEF OneAsk
  <2>1. PICK d \in {0, 1} : \A k \in 1 .. Len(queue'[w]) :
          queue'[w][k].kind \in Control =>
              k + d \in 1 .. Len(queue[w]) /\ queue[w][k + d] = queue'[w][k]
    BY <1>0
  <2>2. i + d = j + d
    BY <1>3, <2>1 DEF OneAsk, Control
  <2> QED BY <2>2
<1>4. ASSUME OneAck PROVE OneAck'
  <2> SUFFICES ASSUME NEW t \in Threads, NEW u \in Threads,
                      NEW i \in 1 .. Len(queue'[t]), NEW j \in 1 .. Len(queue'[u]),
                      queue'[t][i].kind = "ack", queue'[t][i] = queue'[u][j]
               PROVE  t = u /\ i = j
    BY DEF OneAck
  <2>1. PICK d \in {0, 1} : \A k \in 1 .. Len(queue'[t]) :
          queue'[t][k].kind \in Control =>
              k + d \in 1 .. Len(queue[t]) /\ queue[t][k + d] = queue'[t][k]
    BY <1>0
  <2>2. PICK e \in {0, 1} : \A k \in 1 .. Len(queue'[u]) :
          queue'[u][k].kind \in Control =>
              k + e \in 1 .. Len(queue[u]) /\ queue[u][k + e] = queue'[u][k]
    BY <1>0
  <2>3. t = u /\ i + d = j + e
    <3>1. queue'[t][i].kind \in Control /\ queue'[u][j].kind \in Control
      BY DEF Control
    <3>2. i + d \in 1 .. Len(queue[t]) /\ queue[t][i + d] = queue'[t][i]
      BY <2>1, <3>1
    <3>3. j + e \in 1 .. Len(queue[u]) /\ queue[u][j + e] = queue'[u][j]
      BY <2>2, <3>1
    <3>4. queue[t][i + d].kind = "ack" /\ queue[t][i + d] = queue[u][j + e]
      BY <3>2, <3>3
    <3> HIDE DEF OneAck
    <3> QED BY <1>4, <3>2, <3>3, <3>4 DEF OneAck
  <2>4. CASE d = e
    BY <2>3, <2>4
  <2>5. CASE d # e
    <3>1. i + e \in 1 .. Len(queue[t]) /\ queue[t][i + e] = queue'[t][i]
      BY <2>2, <2>3 DEF Control
    <3>2. queue[t][i + d] = queue'[t][i] /\ i + d \in 1 .. Len(queue[t])
      BY <2>1 DEF Control
    <3>3. i + e = i + d
      BY <1>4, <3>1, <3>2 DEF OneAck
    <3> QED BY <2>5, <3>3
  <2> QED BY <2>3, <2>4, <2>5
<1> QED BY <1>1, <1>2, <1>3, <1>4

LEMMA WaitsForIsAwaits ==
    \A t, w : (WaitsFor(t, w) <=> Awaits(frames, t, w))
              /\ (WaitsFor(t, w)' <=> Awaits(frames', t, w))
BY DEF WaitsFor, Awaits

\* While a shutdown of w is going on, w has not acknowledged yet.
LEMMA NotYetAcked ==
    ASSUME LifeInv, NEW w \in Workers,
           HasAsk(w) \/ HasAck(w) \/ (ShuttingDown(w) /\ pc[w] \in Serving)
    PROVE  w \notin acked
BY DEF LifeInv, Life, Turn

\* Whoever has sent a message about the shutdown of w still waits.
LEMMA AwaitedMail ==
    ASSUME LifeInv, SameMail(queue, queue'), Keeps(frames'), NEW w \in Workers
    PROVE  MailIsAwaited(w)'
<1>0. w \in Threads /\ MailIsAwaited(w)
  BY DEF LifeInv, Life, Threads
<1>1. ASSUME NEW t \in Threads, WaitsFor(t, w), w \notin acked PROVE WaitsFor(t, w)'
  BY <1>1, WaitsForIsAwaits DEF Keeps
<1>2. ASSUME NEW t \in Threads, NEW k \in 1 .. Len(queue'[w]),
             queue'[w][k] = Msg("shutdown", t)
      PROVE  WaitsFor(t, w)'
  <2>1. queue'[w][k].kind \in Control /\ queue'[w][k].kind = "shutdown"
    BY <1>2 DEF Msg, Control
  <2>2. PICK j \in 1 .. Len(queue[w]) : queue[w][j] = queue'[w][k]
    BY <1>0, <2>1 DEF SameMail
  <2>3. WaitsFor(t, w) /\ HasAsk(w)
    BY <1>0, <1>2, <2>1, <2>2 DEF MailIsAwaited, HasAsk
  <2> QED BY <1>1, <2>3, NotYetAcked
<1>3. ASSUME NEW t \in Threads, NEW k \in 1 .. Len(queue'[t]),
             queue'[t][k] = Msg("ack", w)
      PROVE  WaitsFor(t, w)'
  <2>1. queue'[t][k].kind \in Control
    BY <1>3 DEF Msg, Control
  <2>2. PICK j \in 1 .. Len(queue[t]) : queue[t][j] = queue'[t][k]
    BY <2>1 DEF SameMail
  <2>3. WaitsFor(t, w) /\ HasAck(w)
    BY <1>0, <1>3, <2>2 DEF MailIsAwaited, HasAck
  <2> QED BY <1>1, <2>3, NotYetAcked
<1> QED BY <1>2, <1>3 DEF MailIsAwaited

\* The caller of Shutdown() waits on when w keeps its context.
LEMMA HeldContext ==
    ASSUME LifeInv, Keeps(frames'), NEW w \in Workers, context'[w] = context[w],
           pc'[w] \in Serving => pc[w] \in Serving \/ pc[w] = "unborn"
    PROVE  ContextIsHeld(w)'
<1> SUFFICES ASSUME ShuttingDown(w)', pc'[w] \in Serving
             PROVE  WaitsFor(context[w], w)'
  BY DEF ContextIsHeld
<1>1. ShuttingDown(w) /\ pc[w] \in Serving
  BY DEF ShuttingDown, LifeInv, Life, Turn
<1>2. WaitsFor(context[w], w) /\ w \notin acked
  BY <1>1, NotYetAcked DEF LifeInv, Life, ContextIsHeld
<1>3. context[w] \in Threads
  <2>1. context \in [Threads -> Threads \cup {None}] /\ w \in Threads
    BY DEF LifeInv, TypeOK, Threads
  <2> QED BY <1>1, <2>1 DEF ShuttingDown
<1>4. PICK u \in Threads : u = context[w]
  BY <1>3
<1>5. WaitsFor(u, w)' /\ context'[w] = u
  BY <1>2, <1>4, WaitsForIsAwaits DEF Keeps
<1> QED BY <1>5 DEF WaitsFor

\* What a step does with the shutdown of w, if it does nothing for it.
PassesBy(w) ==
    /\ HasAsk(w)' => HasAsk(w)
    /\ HasAck(w)' => HasAck(w)
    /\ context'[w] = context[w]
    /\ w \in acked' => w \in acked
    /\ pc'[w] = "unborn" => pc[w] = "unborn"
    /\ w \in required' => w \in required \/ (pc[w] = "unborn" /\ pc'[w] # "unborn")
    /\ pc'[w] \in Serving => pc[w] \in Serving \/ pc[w] = "unborn"
    /\ pc'[w] \in Ending => pc[w] \in Ending \/ ShuttingDown(w)

\* The turn of a thread that a step does nothing for stays what it is.
LEMMA SameTurn ==
    ASSUME LifeInv, NEW w \in Workers, PassesBy(w)
    PROVE  Turn(w)'
BY DEF LifeInv, Life, Turn, PassesBy, ShuttingDown

\* A step that touches neither the messages nor the contexts of Shutdown() keeps the invariant.
LEMMA QuietKeepsLife ==
    ASSUME LifeInv, TypeOK', Quiet
    PROVE  LifeInv'
<1>1. /\ \A w \in Threads : HasAsk(w)' => HasAsk(w)
      /\ \A w \in Workers : HasAck(w)' => HasAck(w)
      /\ OneAsk' /\ OneAck'
  BY MailOf DEF LifeInv, Quiet
<1>2. ASSUME NEW w \in Workers PROVE Life(w)'
  <2>1. PassesBy(w)
    BY <1>1 DEF Quiet, PassesBy, Threads
  <2>2. ContextIsHeld(w)'
    BY HeldContext DEF Quiet
  <2>3. MailIsAwaited(w)'
    BY AwaitedMail DEF Quiet
  <2> QED BY <2>1, <2>2, <2>3, SameTurn DEF Life
<1>3. MainStays'
  BY <1>1 DEF LifeInv, MainStays, Quiet, ShuttingDown, Threads
<1> QED BY <1>1, <1>2, <1>3 DEF LifeInv

----------------------------------------------------------------------------
(***************************************************************************)
(* The four steps of a shutdown: it is asked for, taken, acknowledged, and *)
(* the acknowledgement is taken.                                           *)
(***************************************************************************)

\* Shutdown() begins: mShutdownRequired is reset, so nothing was asked of w before.
LEMMA AskKeepsLife ==
    ASSUME LifeInv, TypeOK', NEW t \in Threads, NEW u \in required,
           queue' = Put(u, Msg("shutdown", t)), context' = context, acked' = acked,
           required' = required \ {u}, pc' = pc, Keeps(frames'), Awaits(frames', t, u)
    PROVE  LifeInv'
<1> DEFINE m == Msg("shutdown", t)
<1>0. u \in Workers /\ u \in Threads /\ m \in Message /\ m.kind = "shutdown"
  BY DEF LifeInv, TypeOK, Threads, Message, Msg
<1>1. \A v \in Threads : \A k \in 1 .. Len(queue'[v]) :
        \/ k \in 1 .. Len(queue[v]) /\ queue'[v][k] = queue[v][k]
        \/ v = u /\ k = Len(queue[u]) + 1 /\ queue'[v][k] = m
  BY <1>0, PutMail DEF LifeInv
<1>2. Turn(u) /\ u \in required
  BY <1>0 DEF LifeInv, Life
<1>3. /\ ~HasAsk(u) /\ ~ShuttingDown(u) /\ ~HasAck(u) /\ u \notin acked
      /\ pc[u] # "unborn" /\ pc[u] \notin Ending
  BY <1>2 DEF Turn
<1>4. \A w \in Threads : w # u /\ HasAsk(w)' => HasAsk(w)
  BY <1>1 DEF HasAsk
<1>5. ASSUME NEW w \in Workers, HasAck(w)' PROVE HasAck(w)
  <2>1. PICK v \in Threads : \E k \in 1 .. Len(queue'[v]) : queue'[v][k] = Msg("ack", w)
    BY <1>5 DEF HasAck
  <2>2. PICK k \in 1 .. Len(queue'[v]) : queue'[v][k] = Msg("ack", w)
    BY <2>1
  <2>3. queue'[v][k] # m
    BY <2>2 DEF Msg
  <2> QED BY <1>1, <2>2, <2>3 DEF HasAck
<1>6. OneAsk'
  <2> SUFFICES ASSUME NEW w \in Threads, NEW i \in 1 .. Len(queue'[w]),
                      NEW j \in 1 .. Len(queue'[w]), queue'[w][i].kind = "shutdown",
                      queue'[w][j].kind = "shutdown"
               PROVE  i = j
    BY DEF OneAsk
  <2>1. CASE w # u
    BY <1>1, <2>1 DEF LifeInv, OneAsk
  <2>2. CASE w = u
    <3>1. \A k \in 1 .. Len(queue[u]) : queue[u][k].kind # "shutdown"
      BY <1>3 DEF HasAsk
    <3>2. i = Len(queue[u]) + 1 /\ j = Len(queue[u]) + 1
      BY <1>1, <2>2, <3>1
    <3> QED BY <3>2
  <2> QED BY <2>1, <2>2
<1>7. OneAck'
  <2> SUFFICES ASSUME NEW v \in Threads, NEW w \in Threads,
                      NEW i \in 1 .. Len(queue'[v]), NEW j \in 1 .. Len(queue'[w]),
                      queue'[v][i].kind = "ack", queue'[v][i] = queue'[w][j]
               PROVE  v = w /\ i = j
    BY DEF OneAck
  <2>1. queue'[v][i] # m /\ queue'[w][j] # m
    BY <1>0
  <2> QED BY <1>1, <2>1 DEF LifeInv, OneAck
<1>8. ASSUME NEW w \in Workers PROVE Life(w)'
  <2>0. w \in Threads /\ MailIsAwaited(w)
    BY DEF LifeInv, Life, Threads
  <2>1. ContextIsHeld(w)'
    BY HeldContext
  <2>2. Turn(w)'
    <3>1. CASE w # u
      <4>1. PassesBy(w)
        BY <1>4, <1>5, <2>0, <3>1 DEF PassesBy
      <4> QED BY <4>1, SameTurn
    <3>2. CASE w = u
      BY <1>3, <1>5, <3>2 DEF Turn, ShuttingDown
    <3> QED BY <3>1, <3>2
  <2>3. ASSUME NEW v \in Threads, WaitsFor(v, w), w \notin acked PROVE WaitsFor(v, w)'
    BY <2>3, WaitsForIsAwaits DEF Keeps
  <2>4. ASSUME NEW v \in Threads, NEW k \in 1 .. Len(queue'[w]),
               queue'[w][k] = Msg("shutdown", v)
        PROVE  WaitsFor(v, w)'
    <3>1. CASE k \in 1 .. Len(queue[w]) /\ queue'[w][k] = queue[w][k]
      <4>1. WaitsFor(v, w) /\ HasAsk(w)
        BY <2>0, <2>4, <3>1 DEF MailIsAwaited, HasAsk, Msg
      <4> QED BY <2>3, <4>1, NotYetAcked
    <3>2. CASE w = u /\ queue'[w][k] = m
      <4>1. v = t
        BY <2>4, <3>2 DEF Msg
      <4> QED BY <3>2, <4>1, WaitsForIsAwaits
    <3> QED BY <1>1, <2>0, <3>1, <3>2
  <2>5. ASSUME NEW v \in Threads, NEW k \in 1 .. Len(queue'[v]),
               queue'[v][k] = Msg("ack", w)
        PROVE  WaitsFor(v, w)'
    <3>1. queue'[v][k] # m
      BY <2>5 DEF Msg
    <3>2. WaitsFor(v, w) /\ HasAck(w)
      BY <1>1, <2>0, <2>5, <3>1 DEF MailIsAwaited, HasAck
    <3> QED BY <2>3, <3>2, NotYetAcked
  <2>6. MailIsAwaited(w)'
    BY <2>4, <2>5 DEF MailIsAwaited
  <2> QED BY <2>1, <2>2, <2>6 DEF Life
<1>9. MainStays'
  <2>1. Main # u /\ Main \in Threads
    BY <1>0, ThreadsAssumption DEF Threads
  <2> QED BY <1>4, <2>1 DEF LifeInv, MainStays, ShuttingDown
<1> QED BY <1>6, <1>7, <1>8, <1>9 DEF LifeInv

\* The shutdown event runs: the thread now holds the context the event had.
LEMMA TakenAskKeepsLife ==
    ASSUME LifeInv, TypeOK', NEW t \in Threads, queue[t] # <<>>,
           Head(queue[t]).kind = "shutdown",
           queue' = [queue EXCEPT ![t] = Tail(@)],
           context' = [context EXCEPT ![t] = Head(queue[t]).of],
           acked' = acked, required' = required, pc' = pc, Keeps(frames')
    PROVE  LifeInv'
<1> DEFINE m == Head(queue[t])
<1>0. /\ SameMail(queue, queue') /\ m \in Message /\ m = queue[t][1]
      /\ 1 \in 1 .. Len(queue[t])
      /\ \A k \in 1 .. Len(queue'[t]) :
            k + 1 \in 1 .. Len(queue[t]) /\ queue'[t][k] = queue[t][k + 1]
  BY TailMail DEF LifeInv
<1>1. /\ \A w \in Threads : HasAsk(w)' => HasAsk(w)
      /\ \A w \in Workers : HasAck(w)' => HasAck(w)
      /\ OneAsk' /\ OneAck'
  BY <1>0, MailOf DEF LifeInv
<1>2. HasAsk(t) /\ ~HasAsk(t)'
  <2>1. HasAsk(t)
    BY <1>0 DEF HasAsk
  <2>2. ASSUME NEW k \in 1 .. Len(queue'[t]), queue'[t][k].kind = "shutdown" PROVE FALSE
    <3>1. k + 1 = 1
      BY <1>0, <2>2 DEF LifeInv, OneAsk
    <3> QED BY <3>1
  <2> QED BY <2>1, <2>2 DEF HasAsk
<1>3. t \in Workers
  BY <1>2 DEF LifeInv, MainStays, Threads
<1>4. m.of \in Threads /\ m = Msg("shutdown", m.of)
  BY <1>0 DEF Message, Msg
<1>5. Turn(t) /\ WaitsFor(m.of, t)
  BY <1>0, <1>3, <1>4 DEF LifeInv, Life, MailIsAwaited
<1>6. /\ ~ShuttingDown(t) /\ ~HasAck(t) /\ t \notin acked /\ t \notin required
      /\ pc[t] # "unborn" /\ pc[t] \notin Ending
  BY <1>2, <1>5 DEF Turn
<1>7. context'[t] = m.of /\ \A w \in Threads \ {t} : context'[w] = context[w]
  BY DEF LifeInv, TypeOK
<1>8. ASSUME NEW w \in Workers PROVE Life(w)'
  <2>0. w \in Threads
    BY DEF Threads
  <2>1. MailIsAwaited(w)'
    BY <1>0, AwaitedMail
  <2>2. CASE w # t
    <3>1. context'[w] = context[w]
      BY <1>7, <2>0, <2>2
    <3>2. PassesBy(w)
      BY <1>1, <2>0, <3>1 DEF PassesBy
    <3> QED BY <2>1, <3>1, <3>2, SameTurn, HeldContext DEF Life
  <2>3. CASE w = t
    <3>1. Turn(t)'
      BY <1>1, <1>2, <1>3, <1>6 DEF Turn
    <3>2. PICK u \in Threads : u = m.of
      BY <1>4
    <3>3. WaitsFor(u, t)' /\ context'[t] = u
      BY <1>3, <1>5, <1>6, <1>7, <3>2, WaitsForIsAwaits DEF Keeps
    <3>4. ContextIsHeld(t)'
      BY <3>3 DEF ContextIsHeld, WaitsFor
    <3> QED BY <2>1, <2>3, <3>1, <3>4 DEF Life
  <2> QED BY <2>2, <2>3
<1>9. MainStays'
  <2>1. Main # t /\ Main \in Threads
    BY <1>3, ThreadsAssumption DEF Threads
  <2> QED BY <1>1, <1>7, <2>1 DEF LifeInv, MainStays, ShuttingDown
<1> QED BY <1>1, <1>8, <1>9 DEF LifeInv

\* A thread that ends acknowledges, and does not use the context after that.
LEMMA AckKeepsLife ==
    ASSUME LifeInv, TypeOK', NEW t \in Threads, SendAck(t)
    PROVE  LifeInv'
<1>0. /\ pc[t] = "acking" /\ pc' = [pc EXCEPT ![t] = "exiting"]
      /\ queue' = Put(context[t], Msg("ack", t))
      /\ frames' = frames /\ context' = context /\ acked' = acked /\ required' = required
  BY DEF SendAck, GoesTo, Moves
<1>1. t \in Workers /\ t # Main
  BY <1>0 DEF LifeInv, MainStays, MainPC, Threads
<1>2. Turn(t) /\ ContextIsHeld(t)
  BY <1>1 DEF LifeInv, Life
<1>3. ShuttingDown(t) /\ pc[t] \in Serving
  BY <1>0, <1>2 DEF Turn, Ending, Serving
<1>4. /\ ~HasAsk(t) /\ ~HasAck(t) /\ t \notin acked /\ t \notin required
      /\ WaitsFor(context[t], t)
  BY <1>2, <1>3 DEF Turn, ContextIsHeld
<1>5. PICK u \in Threads : u = context[t]
  <2>1. context[t] \in Threads \cup {None}
    BY DEF LifeInv, TypeOK
  <2> QED BY <1>3, <2>1 DEF ShuttingDown
<1> DEFINE m == Msg("ack", t)
<1>6. m \in Message /\ m.kind = "ack"
  BY <1>1 DEF Message, Msg
<1>7. \A v \in Threads : \A k \in 1 .. Len(queue'[v]) :
        \/ k \in 1 .. Len(queue[v]) /\ queue'[v][k] = queue[v][k]
        \/ v = u /\ k = Len(queue[u]) + 1 /\ queue'[v][k] = m
  BY <1>0, <1>5, <1>6, PutMail DEF LifeInv
<1>8. pc'[t] = "exiting" /\ \A w \in Threads \ {t} : pc'[w] = pc[w]
  BY <1>0 DEF LifeInv, TypeOK
<1>9. \A w \in Threads : HasAsk(w)' => HasAsk(w)
  BY <1>6, <1>7 DEF HasAsk
<1>10. ASSUME NEW w \in Workers, w # t, HasAck(w)' PROVE HasAck(w)
  <2>1. PICK v \in Threads : \E k \in 1 .. Len(queue'[v]) : queue'[v][k] = Msg("ack", w)
    BY <1>10 DEF HasAck
  <2>2. PICK k \in 1 .. Len(queue'[v]) : queue'[v][k] = Msg("ack", w)
    BY <2>1
  <2>3. queue'[v][k] # m
    BY <1>10, <2>2 DEF Msg
  <2> QED BY <1>7, <2>2, <2>3 DEF HasAck
<1>11. OneAsk'
  BY <1>6, <1>7 DEF LifeInv, OneAsk
<1>12. OneAck'
  <2> SUFFICES ASSUME NEW v \in Threads, NEW w \in Threads,
                      NEW i \in 1 .. Len(queue'[v]), NEW j \in 1 .. Len(queue'[w]),
                      queue'[v][i].kind = "ack", queue'[v][i] = queue'[w][j]
               PROVE  v = w /\ i = j
    BY DEF OneAck
  <2>1. \A x \in Threads : \A k \in 1 .. Len(queue[x]) : queue[x][k] # m
    BY <1>4 DEF HasAck
  <2> HIDE DEF m
  <2>2. CASE queue'[v][i] = m
    <3>1. v = u /\ i = Len(queue[u]) + 1
      BY <1>7, <2>1, <2>2
    <3>2. queue'[w][j] = m
      BY <2>2
    <3>3. w = u /\ j = Len(queue[u]) + 1
      BY <1>7, <2>1, <3>2
    <3> QED BY <3>1, <3>3
  <2>3. CASE queue'[v][i] # m
    <3>1. i \in 1 .. Len(queue[v]) /\ queue'[v][i] = queue[v][i]
      BY <1>7, <2>3
    <3>2. j \in 1 .. Len(queue[w]) /\ queue'[w][j] = queue[w][j]
      BY <1>7, <2>3
    <3>3. queue[v][i].kind = "ack" /\ queue[v][i] = queue[w][j]
      BY <3>1, <3>2
    <3> QED BY <3>1, <3>2, <3>3 DEF LifeInv, OneAck
  <2> QED BY <2>2, <2>3
<1>13. ASSUME NEW w \in Workers PROVE Life(w)'
  <2>0. w \in Threads /\ MailIsAwaited(w)
    BY DEF LifeInv, Life, Threads
  <2>1. Turn(w)' /\ ContextIsHeld(w)'
    <3>1. CASE w # t
      <4>1. pc'[w] = pc[w]
        BY <1>8, <2>0, <3>1
      <4>2. PassesBy(w)
        BY <1>0, <1>9, <1>10, <2>0, <3>1, <4>1 DEF PassesBy
      <4>3. Keeps(frames')
        BY <1>0, StayKeeps DEF LifeInv
      <4> QED BY <1>0, <4>1, <4>2, <4>3, SameTurn, HeldContext
    <3>2. CASE w = t
      <4>1. ContextIsHeld(t)'
        BY <1>8 DEF ContextIsHeld, Serving
      <4>2. Turn(t)'
        BY <1>0, <1>3, <1>4, <1>8, <1>9, <2>0, <3>2 DEF Turn, ShuttingDown, Serving
      <4> QED BY <3>2, <4>1, <4>2
    <3> QED BY <3>1, <3>2
  <2>2. ASSUME NEW v \in Threads, WaitsFor(v, w) PROVE WaitsFor(v, w)'
    BY <1>0, <2>2 DEF WaitsFor
  <2>3. ASSUME NEW v \in Threads, NEW k \in 1 .. Len(queue'[w]),
               queue'[w][k] = Msg("shutdown", v)
        PROVE  WaitsFor(v, w)'
    <3>1. queue'[w][k] # m
      BY <2>3 DEF Msg
    <3>2. WaitsFor(v, w)
      BY <1>7, <2>0, <2>3, <3>1 DEF MailIsAwaited
    <3> QED BY <2>2, <3>2
  <2>4. ASSUME NEW v \in Threads, NEW k \in 1 .. Len(queue'[v]),
               queue'[v][k] = Msg("ack", w)
        PROVE  WaitsFor(v, w)'
    <3>1. CASE k \in 1 .. Len(queue[v]) /\ queue'[v][k] = queue[v][k]
      BY <2>0, <2>2, <2>4, <3>1 DEF MailIsAwaited
    <3>2. CASE v = u /\ queue'[v][k] = m
      <4>1. w = t
        BY <2>4, <3>2 DEF Msg
      <4>2. WaitsFor(u, t)
        BY <1>4, <1>5
      <4> QED BY <2>2, <3>2, <4>1, <4>2
    <3> QED BY <1>7, <3>1, <3>2
  <2>5. MailIsAwaited(w)'
    BY <2>3, <2>4 DEF MailIsAwaited
  <2> QED BY <2>1, <2>5 DEF Life
<1>14. MainStays'
  BY <1>0, <1>1, <1>8, <1>9 DEF LifeInv, MainStays, ShuttingDown, Threads
<1> QED BY <1>11, <1>12, <1>13, <1>14 DEF LifeInv

\* The acknowledgement runs: nothing else about this thread is on its way any more.
LEMMA TakenAckKeepsLife ==
    ASSUME LifeInv, TypeOK', NEW t \in Threads, queue[t] # <<>>,
           Head(queue[t]).kind = "ack",
           queue' = [queue EXCEPT ![t] = Tail(@)],
           acked' = acked \cup {Head(queue[t]).of},
           context' = context, required' = required, pc' = pc, Keeps(frames')
    PROVE  LifeInv'
<1>0. /\ SameMail(queue, queue') /\ Head(queue[t]) \in Message
      /\ Head(queue[t]) = queue[t][1] /\ 1 \in 1 .. Len(queue[t])
      /\ \A k \in 1 .. Len(queue'[t]) :
            k + 1 \in 1 .. Len(queue[t]) /\ queue'[t][k] = queue[t][k + 1]
      /\ \A v \in Threads \ {t} : queue'[v] = queue[v]
  BY TailMail DEF LifeInv
<1>1. /\ \A w \in Threads : HasAsk(w)' => HasAsk(w)
      /\ \A w \in Workers : HasAck(w)' => HasAck(w)
      /\ OneAsk' /\ OneAck'
  BY <1>0, MailOf DEF LifeInv
<1>2. PICK u \in Workers : u = Head(queue[t]).of /\ Head(queue[t]) = Msg("ack", u)
  BY <1>0 DEF Message, Msg
<1>3. HasAck(u)
  BY <1>0, <1>2 DEF HasAck
<1>4. ~HasAck(u)'
  <2> SUFFICES ASSUME NEW v \in Threads, NEW k \in 1 .. Len(queue'[v]),
                      queue'[v][k] = Msg("ack", u)
               PROVE  FALSE
    BY DEF HasAck
  <2>1. queue[t][1].kind = "ack" /\ queue[t][1] = queue'[v][k]
    BY <1>0, <1>2
  <2>2. CASE v # t
    BY <1>0, <2>1, <2>2 DEF LifeInv, OneAck
  <2>3. CASE v = t
    <3>1. k + 1 \in 1 .. Len(queue[t]) /\ queue[t][1] = queue[t][k + 1]
      BY <1>0, <2>1, <2>3
    <3>2. k + 1 = 1
      BY <1>0, <2>1, <3>1 DEF LifeInv, OneAck
    <3> QED BY <3>2
  <2> QED BY <2>2, <2>3
<1>5. Turn(u)
  BY <1>2 DEF LifeInv, Life
<1>6. /\ ~HasAsk(u) /\ ~(ShuttingDown(u) /\ pc[u] \in Serving)
      /\ u \notin required /\ pc[u] # "unborn"
  BY <1>3, <1>5 DEF Turn
<1>7. ASSUME NEW w \in Workers PROVE Life(w)'
  <2>0. w \in Threads /\ u \in Threads
    BY <1>2 DEF Threads
  <2>1. ContextIsHeld(w)' /\ MailIsAwaited(w)'
    BY <1>0, HeldContext, AwaitedMail
  <2>2. CASE w # u
    <3>1. PassesBy(w)
      BY <1>1, <1>2, <2>0, <2>2 DEF PassesBy
    <3> QED BY <2>1, <3>1, SameTurn DEF Life
  <2>3. CASE w = u
    <3>1. Turn(u)'
      BY <1>1, <1>4, <1>5, <1>6, <2>0 DEF Turn, ShuttingDown
    <3> QED BY <2>1, <2>3, <3>1 DEF Life
  <2> QED BY <2>2, <2>3
<1>8. MainStays'
  BY <1>1 DEF LifeInv, MainStays, ShuttingDown, Threads
<1> QED BY <1>1, <1>7, <1>8 DEF LifeInv

----------------------------------------------------------------------------
(***************************************************************************)
(* The steps of the code.                                                  *)
(***************************************************************************)

LEMMA FrameKinds ==
    /\ \A e \in Events : /\ MkFrame("run", e, "client") \in Frame
                         /\ MkFrame("task", e, "client") \in Frame
                         /\ MkFrame("sync", e, "test") \in Frame
    /\ \A w \in Workers : /\ MkFrame("shutdown", w, "test") \in Frame
                          /\ MkFrame("init", w, "wait") \in Frame
BY DEF Frame, MkFrame

LEMMA MovedFrame ==
    ASSUME NEW f \in Frame, NEW at,
           \/ f.fn = "sync" /\ at \in {"test", "next"}
           \/ f.fn = "shutdown" /\ at \in {"test", "next", "join"}
           \/ f.fn = "task" /\ at \in {"client", "reply"}
    PROVE  [f EXCEPT !.at = at] \in Frame
BY DEF Frame

LEMMA Types ==
    ASSUME TypeOK, Keeps(frames'), queue' \in QueueTable,
           pc' \in [Threads -> PC],
           context' \in [Threads -> Threads \cup {None}],
           required' \subseteq Workers, acked' \subseteq Workers,
           UNCHANGED <<pending, origin, accepted>>
             \/ /\ pending' \subseteq Events /\ accepted' \subseteq Events
                /\ origin' \in [Events -> Threads \cup {None}],
           creator' \in [Workers -> Threads \cup {None}],
           initialized' \in BOOLEAN, registered' \subseteq Workers, todo' \subseteq Workers,
           late' \subseteq Workers, ran' \subseteq Events
    PROVE  TypeOK'
BY DEF TypeOK, Keeps, FrameTable, QueueTable

\* A step of which the threads do not see but calls and messages.
LEMMA QuietCall ==
    ASSUME LifeInv, SameMail(queue, queue'), Keeps(frames'),
           UNCHANGED <<pc, context, acked, required>>
    PROVE  Quiet
BY DEF LifeInv, MainStays, Quiet

\* Whatever event is next in a queue, running it keeps the invariant.
LEMMA RunKeepsLife ==
    ASSUME LifeInv, NEW t \in Threads, NEW fs, Keeps(fs), RunFirst(t, fs)
    PROVE  LifeInv'
<1> DEFINE m == Head(queue[t])
           RunsAs(fn) == /\ frames' = [fs EXCEPT ![t] = Append(@, MkFrame(fn, m.of, "client"))]
                         /\ ran' = ran \cup {m.of} /\ UNCHANGED <<context, acked>>
<1>1. /\ queue[t] # <<>> /\ queue' = [queue EXCEPT ![t] = Tail(@)]
      /\ UNCHANGED <<pc, required, pending, origin, creator, initialized, registered,
                     todo, late, accepted>>
      /\ \/ m.kind = "event" /\ RunsAs("run")
         \/ m.kind = "sync" /\ RunsAs("task")
         \/ frames' = fs /\ UNCHANGED <<context, acked, ran>>
         \/ /\ m.kind = "shutdown" /\ context' = [context EXCEPT ![t] = m.of]
            /\ frames' = fs /\ UNCHANGED <<acked, ran>>
         \/ /\ m.kind = "ack" /\ acked' = acked \cup {m.of}
            /\ frames' = fs /\ UNCHANGED <<context, ran>>
  BY DEF RunFirst
<1>2. TypeOK /\ queue' \in QueueTable /\ SameMail(queue, queue') /\ m \in Message
  BY <1>1, TailMail DEF LifeInv
<1> HIDE DEF m
<1>3. ASSUME NEW fn \in {"run", "task"}, RunsAs(fn), m.kind \in {"event", "sync"}
      PROVE  LifeInv'
  <2>1. m.of \in Events
    BY <1>2, <1>3 DEF Message
  <2>2. Keeps(frames')
    BY <1>3, <2>1, CallKeeps, FrameKinds
  <2>3. TypeOK'
    BY <1>1, <1>2, <1>3, <2>1, <2>2, Types DEF TypeOK
  <2>4. Quiet
    BY <1>1, <1>2, <1>3, <2>2, QuietCall
  <2> QED BY <2>3, <2>4, QuietKeepsLife
<1>4. CASE frames' = fs /\ UNCHANGED <<context, acked, ran>>
  <2>1. TypeOK'
    BY <1>1, <1>2, <1>4, Types DEF TypeOK
  <2>2. Quiet
    BY <1>1, <1>2, <1>4, QuietCall
  <2> QED BY <2>1, <2>2, QuietKeepsLife
<1>5. CASE /\ m.kind = "shutdown" /\ context' = [context EXCEPT ![t] = m.of]
           /\ frames' = fs /\ UNCHANGED <<acked, ran>>
  <2>1. m.of \in Threads
    BY <1>2, <1>5 DEF Message
  <2>2. TypeOK'
    BY <1>1, <1>2, <1>5, <2>1, Types DEF TypeOK
  <2> QED BY <1>1, <1>5, <2>2, TakenAskKeepsLife DEF m
<1>6. CASE /\ m.kind = "ack" /\ acked' = acked \cup {m.of}
           /\ frames' = fs /\ UNCHANGED <<context, ran>>
  <2>1. m.of \in Workers
    BY <1>2, <1>6 DEF Message
  <2>2. TypeOK'
    BY <1>1, <1>2, <1>6, <2>1, Types DEF TypeOK
  <2> QED BY <1>1, <1>6, <2>2, TakenAckKeepsLife DEF m
<1> HIDE DEF RunsAs
<1> QED BY <1>1, <1>3, <1>4, <1>5, <1>6

\* A thread goes on in its outermost function.
LEMMA MovesKeepsLife ==
    ASSUME LifeInv, NEW t \in Threads, NEW at \in PC, Moves(t, at),
           queue' \in QueueTable, SameMail(queue, queue'),
           t = Main => at \in MainPC,
           at # "unborn",
           at \in Serving => pc[t] \in Serving,
           at \in Ending => pc[t] \in Ending \/ ShuttingDown(t),
           registered' \subseteq Workers, todo' \subseteq Workers, late' \subseteq Workers
    PROVE  LifeInv'
<1>1. /\ pc' = [pc EXCEPT ![t] = at]
      /\ UNCHANGED <<frames, context, required, acked, pending, origin, creator,
                     initialized, accepted, ran>>
  BY DEF Moves
<1>2. TypeOK /\ Keeps(frames')
  BY <1>1, StayKeeps DEF LifeInv
<1>3. pc' \in [Threads -> PC] /\ pc'[t] = at /\ \A u \in Threads \ {t} : pc'[u] = pc[u]
  BY <1>1, <1>2 DEF TypeOK
<1>4. TypeOK'
  BY <1>1, <1>2, <1>3, Types DEF TypeOK
<1>5. pc'[Main] \in MainPC
  BY <1>3 DEF LifeInv, MainStays, Threads
<1>6. ASSUME NEW w \in Workers
      PROVE  /\ pc'[w] = "unborn" => pc[w] = "unborn"
             /\ pc'[w] \in Serving => pc[w] \in Serving \/ pc[w] = "unborn"
             /\ pc'[w] \in Ending => pc[w] \in Ending \/ ShuttingDown(w)
  BY <1>3 DEF Threads
<1>7. Quiet
  BY <1>1, <1>2, <1>5, <1>6 DEF Quiet
<1> QED BY <1>4, <1>7, QuietKeepsLife

LEMMA NotMain ==
    ASSUME LifeInv, NEW t \in Threads, pc[t] \notin MainPC \/ ShuttingDown(t)
    PROVE  t # Main /\ t \in Workers
BY DEF LifeInv, MainStays, Threads

\* The steps of ThreadFunc keep the invariant.
LEMMA ThreadFuncKeepsLife ==
    ASSUME LifeInv, NEW t \in Threads, ThreadFunc(t)
    PROVE  LifeInv'
<1>0. /\ TypeOK /\ queue \in QueueTable /\ SameMail(queue, queue) /\ Keeps(frames)
      /\ registered \subseteq Workers /\ todo \subseteq Workers /\ late \subseteq Workers
  BY StayKeeps, StayMail DEF LifeInv, TypeOK
<1>1. CASE Register(t)
  <2>1. t \in Workers /\ t # Main
    BY <1>1, NotMain DEF Register, MainPC
  <2> QED BY <1>0, <1>1, <2>1, MovesKeepsLife
          DEF Register, GoesTo, PC, Serving, Ending
<1>2. CASE Startup(t)
  <2>1. t # Main
    BY <1>2, NotMain DEF Startup, MainPC
  <2>2. queue' \in QueueTable /\ SameMail(queue, queue')
    BY <1>0, <1>2, TailMail DEF Startup
  <2> QED BY <1>0, <1>2, <2>1, <2>2, MovesKeepsLife
          DEF Startup, GoesTo, PC, Serving, Ending
<1>3. CASE LoopRuns(t) \/ RestRuns(t)
  BY <1>0, <1>3, RunKeepsLife DEF LoopRuns, RestRuns
<1>4. CASE LoopEnds(t)
  <2>1. t # Main
    BY <1>4, NotMain DEF LoopEnds
  <2> QED BY <1>0, <1>4, <2>1, MovesKeepsLife
          DEF LoopEnds, GoesTo, PC, Serving, Ending
<1>5. CASE LastTest(t) \/ RestIsEmpty(t)
  <2>1. t # Main
    BY <1>5, NotMain DEF LastTest, RestIsEmpty, MainPC
  <2>2. PICK at \in {"leaving", "rest", "last"} : GoesTo(t, at)
    BY <1>5 DEF LastTest, RestIsEmpty
  <2> QED BY <1>0, <1>5, <2>1, <2>2, MovesKeepsLife
          DEF LastTest, RestIsEmpty, GoesTo, PC, Serving, Ending
<1>6. CASE Unregister(t)
  <2>1. t # Main
    BY <1>6, NotMain DEF Unregister, MainPC
  <2> QED BY <1>0, <1>6, <2>1, MovesKeepsLife
          DEF Unregister, GoesTo, PC, Serving, Ending
<1>7. CASE SendAck(t)
  <2>1. t \in Workers
    BY <1>7, NotMain DEF SendAck, MainPC
  <2>2. ShuttingDown(t) /\ context[t] \in Threads
    <3>1. context[t] \in Threads \cup {None}
      BY <1>0 DEF TypeOK
    <3>2. ShuttingDown(t)
      BY <1>7, <2>1 DEF SendAck, Ending, LifeInv, Life, Turn
    <3> QED BY <3>1, <3>2 DEF ShuttingDown
  <2>3. Msg("ack", t) \in Message
    BY <2>1 DEF Msg, Message
  <2>4. queue' \in QueueTable
    BY <1>0, <1>7, <2>2, <2>3, PutMail DEF SendAck
  <2>5. /\ UNCHANGED <<frames, context, required, acked, pending, origin, creator,
                       initialized, accepted, ran, registered, todo, late>>
        /\ pc' = [pc EXCEPT ![t] = "exiting"]
    BY <1>7 DEF SendAck, GoesTo, Moves
  <2>6. pc' \in [Threads -> PC]
    BY <1>0, <2>5 DEF TypeOK, PC
  <2>7. TypeOK'
    BY <1>0, <2>4, <2>5, <2>6, Types DEF TypeOK
  <2> QED BY <1>7, <2>7, AckKeepsLife
<1>8. CASE ThreadEnds(t)
  <2>1. t # Main
    BY <1>8, NotMain DEF ThreadEnds, MainPC
  <2> QED BY <1>0, <1>8, <2>1, MovesKeepsLife
          DEF ThreadEnds, GoesTo, PC, Serving, Ending
<1> QED BY <1>1, <1>2, <1>3, <1>4, <1>5, <1>6, <1>7, <1>8 DEF ThreadFunc

\* Without an origin nothing would be sent.  (It is always there, but that is not
\* needed here.)
LEMMA PutNowhere ==
    ASSUME TypeOK, NEW m
    PROVE  Put(None, m) = queue
<1>1. queue \in [Threads -> Seq(Message)] /\ None \notin Threads
  BY ThreadsAssumption DEF TypeOK, Threads
<1>2. [queue EXCEPT ![None] = Append(@, m)] = queue
  BY <1>1
<1> QED BY <1>2 DEF Put

LEMMA GoesKeepsLife ==
    ASSUME LifeInv, NEW fs, Keeps(fs), Goes(fs), UNCHANGED <<pc, required>>,
           pending' \subseteq Events, queue' \in QueueTable, SameMail(queue, queue')
    PROVE  LifeInv'
<1>1. /\ frames' = fs
      /\ UNCHANGED <<context, acked, origin, creator, initialized, registered, todo,
                     late, accepted, ran>>
  BY DEF Goes, history
<1>2. TypeOK'
  BY <1>1, Types DEF LifeInv, TypeOK
<1>3. Quiet
  BY <1>1, QuietCall
<1> QED BY <1>2, <1>3, QuietKeepsLife

\* The steps of calls that wait, and the return of events, keep the invariant.
LEMMA CallKeepsLife ==
    ASSUME LifeInv, NEW t \in Threads, Call(t)
    PROVE  LifeInv'
<1>0. /\ TypeOK /\ queue \in QueueTable /\ SameMail(queue, queue)
      /\ pending \subseteq Events
  BY StayMail DEF LifeInv, TypeOK
<1>t. ~Idle(t) => Top(t) \in Frame
  BY <1>0, TopFrame
<1>1. CASE Tests(t)
  <2>1. /\ ~Idle(t) /\ Top(t).fn \in {"sync", "shutdown"}
        /\ UNCHANGED <<pc, queue, required, pending>>
    BY <1>1 DEF Tests, Waits
  <2>2. CASE Goes(Moved(t, "next"))
    <3>1. Keeps(Moved(t, "next"))
      BY <1>0, <1>t, <2>1, MovedFrame, MoveKeeps
    <3> QED BY <1>0, <2>1, <2>2, <3>1, GoesKeepsLife
  <2>3. CASE Done(Top(t)) /\ Top(t).fn = "shutdown" /\ Goes(Moved(t, "join"))
    <3>1. Top(t).of \in acked
      BY <2>3 DEF Done
    <3>2. Keeps(Moved(t, "join"))
      BY <1>0, <1>t, <2>1, <2>3, <3>1, MovedFrame, MoveKeeps
    <3> QED BY <1>0, <2>1, <2>3, <3>2, GoesKeepsLife
  <2>4. CASE Top(t).fn = "sync" /\ Goes(Returned(t))
    <3>1. Keeps(Returned(t))
      BY <1>0, <2>1, <2>4, ReturnKeeps
    <3> QED BY <1>0, <2>1, <2>4, <3>1, GoesKeepsLife
  <2> QED BY <1>1, <2>2, <2>3, <2>4 DEF Tests
<1>2. CASE WaitingRuns(t)
  <2>1. ~Idle(t) /\ Top(t).fn \in {"sync", "shutdown"} /\ RunFirst(t, Moved(t, "test"))
    BY <1>2 DEF WaitingRuns, Waits
  <2>2. Keeps(Moved(t, "test"))
    BY <1>0, <1>t, <2>1, MovedFrame, MoveKeeps
  <2> QED BY <2>1, <2>2, RunKeepsLife
<1>3. CASE WaitingSpins(t)
  <2>1. /\ ~Idle(t) /\ Top(t).fn \in {"sync", "shutdown"} /\ Goes(Moved(t, "test"))
        /\ UNCHANGED <<pc, queue, required, pending>>
    BY <1>3 DEF WaitingSpins, Waits
  <2>2. Keeps(Moved(t, "test"))
    BY <1>0, <1>t, <2>1, MovedFrame, MoveKeeps
  <2> QED BY <1>0, <2>1, <2>2, GoesKeepsLife
<1>4. CASE Joins(t)
  <2>1. /\ ~Idle(t) /\ Top(t).fn = "shutdown" /\ Top(t).at = "join"
        /\ pc[Top(t).of] = "ended" /\ pc' = [pc EXCEPT ![Top(t).of] = "joined"]
        /\ Goes(Returned(t)) /\ UNCHANGED <<queue, required, pending>>
    BY <1>4 DEF Joins, In
  <2>2. PICK u \in Workers : u = Top(t).of
    BY <1>t, <2>1 DEF Frame
  <2>3. /\ pc' \in [Threads -> PC] /\ pc'[u] = "joined"
        /\ \A v \in Threads \ {u} : pc'[v] = pc[v]
    BY <1>0, <2>1, <2>2 DEF TypeOK, PC, Threads
  <2>4. Keeps(frames')
    BY <1>0, <2>1, ReturnKeeps DEF Goes
  <2>5. UNCHANGED <<context, acked, origin, creator, initialized, registered, todo,
                    late, accepted, ran>>
    BY <2>1 DEF Goes, history
  <2>6. TypeOK'
    BY <1>0, <2>1, <2>3, <2>4, <2>5, Types DEF TypeOK
  <2>7. pc'[Main] \in MainPC
    BY <2>2, <2>3, ThreadsAssumption DEF LifeInv, MainStays, Threads
  <2>8. ASSUME NEW w \in Workers
        PROVE  /\ pc'[w] = "unborn" => pc[w] = "unborn"
               /\ pc'[w] \in Serving => pc[w] \in Serving
               /\ pc'[w] \in Ending => pc[w] \in Ending
    BY <2>1, <2>2, <2>3 DEF Threads, Serving, Ending
  <2>9. Quiet
    BY <1>0, <2>1, <2>4, <2>5, <2>7, <2>8 DEF Quiet
  <2> QED BY <2>6, <2>9, QuietKeepsLife
<1>5. CASE NewThreadReturns(t) \/ EventReturns(t)
  <2>1. /\ ~Idle(t) /\ Top(t).fn \in {"init", "run"} /\ Goes(Returned(t))
        /\ UNCHANGED <<pc, queue, required, pending>>
    BY <1>5 DEF NewThreadReturns, EventReturns, In
  <2>2. Keeps(Returned(t))
    BY <1>0, <2>1, ReturnKeeps
  <2> QED BY <1>0, <2>1, <2>2, GoesKeepsLife
<1>6. CASE TaskReturns(t)
  <2>1. /\ ~Idle(t) /\ Top(t).fn = "task" /\ Goes(Moved(t, "reply"))
        /\ UNCHANGED <<pc, queue, required>> /\ pending' \subseteq Events
    BY <1>0, <1>6 DEF TaskReturns, In
  <2>2. Keeps(Moved(t, "reply"))
    BY <1>0, <1>t, <2>1, MovedFrame, MoveKeeps
  <2> QED BY <1>0, <2>1, <2>2, GoesKeepsLife
<1>7. CASE TaskReplies(t)
  <2>1. /\ ~Idle(t) /\ Top(t).fn = "task" /\ Top(t).at = "reply" /\ Goes(Returned(t))
        /\ UNCHANGED <<pc, required, pending>>
        /\ queue' = Put(origin[Top(t).of], Msg("sync", Top(t).of))
    BY <1>7 DEF TaskReplies, In
  <2>2. Keeps(Returned(t))
    BY <1>0, <2>1, ReturnKeeps
  <2>3. Top(t).of \in Events
    BY <1>t, <2>1 DEF Frame
  <2>4. Msg("sync", Top(t).of) \in Message /\ Msg("sync", Top(t).of).kind \notin Control
    BY <2>3 DEF Msg, Message, Control
  <2>5. origin[Top(t).of] \in Threads \cup {None}
    BY <1>0, <2>3 DEF TypeOK
  <2>6. queue' \in QueueTable /\ SameMail(queue, queue')
    BY <1>0, <2>1, <2>4, <2>5, PutMail, PutNowhere
  <2> QED BY <1>0, <2>1, <2>2, <2>6, GoesKeepsLife
<1> QED BY <1>1, <1>2, <1>3, <1>4, <1>5, <1>6, <1>7 DEF Call

LEMMA ShutdownKeepsLife ==
    ASSUME LifeInv, NEW t \in Threads, NEW u \in Threads, BeginsShutdown(t, u),
           pc' = pc, todo' \subseteq Workers
    PROVE  LifeInv'
<1>1. /\ u \in required /\ required' = required \ {u}
      /\ queue' = Put(u, Msg("shutdown", t))
      /\ frames' = Called(t, MkFrame("shutdown", u, "test"))
      /\ UNCHANGED <<context, acked, pending, origin, creator, initialized, registered,
                     late, accepted, ran>>
  BY DEF BeginsShutdown, history
<1>2. TypeOK /\ u \in Workers /\ Keeps(frames) /\ Msg("shutdown", t) \in Message
  BY <1>1, StayKeeps DEF LifeInv, TypeOK, Msg, Message
<1>3. Keeps(frames') /\ Awaits(frames', t, u)
  BY <1>1, <1>2, CallKeeps, FrameKinds DEF Called
<1>4. queue' \in QueueTable
  BY <1>1, <1>2, PutMail
<1>5. TypeOK'
  BY <1>1, <1>2, <1>3, <1>4, Types DEF TypeOK
<1> QED BY <1>1, <1>3, <1>5, AskKeepsLife

\* What clients do keeps the invariant, whatever Env allows them.
LEMMA ClientKeepsLife ==
    ASSUME LifeInv, NEW t \in Threads, Client(t)
    PROVE  LifeInv'
<1>0. TypeOK /\ Keeps(frames)
  BY StayKeeps DEF LifeInv
<1>1. ASSUME NEW u \in Threads, NEW e \in Events, Dispatch(t, u, e) PROVE LifeInv'
  <2>1. /\ queue' = Put(u, Msg("event", e)) /\ accepted' = accepted \cup {e}
        /\ UNCHANGED <<pc, frames, context, required, acked, pending, origin, creator,
                       initialized, registered, todo, late, ran>>
    BY <1>1 DEF Dispatch
  <2>2. Msg("event", e) \in Message /\ Msg("event", e).kind \notin Control
    BY DEF Msg, Message, Control
  <2>3. queue' \in QueueTable /\ SameMail(queue, queue')
    BY <1>0, <2>1, <2>2, PutMail
  <2>4. TypeOK'
    BY <1>0, <2>1, <2>3, Types DEF TypeOK
  <2>5. Quiet
    BY <1>0, <2>1, <2>3, QuietCall
  <2> QED BY <2>4, <2>5, QuietKeepsLife
<1>2. ASSUME NEW u \in Threads, NEW e \in Events, DispatchSync(t, u, e) PROVE LifeInv'
  <2>1. /\ queue' = Put(u, Msg("sync", e)) /\ accepted' = accepted \cup {e}
        /\ pending' = pending \cup {e} /\ origin' = [origin EXCEPT ![e] = t]
        /\ frames' = Called(t, MkFrame("sync", e, "test"))
        /\ UNCHANGED <<pc, context, required, acked, creator, initialized, registered,
                       todo, late, ran>>
    BY <1>2 DEF DispatchSync
  <2>2. Msg("sync", e) \in Message /\ Msg("sync", e).kind \notin Control
    BY DEF Msg, Message, Control
  <2>3. queue' \in QueueTable /\ SameMail(queue, queue')
    BY <1>0, <2>1, <2>2, PutMail
  <2>4. Keeps(frames')
    BY <1>0, <2>1, CallKeeps, FrameKinds DEF Called
  <2>5. /\ pending' \subseteq Events /\ accepted' \subseteq Events
        /\ origin' \in [Events -> Threads \cup {None}]
    BY <1>0, <2>1 DEF TypeOK
  <2>6. TypeOK'
    BY <1>0, <2>1, <2>3, <2>4, <2>5, Types DEF TypeOK
  <2>7. Quiet
    BY <1>0, <2>1, <2>3, <2>4, QuietCall
  <2> QED BY <2>6, <2>7, QuietKeepsLife
<1>3. ASSUME NEW w \in Workers, NewThread(t, w) PROVE LifeInv'
  <2>1. /\ pc[w] = "unborn" /\ pc' = [pc EXCEPT ![w] = "starting"]
        /\ queue' = [queue EXCEPT ![w] = <<Msg("startup", None)>>]
        /\ required' = required \cup {w} /\ creator' = [creator EXCEPT ![w] = t]
        /\ frames' = Called(t, MkFrame("init", w, "wait"))
        /\ UNCHANGED <<context, acked, pending, origin, initialized, registered, todo,
                       late, accepted, ran>>
    BY <1>3 DEF NewThread, history
  <2>2. w \in Threads /\ w # Main
    BY ThreadsAssumption DEF Threads
  <2>3. Msg("startup", None) \in Message /\ Msg("startup", None).kind \notin Control
    BY DEF Msg, Message, Control
  <2>4. queue' \in QueueTable /\ SameMail(queue, queue')
    BY <1>0, <2>1, <2>2, <2>3, FreshMail
  <2>5. Keeps(frames')
    BY <1>0, <2>1, CallKeeps, FrameKinds DEF Called
  <2>6. /\ pc' \in [Threads -> PC] /\ pc'[w] = "starting"
        /\ \A v \in Threads \ {w} : pc'[v] = pc[v]
    BY <1>0, <2>1, <2>2 DEF TypeOK, PC
  <2>7. TypeOK'
    BY <1>0, <2>1, <2>4, <2>5, <2>6, Types DEF TypeOK
  <2>8. pc'[Main] \in MainPC
    BY <2>2, <2>6 DEF LifeInv, MainStays, Threads
  <2>9. ASSUME NEW v \in Workers
        PROVE  /\ pc'[v] = "unborn" => pc[v] = "unborn"
               /\ v \in required' => v \in required \/ (pc[v] = "unborn" /\ pc'[v] # "unborn")
               /\ pc'[v] \in Serving => pc[v] \in Serving \/ pc[v] = "unborn"
               /\ pc'[v] \in Ending => pc[v] \in Ending
    BY <2>1, <2>6 DEF Threads, Ending
  <2>10. Quiet
    BY <2>1, <2>4, <2>5, <2>8, <2>9 DEF Quiet
  <2> QED BY <2>7, <2>10, QuietKeepsLife
<1>4. ASSUME NEW w \in Workers, Shutdown(t, w) PROVE LifeInv'
  BY <1>0, <1>4, ShutdownKeepsLife DEF Shutdown, TypeOK, Threads
<1> QED BY <1>1, <1>2, <1>3, <1>4 DEF Client

\* The manager's Shutdown() keeps the invariant.
LEMMA ManagerKeepsLife ==
    ASSUME LifeInv, Manager \/ ManagerShutdown
    PROVE  LifeInv'
<1>0. /\ TypeOK /\ queue \in QueueTable /\ SameMail(queue, queue) /\ Keeps(frames)
      /\ registered \subseteq Workers /\ todo \subseteq Workers /\ late \subseteq Workers
      /\ Main \in Threads
  BY StayKeeps, StayMail DEF LifeInv, TypeOK, Threads
<1>1. CASE PendingRuns
  BY <1>0, <1>1, RunKeepsLife DEF PendingRuns
<1>2. CASE Gathers
  BY <1>0, <1>2, MovesKeepsLife DEF Gathers, PC, MainPC, Serving, Ending
<1>3. ASSUME NEW u \in Workers, ShutsOneDown(u) PROVE LifeInv'
  <2>1. todo' \subseteq Workers /\ pc' = pc /\ u \in Threads
    BY <1>0, <1>3 DEF ShutsOneDown, Threads
  <2>2. CASE BeginsShutdown(Main, u)
    BY <1>0, <2>1, <2>2, ShutdownKeepsLife
  <2>3. CASE UNCHANGED <<frames, queue, context, required, acked, pending, origin,
                         creator, initialized, registered, history>>
    <3>1. UNCHANGED <<frames, queue, context, required, acked, pending, origin,
                      creator, initialized, registered, late, accepted, ran>>
      BY <2>3 DEF history
    <3>2. TypeOK'
      BY <1>0, <2>1, <3>1, Types DEF TypeOK
    <3>3. Quiet
      BY <1>0, <2>1, <3>1, QuietCall
    <3> QED BY <3>2, <3>3, QuietKeepsLife
  <2> QED BY <1>3, <2>2, <2>3 DEF ShutsOneDown
<1>4. CASE AllAreDown
  BY <1>0, <1>4, MovesKeepsLife DEF AllAreDown, GoesTo, PC, MainPC, Serving, Ending
<1>5. CASE ManagerIsDown
  BY <1>0, <1>5, MovesKeepsLife DEF ManagerIsDown, GoesTo, PC, MainPC, Serving, Ending
<1>6. CASE ManagerShutdown
  <2>1. /\ pc' = [pc EXCEPT ![Main] = "before"] /\ initialized' = FALSE
        /\ UNCHANGED <<frames, queue, context, required, acked, pending, origin,
                       creator, registered, todo, late, accepted, ran>>
    BY <1>6 DEF ManagerShutdown, history
  <2>2. /\ pc' \in [Threads -> PC] /\ pc'[Main] = "before"
        /\ \A w \in Workers : pc'[w] = pc[w]
    BY <1>0, <2>1, ThreadsAssumption DEF TypeOK, PC, Threads
  <2>3. TypeOK'
    BY <1>0, <2>1, <2>2, Types DEF TypeOK
  <2>4. Quiet
    BY <1>0, <2>1, <2>2 DEF Quiet, MainPC
  <2> QED BY <2>3, <2>4, QuietKeepsLife
<1> QED BY <1>1, <1>2, <1>3, <1>4, <1>5, <1>6 DEF Manager

----------------------------------------------------------------------------
(***************************************************************************)
(* What holds whoever shuts threads down.                                  *)
(***************************************************************************)

\* The invariant holds before any thread is made.
LEMMA InitialLife == Init => LifeInv
<1> SUFFICES ASSUME Init PROVE LifeInv
  OBVIOUS
<1>1. TypeOK
  BY DEF Init, TypeOK, PC, Threads
<1>2. \A t \in Threads : queue[t] = <<>> /\ Len(queue[t]) = 0 /\ ~ShuttingDown(t)
  BY DEF Init, ShuttingDown
<1>3. \A t \in Threads : ~HasAsk(t)
  BY <1>2 DEF HasAsk
<1>4. \A w \in Workers : ~HasAck(w)
  BY <1>2 DEF HasAck
<1>5. OneAsk /\ OneAck
  BY <1>2 DEF OneAsk, OneAck
<1>6. MainStays
  BY <1>2, <1>3 DEF Init, MainStays, MainPC, Threads
<1>7. ASSUME NEW w \in Workers PROVE Life(w)
  <2>1. w \in Threads /\ pc[w] = "unborn" /\ w \notin required /\ w \notin acked
    BY ThreadsAssumption DEF Init, Threads
  <2>2. Turn(w)
    BY <1>2, <1>3, <1>4, <2>1 DEF Turn, Ending
  <2>3. ContextIsHeld(w)
    BY <1>2, <2>1 DEF ContextIsHeld
  <2>4. MailIsAwaited(w)
    BY <1>2, <2>1 DEF MailIsAwaited
  <2> QED BY <2>2, <2>3, <2>4 DEF Life
<1> QED BY <1>1, <1>5, <1>6, <1>7 DEF LifeInv

\* The inductive invariant of the threads: types, and for each thread one message
\* or one holder of the context at a time, while the caller of Shutdown() waits.
THEOREM LifeInvariance == Spec => []LifeInv
<1>1. ASSUME LifeInv, [Next]_vars PROVE LifeInv'
  <2>1. CASE Next
    <3>1. ASSUME NEW t \in Threads, Runs(t) \/ Client(t) PROVE LifeInv'
      BY <1>1, <3>1, ThreadFuncKeepsLife, CallKeepsLife, ManagerKeepsLife,
         ClientKeepsLife DEF Runs
    <3> QED BY <1>1, <2>1, <3>1, ManagerKeepsLife DEF Next
  <2>2. CASE UNCHANGED vars
    <3>1. UNCHANGED <<pc, frames, queue, context, required, acked, pending, origin,
                      creator, initialized, registered, todo, late, accepted, ran>>
      BY <2>2 DEF vars
    <3>2. TypeOK /\ SameMail(queue, queue) /\ Keeps(frames)
      BY <1>1, StayKeeps, StayMail DEF LifeInv
    <3>3. TypeOK'
      BY <3>1, <3>2 DEF TypeOK
    <3>4. Quiet
      BY <1>1, <3>1, <3>2, QuietCall
    <3> QED BY <1>1, <3>3, <3>4, QuietKeepsLife
  <2> QED BY <1>1, <2>1, <2>2
<1> QED BY <1>1, InitialLife, PTL DEF Spec

\* The state of the threads has its type, whoever makes and shuts down whom.
THEOREM TypeCorrectness == Spec => []TypeOK
<1>1. LifeInv => TypeOK
  BY DEF LifeInv
<1> QED BY <1>1, LifeInvariance, PTL

\* The context in the frame of nsThread::Shutdown() is not used by the shutdown
\* event, by the thread that ends or by its acknowledgement once Shutdown() has gone
\* on to join, whatever events run nested in its wait, and whoever calls it.
THEOREM ContextOutlivesItsUse == Spec => []ContextIsAlive
<1>1. LifeInv => ContextIsAlive
  <2> SUFFICES ASSUME LifeInv, NEW w \in Workers
               PROVE  /\ ShuttingDown(w) /\ pc[w] \in Serving => WaitsFor(context[w], w)
                      /\ MailIsAwaited(w)
    BY DEF ContextIsAlive, MailIsAwaited, Serving
  <2> QED BY DEF LifeInv, Life, ContextIsHeld
<1> QED BY <1>1, LifeInvariance, PTL

----------------------------------------------------------------------------
(***************************************************************************)
(* The manager's Shutdown() and the threads that are still there.  A       *)
(* thread that lives and that nobody has to shut down any more is in the   *)
(* Shutdown() of somebody, its creator or Main.  When Main is through with *)
(* its list, that is its creator, which therefore lives as well; but the   *)
(* threads cannot all be created by each other.                            *)
(***************************************************************************)

\* Thread t is in Shutdown() of w, when its frames are fs.
Holds(fs, t, w) ==
    \E k \in 1 .. Len(fs[t]) : fs[t][k].fn = "shutdown" /\ fs[t][k].of = w

Living(w) == pc[w] \notin {"unborn", "joined"}
Young     == {"unborn", "starting", "startup"}
Listed    == PC \ {"unborn", "starting", "acking", "exiting", "ended", "joined"}
Busy      == {"loop", "rest"}

\* Who may be in Shutdown() of w, and where a thread with frames is.
Held ==
    /\ \A w \in Workers :
          Living(w) => w \in required \/ \E t \in Threads : Holds(frames, t, w)
    /\ \A t \in Threads, w \in Workers :
          Holds(frames, t, w) => t \in {Main, creator[w]} /\ pc[w] # "unborn"
    /\ \A t \in Workers : ~Idle(t) => pc[t] \in Busy

\* A thread that has created another was set up, in time for the manager's list;
\* and of any threads, one was created by none of them.
Family ==
    /\ \A w \in Workers : creator[w] \in Workers =>
          pc[creator[w]] \notin Young /\ creator[w] \notin late
    /\ \A S \in SUBSET Workers : S # {} => \E w \in S : creator[w] \notin S

\* The table and the list of the manager have every thread that must be shut down.
Lists ==
    /\ pc[Main] # "loop" => ~initialized
    /\ pc[Main] \in {"loop", "before"} =>
          late = {} /\ \A w \in Workers : pc[w] \in Listed => w \in registered
    /\ pc[Main] = "shutall" =>
          \A w \in Workers \ late : Living(w) /\ w \in required => w \in todo

DownInv == Held /\ Family /\ Lists /\ NoBackgroundThreads

\* One more call: only a Shutdown() changes who is held.
LEMMA CallHolds ==
    ASSUME NEW fs \in FrameTable, NEW t \in Threads, NEW f \in Frame
    PROVE  LET g == [fs EXCEPT ![t] = Append(@, f)]
           IN /\ \A u \in Threads \ {t} : g[u] = fs[u]
              /\ \A u \in Threads, w \in Workers : Holds(g, u, w) <=>
                    Holds(fs, u, w) \/ (u = t /\ f.fn = "shutdown" /\ f.of = w)
<1> DEFINE g == [fs EXCEPT ![t] = Append(@, f)]
           n == Len(fs[t])
<1>1. fs[t] \in Seq(Frame)
  BY DEF FrameTable
<1>2. /\ Len(Append(fs[t], f)) = n + 1 /\ Append(fs[t], f)[n + 1] = f
      /\ \A k \in 1 .. n : Append(fs[t], f)[k] = fs[t][k]
      /\ n \in Nat
  BY <1>1, SeqAppend
<1>3. g[t] = Append(fs[t], f) /\ \A u \in Threads \ {t} : g[u] = fs[u]
  BY DEF FrameTable
<1> HIDE DEF g, n
<1>4. ASSUME NEW u \in Threads, NEW w \in Workers
      PROVE  Holds(g, u, w) <=>
                Holds(fs, u, w) \/ (u = t /\ f.fn = "shutdown" /\ f.of = w)
  <2>1. CASE u # t
    BY <1>3, <2>1 DEF Holds
  <2>2. CASE u = t
    <3>1. 1 .. Len(g[t]) = 1 .. n \cup {n + 1}
      BY <1>2, <1>3
    <3>2. g[t][n + 1] = f /\ \A k \in 1 .. n : g[t][k] = fs[t][k]
      BY <1>2, <1>3
    <3> QED BY <2>2, <3>1, <3>2 DEF Holds, n
  <2> QED BY <2>1, <2>2
<1> QED BY <1>3, <1>4 DEF g

\* The innermost call returns: if it was Shutdown() of w, that is held no more.
LEMMA ReturnHolds ==
    ASSUME TypeOK, NEW t \in Threads, ~Idle(t)
    PROVE  /\ \A u \in Threads \ {t} : Returned(t)[u] = frames[u]
           /\ \A u \in Threads, w \in Workers : Holds(frames, u, w) <=>
                 \/ Holds(Returned(t), u, w)
                 \/ u = t /\ Top(t).fn = "shutdown" /\ Top(t).of = w
<1> DEFINE g == Returned(t)
           n == Len(frames[t])
<1>1. /\ n \in Nat \ {0} /\ Top(t) = frames[t][n] /\ Len(Front(frames[t])) = n - 1
      /\ \A k \in 1 .. n - 1 : Front(frames[t])[k] = frames[t][k]
  BY TopFrame
<1>2. g[t] = Front(frames[t]) /\ \A u \in Threads \ {t} : g[u] = frames[u]
  BY DEF Returned, TypeOK
<1> HIDE DEF g, n
<1>3. ASSUME NEW u \in Threads, NEW w \in Workers
      PROVE  Holds(frames, u, w) <=>
                Holds(g, u, w) \/ (u = t /\ Top(t).fn = "shutdown" /\ Top(t).of = w)
  <2>1. CASE u # t
    BY <1>2, <2>1 DEF Holds
  <2>2. CASE u = t
    <3>1. 1 .. n = 1 .. n - 1 \cup {n} /\ Len(g[t]) = n - 1
      BY <1>1, <1>2
    <3>2. \A k \in 1 .. n - 1 : g[t][k] = frames[t][k]
      BY <1>1, <1>2
    <3> QED BY <1>1, <2>2, <3>1, <3>2 DEF Holds, n
  <2> QED BY <2>1, <2>2
<1> QED BY <1>2, <1>3 DEF g

\* The innermost call goes on: the same threads are held.
LEMMA MoveHolds ==
    ASSUME TypeOK, NEW t \in Threads, ~Idle(t), NEW at,
           [Top(t) EXCEPT !.at = at] \in Frame
    PROVE  /\ \A u \in Threads \ {t} : Moved(t, at)[u] = frames[u]
           /\ \A u \in Threads, w \in Workers :
                 Holds(Moved(t, at), u, w) <=> Holds(frames, u, w)
<1> DEFINE f == [Top(t) EXCEPT !.at = at]
           r == Returned(t)
<1>1. r \in FrameTable
  <2>1. Front(frames[t]) \in Seq(Frame)
    BY TopFrame
  <2> QED BY <2>1 DEF TypeOK, FrameTable, Returned
<1>2. Moved(t, at) = [r EXCEPT ![t] = Append(@, f)]
  <2>1. r[t] = Front(frames[t]) /\ frames \in [Threads -> Seq(Frame)]
    BY DEF Returned, TypeOK
  <2> QED BY <2>1 DEF Moved, Returned, Top
<1>3. f.fn = Top(t).fn /\ f.of = Top(t).of
  <2>1. Top(t) \in Frame
    BY TopFrame
  <2>2. DOMAIN Top(t) = {"fn", "of", "at"}
    BY <2>1 DEF Frame
  <2> QED BY <2>2
<1> HIDE DEF f, r
<1>4. f \in Frame
  BY DEF f
<1>5. /\ \A u \in Threads \ {t} : Moved(t, at)[u] = r[u]
      /\ \A u \in Threads, w \in Workers : Holds(Moved(t, at), u, w) <=>
            Holds(r, u, w) \/ (u = t /\ f.fn = "shutdown" /\ f.of = w)
  <2> DEFINE g == [r EXCEPT ![t] = Append(@, f)]
  <2>1. /\ \A u \in Threads \ {t} : g[u] = r[u]
        /\ \A u \in Threads, w \in Workers : Holds(g, u, w) <=>
              Holds(r, u, w) \/ (u = t /\ f.fn = "shutdown" /\ f.of = w)
    BY <1>1, <1>4, CallHolds
  <2> HIDE DEF g
  <2>2. Moved(t, at) = g
    BY <1>2 DEF g
  <2> QED BY <2>1, <2>2
<1> QED BY <1>3, <1>5, ReturnHolds DEF r

\* A step that holds nobody else and lets nobody go, after which the same threads
\* live and have created each other, keeps the invariant.
SameHolds(fs) ==
    /\ \A t \in Threads, w \in Workers : Holds(fs, t, w) <=> Holds(frames, t, w)
    /\ \A t \in Workers : fs[t] # <<>> => frames[t] # <<>> \/ pc[t] \in Busy

LEMMA SteadyKeepsDown ==
    ASSUME DownInv, SameHolds(frames'),
           UNCHANGED <<required, creator, initialized, todo, late>>,
           pc'[Main] = pc[Main],
           \A w \in Workers :
              /\ Living(w)' <=> Living(w)
              /\ pc'[w] = "unborn" <=> pc[w] = "unborn"
              /\ pc'[w] \in Young => pc[w] \in Young
              /\ frames'[w] # <<>> /\ pc[w] \in Busy => pc'[w] \in Busy
              /\ pc'[w] \in Listed =>
                    w \in registered' \/ (pc[w] \in Listed /\ w \notin registered)
    PROVE  DownInv'
<1>1. Held'
  <2>1. \A t \in Threads, w \in Workers : Holds(frames', t, w) <=> Holds(frames, t, w)
    BY DEF SameHolds
  <2>2. ASSUME NEW w \in Workers, Living(w)'
        PROVE  w \in required' \/ \E t \in Threads : Holds(frames, t, w)'
    <3>1. Living(w) /\ w \in Workers
      BY <2>2
    <3>2. w \in required \/ \E t \in Threads : Holds(frames, t, w)
      BY <3>1 DEF DownInv, Held
    <3> QED BY <2>1, <3>2
  <2>3. ASSUME NEW t \in Threads, NEW w \in Workers, Holds(frames, t, w)'
        PROVE  t \in {Main, creator'[w]} /\ pc'[w] # "unborn"
    BY <2>1, <2>3 DEF DownInv, Held
  <2>4. ASSUME NEW t \in Workers, ~Idle(t)' PROVE pc'[t] \in Busy
    BY <2>4 DEF DownInv, Held, SameHolds, Idle
  <2> QED BY <2>2, <2>3, <2>4 DEF Held
<1>2. Family'
  BY DEF DownInv, Family
<1>3. Lists'
  BY DEF DownInv, Lists
<1>4. NoBackgroundThreads'
  BY DEF DownInv, NoBackgroundThreads, Living
<1> QED BY <1>1, <1>2, <1>3, <1>4 DEF DownInv

\* Calls and events that are not Shutdown() hold nobody.
LEMMA OtherCall ==
    ASSUME TypeOK, NEW fs \in FrameTable, SameHolds(fs), NEW t \in Threads,
           NEW f \in Frame, f.fn # "shutdown",
           t = Main \/ frames[t] # <<>> \/ pc[t] \in Busy
    PROVE  SameHolds([fs EXCEPT ![t] = Append(@, f)])
BY CallHolds, ThreadsAssumption DEF SameHolds, Threads

LEMMA OtherReturn ==
    ASSUME TypeOK, NEW t \in Threads, ~Idle(t), Top(t).fn # "shutdown"
    PROVE  SameHolds(Returned(t))
<1>1. \A u \in Threads, w \in Workers : Holds(frames, u, w) <=> Holds(Returned(t), u, w)
  BY ReturnHolds
<1>2. \A u \in Workers : Returned(t)[u] # <<>> => frames[u] # <<>>
  BY ReturnHolds DEF Idle, Threads
<1> QED BY <1>1, <1>2 DEF SameHolds

LEMMA CallMoves ==
    ASSUME TypeOK, NEW t \in Threads, ~Idle(t), NEW at,
           \/ Top(t).fn = "sync" /\ at \in {"test", "next"}
           \/ Top(t).fn = "shutdown" /\ at \in {"test", "next", "join"}
           \/ Top(t).fn = "task" /\ at \in {"client", "reply"}
    PROVE  SameHolds(Moved(t, at)) /\ Moved(t, at) \in FrameTable
<1>1. Top(t) \in Frame /\ frames[t] \in Seq(Frame) /\ Front(frames[t]) \in Seq(Frame)
  BY TopFrame
<1>2. [Top(t) EXCEPT !.at = at] \in Frame
  BY <1>1, MovedFrame
<1>3. \A u \in Workers : Moved(t, at)[u] # <<>> => frames[u] # <<>>
  BY <1>2, MoveHolds DEF Idle, Threads
<1>4. SameHolds(Moved(t, at))
  BY <1>2, <1>3, MoveHolds DEF SameHolds
<1>5. Append(Front(frames[t]), [Top(t) EXCEPT !.at = at]) \in Seq(Frame)
  BY <1>1, <1>2, AppendProperties
<1>6. Moved(t, at) \in FrameTable
  BY <1>5 DEF Moved, FrameTable, TypeOK, Top
<1> QED BY <1>4, <1>6

LEMMA NothingHolds == TypeOK => SameHolds(frames) /\ frames \in FrameTable
BY DEF SameHolds, TypeOK, FrameTable

\* A step of which the manager does not see but calls and messages.
LEMMA CallKeepsDown ==
    ASSUME DownInv, SameHolds(frames'),
           UNCHANGED <<pc, required, creator, initialized, registered, todo, late>>
    PROVE  DownInv'
<1>1. \A w \in Workers : Living(w)' <=> Living(w)
  BY DEF Living
<1> QED BY <1>1, SteadyKeepsDown

\* Whatever event is next in a queue, running it keeps the invariant.
LEMMA RunKeepsDown ==
    ASSUME LifeInv, DownInv, NEW t \in Threads, NEW fs \in FrameTable, SameHolds(fs),
           RunFirst(t, fs), t = Main \/ frames[t] # <<>> \/ pc[t] \in Busy
    PROVE  DownInv'
<1> DEFINE m == Head(queue[t])
<1>1. /\ UNCHANGED <<pc, required, creator, initialized, registered, todo, late>>
      /\ \/ m.kind = "event" /\ frames' = [fs EXCEPT ![t] = Append(@, MkFrame("run", m.of, "client"))]
         \/ m.kind = "sync" /\ frames' = [fs EXCEPT ![t] = Append(@, MkFrame("task", m.of, "client"))]
         \/ frames' = fs
  BY DEF RunFirst
<1>2. TypeOK /\ m \in Message
  BY TailMail DEF RunFirst, LifeInv
<1>3. ASSUME NEW fn \in {"run", "task"}, m.kind \in {"event", "sync"},
             frames' = [fs EXCEPT ![t] = Append(@, MkFrame(fn, m.of, "client"))]
      PROVE  DownInv'
  <2>1. m.of \in Events
    BY <1>2, <1>3 DEF Message
  <2> HIDE DEF m
  <2>2. MkFrame(fn, m.of, "client") \in Frame /\ MkFrame(fn, m.of, "client").fn # "shutdown"
    BY <2>1, FrameKinds DEF MkFrame
  <2>3. SameHolds(frames')
    BY <1>2, <1>3, <2>2, OtherCall
  <2> QED BY <1>1, <2>3, CallKeepsDown
<1>4. CASE frames' = fs
  BY <1>1, <1>4, CallKeepsDown
<1> QED BY <1>1, <1>3, <1>4

\* A worker that is alive goes on in its outermost function, not to its end.
LEMMA GoesToKeepsDown ==
    ASSUME LifeInv, DownInv, NEW t \in Workers, NEW at, GoesTo(t, at),
           Living(t), at \notin {"unborn", "joined"},
           at \in Young => pc[t] \in Young,
           Idle(t) \/ at \in Busy, todo' = todo,
           \A w \in Workers \ {t} : w \in registered => w \in registered',
           at \in Listed =>
              t \in registered' \/ (pc[t] \in Listed /\ registered' = registered)
    PROVE  DownInv'
<1>1. /\ t \in Threads /\ t # Main /\ Main \in Threads
  BY ThreadsAssumption DEF Threads
<1>2. /\ pc' = [pc EXCEPT ![t] = at]
      /\ UNCHANGED <<frames, required, creator, initialized, todo, late>>
  BY DEF GoesTo, Moves
<1>3. pc'[t] = at /\ \A u \in Threads \ {t} : pc'[u] = pc[u]
  BY <1>1, <1>2 DEF LifeInv, TypeOK
<1>4. SameHolds(frames')
  BY <1>2, NothingHolds DEF LifeInv
<1>5. ASSUME NEW w \in Workers
      PROVE  /\ Living(w)' <=> Living(w)
             /\ pc'[w] = "unborn" <=> pc[w] = "unborn"
             /\ pc'[w] \in Young => pc[w] \in Young
             /\ frames'[w] # <<>> /\ pc[w] \in Busy => pc'[w] \in Busy
             /\ pc'[w] \in Listed =>
                   w \in registered' \/ (pc[w] \in Listed /\ w \notin registered)
  <2>1. CASE w = t
    BY <1>2, <1>3, <2>1 DEF Living, Idle
  <2>2. CASE w # t
    BY <1>2, <1>3, <2>2 DEF Living, Threads
  <2> QED BY <2>1, <2>2
<1>6. pc'[Main] = pc[Main]
  BY <1>1, <1>3
<1> QED BY <1>2, <1>4, <1>5, <1>6, SteadyKeepsDown

\* Without calls there is nothing to return from: where a worker has frames.
LEMMA IdleOrBusy == DownInv => \A t \in Workers : pc[t] \notin Busy => Idle(t)
BY DEF DownInv, Held

LEMMA ThreadFuncKeepsDown ==
    ASSUME LifeInv, DownInv, NEW t \in Threads, ThreadFunc(t)
    PROVE  DownInv'
<1>0. TypeOK /\ SameHolds(frames) /\ frames \in FrameTable
  BY NothingHolds DEF LifeInv
<1>1. CASE LoopRuns(t) \/ RestRuns(t)
  BY <1>0, <1>1, RunKeepsDown DEF LoopRuns, RestRuns, Busy
<1>2. CASE ~(LoopRuns(t) \/ RestRuns(t))
  <2>1. t \in Workers
    BY <1>2, NotMain DEF ThreadFunc, Register, Startup, LoopEnds, LastTest, RestIsEmpty,
       Unregister, SendAck, ThreadEnds, MainPC
  <2>2. pc[t] \notin Busy => Idle(t)
    BY <2>1, IdleOrBusy
  <2>3. CASE Register(t)
    BY <2>1, <2>2, <2>3, GoesToKeepsDown DEF Register, Living, Young, Busy, Listed, PC
  <2>4. CASE Startup(t)
    BY <2>1, <2>2, <2>4, GoesToKeepsDown DEF Startup, Living, Young, Busy, Listed, PC
  <2>5. CASE LoopEnds(t)
    BY <2>1, <2>2, <2>5, GoesToKeepsDown DEF LoopEnds, Living, Young, Busy, Listed, PC
  <2>6. CASE LastTest(t)
    <3>1. PICK at \in {"leaving", "rest"} : GoesTo(t, at)
      BY <2>6 DEF LastTest
    <3> QED BY <2>1, <2>2, <2>6, <3>1, GoesToKeepsDown
            DEF LastTest, Living, Young, Busy, Listed, PC
  <2>7. CASE RestIsEmpty(t)
    BY <2>1, <2>2, <2>7, GoesToKeepsDown DEF RestIsEmpty, Living, Young, Busy, Listed, PC
  <2>8. CASE Unregister(t)
    BY <2>1, <2>2, <2>8, GoesToKeepsDown DEF Unregister, Living, Young, Busy, Listed, PC
  <2>9. CASE SendAck(t)
    BY <2>1, <2>2, <2>9, GoesToKeepsDown DEF SendAck, Living, Young, Busy, Listed, PC
  <2>10. CASE ThreadEnds(t)
    BY <2>1, <2>2, <2>10, GoesToKeepsDown DEF ThreadEnds, Living, Young, Busy, Listed, PC
  <2> QED BY <1>2, <2>3, <2>4, <2>5, <2>6, <2>7, <2>8, <2>9, <2>10 DEF ThreadFunc
<1> QED BY <1>1, <1>2

\* Shutdown() of u returns when u has ended: u is let go and does not live.
LEMMA JoinKeepsDown ==
    ASSUME LifeInv, DownInv, NEW t \in Threads, Joins(t)
    PROVE  DownInv'
<1>1. /\ ~Idle(t) /\ Top(t).fn = "shutdown" /\ pc[Top(t).of] = "ended"
      /\ pc' = [pc EXCEPT ![Top(t).of] = "joined"] /\ frames' = Returned(t)
      /\ UNCHANGED <<required, creator, initialized, registered, todo, late>>
  BY DEF Joins, In, Goes, history
<1>2. TypeOK /\ Top(t) \in Frame
  BY <1>1, TopFrame DEF LifeInv
<1>3. PICK u \in Workers : u = Top(t).of
  BY <1>1, <1>2 DEF Frame
<1>4. u \in Threads /\ u # Main /\ Main \in Threads
  BY ThreadsAssumption DEF Threads
<1>5. pc'[u] = "joined" /\ pc[u] = "ended" /\ \A v \in Threads \ {u} : pc'[v] = pc[v]
  BY <1>1, <1>2, <1>3, <1>4 DEF TypeOK
<1>6. /\ \A v \in Threads \ {t} : frames'[v] = frames[v]
      /\ \A v \in Threads, w \in Workers :
            Holds(frames, v, w) <=> Holds(frames', v, w) \/ (v = t /\ w = u)
  BY <1>1, <1>2, <1>3, ReturnHolds
<1>7. Held'
  <2>1. ASSUME NEW w \in Workers, Living(w)'
        PROVE  w \in required' \/ \E v \in Threads : Holds(frames, v, w)'
    <3>1. w # u /\ Living(w)
      BY <1>5, <2>1 DEF Living, Threads
    <3> QED BY <1>1, <1>6, <3>1 DEF DownInv, Held
  <2>2. ASSUME NEW v \in Threads, NEW w \in Workers, Holds(frames, v, w)'
        PROVE  v \in {Main, creator'[w]} /\ pc'[w] # "unborn"
    <3>1. Holds(frames, v, w) /\ creator'[w] = creator[w]
      BY <1>1, <1>6, <2>2
    <3>2. pc'[w] = "unborn" => pc[w] = "unborn"
      BY <1>5 DEF Threads
    <3> QED BY <3>1, <3>2 DEF DownInv, Held
  <2>3. ASSUME NEW v \in Workers, ~Idle(v)' PROVE pc'[v] \in Busy
    <3>1. ~Idle(v)
      BY <1>1, <1>6, <2>3 DEF Idle, Threads
    <3>2. pc[v] \in Busy /\ v # u
      BY <1>5, <3>1 DEF DownInv, Held, Busy
    <3> QED BY <1>5, <3>2 DEF Threads
  <2> QED BY <2>1, <2>2, <2>3 DEF Held
<1>8. \A w \in Workers : /\ Living(w)' => Living(w)
                         /\ pc'[w] \in Young \cup Listed => pc'[w] = pc[w]
  BY <1>5 DEF Living, Young, Listed, Threads
<1>9. Family' /\ Lists'
  BY <1>1, <1>4, <1>5, <1>8 DEF DownInv, Family, Lists
<1>10. NoBackgroundThreads'
  BY <1>1, <1>4, <1>5, <1>8 DEF DownInv, NoBackgroundThreads, Threads
<1> QED BY <1>7, <1>9, <1>10 DEF DownInv

LEMMA CallsKeepDown ==
    ASSUME LifeInv, DownInv, NEW t \in Threads, Call(t)
    PROVE  DownInv'
<1>0. TypeOK
  BY DEF LifeInv
<1>1. ASSUME Goes(frames'), SameHolds(frames'), UNCHANGED <<pc, required>>
      PROVE  DownInv'
  BY <1>1, CallKeepsDown DEF Goes, history
<1>2. CASE Tests(t)
  <2>1. ~Idle(t) /\ UNCHANGED <<pc, required>> /\ Top(t).fn \in {"sync", "shutdown"}
    BY <1>2 DEF Tests, Waits
  <2>2. \/ Goes(Moved(t, "next"))
        \/ Top(t).fn = "shutdown" /\ Goes(Moved(t, "join"))
        \/ Top(t).fn = "sync" /\ Goes(Returned(t))
    BY <1>2 DEF Tests
  <2>3. SameHolds(frames') /\ Goes(frames')
    BY <1>0, <2>1, <2>2, CallMoves, OtherReturn DEF Goes
  <2> QED BY <1>1, <2>1, <2>3
<1>3. CASE WaitingRuns(t)
  <2>1. /\ ~Idle(t) /\ Top(t).fn \in {"sync", "shutdown"}
        /\ RunFirst(t, Moved(t, "test"))
    BY <1>3 DEF WaitingRuns, Waits
  <2>2. SameHolds(Moved(t, "test")) /\ Moved(t, "test") \in FrameTable
    BY <1>0, <2>1, CallMoves
  <2> QED BY <2>1, <2>2, RunKeepsDown DEF Idle
<1>4. CASE WaitingSpins(t)
  <2>1. /\ ~Idle(t) /\ Top(t).fn \in {"sync", "shutdown"} /\ Goes(Moved(t, "test"))
        /\ UNCHANGED <<pc, required>>
    BY <1>4 DEF WaitingSpins, Waits
  <2> QED BY <1>0, <1>1, <2>1, CallMoves DEF Goes
<1>5. CASE Joins(t)
  BY <1>5, JoinKeepsDown
<1>6. CASE NewThreadReturns(t) \/ EventReturns(t) \/ TaskReplies(t)
  <2>1. /\ ~Idle(t) /\ Top(t).fn \in {"init", "run", "task"} /\ Goes(Returned(t))
        /\ UNCHANGED <<pc, required>>
    BY <1>6 DEF NewThreadReturns, EventReturns, TaskReplies, In
  <2> QED BY <1>0, <1>1, <2>1, OtherReturn DEF Goes
<1>7. CASE TaskReturns(t)
  <2>1. /\ ~Idle(t) /\ Top(t).fn = "task" /\ Goes(Moved(t, "reply"))
        /\ UNCHANGED <<pc, required>>
    BY <1>7 DEF TaskReturns, In
  <2> QED BY <1>0, <1>1, <2>1, CallMoves DEF Goes
<1> QED BY <1>2, <1>3, <1>4, <1>5, <1>6, <1>7 DEF Call

\* A client that runs on a worker is in an event of its loop.
LEMMA ClientIsBusy ==
    ASSUME DownInv, NEW t \in Threads, ClientRuns(t)
    PROVE  t = Main \/ (t \in Workers /\ frames[t] # <<>> /\ pc[t] \in Busy)
BY DEF DownInv, Held, ClientRuns, Idle, Threads

\* NewThread(): the manager has not begun to shut down, and the creator is older.
LEMMA BirthKeepsDown ==
    ASSUME LifeInv, DownInv, NEW t \in Threads, NEW u \in Workers, NewThread(t, u)
    PROVE  DownInv'
<1>1. /\ ClientRuns(t) /\ pc[u] = "unborn" /\ initialized
      /\ pc' = [pc EXCEPT ![u] = "starting"]
      /\ required' = required \cup {u} /\ creator' = [creator EXCEPT ![u] = t]
      /\ frames' = [frames EXCEPT ![t] = Append(@, MkFrame("init", u, "wait"))]
      /\ UNCHANGED <<initialized, registered, todo, late>>
  BY DEF NewThread, Called, history
<1>2. TypeOK /\ u \in Threads /\ u # Main /\ Main \in Threads
  BY ThreadsAssumption DEF LifeInv, Threads
<1>3. pc'[u] = "starting" /\ \A v \in Threads \ {u} : pc'[v] = pc[v]
  BY <1>1, <1>2 DEF TypeOK
<1>4. creator'[u] = t /\ \A v \in Workers \ {u} : creator'[v] = creator[v]
  BY <1>1, <1>2 DEF TypeOK
<1>5. t = Main \/ (t \in Workers /\ frames[t] # <<>> /\ pc[t] \in Busy)
  BY <1>1, ClientIsBusy
<1>6. SameHolds(frames')
  <2>1. MkFrame("init", u, "wait") \in Frame /\ MkFrame("init", u, "wait").fn # "shutdown"
    BY FrameKinds DEF MkFrame
  <2>2. t = Main \/ frames[t] # <<>> \/ pc[t] \in Busy
    BY <1>5
  <2> QED BY <1>1, <1>2, <2>1, <2>2, OtherCall, NothingHolds
<1>7. t # u
  BY <1>1, <1>2, <1>5 DEF Busy
<1>8. Held'
  <2>1. ASSUME NEW w \in Workers, Living(w)'
        PROVE  w \in required' \/ \E v \in Threads : Holds(frames, v, w)'
    <3>1. w # u => Living(w)
      BY <1>3, <2>1 DEF Living, Threads
    <3>2. Living(w) => w \in required \/ \E v \in Threads : Holds(frames, v, w)
      BY DEF DownInv, Held
    <3> QED BY <1>1, <1>6, <3>1, <3>2 DEF SameHolds
  <2>2. ASSUME NEW v \in Threads, NEW w \in Workers, Holds(frames, v, w)'
        PROVE  v \in {Main, creator'[w]} /\ pc'[w] # "unborn"
    <3>1. Holds(frames, v, w)
      BY <1>6, <2>2 DEF SameHolds
    <3>2. v \in {Main, creator[w]} /\ pc[w] # "unborn"
      BY <3>1 DEF DownInv, Held
    <3> QED BY <1>1, <1>3, <1>4, <3>2 DEF Threads
  <2>3. ASSUME NEW v \in Workers, ~Idle(v)' PROVE pc'[v] \in Busy
    <3>1. frames[v] # <<>> \/ pc[v] \in Busy
      BY <1>6, <2>3 DEF SameHolds, Idle
    <3>2. pc[v] \in Busy
      BY <3>1 DEF DownInv, Held, Idle
    <3> QED BY <1>1, <1>3, <3>2 DEF Busy, Threads
  <2> QED BY <2>1, <2>2, <2>3 DEF Held
<1>9. pc[Main] = "loop" /\ pc'[Main] = "loop" /\ late = {}
  BY <1>1, <1>2, <1>3 DEF DownInv, Lists
<1>10. Family'
  <2>1. ASSUME NEW w \in Workers, creator'[w] \in Workers
        PROVE  pc'[creator'[w]] \notin Young /\ creator'[w] \notin late'
    <3>1. CASE w = u
      <4>1. t \in Workers /\ pc[t] \in Busy
        BY <1>4, <1>5, <2>1, <3>1, ThreadsAssumption
      <4> QED BY <1>1, <1>3, <1>4, <1>7, <1>9, <3>1, <4>1 DEF Busy, Young
    <3>2. CASE w # u
      <4>1. creator'[w] = creator[w] /\ pc[creator[w]] \notin Young
        BY <1>4, <2>1, <3>2 DEF DownInv, Family
      <4> QED BY <1>1, <1>3, <1>9, <2>1, <4>1 DEF Threads, Young
    <3> QED BY <3>1, <3>2
  <2>2. ASSUME NEW S \in SUBSET Workers, S # {} PROVE \E w \in S : creator'[w] \notin S
    <3>1. CASE S \subseteq {u}
      BY <1>4, <1>7, <2>2, <3>1
    <3>2. CASE ~(S \subseteq {u})
      <4>1. S \ {u} # {} /\ S \ {u} \in SUBSET Workers
        BY <3>2
      <4>2. PICK w \in S \ {u} : creator[w] \notin S \ {u}
        BY <4>1 DEF DownInv, Family
      <4>3. creator[w] # u
        BY <1>1, <4>2 DEF DownInv, Family, Young
      <4> QED BY <1>4, <4>2, <4>3
    <3> QED BY <3>1, <3>2
  <2> QED BY <2>1, <2>2 DEF Family
<1>11. Lists'
  BY <1>1, <1>3, <1>9 DEF DownInv, Lists, Listed, Threads
<1>12. NoBackgroundThreads'
  BY <1>9 DEF NoBackgroundThreads
<1> QED BY <1>8, <1>10, <1>11, <1>12 DEF DownInv

\* Shutdown() of u begins in Main or in the creator of u.
LEMMA ShutdownKeepsDown ==
    ASSUME LifeInv, DownInv, NEW t \in Threads, NEW u \in Workers, BeginsShutdown(t, u),
           t \in {Main, creator[u]}, t = Main \/ frames[t] # <<>>,
           pc' = pc, todo' \in {todo, todo \ {u}}
    PROVE  DownInv'
<1>1. /\ u \in required /\ required' = required \ {u}
      /\ frames' = [frames EXCEPT ![t] = Append(@, MkFrame("shutdown", u, "test"))]
      /\ UNCHANGED <<creator, initialized, registered, late>>
  BY DEF BeginsShutdown, Called, history
<1>2. pc[u] # "unborn"
  BY <1>1 DEF LifeInv, Life, Turn
<1>3. /\ MkFrame("shutdown", u, "test") \in Frame
      /\ MkFrame("shutdown", u, "test").fn = "shutdown"
      /\ MkFrame("shutdown", u, "test").of = u
  BY FrameKinds DEF MkFrame
<1>4. /\ \A v \in Threads \ {t} : frames'[v] = frames[v]
      /\ \A v \in Threads, w \in Workers :
            Holds(frames', v, w) <=> Holds(frames, v, w) \/ (v = t /\ w = u)
  <2> DEFINE f == MkFrame("shutdown", u, "test")
             g == [frames EXCEPT ![t] = Append(@, f)]
  <2> HIDE DEF f
  <2>1. frames \in FrameTable /\ f \in Frame /\ f.fn = "shutdown" /\ f.of = u
    BY <1>3, NothingHolds DEF LifeInv, f
  <2>2. /\ \A v \in Threads \ {t} : g[v] = frames[v]
        /\ \A v \in Threads, w \in Workers : Holds(g, v, w) <=>
              Holds(frames, v, w) \/ (v = t /\ f.fn = "shutdown" /\ f.of = w)
    BY <2>1, CallHolds
  <2> HIDE DEF g
  <2>3. frames' = g
    BY <1>1 DEF f, g
  <2> QED BY <2>1, <2>2, <2>3
<1>5. Held'
  <2>1. ASSUME NEW w \in Workers, Living(w)'
        PROVE  w \in required' \/ \E v \in Threads : Holds(frames, v, w)'
    <3>1. Living(w)
      BY <2>1 DEF Living
    <3>2. w \in required \/ \E v \in Threads : Holds(frames, v, w)
      BY <3>1 DEF DownInv, Held
    <3> QED BY <1>1, <1>4, <3>2
  <2>2. ASSUME NEW v \in Threads, NEW w \in Workers, Holds(frames, v, w)'
        PROVE  v \in {Main, creator'[w]} /\ pc'[w] # "unborn"
    <3>1. CASE Holds(frames, v, w)
      BY <1>1, <3>1 DEF DownInv, Held
    <3>2. CASE v = t /\ w = u
      BY <1>1, <1>2, <3>2
    <3> QED BY <1>4, <2>2, <3>1, <3>2
  <2>3. ASSUME NEW v \in Workers, ~Idle(v)' PROVE pc'[v] \in Busy
    <3>1. v # Main /\ v \in Threads
      BY ThreadsAssumption DEF Threads
    <3>2. ~Idle(v)
      BY <1>4, <2>3, <3>1 DEF Idle
    <3> QED BY <3>2 DEF DownInv, Held
  <2> QED BY <2>1, <2>2, <2>3 DEF Held
<1>6. Family' /\ Lists'
  BY <1>1 DEF DownInv, Family, Lists, Living
<1>7. NoBackgroundThreads'
  BY <1>1 DEF DownInv, NoBackgroundThreads
<1> QED BY <1>5, <1>6, <1>7 DEF DownInv

LEMMA ClientKeepsDown ==
    ASSUME "anyoneShutsDown" \notin Env, LifeInv, DownInv, NEW t \in Threads, Client(t)
    PROVE  DownInv'
<1>1. ASSUME NEW u \in Threads, NEW e \in Events, Dispatch(t, u, e) PROVE DownInv'
  <2>1. UNCHANGED <<pc, frames, required, creator, initialized, registered, todo, late>>
    BY <1>1 DEF Dispatch
  <2> QED BY <2>1, NothingHolds, CallKeepsDown DEF LifeInv
<1>2. ASSUME NEW u \in Threads, NEW e \in Events, DispatchSync(t, u, e) PROVE DownInv'
  <2>1. /\ UNCHANGED <<pc, required, creator, initialized, registered, todo, late>>
        /\ ClientRuns(t)
        /\ frames' = [frames EXCEPT ![t] = Append(@, MkFrame("sync", e, "test"))]
    BY <1>2 DEF DispatchSync, Called
  <2>2. MkFrame("sync", e, "test") \in Frame /\ MkFrame("sync", e, "test").fn # "shutdown"
    BY FrameKinds DEF MkFrame
  <2>3. t = Main \/ frames[t] # <<>> \/ pc[t] \in Busy
    BY <2>1, ClientIsBusy
  <2>4. SameHolds(frames')
    BY <2>1, <2>2, <2>3, OtherCall, NothingHolds DEF LifeInv
  <2> QED BY <2>1, <2>4, CallKeepsDown
<1>3. ASSUME NEW w \in Workers, Shutdown(t, w) PROVE DownInv'
  <2>1. /\ BeginsShutdown(t, w) /\ t \in {Main, creator[w]} /\ pc' = pc /\ todo' = todo
        /\ ClientRuns(t)
    BY <1>3 DEF Shutdown
  <2> QED BY <2>1, ClientIsBusy, ShutdownKeepsDown
<1> QED BY <1>1, <1>2, <1>3, BirthKeepsDown DEF Client

----------------------------------------------------------------------------
(***************************************************************************)
(* The steps of the manager.                                               *)
(***************************************************************************)

\* Main goes on to another part of the manager's Shutdown().
LEMMA MainMovesKeepDown ==
    ASSUME LifeInv, DownInv, NEW at, pc' = [pc EXCEPT ![Main] = at],
           UNCHANGED <<frames, required, creator>>,
           late' \subseteq Workers,
           \A w \in Workers : creator[w] \in Workers => creator[w] \notin late',
           Lists', NoBackgroundThreads'
    PROVE  DownInv'
<1>1. TypeOK /\ Main \in Threads
  BY DEF LifeInv, Threads
<1>2. \A w \in Workers : pc'[w] = pc[w]
  BY <1>1, ThreadsAssumption DEF TypeOK, Threads
<1>3. \A w \in Workers : Living(w)' <=> Living(w)
  BY <1>2 DEF Living
<1>4. Held'
  BY <1>2, <1>3 DEF DownInv, Held, Idle
<1>5. Family'
  BY <1>2 DEF DownInv, Family
<1> QED BY <1>4, <1>5 DEF DownInv

\* Main has listed the threads, and has seen all of them down: whoever else lives
\* is held by its creator, who lives too, and so on without an end.
LEMMA NobodyIsLeft ==
    ASSUME LifeInv, DownInv, pc[Main] = "shutall", Idle(Main), todo = {}
    PROVE  \A w \in Workers \ late : ~Living(w)
<1> DEFINE S == {w \in Workers \ late : Living(w)}
<1>1. TypeOK
  BY DEF LifeInv
<1>2. ASSUME NEW w \in S PROVE creator[w] \in S
  <2>1. w \in Workers /\ w \notin required
    BY DEF DownInv, Lists
  <2>2. PICK t \in Threads : Holds(frames, t, w)
    BY <2>1 DEF DownInv, Held
  <2>3. t \in {Main, creator[w]}
    BY <2>1, <2>2 DEF DownInv, Held
  <2>4. ~Idle(t)
    <3>1. frames[t] # <<>>
      BY <2>2, EmptySeq DEF Holds
    <3> QED BY <3>1 DEF Idle
  <2>5. t = creator[w] /\ t \in Workers /\ pc[t] \in Busy
    BY <2>3, <2>4 DEF DownInv, Held, Threads
  <2>6. t \notin late
    BY <2>1, <2>5 DEF DownInv, Family
  <2> QED BY <2>5, <2>6 DEF Living, Busy
<1>3. S \in SUBSET Workers
  OBVIOUS
<1>4. S = {}
  <2> HIDE DEF S
  <2> QED BY <1>2, <1>3 DEF DownInv, Family
<1> QED BY <1>4

LEMMA ManagerKeepsDown ==
    ASSUME LifeInv, DownInv, Manager \/ ManagerShutdown
    PROVE  DownInv'
<1>0. /\ TypeOK /\ Main \in Threads /\ SameHolds(frames) /\ frames \in FrameTable
      /\ \A at : [pc EXCEPT ![Main] = at][Main] = at
                 /\ \A w \in Workers : [pc EXCEPT ![Main] = at][w] = pc[w]
  BY NothingHolds, ThreadsAssumption DEF LifeInv, TypeOK, Threads
<1>1. CASE PendingRuns
  BY <1>0, <1>1, RunKeepsDown DEF PendingRuns
<1>2. CASE ManagerShutdown
  <2>1. /\ pc[Main] = "loop" /\ pc' = [pc EXCEPT ![Main] = "before"] /\ initialized' = FALSE
        /\ UNCHANGED <<frames, required, creator, registered, todo, late>>
    BY <1>2 DEF ManagerShutdown, history
  <2>2. Lists' /\ NoBackgroundThreads'
    BY <1>0, <2>1 DEF DownInv, Lists, NoBackgroundThreads
  <2> QED BY <1>0, <2>1, <2>2, MainMovesKeepDown DEF DownInv, Family, TypeOK
<1>3. CASE Gathers
  <2>1. /\ pc[Main] = "before" /\ pc' = [pc EXCEPT ![Main] = "shutall"]
        /\ todo' = registered /\ late' = {w \in Workers : pc[w] = "starting"}
        /\ UNCHANGED <<frames, required, creator, initialized>>
    BY <1>3 DEF Gathers, Moves
  <2>2. \A w \in Workers : creator[w] \in Workers => creator[w] \notin late'
    BY <2>1 DEF DownInv, Family, Young
  <2>3. ASSUME NEW w \in Workers \ late', Living(w)', w \in required'
        PROVE  w \in todo'
    <3>1. pc'[w] = pc[w]
      BY <1>0, <2>1
    <3>2. Living(w) /\ pc[w] # "starting" /\ w \in required
      BY <2>1, <2>3, <3>1 DEF Living
    <3>3. pc[w] \notin Ending
      BY <3>2 DEF LifeInv, Life, Turn
    <3>4. pc[w] \in PC
      BY <1>0 DEF TypeOK, Threads
    <3>5. pc[w] \in Listed
      BY <3>2, <3>3, <3>4 DEF Ending, Listed, Living
    <3> QED BY <2>1, <3>5 DEF DownInv, Lists
  <2>4. Lists' /\ NoBackgroundThreads'
    BY <1>0, <2>1, <2>3 DEF DownInv, Lists, NoBackgroundThreads
  <2> QED BY <2>1, <2>2, <2>4, MainMovesKeepDown
<1>4. ASSUME NEW u \in Workers, ShutsOneDown(u) PROVE DownInv'
  <2>1. todo' = todo \ {u} /\ pc' = pc /\ pc[Main] = "shutall"
    BY <1>4 DEF ShutsOneDown
  <2>2. CASE BeginsShutdown(Main, u)
    BY <1>0, <2>1, <2>2, ShutdownKeepsDown
  <2>3. CASE /\ u \notin required
             /\ UNCHANGED <<frames, queue, context, required, acked, pending, origin,
                            creator, initialized, registered, history>>
    <3>1. UNCHANGED <<frames, required, creator, initialized, registered, late>>
      BY <2>3 DEF history
    <3>2. Held' /\ Family' /\ NoBackgroundThreads'
      BY <2>1, <3>1 DEF DownInv, Held, Family, NoBackgroundThreads, Living, Idle
    <3>3. Lists'
      BY <2>1, <2>3, <3>1 DEF DownInv, Lists, Living
    <3> QED BY <3>2, <3>3 DEF DownInv
  <2> QED BY <1>4, <2>2, <2>3 DEF ShutsOneDown
<1>5. CASE AllAreDown
  <2>1. /\ pc[Main] = "shutall" /\ Idle(Main) /\ todo = {}
        /\ pc' = [pc EXCEPT ![Main] = "after"]
        /\ UNCHANGED <<frames, required, creator, initialized, registered, todo, late>>
    BY <1>5 DEF AllAreDown, GoesTo, Moves
  <2>2. \A w \in Workers \ late' : pc'[w] \in {"unborn", "joined"}
    BY <1>0, <2>1, NobodyIsLeft DEF Living
  <2>3. Lists' /\ NoBackgroundThreads'
    BY <1>0, <2>1, <2>2 DEF DownInv, Lists, NoBackgroundThreads
  <2> QED BY <1>0, <2>1, <2>3, MainMovesKeepDown DEF DownInv, Family, TypeOK
<1>6. CASE ManagerIsDown
  <2>1. /\ pc[Main] = "after" /\ pc' = [pc EXCEPT ![Main] = "over"]
        /\ UNCHANGED <<frames, required, creator, initialized, todo, late>>
    BY <1>6 DEF ManagerIsDown, GoesTo, Moves
  <2>2. Lists' /\ NoBackgroundThreads'
    BY <1>0, <2>1 DEF DownInv, Lists, NoBackgroundThreads
  <2> QED BY <1>0, <2>1, <2>2, MainMovesKeepDown DEF DownInv, Family, TypeOK
<1> QED BY <1>1, <1>2, <1>3, <1>4, <1>5, <1>6 DEF Manager

----------------------------------------------------------------------------
(***************************************************************************)
(* The theorem.                                                            *)
(***************************************************************************)

LEMMA InitialDown == Init => DownInv
<1> SUFFICES ASSUME Init PROVE DownInv
  OBVIOUS
<1>1. \A t \in Threads : frames[t] = <<>>
  BY DEF Init
<1>2. \A w \in Workers : pc[w] = "unborn" /\ creator[w] = None /\ w \in Threads /\ w # Main
  BY ThreadsAssumption DEF Init, Threads
<1>3. \A t \in Threads, w \in Workers : ~Holds(frames, t, w)
  BY <1>1, EmptySeq DEF Holds
<1>4. Held
  BY <1>1, <1>2, <1>3 DEF Held, Living, Idle
<1>5. Family
  <2>1. None \notin Workers
    BY ThreadsAssumption
  <2> QED BY <1>2, <2>1 DEF Family
<1>6. pc[Main] = "loop"
  BY DEF Init, Threads
<1>7. Lists /\ NoBackgroundThreads
  BY <1>2, <1>6 DEF Init, Lists, NoBackgroundThreads, Listed
<1> QED BY <1>4, <1>5, <1>7 DEF DownInv

\* Once nsThreadManager::Shutdown has gone through its list, no thread is left but
\* those that were just being created when it made the list: provided that it is only
\* its creator, or the main thread, that shuts a thread down.
THEOREM ManagerLeavesNobody ==
    ASSUME "anyoneShutsDown" \notin Env
    PROVE  Spec => []NoBackgroundThreads
<1>1. LifeInv /\ DownInv /\ [Next]_vars => DownInv'
  <2> SUFFICES ASSUME LifeInv, DownInv, [Next]_vars PROVE DownInv'
    OBVIOUS
  <2>1. CASE Next
    <3>1. ASSUME NEW t \in Threads, Runs(t) \/ Client(t) PROVE DownInv'
      BY <3>1, ThreadFuncKeepsDown, CallsKeepDown, ManagerKeepsDown, ClientKeepsDown
         DEF Runs
    <3> QED BY <2>1, <3>1, ManagerKeepsDown DEF Next
  <2>2. CASE UNCHANGED vars
    BY <2>2, NothingHolds, CallKeepsDown DEF vars, LifeInv
  <2> QED BY <2>1, <2>2
<1>2. DownInv => NoBackgroundThreads
  BY DEF DownInv
<1> QED BY <1>1, <1>2, InitialDown, LifeInvariance, PTL DEF Spec
=============================================================================
