-------------------------- MODULE FtpContextProofs --------------------------
(***************************************************************************)
(* Theorems about FtpClient, proved with TLAPS: in which directory and     *)
(* mode requests are carried out.                                          *)
(***************************************************************************)
EXTENDS FtpClientProofs

----------------------------------------------------------------------------
(***************************************************************************)
(* What the commands of a queue rely on.  A claim is a pair: <<"CWD", d>>, *)
(* the directory of the session is d; <<"TYPE", m>>, its mode is m; and    *)
(* <<"PASV", r>>, a data connection is opened for the transfer of request r*)
(* or for none.                                                            *)
(***************************************************************************)
Login == {"welcome", "USER", "PASS"}

Serves(S) == {<<"PASV", r>> : r \in S}

\* What holds after x of the claims s that hold before it.  After a command that
\* carries a request out nothing is counted on, and on the mode "I" only until
\* the transfer.
Leave(s, x) ==
    CASE x.cmd \in Carrying \cup {"transferEnd"} -> {}
      [] x.cmd \in {"REST", "SIZE"} \cup Login -> s
      [] x.cmd = "PASV" -> s \cup Serves(Requests)
      [] OTHER -> {a \in s : a # <<"TYPE", "I">> /\ a[1] # x.cmd}
                  \cup (IF x.cmd \in {"CWD", "TYPE"} THEN {<<x.cmd, x.arg>>} ELSE {})

\* With these claims the wish w[x.req] is carried out by x as it was meant, and
\* the answer to PWD is the directory that a session begins in.
May(w, s, x) ==
    /\ x.cmd = "PWD" => <<"CWD", Root>> \in s
    /\ x.cmd \in Carrying =>
         /\ w[x.req].kind # "rename" => <<"CWD", w[x.req].dir>> \in s
         /\ w[x.req].kind = "list" => <<"TYPE", "A">> \in s
         /\ w[x.req].kind \in {"download", "upload"} =>
              <<"TYPE", "I">> \in s /\ x.cmd \in Carriers
         /\ x.cmd \in Carriers => <<"PASV", x.req>> \in s

\* Begun with the claims s, the commands of q are all given as they should be,
\* and t holds after them.
Leads(w, q, s, t) ==
    \E f : /\ f[0] \subseteq s /\ t \subseteq f[Len(q)]
           /\ \A k \in 1 .. Len(q) : /\ May(w, f[k - 1], q[k])
                                     /\ f[k] \subseteq Leave(f[k - 1], q[k])

Sound(w, q, s) == Leads(w, q, s, {})

LEMMA WhatIsLeft ==
    ASSUME NEW s, NEW x
    PROVE  /\ x.cmd \in Carrying \cup {"transferEnd"} => Leave(s, x) = {}
           /\ x.cmd \in {"REST", "SIZE"} \cup Login => Leave(s, x) = s
           /\ x.cmd = "PASV" => Leave(s, x) = s \cup Serves(Requests)
           /\ x.cmd \in {"CWD", "TYPE"} =>
                Leave(s, x) = {a \in s : a # <<"TYPE", "I">> /\ a[1] # x.cmd}
                              \cup {<<x.cmd, x.arg>>}
           /\ x.cmd \notin Carrying \cup Login \cup
                 {"transferEnd", "REST", "SIZE", "PASV", "CWD", "TYPE"} =>
                Leave(s, x) = {a \in s : a # <<"TYPE", "I">> /\ a[1] # x.cmd}
  BY DEF Leave, Carrying, Transfers, Login

LEMMA MoreIsLeft ==
    ASSUME NEW s, NEW u, s \subseteq u, NEW x PROVE Leave(s, x) \subseteq Leave(u, x)
  BY DEF Leave

LEMMA MoreClaims ==
    ASSUME NEW w, NEW s, NEW u, s \subseteq u, NEW x
    PROVE  (May(w, s, x) => May(w, u, x)) /\ Leave(s, x) \subseteq Leave(u, x)
<1>1. May(w, s, x) => May(w, u, x)
  BY DEF May
<1> QED BY <1>1, MoreIsLeft

LEMMA Weaker ==
    ASSUME NEW w, NEW q, NEW s, NEW t, Leads(w, q, s, t),
           NEW u, s \subseteq u, NEW v, v \subseteq t
    PROVE  Leads(w, q, u, v)
<1>1. PICK f : /\ f[0] \subseteq s /\ t \subseteq f[Len(q)]
               /\ \A k \in 1 .. Len(q) : /\ May(w, f[k - 1], q[k])
                                         /\ f[k] \subseteq Leave(f[k - 1], q[k])
  BY DEF Leads
<1>2. f[0] \subseteq u /\ v \subseteq f[Len(q)]
  BY <1>1
<1> QED BY <1>1, <1>2 DEF Leads

LEMMA NoCommand ==
    ASSUME NEW w, NEW s, NEW t, t \subseteq s PROVE Leads(w, <<>>, s, t)
<1> DEFINE f == [k \in {0} |-> s]
<1>1. f[0] \subseteq s /\ t \subseteq f[Len(<<>>)] /\ 1 .. Len(<<>>) = {}
  OBVIOUS
<1> HIDE DEF f
<1> QED BY <1>1 DEF Leads

LEMMA OneCommand ==
    ASSUME NEW w, NEW s, NEW t, NEW x, May(w, s, x), t \subseteq Leave(s, x)
    PROVE  Leads(w, <<x>>, s, t)
<1> DEFINE f == [k \in 0 .. 1 |-> IF k = 0 THEN s ELSE t]
           q == <<x>>
<1>1. f[0] = s /\ f[1] = t /\ Len(q) = 1 /\ q[1] = x
  OBVIOUS
<1> HIDE DEF f, q
<1>2. /\ f[0] \subseteq s /\ t \subseteq f[Len(q)]
      /\ \A k \in 1 .. Len(q) : k = 1 /\ k - 1 = 0
  BY <1>1
<1>3. \A k \in 1 .. Len(q) : /\ May(w, f[k - 1], q[k])
                             /\ f[k] \subseteq Leave(f[k - 1], q[k])
  BY <1>1, <1>2
<1>4. Leads(w, q, s, t)
  BY <1>2, <1>3 DEF Leads
<1> QED BY <1>4 DEF q

LEMMA ThatCommand ==
    ASSUME NEW w, NEW s, NEW t, NEW x, Leads(w, <<x>>, s, t)
    PROVE  May(w, s, x) /\ t \subseteq Leave(s, x)
<1> DEFINE q == <<x>>
<1>1. Len(q) = 1 /\ q[1] = x
  OBVIOUS
<1>2. Leads(w, q, s, t)
  OBVIOUS
<1> HIDE DEF q
<1>3. PICK f : /\ f[0] \subseteq s /\ t \subseteq f[Len(q)]
               /\ \A k \in 1 .. Len(q) : /\ May(w, f[k - 1], q[k])
                                         /\ f[k] \subseteq Leave(f[k - 1], q[k])
  BY <1>2 DEF Leads
<1>4. 1 \in 1 .. Len(q) /\ 1 - 1 = 0
  BY <1>1
<1>5. May(w, f[0], x) /\ f[1] \subseteq Leave(f[0], x) /\ t \subseteq f[1]
  BY <1>1, <1>3, <1>4
<1> QED BY <1>3, <1>5, MoreClaims

\* First the commands of p, then those of q.
LEMMA Joined ==
    ASSUME NEW w, NEW p \in Seq(Command), NEW q \in Seq(Command),
           NEW s, NEW t, NEW u, Leads(w, p, s, u), Leads(w, q, u, t)
    PROVE  Leads(w, p \o q, s, t)
<1> DEFINE m == Len(p)
           n == Len(q)
           b == p \o q
<1>1. m \in Nat /\ n \in Nat
  BY Elements
<1>2. /\ Len(b) = m + n /\ \A k \in 1 .. m : b[k] = p[k]
      /\ \A k \in 1 .. n : b[m + k] = q[k]
  BY ConcatProperties
<1>3. PICK f : /\ f[0] \subseteq s /\ u \subseteq f[m]
               /\ \A k \in 1 .. m : /\ May(w, f[k - 1], p[k])
                                    /\ f[k] \subseteq Leave(f[k - 1], p[k])
  BY DEF Leads
<1>4. PICK g : /\ g[0] \subseteq u /\ t \subseteq g[n]
               /\ \A k \in 1 .. n : /\ May(w, g[k - 1], q[k])
                                    /\ g[k] \subseteq Leave(g[k - 1], q[k])
  BY DEF Leads
<1> DEFINE h == [k \in 0 .. m + n |-> IF k < m THEN f[k] ELSE g[k - m]]
<1> HIDE DEF b, m, n
<1>5. \A k \in 0 .. m + n : h[k] = IF k < m THEN f[k] ELSE g[k - m]
  OBVIOUS
<1> HIDE DEF h
<1>6. h[0] \subseteq s /\ t \subseteq h[m + n]
  <2>1. m = 0 => h[0] = g[0]
    BY <1>1, <1>5
  <2>2. m # 0 => h[0] = f[0]
    BY <1>1, <1>5
  <2>3. h[m + n] = g[n]
    BY <1>1, <1>5
  <2> QED BY <1>3, <1>4, <2>1, <2>2, <2>3
<1>7. ASSUME NEW k \in 1 .. m + n
      PROVE  May(w, h[k - 1], b[k]) /\ h[k] \subseteq Leave(h[k - 1], b[k])
  <2>1. CASE k <= m
    <3>1. k \in 1 .. m /\ h[k - 1] = f[k - 1] /\ b[k] = p[k]
      BY <1>1, <1>2, <1>5, <2>1
    <3>2. h[k] \subseteq f[k]
      <4>1. k < m => h[k] = f[k]
        BY <1>1, <1>5, <2>1
      <4>2. k = m => h[k] = g[0]
        BY <1>1, <1>5, <2>1
      <4> QED BY <1>1, <1>3, <1>4, <2>1, <4>1, <4>2
    <3> QED BY <1>3, <3>1, <3>2
  <2>2. CASE ~ (k <= m)
    <3>1. k - m \in 1 .. n /\ m + (k - m) = k /\ (k - m) - 1 = (k - 1) - m
      BY <1>1, <2>2
    <3>2. h[k - 1] = g[(k - m) - 1] /\ h[k] = g[k - m]
      <4>1. k - 1 \in 0 .. m + n /\ ~ (k - 1 < m) /\ k \in 0 .. m + n /\ ~ (k < m)
        BY <1>1, <2>2
      <4>2. h[k - 1] = g[(k - 1) - m] /\ h[k] = g[k - m]
        BY <1>5, <4>1
      <4> QED BY <3>1, <4>2
    <3>3. b[k] = q[k - m]
      BY <1>2, <3>1
    <3> QED BY <1>4, <3>1, <3>2, <3>3
  <2> QED BY <2>1, <2>2
<1>8. Leads(w, b, s, t)
  BY <1>2, <1>6, <1>7 DEF Leads
<1> QED BY <1>8 DEF b

\* A sequence that is not empty is its head before its tail.
LEMMA HeadAndTail ==
    ASSUME NEW S, NEW q \in Seq(S), q # <<>> PROVE <<Head(q)>> \o Tail(q) = q
<1> DEFINE a == <<Head(q)>>
           b == Tail(q)
           c == a \o b
           m == Len(b)
<1>1. /\ Head(q) \in S /\ b \in Seq(S) /\ Head(q) = q[1] /\ Len(q) = m + 1
      /\ \A k \in 1 .. m : b[k] = q[k + 1]
  BY FirstOf, HeadTailProperties
<1>2. a \in Seq(S) /\ Len(a) = 1 /\ a[1] = q[1] /\ m \in Nat
  BY <1>1, Elements
<1> HIDE DEF a, b, m
<1>3. /\ c \in Seq(S) /\ Len(c) = 1 + m /\ \A k \in 1 .. 1 : c[k] = a[k]
      /\ \A k \in 1 .. m : c[1 + k] = b[k]
  <2>1. /\ c \in Seq(S) /\ Len(c) = Len(a) + Len(b) /\ \A k \in 1 .. Len(a) : c[k] = a[k]
        /\ \A k \in 1 .. Len(b) : c[Len(a) + k] = b[k]
    <3>1. a \in Seq(S) /\ b \in Seq(S)
      BY <1>1, <1>2
    <3> QED BY <3>1, ConcatProperties
  <2> QED BY <1>2, <2>1 DEF m
<1> HIDE DEF c
<1>4. ASSUME NEW k \in 1 .. m + 1 PROVE c[k] = q[k]
  <2>1. CASE k = 1
    BY <1>2, <1>3, <2>1
  <2>2. CASE k # 1
    <3>1. k - 1 \in 1 .. m /\ 1 + (k - 1) = k /\ (k - 1) + 1 = k
      BY <1>2, <2>2
    <3> QED BY <1>1, <1>3, <3>1
  <2> QED BY <2>1, <2>2
<1>5. c = q
  BY <1>1, <1>2, <1>3, <1>4, SeqEqual
<1> QED BY <1>5 DEF a, b, c

\* What comes after the first n commands of q.
LEMMA Shortened ==
    ASSUME NEW w, NEW q \in Seq(Command), NEW s, NEW v, Leads(w, q, s, v),
           NEW n \in 0 .. Len(q), NEW t, Len(t) \in Nat, Cut(t, q, n)
    PROVE  \E f : /\ f[0] \subseteq s
                  /\ \A k \in 1 .. n : /\ May(w, f[k - 1], q[k])
                                       /\ f[k] \subseteq Leave(f[k - 1], q[k])
                  /\ Leads(w, t, f[n], v)
<1> DEFINE l == Len(t)
<1>1. l \in Nat /\ n \in Nat /\ Len(q) = n + l /\ \A k \in 1 .. l : t[k] = q[k + n]
  BY Elements DEF Cut
<1>2. PICK f : /\ f[0] \subseteq s /\ v \subseteq f[n + l]
               /\ \A k \in 1 .. n + l : /\ May(w, f[k - 1], q[k])
                                        /\ f[k] \subseteq Leave(f[k - 1], q[k])
  BY <1>1 DEF Leads
<1> DEFINE g == [k \in 0 .. l |-> f[n + k]]
<1>3. \A k \in 1 .. n : /\ May(w, f[k - 1], q[k])
                        /\ f[k] \subseteq Leave(f[k - 1], q[k])
  BY <1>1, <1>2
<1> HIDE DEF l
<1>4. \A k \in 0 .. l : g[k] = f[n + k]
  OBVIOUS
<1> HIDE DEF g
<1>5. g[0] = f[n] /\ g[l] = f[n + l]
  BY <1>1, <1>4
<1>6. \A k \in 1 .. l : May(w, g[k - 1], t[k]) /\ g[k] \subseteq Leave(g[k - 1], t[k])
  <2> SUFFICES ASSUME NEW k \in 1 .. l
               PROVE  May(w, g[k - 1], t[k]) /\ g[k] \subseteq Leave(g[k - 1], t[k])
    OBVIOUS
  <2>1. n + k \in 1 .. n + l /\ k \in 0 .. l /\ k - 1 \in 0 .. l
        /\ n + (k - 1) = (n + k) - 1 /\ n + k = k + n
    BY <1>1
  <2>2. g[k] = f[n + k] /\ g[k - 1] = f[(n + k) - 1] /\ t[k] = q[n + k]
    BY <1>1, <1>4, <2>1
  <2> QED BY <1>2, <2>1, <2>2
<1>7. Leads(w, t, f[n], v)
  BY <1>2, <1>5, <1>6 DEF Leads, l
<1> QED BY <1>2, <1>3, <1>7

\* Nothing is counted on after a request is carried out.
LEMMA Renewed ==
    ASSUME NEW w, NEW q \in Seq(Command), NEW s, Sound(w, q, s),
           NEW n \in 1 .. Len(q), q[n].cmd \in Carrying \cup {"transferEnd"},
           NEW t, Len(t) \in Nat, Cut(t, q, n), NEW u
    PROVE  Sound(w, t, u)
<1>1. n \in 0 .. Len(q) /\ n \in 1 .. n
  BY Elements
<1>2. PICK f : /\ f[0] \subseteq s
               /\ \A k \in 1 .. n : /\ May(w, f[k - 1], q[k])
                                    /\ f[k] \subseteq Leave(f[k - 1], q[k])
               /\ Leads(w, t, f[n], {})
  BY <1>1, Shortened DEF Sound
<1>3. f[n] \subseteq {}
  BY <1>1, <1>2, WhatIsLeft
<1>4. f[n] \subseteq u
  BY <1>3
<1> QED BY <1>2, <1>4, Weaker DEF Sound

LEMMA TailSound ==
    ASSUME NEW w, NEW q \in Seq(Command), q # <<>>, NEW s, Sound(w, q, s)
    PROVE  May(w, s, Head(q)) /\ Sound(w, Tail(q), Leave(s, Head(q)))
<1>1. /\ Head(q) = q[1] /\ Tail(q) \in Seq(Command) /\ Cut(Tail(q), q, 1)
      /\ 1 \in 0 .. Len(q) /\ 1 \in 1 .. 1 /\ 1 - 1 = 0
  BY FirstOf, TailCuts
<1>2. Len(Tail(q)) \in Nat
  BY <1>1, Elements
<1>3. PICK f : /\ f[0] \subseteq s
               /\ \A k \in 1 .. 1 : /\ May(w, f[k - 1], q[k])
                                    /\ f[k] \subseteq Leave(f[k - 1], q[k])
               /\ Leads(w, Tail(q), f[1], {})
  BY <1>1, <1>2, Shortened DEF Sound
<1>4. May(w, f[0], q[1]) /\ f[1] \subseteq Leave(f[0], q[1])
  BY <1>1, <1>3
<1>5. May(w, s, q[1]) /\ f[1] \subseteq Leave(s, q[1])
  BY <1>3, <1>4, MoreClaims
<1> QED BY <1>1, <1>3, <1>5, Weaker DEF Sound

LEMMA FrontSound ==
    ASSUME NEW w, NEW q \in Seq(Command), NEW x \in Command, NEW s, May(w, s, x),
           Sound(w, q, Leave(s, x))
    PROVE  Sound(w, <<x>> \o q, s)
<1>1. Leads(w, <<x>>, s, Leave(s, x))
  BY OneCommand
<1>2. <<x>> \in Seq(Command)
  OBVIOUS
<1> QED BY <1>1, <1>2, Joined DEF Sound

\* y does as well as x.
AsGood(w, x, y) ==
    \A s : (May(w, s, x) => May(w, s, y)) /\ Leave(s, x) \subseteq Leave(s, y)

LEMMA Exchanged ==
    ASSUME NEW w, NEW p, NEW q, Len(p) = Len(q),
           \A k \in 1 .. Len(q) : AsGood(w, q[k], p[k]), NEW s, NEW t, Leads(w, q, s, t)
    PROVE  Leads(w, p, s, t)
<1>1. PICK f : /\ f[0] \subseteq s /\ t \subseteq f[Len(q)]
               /\ \A k \in 1 .. Len(q) : /\ May(w, f[k - 1], q[k])
                                         /\ f[k] \subseteq Leave(f[k - 1], q[k])
  BY DEF Leads
<1>2. \A k \in 1 .. Len(p) : /\ May(w, f[k - 1], p[k])
                             /\ f[k] \subseteq Leave(f[k - 1], p[k])
  <2> SUFFICES ASSUME NEW k \in 1 .. Len(q)
               PROVE  May(w, f[k - 1], p[k]) /\ f[k] \subseteq Leave(f[k - 1], p[k])
    OBVIOUS
  <2>1. May(w, f[k - 1], q[k]) /\ f[k] \subseteq Leave(f[k - 1], q[k])
    BY <1>1
  <2>2. /\ May(w, f[k - 1], q[k]) => May(w, f[k - 1], p[k])
        /\ Leave(f[k - 1], q[k]) \subseteq Leave(f[k - 1], p[k])
    BY DEF AsGood
  <2> QED BY <2>1, <2>2
<1> QED BY <1>1, <1>2 DEF Leads

LEMMA Alike ==
    ASSUME NEW w, NEW x, NEW y, y.req = x.req,
           \/ y.cmd = x.cmd /\ (x.cmd \in {"CWD", "TYPE"} => y.arg = x.arg)
           \/ {x.cmd, y.cmd} \subseteq {"STOR", "APPE"}
    PROVE  AsGood(w, x, y)
<1>1. ASSUME NEW s, y.cmd = x.cmd, x.cmd \in {"CWD", "TYPE"} => y.arg = x.arg
      PROVE  (May(w, s, x) => May(w, s, y)) /\ Leave(s, x) \subseteq Leave(s, y)
  <2>1. May(w, s, x) => May(w, s, y)
    BY <1>1 DEF May
  <2>2. Leave(s, x) = Leave(s, y)
    <3>1. CASE x.cmd \in {"CWD", "TYPE"}
      BY <1>1, <3>1 DEF Leave
    <3>2. CASE x.cmd \notin {"CWD", "TYPE"}
      BY <1>1, <3>2 DEF Leave
    <3> QED BY <3>1, <3>2
  <2> QED BY <2>1, <2>2
<1>2. ASSUME NEW s, {x.cmd, y.cmd} \subseteq {"STOR", "APPE"}
      PROVE  (May(w, s, x) => May(w, s, y)) /\ Leave(s, x) \subseteq Leave(s, y)
  <2>1. /\ x.cmd \in Carrying /\ y.cmd \in Carrying /\ x.cmd # "PWD" /\ y.cmd # "PWD"
        /\ x.cmd \in Carriers /\ y.cmd \in Carriers
    BY <1>2 DEF Carrying, Transfers, Carriers
  <2>2. May(w, s, x) => May(w, s, y)
    BY <2>1 DEF May
  <2>3. Leave(s, x) = {}
    BY <2>1, WhatIsLeft
  <2> QED BY <2>2, <2>3
<1> QED BY <1>1, <1>2 DEF AsGood

\* What other requests ask for does not matter.
LEMMA OtherWishes ==
    ASSUME NEW w, NEW q, NEW s, NEW t, Leads(w, q, s, t), NEW v,
           \A k \in 1 .. Len(q) : q[k].cmd \in Carrying => v[q[k].req] = w[q[k].req]
    PROVE  Leads(v, q, s, t)
<1>1. PICK f : /\ f[0] \subseteq s /\ t \subseteq f[Len(q)]
               /\ \A k \in 1 .. Len(q) : /\ May(w, f[k - 1], q[k])
                                         /\ f[k] \subseteq Leave(f[k - 1], q[k])
  BY DEF Leads
<1>2. \A k \in 1 .. Len(q) : May(v, f[k - 1], q[k])
  <2> SUFFICES ASSUME NEW k \in 1 .. Len(q) PROVE May(v, f[k - 1], q[k])
    OBVIOUS
  <2>1. May(w, f[k - 1], q[k])
    BY <1>1
  <2> QED BY <2>1 DEF May
<1> QED BY <1>1, <1>2 DEF Leads

\* Each command of q is replaced by commands that do as well together.
LEMMA Expanded ==
    ASSUME NEW w, NEW q \in Seq(Command), NEW ss \in Seq(Seq(Command)), Len(ss) = Len(q),
           \A k \in 1 .. Len(q) : \A s : May(w, s, q[k]) => Leads(w, ss[k], s, Leave(s, q[k])),
           NEW s, NEW t, Leads(w, q, s, t)
    PROVE  Leads(w, FlattenSeq(ss), s, t)
<1>1. PICK f : /\ f[0] \subseteq s /\ t \subseteq f[Len(q)]
               /\ \A k \in 1 .. Len(q) : /\ May(w, f[k - 1], q[k])
                                         /\ f[k] \subseteq Leave(f[k - 1], q[k])
  BY DEF Leads
<1> DEFINE m == Len(ss)
           S == Seq(Command)
           T == {n \in Nat : n <= m => Leads(w, FlattenSeq(SubSeq(ss, 1, n)), s, f[n])}
<1>2. m \in Nat /\ \A k \in 1 .. m : ss[k] \in S
  BY Elements
<1>3. \A n \in Nat : n <= m => /\ SubSeq(ss, 1, n) \in Seq(S) /\ Len(SubSeq(ss, 1, n)) = n
                               /\ \A k \in 1 .. n : SubSeq(ss, 1, n)[k] = ss[k]
  <2> SUFFICES ASSUME NEW n \in Nat, n <= m
               PROVE  /\ SubSeq(ss, 1, n) \in Seq(S) /\ Len(SubSeq(ss, 1, n)) = n
                      /\ \A k \in 1 .. n : SubSeq(ss, 1, n)[k] = ss[k]
    OBVIOUS
  <2>1. \A k \in 1 .. n : ss[k] \in S
    BY <1>2
  <2> QED BY <1>2, <2>1, SubSeqProperties
<1>4. 0 \in T
  <2>1. SubSeq(ss, 1, 0) = <<>>
    BY <1>2, <1>3, EmptySeq
  <2>2. Leads(w, <<>>, s, f[0])
    BY <1>1, NoCommand
  <2> QED BY <2>1, <2>2, FlattenNothing
<1>5. ASSUME NEW n \in T PROVE n + 1 \in T
  <2> SUFFICES ASSUME n + 1 <= m
               PROVE  Leads(w, FlattenSeq(SubSeq(ss, 1, n + 1)), s, f[n + 1])
    OBVIOUS
  <2> DEFINE a == SubSeq(ss, 1, n)
             b == SubSeq(ss, 1, n + 1)
             c == Append(a, ss[n + 1])
  <2>1. n \in Nat /\ n <= m /\ n + 1 \in Nat /\ n + 1 \in 1 .. m /\ (n + 1) - 1 = n
    BY <1>2
  <2>2. Leads(w, FlattenSeq(a), s, f[n])
    BY <2>1
  <2>3. a \in Seq(S) /\ Len(a) = n /\ (\A k \in 1 .. n : a[k] = ss[k]) /\ ss[n + 1] \in S
    BY <1>2, <1>3, <2>1
  <2>4. /\ b \in Seq(S) /\ Len(b) = n + 1 /\ b[n + 1] = ss[n + 1]
        /\ \A k \in 1 .. n : b[k] = ss[k]
    BY <1>3, <2>1
  <2> HIDE DEF a, b
  <2>5. b = c
    <3>1. /\ c \in Seq(S) /\ Len(c) = n + 1 /\ c[n + 1] = ss[n + 1]
          /\ \A k \in 1 .. n : c[k] = a[k]
      BY <2>3, AppendProperties
    <3> HIDE DEF c
    <3>2. \A k \in 1 .. Len(b) : b[k] = c[k]
      <4>1. \A k \in 1 .. Len(b) : k \in 1 .. n \/ k = n + 1
        BY <2>1, <2>4
      <4> QED BY <2>3, <2>4, <3>1, <4>1
    <3> QED BY <2>4, <3>1, <3>2, SeqEqual
  <2>6. FlattenSeq(b) = FlattenSeq(a) \o ss[n + 1]
    BY <2>3, <2>5, FlattenAppend
  <2>7. Leads(w, ss[n + 1], f[n], f[n + 1])
    <3>1. May(w, f[n], q[n + 1]) /\ f[n + 1] \subseteq Leave(f[n], q[n + 1])
      BY <1>1, <2>1
    <3>2. Leads(w, ss[n + 1], f[n], Leave(f[n], q[n + 1]))
      BY <2>1, <3>1
    <3> QED BY <3>1, <3>2, Weaker
  <2>8. FlattenSeq(a) \in S
    BY <2>3, Flattened
  <2>9. Leads(w, FlattenSeq(a) \o ss[n + 1], s, f[n + 1])
    BY <2>2, <2>3, <2>7, <2>8, Joined
  <2> QED BY <2>6, <2>9 DEF b
<1>6. m \in T
  <2> HIDE DEF T
  <2>1. T \subseteq Nat
    BY DEF T
  <2>2. T = Nat
    BY <1>4, <1>5, <2>1, AllNaturals
  <2> QED BY <1>2, <2>2
<1>7. SubSeq(ss, 1, m) = ss
  <2>1. /\ SubSeq(ss, 1, m) \in Seq(S) /\ Len(SubSeq(ss, 1, m)) = m
        /\ \A k \in 1 .. m : SubSeq(ss, 1, m)[k] = ss[k]
    BY <1>2, <1>3
  <2> QED BY <2>1, SeqEqual
<1>8. Leads(w, FlattenSeq(ss), s, f[m])
  <2>1. Leads(w, FlattenSeq(SubSeq(ss, 1, m)), s, f[m])
    BY <1>2, <1>6
  <2> QED BY <1>7, <2>1
<1> QED BY <1>1, <1>8, Weaker

----------------------------------------------------------------------------
(***************************************************************************)
(* What the client's treatment of its queue does to these claims.          *)
(***************************************************************************)
\* The last directory that was set in t is d.
Latest(t, d) ==
    \A k \in 1 .. Len(t) :
        t[k].cmd = "CWD" /\ (\A l \in 1 .. Len(t) : l > k => t[l].cmd # "CWD")
            => t[k].arg = d

\* What a new session will be in when its first command has set the directory d.
Home(d) ==
    {<<"CWD", IF d = None THEN Root ELSE d>>, <<"TYPE", "A">>} \cup Serves(Requests)

LEMMA SkippedDoes ==
    ASSUME NEW w, NEW q \in Seq(Command), NEW s, NEW t, Leads(w, q, s, t)
    PROVE  Skipped(q) \in Seq(Command) /\ Leads(w, Skipped(q), s, t)
<1> DEFINE m == Len(q)
           ss == [k \in 1 .. m |->
                    IF q[k].cmd \in {"aborted", "transferEnd"} THEN <<>> ELSE <<q[k]>>]
<1>1. m \in Nat /\ \A k \in 1 .. m : q[k] \in Command
  BY Elements
<1>2. Skipped(q) = FlattenSeq(ss)
  BY DEF Skipped
<1> HIDE DEF m
<1>3. ss \in Seq(Seq(Command)) /\ Len(ss) = m
  <2>1. \A k \in 1 .. m : ss[k] \in Seq(Command)
    <3> SUFFICES ASSUME NEW k \in 1 .. m PROVE ss[k] \in Seq(Command)
      OBVIOUS
    <3>1. <<>> \in Seq(Command) /\ <<q[k]>> \in Seq(Command)
      BY <1>1
    <3> QED BY <3>1
  <2> QED BY <1>1, <2>1
<1>4. \A k \in 1 .. m : ss[k] = IF q[k].cmd \in {"aborted", "transferEnd"} THEN <<>>
                                ELSE <<q[k]>>
  OBVIOUS
<1> HIDE DEF ss
<1>5. ASSUME NEW k \in 1 .. m, NEW u, May(w, u, q[k])
      PROVE  Leads(w, ss[k], u, Leave(u, q[k]))
  <2>1. CASE q[k].cmd \in {"aborted", "transferEnd"}
    <3>1. Leave(u, q[k]) \subseteq u
      BY <2>1, WhatIsLeft DEF Carrying, Transfers, Login
    <3>2. ss[k] = <<>>
      BY <1>4, <2>1
    <3> QED BY <3>1, <3>2, NoCommand
  <2>2. CASE q[k].cmd \notin {"aborted", "transferEnd"}
    BY <1>4, <1>5, <2>2, OneCommand
  <2> QED BY <2>1, <2>2
<1>6. \A k \in 1 .. Len(q) : \A u : May(w, u, q[k]) => Leads(w, ss[k], u, Leave(u, q[k]))
  BY <1>5 DEF m
<1>7. Leads(w, FlattenSeq(ss), s, t)
  BY <1>3, <1>6, Expanded DEF m
<1>8. FlattenSeq(ss) \in Seq(Command)
  BY <1>3, Flattened
<1> QED BY <1>2, <1>7, <1>8

LEMMA TwoOf ==
    ASSUME NEW S, NEW x \in S, NEW y \in S PROVE <<x>> \o <<y>> = <<x, y>>
<1> DEFINE a == <<x>>
           b == <<y>>
           c == <<x, y>>
<1>1. /\ a \in Seq(S) /\ b \in Seq(S) /\ c \in Seq(S) /\ Len(a) = 1 /\ Len(b) = 1 /\ Len(c) = 2
      /\ a[1] = x /\ b[1] = y /\ c[1] = x /\ c[2] = y
  OBVIOUS
<1> HIDE DEF a, b, c
<1>2. /\ a \o b \in Seq(S) /\ Len(a \o b) = 2 /\ (a \o b)[1] = x /\ (a \o b)[1 + 1] = y
  BY <1>1, ConcatProperties
<1>3. \A k \in 1 .. 2 : k = 1 \/ k = 1 + 1
  OBVIOUS
<1>4. \A k \in 1 .. Len(c) : c[k] = (a \o b)[k]
  BY <1>1, <1>2, <1>3
<1>5. a \o b = c
  BY <1>1, <1>2, <1>4, SeqEqual
<1> QED BY <1>5 DEF a, b, c

LEMMA RestoredDoes ==
    ASSUME NEW w, NEW q \in Seq(Command), NEW x \in Command,
           NEW s, NEW t, Leads(w, q, s, t)
    PROVE  Restored(q, x) \in Seq(Command) /\ Leads(w, Restored(q, x), s, t)
<1> DEFINE m == Len(q)
           y == Cmd("SIZE", x.cmd, x.req)
           ss == [k \in 1 .. m |->
                    IF q[k].cmd = "TYPE" /\ x.cmd \in {"STOR", "APPE"}
                    THEN <<q[k], y>> ELSE <<q[k]>>]
<1>1. m \in Nat /\ \A k \in 1 .. m : q[k] \in Command
  BY Elements
<1>2. Restored(q, x) = FlattenSeq(ss)
  BY DEF Restored
<1>3. y.cmd = "SIZE" /\ (x.cmd \in {"STOR", "APPE"} => y \in Command)
  <2>1. y.cmd = "SIZE"
    BY DEF Cmd
  <2>2. x.cmd \in {"STOR", "APPE"} => x.req \in Requests
    BY OfCommand
  <2> QED BY <2>1, <2>2, CommandTypes DEF CmdNames
<1> HIDE DEF m, y
<1>4. \A k \in 1 .. m : ss[k] = IF q[k].cmd = "TYPE" /\ x.cmd \in {"STOR", "APPE"}
                                THEN <<q[k], y>> ELSE <<q[k]>>
  OBVIOUS
<1>5. ss \in Seq(Seq(Command)) /\ Len(ss) = m
  <2>1. \A k \in 1 .. m : ss[k] \in Seq(Command)
    <3> SUFFICES ASSUME NEW k \in 1 .. m PROVE ss[k] \in Seq(Command)
      OBVIOUS
    <3>1. <<q[k]>> \in Seq(Command)
      BY <1>1
    <3>2. x.cmd \in {"STOR", "APPE"} => <<q[k], y>> \in Seq(Command)
      BY <1>1, <1>3
    <3> QED BY <3>1, <3>2
  <2> QED BY <1>1, <2>1
<1> HIDE DEF ss
<1>6. ASSUME NEW k \in 1 .. m, NEW u, May(w, u, q[k])
      PROVE  Leads(w, ss[k], u, Leave(u, q[k]))
  <2>1. Leads(w, <<q[k]>>, u, Leave(u, q[k]))
    BY <1>6, OneCommand
  <2>2. CASE q[k].cmd = "TYPE" /\ x.cmd \in {"STOR", "APPE"}
    <3> DEFINE v == Leave(u, q[k])
    <3>1. May(w, v, y) /\ Leave(v, y) = v
      BY <1>3, WhatIsLeft DEF May, Carrying, Transfers
    <3> HIDE DEF v
    <3>2. Leads(w, <<y>>, v, v)
      BY <3>1, OneCommand
    <3>3. <<q[k]>> \in Seq(Command) /\ <<y>> \in Seq(Command)
      BY <1>1, <1>3, <2>2
    <3>4. Leads(w, <<q[k]>> \o <<y>>, u, v)
      BY <2>1, <3>2, <3>3, Joined DEF v
    <3>5. <<q[k]>> \o <<y>> = <<q[k], y>>
      BY <1>1, <1>3, <2>2, TwoOf
    <3> QED BY <1>4, <2>2, <3>4, <3>5 DEF v
  <2>3. CASE ~ (q[k].cmd = "TYPE" /\ x.cmd \in {"STOR", "APPE"})
    BY <1>4, <2>1, <2>3
  <2> QED BY <2>2, <2>3
<1>7. \A k \in 1 .. Len(q) : \A u : May(w, u, q[k]) => Leads(w, ss[k], u, Leave(u, q[k]))
  BY <1>6 DEF m
<1>8. Leads(w, FlattenSeq(ss), s, t)
  BY <1>5, <1>7, Expanded DEF m
<1>9. FlattenSeq(ss) \in Seq(Command)
  BY <1>5, Flattened
<1> QED BY <1>2, <1>8, <1>9

\* Only what a new session has anyway, and the mode "I", is claimed by what is
\* in the trash.
LEMMA TrashClaims ==
    ASSUME NEW w, NEW t \in Seq(Command), NEW d, Latest(t, d), NEW u,
           \A k \in 1 .. Len(t) : t[k].cmd \in {"CWD", "TYPE", "PASV", "RNFR"},
           Leads(w, t, Home(d), u)
    PROVE  u \subseteq Home(d) \cup {<<"TYPE", "I">>}
<1> DEFINE m == Len(t)
           Later(k) == \E l \in 1 .. m : l > k /\ t[l].cmd = "CWD"
           H == Home(d) \cup {<<"TYPE", "I">>}
<1>1. m \in Nat /\ \A k \in 1 .. m : t[k] \in Command
  BY Elements
<1>2. PICK f : /\ f[0] \subseteq Home(d) /\ u \subseteq f[m]
               /\ \A k \in 1 .. m : /\ May(w, f[k - 1], t[k])
                                    /\ f[k] \subseteq Leave(f[k - 1], t[k])
  BY DEF Leads
<1> DEFINE Good(k) == \A a \in f[k] : a \in H \/ (a[1] = "CWD" /\ Later(k))
           T == {n \in Nat : n <= m => Good(n)}
<1>3. 0 \in T
  BY <1>2
<1>4. ASSUME NEW n \in T PROVE n + 1 \in T
  <2> SUFFICES ASSUME n + 1 <= m, NEW a \in f[n + 1]
               PROVE  a \in H \/ (a[1] = "CWD" /\ Later(n + 1))
    OBVIOUS
  <2> DEFINE x == t[n + 1]
  <2>1. n \in Nat /\ n <= m /\ n + 1 \in 1 .. m /\ (n + 1) - 1 = n
    BY <1>1
  <2>2. x \in Command /\ x.cmd \in {"CWD", "TYPE", "PASV", "RNFR"}
        /\ f[n + 1] \subseteq Leave(f[n], x) /\ Good(n)
    BY <1>1, <1>2, <2>1
  <2>3. CASE x.cmd = "CWD"
    <3>1. a = <<"CWD", x.arg>> \/ (a \in f[n] /\ a[1] # "CWD")
      BY <2>2, <2>3, WhatIsLeft
    <3>2. CASE a = <<"CWD", x.arg>>
      <4>1. a[1] = "CWD"
        BY <3>2
      <4>2. ~ Later(n + 1) => x.arg = d
        BY <2>1, <2>3 DEF Latest
      <4>3. x.arg = d => a \in Home(d)
        <5>1. x.arg \in Dirs /\ None \notin Dirs
          BY <2>2, <2>3, OfCommand, FtpAssumption
        <5> QED BY <3>2, <5>1 DEF Home
      <4> QED BY <4>1, <4>2, <4>3
    <3>3. CASE a \in f[n] /\ a[1] # "CWD"
      BY <2>2, <3>3
    <3> QED BY <3>1, <3>2, <3>3
  <2>4. CASE x.cmd # "CWD"
    <3>1. Later(n) => Later(n + 1)
      <4> SUFFICES ASSUME NEW l \in 1 .. m, l > n, t[l].cmd = "CWD" PROVE Later(n + 1)
        OBVIOUS
      <4>1. l # n + 1
        BY <2>4
      <4>2. l > n + 1
        BY <2>1, <4>1
      <4> QED BY <4>2
    <3>2. a \in f[n] => a \in H \/ (a[1] = "CWD" /\ Later(n + 1))
      <4> HIDE DEF H, Later
      <4> QED BY <2>2, <3>1
    <3>3. a \in f[n] \/ a \in Serves(Requests) \/ a \in {<<"TYPE", "A">>, <<"TYPE", "I">>}
      <4>1. x.cmd = "TYPE" => x.arg \in {"A", "I"}
        BY <2>2, OfCommand
      <4>2. x.cmd = "RNFR" => x.cmd \notin Carrying \cup Login \cup
                 {"transferEnd", "REST", "SIZE", "PASV", "CWD", "TYPE"}
        BY DEF Carrying, Transfers, Login
      <4>3. a \in Leave(f[n], x)
        BY <2>2
      <4> HIDE DEF x
      <4> QED BY <2>2, <2>4, <4>1, <4>2, <4>3, WhatIsLeft
    <3> QED BY <3>2, <3>3 DEF Home
  <2> QED BY <2>3, <2>4
<1>5. m \in T
  <2> HIDE DEF T
  <2>1. T \subseteq Nat
    BY DEF T
  <2>2. T = Nat
    BY <1>3, <1>4, <2>1, AllNaturals
  <2> QED BY <1>1, <2>2
<1>6. Good(m) /\ ~ Later(m)
  <2>1. Good(m)
    BY <1>1, <1>5
  <2> QED BY <1>1, <2>1
<1> QED BY <1>2, <1>6

LEMMA LessClaims ==
    ASSUME NEW s, NEW x, NEW Z PROVE Leave(s, x) \cap Z \subseteq Leave(s \cap Z, x)
<1>1. CASE x.cmd \in Carrying \cup {"transferEnd"}
  BY <1>1, WhatIsLeft
<1>2. CASE x.cmd \in {"REST", "SIZE"} \cup Login
  BY <1>2, WhatIsLeft
<1>3. CASE x.cmd = "PASV"
  BY <1>3, WhatIsLeft
<1>4. CASE x.cmd \in {"CWD", "TYPE"}
  BY <1>4, WhatIsLeft
<1>5. CASE x.cmd \notin Carrying \cup Login \cup
                        {"transferEnd", "REST", "SIZE", "PASV", "CWD", "TYPE"}
  BY <1>5, WhatIsLeft
<1> QED BY <1>1, <1>2, <1>3, <1>4, <1>5

\* The directory it begins in does not matter to the trash.
LEMMA AnyDirectory ==
    ASSUME NEW w, NEW t,
           \A k \in 1 .. Len(t) : t[k].cmd \in {"CWD", "TYPE", "PASV", "RNFR"},
           NEW s, NEW u, Leads(w, t, s, u), Len(t) \in Nat
    PROVE  Leads(w, t, {a \in s : a[1] # "CWD"}, {a \in u : a[1] # "CWD"})
<1> DEFINE m == Len(t)
<1>1. PICK f : /\ f[0] \subseteq s /\ u \subseteq f[m]
               /\ \A k \in 1 .. m : /\ May(w, f[k - 1], t[k])
                                    /\ f[k] \subseteq Leave(f[k - 1], t[k])
  BY DEF Leads
<1> DEFINE g == [k \in 0 .. m |-> {a \in f[k] : a[1] # "CWD"}]
<1>2. m \in Nat
  OBVIOUS
<1> HIDE DEF m
<1>3. \A k \in 0 .. m : g[k] = {a \in f[k] : a[1] # "CWD"}
  OBVIOUS
<1> HIDE DEF g
<1>4. g[0] \subseteq {a \in s : a[1] # "CWD"} /\ {a \in u : a[1] # "CWD"} \subseteq g[m]
  BY <1>1, <1>2, <1>3
<1>5. ASSUME NEW k \in 1 .. m
      PROVE  May(w, g[k - 1], t[k]) /\ g[k] \subseteq Leave(g[k - 1], t[k])
  <2>1. k \in 0 .. m /\ k - 1 \in 0 .. m /\ t[k].cmd \in {"CWD", "TYPE", "PASV", "RNFR"}
    BY <1>2 DEF m
  <2>2. May(w, g[k - 1], t[k])
    BY <2>1 DEF May, Carrying, Transfers
  <2>3. g[k] \subseteq f[k] /\ f[k - 1] \cap g[k] \subseteq g[k - 1]
    BY <1>3, <2>1
  <2>4. g[k] \subseteq Leave(f[k - 1], t[k]) \cap g[k]
    BY <1>1, <2>3
  <2>5. g[k] \subseteq Leave(f[k - 1] \cap g[k], t[k])
    BY <2>4, LessClaims
  <2>6. Leave(f[k - 1] \cap g[k], t[k]) \subseteq Leave(g[k - 1], t[k])
    BY <2>3, MoreIsLeft
  <2> QED BY <2>2, <2>5, <2>6
<1> QED BY <1>4, <1>5 DEF Leads, m

\* One more command.
LEMMA OneMore ==
    ASSUME NEW w, NEW t \in Seq(Command), NEW s, NEW u, Leads(w, t, s, u),
           NEW x \in Command, May(w, u, x)
    PROVE  Leads(w, Append(t, x), s, Leave(u, x))
<1>1. Leads(w, <<x>>, u, Leave(u, x)) /\ <<x>> \in Seq(Command)
  BY OneCommand
<1>2. Leads(w, t \o <<x>>, s, Leave(u, x))
  BY <1>1, Joined
<1>3. Append(t, x) = t \o <<x>>
  BY AppendIsConcat
<1> QED BY <1>2, <1>3

\* The mode "I" is not counted on before a command that does not lead to a
\* transfer.
LEMMA AnyMode ==
    ASSUME NEW w, NEW q \in Seq(Command), q # <<>>, NEW s, NEW u, Sound(w, q, s),
           s \subseteq u \cup {<<"TYPE", "I">>},
           Head(q).cmd \notin Transfers \cup {"REST", "PASV", "SIZE"} \cup Login
    PROVE  Sound(w, q, u)
<1> DEFINE x == Head(q)
           v == u \cup {<<"TYPE", "I">>}
<1>1. x \in Command /\ Tail(q) \in Seq(Command)
  BY FirstOf
<1>2. May(w, v, x) /\ Sound(w, Tail(q), Leave(v, x))
  <2>1. Sound(w, q, v)
    BY Weaker DEF Sound
  <2> QED BY <2>1, TailSound
<1>3. May(w, u, x)
  <2> SUFFICES ASSUME x.cmd \in Carrying \cup {"PWD"} PROVE May(w, u, x)
    BY DEF May
  <2>1. x.cmd \notin Carriers
    BY DEF Carriers, Transfers
  <2> HIDE DEF x
  <2> QED BY <1>2, <2>1 DEF May
<1>4. Leave(v, x) \subseteq Leave(u, x)
  <2>1. CASE x.cmd \in Carrying \cup {"transferEnd"}
    BY <2>1, WhatIsLeft
  <2>2. CASE x.cmd \in {"CWD", "TYPE"}
    <3> HIDE DEF x
    <3> QED BY <2>2, WhatIsLeft
  <2>3. CASE x.cmd \notin Carrying \cup {"transferEnd"} \cup {"CWD", "TYPE"}
    <3> HIDE DEF x
    <3>1. x.cmd \notin {"REST", "SIZE", "PASV"} \cup Login
      BY DEF x
    <3> QED BY <2>3, <3>1, WhatIsLeft
  <2> QED BY <2>1, <2>2, <2>3
<1>5. Sound(w, Tail(q), Leave(u, x))
  BY <1>2, <1>4, Weaker DEF Sound
<1>6. Sound(w, <<x>> \o Tail(q), u)
  BY <1>1, <1>3, <1>5, FrontSound
<1> QED BY <1>6, HeadAndTail

\* A data connection is made for the first transfer of data in the queue, and is
\* used by no other.
LEMMA FirstServed ==
    ASSUME NEW w, NEW q \in Seq(Command), NEW s,
           Sound(w, q, s \cup Serves(Requests)),
           \A k \in 1 .. Len(q) : q[k].cmd \in Carriers =>
             k < Len(q) /\ IsEnd(q[k + 1]) /\ q[k + 1].req = q[k].req,
           NEW id, Ends(q) # {} => id = q[FirstEnd(q)].req
    PROVE  Sound(w, q, s \cup Serves({id}))
<1> DEFINE m == Len(q)
           n == IF Ends(q) = {} THEN m + 1 ELSE FirstEnd(q)
<1>1. m \in Nat
  BY Elements
<1>2. /\ n \in 1 .. m + 1 /\ \A k \in 1 .. m : k < n => ~ IsEnd(q[k])
      /\ n <= m => IsEnd(q[n]) /\ id = q[n].req
  <2>1. CASE Ends(q) = {}
    BY <1>1, <2>1 DEF Ends
  <2>2. CASE Ends(q) # {}
    <3>1. Ends(q) \subseteq Nat
      BY <1>1 DEF Ends
    <3>2. FirstEnd(q) \in Ends(q) /\ \A l \in Ends(q) : FirstEnd(q) <= l
      BY <2>2, <3>1, LeastOf DEF FirstEnd
    <3>3. n = FirstEnd(q) /\ n \in Ends(q) /\ n \in Nat /\ \A l \in Ends(q) : n <= l
      BY <2>2, <3>1, <3>2
    <3> HIDE DEF n
    <3> QED BY <1>1, <2>2, <3>3 DEF Ends
  <2> QED BY <2>1, <2>2
<1>3. PICK f : /\ f[0] \subseteq s \cup Serves(Requests)
               /\ \A k \in 1 .. m : /\ May(w, f[k - 1], q[k])
                                    /\ f[k] \subseteq Leave(f[k - 1], q[k])
  BY DEF Sound, Leads
<1> DEFINE F(k) == {a \in f[k] : a \in Serves(Requests) => a = <<"PASV", id>>}
           g == [k \in 0 .. m |-> IF k < n THEN F(k) ELSE f[k]]
<1> HIDE DEF n, m
<1>4. \A k \in 0 .. m : g[k] = IF k < n THEN F(k) ELSE f[k]
  OBVIOUS
<1> HIDE DEF g
<1>5. g[0] \subseteq s \cup Serves({id})
  <2>1. 0 \in 0 .. m /\ 0 < n
    BY <1>1, <1>2
  <2>2. g[0] = F(0)
    BY <1>4, <2>1
  <2> QED BY <1>3, <2>2 DEF Serves
<1>6. ASSUME NEW k \in 1 .. m
      PROVE  May(w, g[k - 1], q[k]) /\ g[k] \subseteq Leave(g[k - 1], q[k])
  <2>1. /\ k \in 0 .. m /\ k - 1 \in 0 .. m /\ k \in Nat /\ q[k] \in Command
        /\ May(w, f[k - 1], q[k]) /\ f[k] \subseteq Leave(f[k - 1], q[k])
    BY <1>1, <1>3, Elements DEF m
  <2>2. CASE k < n
    <3>1. g[k] = F(k) /\ g[k - 1] = F(k - 1)
      <4>1. k < n /\ k - 1 < n
        BY <1>2, <2>1, <2>2
      <4> HIDE DEF F
      <4> QED BY <1>4, <2>1, <4>1
    <3>2. May(w, g[k - 1], q[k])
      <4>1. q[k].cmd \in Carriers => id = q[k].req
        <5> SUFFICES ASSUME q[k].cmd \in Carriers PROVE id = q[k].req
          OBVIOUS
        <5>1. k < m /\ IsEnd(q[k + 1]) /\ q[k + 1].req = q[k].req
          BY DEF m
        <5>2. k + 1 \in 1 .. m
          BY <1>1, <2>1, <5>1
        <5>3. k + 1 = n
          BY <1>2, <2>1, <2>2, <5>1, <5>2
        <5> QED BY <1>2, <5>1, <5>2, <5>3
      <4>2. \A d : <<"CWD", d>> \notin Serves(Requests) /\ <<"TYPE", d>> \notin Serves(Requests)
        BY DEF Serves
      <4> HIDE DEF F
      <4>3. \A d : /\ <<"CWD", d>> \in f[k - 1] => <<"CWD", d>> \in g[k - 1]
                   /\ <<"TYPE", d>> \in f[k - 1] => <<"TYPE", d>> \in g[k - 1]
        BY <3>1, <4>2 DEF F
      <4>4. <<"PASV", id>> \in f[k - 1] => <<"PASV", id>> \in g[k - 1]
        BY <3>1 DEF F
      <4> QED BY <2>1, <4>1, <4>3, <4>4 DEF May
    <3>3. f[k - 1] \cap g[k] \subseteq g[k - 1] /\ g[k] \subseteq f[k]
      BY <3>1
    <3>4. g[k] \subseteq Leave(f[k - 1], q[k]) \cap g[k]
      BY <2>1, <3>3
    <3>5. g[k] \subseteq Leave(f[k - 1] \cap g[k], q[k])
      BY <3>4, LessClaims
    <3>6. Leave(f[k - 1] \cap g[k], q[k]) \subseteq Leave(g[k - 1], q[k])
      BY <3>3, MoreIsLeft
    <3> QED BY <3>2, <3>5, <3>6
  <2>3. CASE k = n
    <3>1. q[k].cmd = "transferEnd" /\ g[k] = f[k]
      <4>1. ~ (k < n) /\ n <= m
        BY <1>1, <1>2, <2>3
      <4> HIDE DEF F
      <4> QED BY <1>2, <1>4, <2>1, <2>3, <4>1 DEF IsEnd
    <3>2. f[k] \subseteq {}
      BY <2>1, <3>1, WhatIsLeft
    <3>3. May(w, g[k - 1], q[k])
      BY <3>1 DEF May, Carrying, Transfers
    <3> QED BY <3>1, <3>2, <3>3
  <2>4. CASE k > n
    <3>1. g[k] = f[k] /\ g[k - 1] = f[k - 1]
      <4>1. ~ (k < n) /\ ~ (k - 1 < n)
        BY <1>2, <2>1, <2>4
      <4> QED BY <1>4, <2>1, <4>1
    <3> QED BY <2>1, <3>1
  <2> QED BY <1>2, <2>1, <2>2, <2>3, <2>4
<1>7. Leads(w, q, s \cup Serves({id}), {})
  BY <1>5, <1>6 DEF Leads, m
<1> QED BY <1>7 DEF Sound

----------------------------------------------------------------------------
(***************************************************************************)
(* The client's side of this: what it has in its queue and its trash is    *)
(* right for the session it has, and for the next one if it loses that.    *)
(***************************************************************************)
Recoverable(w, c) ==
    /\ Latest(c.trash, c.cwd)
    /\ \E u : Leads(w, c.trash, Home(c.cwd), u) /\ Sound(w, c.queue, u)

\* A data connection that is there is for one transfer, and one that is not can
\* be made for any.
Served(d) == IF d = None THEN Serves(Requests) ELSE Serves({d.id})

Seat(dir, m, d) == {<<"CWD", dir>>, <<"TYPE", m>>} \cup Served(d)

Seated(w, c, dir, m) ==
    /\ Sound(w, c.queue, Seat(dir, m, c.data))
    /\ c.cwd \in {dir, None} /\ c.mode \in {m, None}

NoLogin(q) == \A k \in 1 .. Len(q) : q[k].cmd \notin Login

\* Who logs in does that first.
LoginFirst(q) == \A k \in 1 .. Len(q) : k = 1 \/ q[k].cmd \notin Login

\* A call that goes on with the queue from c, and comes to d.
Onward(w, c, d) ==
    /\ Recoverable(w, c) => Recoverable(w, d)
    /\ \A dir, m : Seated(w, c, dir, m) => Seated(w, d, dir, m)
    /\ LoginFirst(c.queue) => d.queue = c.queue \/ NoLogin(d.queue)
    /\ c.queue = <<>> \/ Head(c.queue).cmd \in Login =>
         d.queue = c.queue /\ d.trash = c.trash
    /\ d.conn = c.conn /\ d.polls = c.polls /\ d.isConnected = c.isConnected
    /\ d.legitClose = c.legitClose /\ d.known = c.known
    /\ d.cwd = c.cwd /\ d.mode = c.mode /\ d.data = c.data
    /\ d.conn \notin {"opening", "open"} => d.ctl = c.ctl /\ d.dat = c.dat

LEMMA SkipShape ==
    ASSUME NEW c, Typed(c)
    PROVE  \E n \in 0 .. Len(c.queue), p \in Seq(Command), t \in Seq(Command) :
             /\ SkipNeedless(c) = [c EXCEPT !.queue = t, !.trash = c.trash \o Skipped(p)]
             /\ Len(p) = n /\ \A k \in 1 .. n : p[k] = c.queue[k] /\ Needless(c, p[k])
             /\ Cut(t, c.queue, n) /\ (n = 0 => t = c.queue /\ p = <<>>)
<1> DEFINE q == c.queue
           needed == {k \in 1 .. Len(q) : ~ Needless(c, q[k])}
           n == IF needed = {} THEN Len(q)
                ELSE (CHOOSE k \in needed : \A l \in needed : k <= l) - 1
           t == SubSeq(q, n + 1, Len(q))
           p == SubSeq(q, 1, n)
<1>1. q \in Seq(Command) /\ Len(q) \in Nat
  BY Elements DEF Typed
<1>2. n \in 0 .. Len(q) /\ \A k \in 1 .. n : Needless(c, q[k])
  <2>1. CASE needed = {}
    BY <1>1, <2>1
  <2>2. CASE needed # {}
    <3> DEFINE l == CHOOSE k \in needed : \A m \in needed : k <= m
    <3>1. needed \subseteq Nat
      BY <1>1
    <3>2. l \in needed /\ \A m \in needed : l <= m
      <4> HIDE DEF needed
      <4> QED BY <2>2, <3>1, LeastOf
    <3>3. l \in 1 .. Len(q)
      BY <3>2
    <3>4. n = l - 1
      BY <2>2
    <3> HIDE DEF l, n
    <3>5. \A k \in 1 .. n : k \in 1 .. Len(q) /\ k \notin needed
      BY <1>1, <3>2, <3>3, <3>4
    <3> QED BY <1>1, <3>3, <3>4, <3>5
  <2> QED BY <2>1, <2>2
<1>3. SkipNeedless(c) = [c EXCEPT !.queue = t, !.trash = c.trash \o Skipped(p)]
  BY DEF SkipNeedless
<1> HIDE DEF n
<1>4. /\ p \in Seq(Command) /\ Len(p) = n /\ \A k \in 1 .. n : p[k] = q[k]
      /\ t \in Seq(Command) /\ Cut(t, q, n)
  <2>1. \A i \in 1 .. n : q[i] \in Command
    BY <1>1, <1>2, Elements
  <2>2. \A i \in n + 1 .. Len(q) : q[i] \in Command
    BY <1>1, <1>2, Elements
  <2>3. Cut(t, q, n)
    <3> HIDE DEF q
    <3> QED BY <1>1, <1>2, SubSeqCuts
  <2>4. t \in Seq(Command)
    <3> HIDE DEF q
    <3> QED BY <1>1, <1>2, RestOf
  <2>5. p \in Seq(Command) /\ Len(p) = n /\ \A k \in 1 .. n : p[k] = q[k]
    <3> HIDE DEF q
    <3> QED BY <1>1, <1>2, <2>1, SubSeqProperties
  <2> QED BY <2>3, <2>4, <2>5
<1>5. n = 0 => t = q /\ p = <<>>
  <2> SUFFICES ASSUME n = 0 PROVE t = q /\ p = <<>>
    OBVIOUS
  <2> HIDE DEF t, p
  <2>1. \A k \in 1 .. Len(q) : t[k] = q[k]
    BY <1>1, <1>4 DEF Cut
  <2>2. Len(t) = Len(q) /\ p = <<>>
    BY <1>1, <1>4, EmptySeq DEF Cut
  <2> HIDE DEF q
  <2> QED BY <1>1, <1>4, <2>1, <2>2, SeqEqual
<1>6. \A k \in 1 .. n : p[k] = c.queue[k] /\ Needless(c, p[k])
  BY <1>2, <1>4
<1> HIDE DEF t, p
<1> QED BY <1>2, <1>3, <1>4, <1>5, <1>6

LEMMA NeedlessCommands ==
    ASSUME NEW c, NEW x, Needless(c, x)
    PROVE  /\ x.cmd \in {"aborted", "transferEnd", "TYPE", "CWD"}
           /\ x.cmd = "TYPE" => x.arg = c.mode
           /\ x.cmd = "CWD" => x.arg = c.cwd
  BY DEF Needless

\* The trash after more commands are put in it.
LEMMA LaterDirectory ==
    ASSUME NEW t \in Seq(Command), NEW u \in Seq(Command), NEW d, Latest(t, d),
           \A k \in 1 .. Len(u) : u[k].cmd = "CWD" => u[k].arg = d
    PROVE  Latest(t \o u, d)
<1> DEFINE b == t \o u
           m == Len(t)
           n == Len(u)
<1>1. m \in Nat /\ n \in Nat
  BY Elements
<1>2. /\ Len(b) = m + n /\ \A k \in 1 .. m : b[k] = t[k]
      /\ \A k \in 1 .. n : b[m + k] = u[k]
  BY ConcatProperties
<1> HIDE DEF b, m, n
<1>3. ASSUME NEW k \in 1 .. Len(b), b[k].cmd = "CWD",
             \A l \in 1 .. Len(b) : l > k => b[l].cmd # "CWD"
      PROVE  b[k].arg = d
  <2>1. CASE k <= m
    <3>1. k \in 1 .. m /\ b[k] = t[k]
      BY <1>1, <1>2, <2>1
    <3>2. \A l \in 1 .. m : l > k => t[l].cmd # "CWD"
      <4>1. \A l \in 1 .. m : l \in 1 .. Len(b) /\ b[l] = t[l]
        BY <1>1, <1>2
      <4> QED BY <1>3, <4>1
    <3> QED BY <1>3, <3>1, <3>2 DEF Latest, m
  <2>2. CASE ~ (k <= m)
    <3>1. k - m \in 1 .. n /\ m + (k - m) = k
      BY <1>1, <1>2, <2>2
    <3>2. b[k] = u[k - m]
      BY <1>2, <3>1
    <3> QED BY <1>3, <3>1, <3>2 DEF n
  <2> QED BY <2>1, <2>2
<1>4. Latest(b, d)
  BY <1>3 DEF Latest
<1> QED BY <1>4 DEF b

\* What is left of a command that is not needed where it is.
LEMMA NeedlessLeaves ==
    ASSUME NEW x \in Command, NEW c, Needless(c, x), NEW dir, NEW m, NEW data,
           c.cwd \in {dir, None}, c.mode \in {m, None}
    PROVE  Leave(Seat(dir, m, data), x) \subseteq Seat(dir, m, data)
<1>1. x.cmd = "TYPE" => x.arg \in {"A", "I"} /\ x.arg = c.mode
  BY OfCommand, NeedlessCommands
<1>2. x.cmd = "CWD" => x.arg \in Dirs /\ x.arg = c.cwd
  BY OfCommand, NeedlessCommands
<1>3. x.cmd = "TYPE" => x.arg = m
  BY <1>1, FtpAssumption
<1>4. x.cmd = "CWD" => x.arg = dir
  BY <1>2, FtpAssumption
<1>5. x.cmd \in {"aborted", "transferEnd", "TYPE", "CWD"}
  BY NeedlessCommands
<1>6. CASE x.cmd = "transferEnd"
  BY <1>6, WhatIsLeft
<1>7. CASE x.cmd = "aborted"
  <2>1. x.cmd \notin Carrying \cup Login \cup
          {"transferEnd", "REST", "SIZE", "PASV", "CWD", "TYPE"}
    BY <1>7 DEF Carrying, Transfers, Login
  <2> QED BY <2>1, WhatIsLeft
<1>8. CASE x.cmd = "TYPE"
  BY <1>3, <1>8, WhatIsLeft DEF Seat
<1>9. CASE x.cmd = "CWD"
  BY <1>4, <1>9, WhatIsLeft DEF Seat
<1> QED BY <1>5, <1>6, <1>7, <1>8, <1>9

LEMMA SkippedOf ==
    ASSUME NEW S, NEW p \in Seq(S) PROVE Skipped(p) \in Seq(S)
<1> DEFINE m == Len(p)
           ss == [k \in 1 .. m |->
                    IF p[k].cmd \in {"aborted", "transferEnd"} THEN <<>> ELSE <<p[k]>>]
<1>1. m \in Nat /\ \A k \in 1 .. m : p[k] \in S
  BY Elements
<1>2. Skipped(p) = FlattenSeq(ss)
  BY DEF Skipped
<1> HIDE DEF m
<1>3. \A k \in 1 .. m : ss[k] \in Seq(S)
  <2> SUFFICES ASSUME NEW k \in 1 .. m PROVE ss[k] \in Seq(S)
    OBVIOUS
  <2>1. <<>> \in Seq(S) /\ <<p[k]>> \in Seq(S)
    BY <1>1
  <2> QED BY <2>1
<1>4. ss \in Seq(Seq(S))
  BY <1>1, <1>3
<1> HIDE DEF ss
<1> QED BY <1>2, <1>4, Flattened

LEMMA SkipContext ==
    ASSUME NEW w, NEW c, Typed(c) PROVE Onward(w, c, SkipNeedless(c))
<1> DEFINE q == c.queue
           d == SkipNeedless(c)
<1>1. PICK n \in 0 .. Len(q), p \in Seq(Command), t \in Seq(Command) :
        /\ d = [c EXCEPT !.queue = t, !.trash = c.trash \o Skipped(p)]
        /\ Len(p) = n /\ \A k \in 1 .. n : p[k] = q[k] /\ Needless(c, p[k])
        /\ Cut(t, q, n) /\ (n = 0 => t = q /\ p = <<>>)
  BY SkipShape
<1>2. /\ q \in Seq(Command) /\ c.trash \in Seq(Command) /\ Len(q) \in Nat /\ n \in Nat
      /\ Len(t) \in Nat /\ \A k \in 1 .. n : p[k] \in Command
  BY <1>1, Elements DEF Typed
<1>3. /\ d.queue = t /\ d.trash = c.trash \o Skipped(p)
      /\ d.cwd = c.cwd /\ d.mode = c.mode /\ d.data = c.data /\ d.conn = c.conn
      /\ d.polls = c.polls /\ d.isConnected = c.isConnected
      /\ d.legitClose = c.legitClose /\ d.known = c.known /\ d.ctl = c.ctl /\ d.dat = c.dat
  BY <1>1 DEF Typed, IsClient
<1> HIDE DEF d
<1>4. ASSUME Recoverable(w, c) PROVE Recoverable(w, d)
  <2>1. PICK u : Leads(w, c.trash, Home(c.cwd), u) /\ Sound(w, q, u)
    BY <1>4 DEF Recoverable
  <2>2. PICK f : /\ f[0] \subseteq u
                 /\ \A k \in 1 .. n : /\ May(w, f[k - 1], q[k])
                                      /\ f[k] \subseteq Leave(f[k - 1], q[k])
                 /\ Leads(w, t, f[n], {})
    BY <1>1, <1>2, <2>1, Shortened DEF Sound
  <2>3. Leads(w, p, u, f[n])
    <3>1. /\ f[0] \subseteq u /\ f[n] \subseteq f[Len(p)]
          /\ \A k \in 1 .. Len(p) : /\ May(w, f[k - 1], p[k])
                                    /\ f[k] \subseteq Leave(f[k - 1], p[k])
      BY <1>1, <2>2
    <3> QED BY <3>1 DEF Leads
  <2>4. Skipped(p) \in Seq(Command) /\ Leads(w, Skipped(p), u, f[n])
    BY <1>1, <2>3, SkippedDoes
  <2>5. Leads(w, d.trash, Home(d.cwd), f[n])
    BY <1>2, <1>3, <2>1, <2>4, Joined
  <2>6. Latest(d.trash, d.cwd)
    <3> DEFINE S == {x \in Command : x.cmd = "CWD" => x.arg = c.cwd}
    <3>1. p \in Seq(S)
      <4>1. \A k \in 1 .. n : p[k] \in S
        BY <1>1, <1>2, NeedlessCommands
      <4>2. p = [k \in 1 .. n |-> p[k]]
        BY <1>1, Elements
      <4> HIDE DEF S
      <4>3. [k \in 1 .. n |-> p[k]] \in Seq(S)
        BY <1>2, <4>1
      <4> QED BY <4>2, <4>3
    <3>2. Skipped(p) \in Seq(S)
      BY <3>1, SkippedOf
    <3>3. \A k \in 1 .. Len(Skipped(p)) : Skipped(p)[k] \in S
      <4> HIDE DEF S
      <4> QED BY <3>2, Elements
    <3>4. Latest(c.trash, c.cwd)
      BY <1>4 DEF Recoverable
    <3> QED BY <1>2, <1>3, <2>4, <3>3, <3>4, LaterDirectory
  <2> QED BY <1>3, <2>2, <2>5, <2>6 DEF Recoverable, Sound
<1>5. ASSUME NEW dir, NEW m, Seated(w, c, dir, m) PROVE Seated(w, d, dir, m)
  <2> DEFINE s == Seat(dir, m, c.data)
  <2>1. Sound(w, q, s) /\ c.cwd \in {dir, None} /\ c.mode \in {m, None}
    BY <1>5 DEF Seated
  <2>2. PICK f : /\ f[0] \subseteq s
                 /\ \A k \in 1 .. n : /\ May(w, f[k - 1], q[k])
                                      /\ f[k] \subseteq Leave(f[k - 1], q[k])
                 /\ Leads(w, t, f[n], {})
    <3> HIDE DEF s
    <3> QED BY <1>1, <1>2, <2>1, Shortened DEF Sound
  <2>3. \A k \in 1 .. n : Leave(s, p[k]) \subseteq s
    BY <1>1, <1>2, <2>1, NeedlessLeaves
  <2> DEFINE T == {i \in Nat : i <= n => f[i] \subseteq s}
  <2> HIDE DEF s
  <2>4. 0 \in T
    BY <2>2
  <2>5. ASSUME NEW i \in T PROVE i + 1 \in T
    <3> SUFFICES ASSUME i + 1 <= n PROVE f[i + 1] \subseteq s
      OBVIOUS
    <3>1. i \in Nat /\ i <= n /\ i + 1 \in 1 .. n /\ (i + 1) - 1 = i
      BY <1>2
    <3>2. f[i] \subseteq s
      BY <3>1
    <3>3. f[i + 1] \subseteq Leave(f[i], p[i + 1])
      BY <1>1, <2>2, <3>1
    <3>4. Leave(f[i], p[i + 1]) \subseteq Leave(s, p[i + 1])
      BY <3>2, MoreIsLeft
    <3>5. Leave(s, p[i + 1]) \subseteq s
      BY <2>3, <3>1
    <3> QED BY <3>3, <3>4, <3>5
  <2>6. n \in T
    <3> HIDE DEF T
    <3>1. T \subseteq Nat
      BY DEF T
    <3>2. T = Nat
      BY <2>4, <2>5, <3>1, AllNaturals
    <3> QED BY <1>2, <3>2
  <2>7. f[n] \subseteq s
    BY <1>2, <2>6
  <2>8. Sound(w, t, s)
    BY <2>2, <2>7, Weaker DEF Sound
  <2> QED BY <1>3, <2>1, <2>8 DEF Seated, s
<1>6. LoginFirst(q) => t = q \/ NoLogin(t)
  <2>1. CASE n = 0
    BY <1>1, <2>1
  <2>2. CASE n # 0
    <3> SUFFICES ASSUME LoginFirst(q), NEW k \in 1 .. Len(t) PROVE t[k].cmd \notin Login
      BY DEF NoLogin
    <3>1. k + n \in 1 .. Len(q) /\ k + n # 1 /\ t[k] = q[k + n]
      BY <1>1, <1>2, <2>2 DEF Cut
    <3> QED BY <3>1 DEF LoginFirst
  <2> QED BY <2>1, <2>2
<1>7. ASSUME q = <<>> \/ Head(q).cmd \in Login PROVE t = q /\ d.trash = c.trash
  <2>1. n = 0
    <3>1. CASE q = <<>>
      BY <1>2, <3>1
    <3>2. CASE q # <<>>
      <4>1. Head(q) = q[1] /\ q[1].cmd \in Login
        BY <1>2, <1>7, <3>2, FirstOf
      <4>2. 1 \in 1 .. n => q[1].cmd \in {"aborted", "transferEnd", "TYPE", "CWD"}
        BY <1>1, NeedlessCommands
      <4> QED BY <1>2, <4>1, <4>2 DEF Login
    <3> QED BY <3>1, <3>2
  <2>2. Skipped(<<>>) = <<>>
    <3>1. Skipped(<<>>) \in Seq({})
      <4>1. <<>> \in Seq({})
        OBVIOUS
      <4> QED BY <4>1, SkippedOf
    <3>2. Len(Skipped(<<>>)) = 0
      <4>1. \A k \in 1 .. Len(Skipped(<<>>)) : FALSE
        BY <3>1, Elements
      <4>2. Len(Skipped(<<>>)) \in Nat
        BY <3>1, Elements
      <4> QED BY <4>1, <4>2
    <3> QED BY <3>1, <3>2, EmptySeq
  <2>3. c.trash \o <<>> = c.trash
    BY <1>2, ConcatEmptySeq
  <2> QED BY <1>1, <1>3, <2>1, <2>2, <2>3
<1> QED BY <1>3, <1>4, <1>5, <1>6, <1>7 DEF Onward, d

LEMMA WriteContext ==
    ASSUME NEW w, NEW c, Typed(c) PROVE Onward(w, c, WriteControl(c))
<1> DEFINE d == SkipNeedless(c)
<1>1. Onward(w, c, d) /\ Typed(d)
  BY SkipContext, SkipTypes
<1>2. Onward(w, c, c)
  BY DEF Onward
<1> HIDE DEF d
<1>3. d.queue # <<>> => Onward(w, c, Written(d))
  <2> DEFINE e == Written(d)
  <2>1. /\ e.queue = d.queue /\ e.trash = d.trash /\ e.cwd = d.cwd /\ e.mode = d.mode
        /\ e.data = d.data /\ e.conn = d.conn /\ e.polls = d.polls
        /\ e.isConnected = d.isConnected
        /\ e.legitClose = d.legitClose /\ e.known = d.known
        /\ d.conn \notin {"opening", "open"} => e.ctl = d.ctl /\ e.dat = d.dat
    BY <1>1 DEF Written, Typed, IsClient
  <2> HIDE DEF e
  <2>2. Recoverable(w, d) => Recoverable(w, e)
    BY <2>1 DEF Recoverable
  <2>3. \A dir, m : Seated(w, d, dir, m) => Seated(w, e, dir, m)
    BY <2>1 DEF Seated
  <2>4. Onward(w, c, e)
    BY <1>1, <2>1, <2>2, <2>3 DEF Onward
  <2> QED BY <2>4 DEF e
<1> QED BY <1>1, <1>2, <1>3 DEF WriteControl, d

LEMMA NextContext ==
    ASSUME NEW w, NEW c, Typed(c) PROVE Onward(w, c, NextCommand(c))
<1> DEFINE d == [c EXCEPT !.isReady = TRUE]
<1>1. /\ Typed(d) /\ d.queue = c.queue /\ d.trash = c.trash /\ d.cwd = c.cwd
      /\ d.mode = c.mode /\ d.data = c.data /\ d.conn = c.conn /\ d.polls = c.polls
      /\ d.isConnected = c.isConnected
      /\ d.legitClose = c.legitClose /\ d.known = c.known
      /\ d.ctl = c.ctl /\ d.dat = c.dat
  BY DEF Typed, IsClient
<1> HIDE DEF d
<1>2. Recoverable(w, c) => Recoverable(w, d)
  BY <1>1 DEF Recoverable
<1>3. \A dir, m : Seated(w, c, dir, m) => Seated(w, d, dir, m)
  BY <1>1 DEF Seated
<1>4. Onward(w, c, d)
  BY <1>1, <1>2, <1>3 DEF Onward
<1>5. Onward(w, d, WriteControl(d))
  BY <1>1, WriteContext
<1>6. Onward(w, c, WriteControl(d))
  BY <1>1, <1>2, <1>3, <1>5 DEF Onward
<1> QED BY <1>4, <1>6 DEF NextCommand, d

----------------------------------------------------------------------------
(***************************************************************************)
(* The reply to a command that does not log in.                            *)
(***************************************************************************)
\* The client knows the session that it will have when the answer to h is good.
Aware(w, c, h, dir, m) ==
    /\ Sound(w, c.queue, Seat(dir, m, c.data))
    /\ IF h.cmd = "CWD" THEN h.arg = dir ELSE c.cwd \in {dir, None}
    /\ IF h.cmd = "TYPE" THEN h.arg = m ELSE c.mode \in {m, None}

\* The answer to h takes the client from c to d.
Taken(w, c, h, d, dir, m) ==
    /\ Recoverable(w, c) => Recoverable(w, d)
    /\ Aware(w, c, h, dir, m) => Seated(w, d, dir, m)
    /\ NoLogin(d.queue)
    /\ d.conn = c.conn /\ d.polls = c.polls /\ d.isConnected = c.isConnected
    /\ d.legitClose = c.legitClose /\ d.known = c.known
    /\ h.cmd # "PASV" => d.data \in {c.data, None}
    /\ d.conn \notin {"opening", "open"} =>
         d.ctl \in {c.ctl, None} /\ d.dat \in {c.dat, None}

\* The same for what is not reported.
Likewise(c, d) ==
    /\ d.queue = c.queue /\ d.trash = c.trash /\ d.cwd = c.cwd /\ d.mode = c.mode
    /\ d.data = c.data /\ d.conn = c.conn /\ d.polls = c.polls
    /\ d.isConnected = c.isConnected /\ d.legitClose = c.legitClose /\ d.known = c.known
    /\ d.ctl = c.ctl /\ d.dat = c.dat

LEMMA ReportLikewise ==
    ASSUME NEW c, NEW r, NEW what, IsClient(c) PROVE Likewise(c, Report(c, r, what))
  BY DEF Likewise, Report, IsClient

LEMMA TakenOn ==
    ASSUME NEW w, NEW c, NEW h, NEW e, Typed(e), NEW dir, NEW m, Taken(w, c, h, e, dir, m)
    PROVE  /\ Taken(w, c, h, NextCommand(e), dir, m)
           /\ \A r \in Requests \cup {0}, what \in {"done", "failed"} :
                Taken(w, c, h, NextCommand(Report(e, r, what)), dir, m)
<1>1. ASSUME NEW a, Typed(a), Likewise(e, a)
      PROVE  Taken(w, c, h, NextCommand(a), dir, m)
  <2> DEFINE d == NextCommand(a)
  <2>1. Onward(w, a, d)
    BY <1>1, NextContext
  <2> HIDE DEF d
  <2>2. Recoverable(w, e) => Recoverable(w, a)
    BY <1>1 DEF Recoverable, Likewise
  <2>3. Seated(w, e, dir, m) => Seated(w, a, dir, m)
    BY <1>1 DEF Seated, Likewise
  <2>4. NoLogin(d.queue)
    <3>1. NoLogin(a.queue)
      BY <1>1 DEF Taken, Likewise
    <3>2. LoginFirst(a.queue)
      BY <3>1 DEF NoLogin, LoginFirst
    <3> QED BY <2>1, <3>1, <3>2 DEF Onward
  <2>5. /\ d.conn = e.conn /\ d.polls = e.polls /\ d.isConnected = e.isConnected
        /\ d.legitClose = e.legitClose /\ d.known = e.known /\ d.data = e.data
        /\ d.conn \notin {"opening", "open"} => d.ctl = e.ctl /\ d.dat = e.dat
    BY <1>1, <2>1 DEF Onward, Likewise
  <2>6. (Recoverable(w, a) => Recoverable(w, d)) /\ (Seated(w, a, dir, m) => Seated(w, d, dir, m))
    BY <2>1 DEF Onward
  <2>7. Taken(w, c, h, d, dir, m)
    BY <2>2, <2>3, <2>4, <2>5, <2>6 DEF Taken
  <2> QED BY <2>7 DEF d
<1>2. Likewise(e, e)
  BY DEF Likewise
<1>3. \A r \in Requests \cup {0}, what \in {"done", "failed"} :
        Typed(Report(e, r, what)) /\ Likewise(e, Report(e, r, what))
  <2> TAKE r \in Requests \cup {0}, what \in {"done", "failed"}
  <2>1. Typed(Report(e, r, what))
    BY ReportTypes
  <2>2. Likewise(e, Report(e, r, what))
    BY ReportLikewise DEF Typed
  <2> QED BY <2>1, <2>2
<1> QED BY <1>1, <1>2, <1>3

LEMMA CutNoLogin ==
    ASSUME NEW q \in Seq(Command), NoLogin(q), NEW n \in 0 .. Len(q), NEW t, Cut(t, q, n)
    PROVE  NoLogin(t)
<1>1. Len(q) \in Nat /\ n \in Nat /\ Len(t) = Len(q) - n
  BY Elements DEF Cut
<1>2. \A k \in 1 .. Len(t) : k + n \in 1 .. Len(q) /\ t[k] = q[k + n]
  BY <1>1 DEF Cut
<1> QED BY <1>2 DEF NoLogin

\* What can be sent after q with nothing in the trash, in any session.
LEMMA AnySession ==
    ASSUME NEW w, NEW c, NEW d, d.trash = <<>>, d.cwd \in Dirs \cup {None},
           \A u : Sound(w, d.queue, u)
    PROVE  Recoverable(w, d)
<1>1. Leads(w, <<>>, Home(d.cwd), Home(d.cwd))
  BY NoCommand
<1>2. Latest(<<>>, d.cwd)
  BY DEF Latest
<1> QED BY <1>1, <1>2 DEF Recoverable

\* The transfer at the head of the queue is dropped.
LEMMA DropSound ==
    ASSUME NEW w, NEW q \in Seq(Command), q # <<>>, Head(q).cmd \in Transfers
    PROVE  /\ \A s : Sound(w, q, s) => \A u : Sound(w, DropTransfer(q), u)
           /\ NoLogin(q) => NoLogin(DropTransfer(q))
<1>1. /\ Len(q) \in Nat \ {0} /\ Head(q) = q[1] /\ q[1].cmd \in Carrying
      /\ DropTransfer(q) \in Seq(Command)
  BY FirstOf, DropTypes DEF Carrying
<1>2. CASE Len(q) > 1 /\ IsEnd(q[2])
  <2>1. DropTransfer(q) = SubSeq(q, 2 + 1, Len(q)) /\ 2 \in 1 .. Len(q) /\ 2 \in 0 .. Len(q)
    BY <1>1, <1>2 DEF DropTransfer
  <2>2. Cut(DropTransfer(q), q, 2) /\ q[2].cmd = "transferEnd" /\ Len(DropTransfer(q)) \in Nat
    BY <1>1, <1>2, <2>1, SubSeqCuts, Elements DEF IsEnd
  <2> QED BY <2>1, <2>2, Renewed, CutNoLogin
<1>3. CASE ~ (Len(q) > 1 /\ IsEnd(q[2]))
  <2>1. DropTransfer(q) = Tail(q) /\ 1 \in 1 .. Len(q) /\ 1 \in 0 .. Len(q)
    BY <1>1, <1>3 DEF DropTransfer
  <2>2. Cut(DropTransfer(q), q, 1) /\ Len(DropTransfer(q)) \in Nat
    BY <1>1, <2>1, TailCuts, Elements
  <2> QED BY <1>1, <2>1, <2>2, Renewed, CutNoLogin
<1> QED BY <1>2, <1>3

LEMMA HeadSound ==
    ASSUME NEW w, NEW q \in Seq(Command), q # <<>>, NEW s, Sound(w, q, s),
           NEW y \in Command, AsGood(w, Head(q), y)
    PROVE  Sound(w, <<y>> \o Tail(q), s)
<1>1. /\ Tail(q) \in Seq(Command)
      /\ May(w, s, Head(q)) /\ Sound(w, Tail(q), Leave(s, Head(q)))
  BY FirstOf, TailSound
<1>2. May(w, s, y) /\ Leave(s, Head(q)) \subseteq Leave(s, y)
  BY <1>1 DEF AsGood
<1>3. Sound(w, Tail(q), Leave(s, y))
  BY <1>1, <1>2, Weaker DEF Sound
<1> QED BY <1>1, <1>2, <1>3, FrontSound

\* A command that carries a request out is answered, and what is left of the
\* queue can be sent in any session.
LEMMA RenewedTaken ==
    ASSUME NEW w, NEW c, NEW h, NEW e, NEW dir, NEW m, Typed(c),
           h.cmd \notin {"CWD", "TYPE"},
           \A s : Sound(w, c.queue, s) => \A u : Sound(w, e.queue, u),
           e.trash = <<>>, NoLogin(e.queue),
           e.cwd = c.cwd, e.mode = c.mode, e.data \in {c.data, None},
           e.conn = c.conn, e.polls = c.polls, e.isConnected = c.isConnected,
           e.legitClose = c.legitClose, e.known = c.known,
           e.ctl = c.ctl, e.dat \in {c.dat, None}
    PROVE  Taken(w, c, h, e, dir, m)
<1>1. Recoverable(w, c) => Recoverable(w, e)
  <2> SUFFICES ASSUME Recoverable(w, c) PROVE Recoverable(w, e)
    OBVIOUS
  <2>1. PICK s : Sound(w, c.queue, s)
    BY DEF Recoverable
  <2> QED BY <2>1, AnySession DEF Typed
<1>2. Aware(w, c, h, dir, m) => Seated(w, e, dir, m)
  BY DEF Aware, Seated
<1> QED BY <1>1, <1>2 DEF Taken

LEMMA BegunTaken ==
    ASSUME NEW w, NEW c, Typed(c), c.queue # <<>>, NEW h, h = Head(c.queue),
           h.cmd \in Transfers, NoLogin(c.queue), NEW dir, NEW m
    PROVE  Taken(w, c, h, Begun(c), dir, m)
<1> DEFINE y == [h EXCEPT !.begun = TRUE]
           p == <<y>> \o Tail(c.queue)
           b == Begun(c)
           q == c.queue
<1>1. /\ q \in Seq(Command) /\ h \in Command /\ Tail(q) \in Seq(Command)
      /\ Len(q) \in Nat \ {0} /\ h = q[1]
  BY FirstOf DEF Typed
<1>2. y \in Command /\ y.cmd = h.cmd /\ y.req = h.req /\ y.arg = h.arg
  BY <1>1, Marked DEF Command
<1>3. b = [c EXCEPT !.queue = p]
  BY DEF Begun
<1> HIDE DEF y
<1>4. \A s : Sound(w, q, s) => Sound(w, p, s)
  <2>1. AsGood(w, h, y)
    BY <1>2, Alike
  <2> QED BY <1>1, <1>2, <2>1, HeadSound
<1>5. NoLogin(p)
  <2> DEFINE t == Tail(q)
  <2>1. NoLogin(t)
    <3>1. 1 \in 0 .. Len(q)
      BY <1>1
    <3> QED BY <1>1, <3>1, TailCuts, CutNoLogin
  <2>2. <<y>> \in Seq(Command) /\ Len(<<y>>) = 1 /\ <<y>>[1] = y
    BY <1>2
  <2> DEFINE z == <<y>>
  <2> HIDE DEF t
  <2>3. /\ Len(p) = 1 + Len(t) /\ p[1] = y /\ Len(t) \in Nat
        /\ \A k \in 1 .. Len(t) : p[1 + k] = t[k]
    <3>1. t \in Seq(Command) /\ z \in Seq(Command) /\ Len(z) = 1 /\ z[1] = y
      BY <1>1, <2>2 DEF t
    <3> HIDE DEF z
    <3>2. /\ Len(z \o t) = Len(z) + Len(t) /\ \A k \in 1 .. Len(z) : (z \o t)[k] = z[k]
          /\ \A k \in 1 .. Len(t) : (z \o t)[Len(z) + k] = t[k]
      <4>1. z \in Seq(Command) /\ t \in Seq(Command)
        BY <3>1
      <4> QED BY <4>1, ConcatProperties
    <3>3. p = z \o t /\ Len(t) \in Nat
      BY <3>1, Elements DEF z, t
    <3> HIDE DEF p
    <3> QED BY <3>1, <3>2, <3>3
  <2> HIDE DEF p
  <2> SUFFICES ASSUME NEW k \in 1 .. Len(p) PROVE p[k].cmd \notin Login
    BY DEF NoLogin
  <2>4. CASE k = 1
    BY <1>1, <1>2, <2>3, <2>4 DEF NoLogin
  <2>5. CASE k # 1
    <3>1. k - 1 \in 1 .. Len(t) /\ 1 + (k - 1) = k
      BY <2>3, <2>5
    <3> QED BY <2>1, <2>3, <3>1 DEF NoLogin
  <2> QED BY <2>4, <2>5
<1> HIDE DEF p, b
<1>6. /\ b.queue = p /\ b.trash = c.trash /\ b.cwd = c.cwd /\ b.mode = c.mode
      /\ b.data = c.data /\ b.conn = c.conn /\ b.polls = c.polls
      /\ b.isConnected = c.isConnected /\ b.legitClose = c.legitClose
      /\ b.known = c.known /\ b.ctl = c.ctl /\ b.dat = c.dat
  BY <1>3 DEF Typed, IsClient
<1>7. Recoverable(w, c) => Recoverable(w, b)
  <2> SUFFICES ASSUME Recoverable(w, c) PROVE Recoverable(w, b)
    OBVIOUS
  <2>1. PICK u : Leads(w, c.trash, Home(c.cwd), u) /\ Sound(w, q, u)
    BY DEF Recoverable
  <2>2. Sound(w, p, u)
    BY <1>4, <2>1
  <2> QED BY <1>6, <2>1, <2>2 DEF Recoverable
<1>8. Aware(w, c, h, dir, m) => Seated(w, b, dir, m)
  <2>1. h.cmd \notin {"CWD", "TYPE"}
    BY DEF Transfers
  <2> QED BY <1>4, <1>6, <2>1 DEF Aware, Seated
<1>9. Taken(w, c, h, b, dir, m)
  BY <1>5, <1>6, <1>7, <1>8 DEF Taken
<1> QED BY <1>9 DEF b

LEMMA TransferTaken ==
    ASSUME NEW w, NEW c, Typed(c), c.queue # <<>>, NEW h, h = Head(c.queue),
           h.cmd \in Transfers, NoLogin(c.queue), NEW code, NEW dir, NEW m
    PROVE  LET d == TransferAnswered(c, h, code)
           IN \/ Taken(w, c, h, d, dir, m)
              \/ /\ c.data # None /\ d = Poll(Begun(c))
                 /\ Taken(w, c, h, Begun(c), dir, m)
<1> DEFINE q == DropTransfer(c.queue)
           Holds(d) == Taken(w, c, h, d, dir, m)
<1>1. /\ q \in Seq(Command) /\ h.req \in Requests \cup {0} /\ h \in Command
      /\ c.queue \in Seq(Command) /\ h.cmd \notin {"CWD", "TYPE"}
  BY FirstOf, OfCommand, DropTypes DEF Typed, Transfers
<1>2. /\ \A s : Sound(w, c.queue, s) => \A u : Sound(w, q, u)
      /\ NoLogin(q)
  BY <1>1, DropSound
<1> HIDE DEF q
<1>3. Holds(TransferDone(c, h))
  <2> DEFINE d == [c EXCEPT !.queue = q, !.trash = <<>>, !.data = None, !.dat = None]
  <2>1. Typed(d)
    BY <1>1, QueueTypes
  <2>2. TransferDone(c, h) = NextCommand(Report(d, h.req, "done"))
    BY DEF TransferDone, q
  <2>3. /\ d.queue = q /\ d.trash = <<>> /\ d.cwd = c.cwd /\ d.mode = c.mode
        /\ d.data = None /\ d.conn = c.conn /\ d.polls = c.polls
        /\ d.isConnected = c.isConnected /\ d.legitClose = c.legitClose
        /\ d.known = c.known /\ d.ctl = c.ctl /\ d.dat = None
    BY DEF Typed, IsClient
  <2> HIDE DEF d
  <2>4. Taken(w, c, h, d, dir, m)
    BY <1>1, <1>2, <2>3, RenewedTaken
  <2>5. Taken(w, c, h, NextCommand(Report(d, h.req, "done")), dir, m)
    BY <1>1, <2>1, <2>4, TakenOn
  <2> QED BY <2>2, <2>5
<1>4. Holds(TransferFailed(c, h))
  <2> DEFINE d == [c EXCEPT !.queue = q, !.trash = <<>>, !.data = None]
  <2>1. Typed(d)
    BY <1>1, QueueTypes
  <2>2. TransferFailed(c, h) = NextCommand(Report(d, h.req, "failed"))
    BY DEF TransferFailed, q
  <2>3. /\ d.queue = q /\ d.trash = <<>> /\ d.cwd = c.cwd /\ d.mode = c.mode
        /\ d.data = None /\ d.conn = c.conn /\ d.polls = c.polls
        /\ d.isConnected = c.isConnected /\ d.legitClose = c.legitClose
        /\ d.known = c.known /\ d.ctl = c.ctl /\ d.dat = c.dat
    BY DEF Typed, IsClient
  <2> HIDE DEF d
  <2>4. Taken(w, c, h, d, dir, m)
    BY <1>1, <1>2, <2>3, RenewedTaken
  <2>5. Taken(w, c, h, NextCommand(Report(d, h.req, "failed")), dir, m)
    BY <1>1, <2>1, <2>4, TakenOn
  <2> QED BY <2>2, <2>5
<1>5. Holds([c EXCEPT !.queue = q, !.trash = <<>>, !.dat = None])
  <2> DEFINE d == [c EXCEPT !.queue = q, !.trash = <<>>, !.dat = None]
  <2>1. /\ d.queue = q /\ d.trash = <<>> /\ d.cwd = c.cwd /\ d.mode = c.mode
        /\ d.data = c.data /\ d.conn = c.conn /\ d.polls = c.polls
        /\ d.isConnected = c.isConnected /\ d.legitClose = c.legitClose
        /\ d.known = c.known /\ d.ctl = c.ctl /\ d.dat = None
    BY DEF Typed, IsClient
  <2> HIDE DEF d
  <2>2. Taken(w, c, h, d, dir, m)
    BY <1>1, <1>2, <2>1, RenewedTaken
  <2> QED BY <2>2 DEF d
<1>6. Holds(Begun(c))
  BY BegunTaken
<1> DEFINE d == TransferAnswered(c, h, code)
<1>7. \/ d \in {Begun(c), TransferDone(c, h), TransferFailed(c, h),
                [c EXCEPT !.queue = q, !.trash = <<>>, !.dat = None]}
      \/ c.data # None /\ d = Poll(Begun(c))
  BY DEF TransferAnswered, q
<1> HIDE DEF d
<1>8. Holds(d) \/ (c.data # None /\ d = Poll(Begun(c)))
  <2> HIDE DEF Holds
  <2> QED BY <1>3, <1>4, <1>5, <1>6, <1>7
<1> QED BY <1>6, <1>8 DEF d

\* A data connection that is for no request is not counted on.
LEMMA OnlyRequests ==
    ASSUME NEW w, NEW q, \A k \in 1 .. Len(q) : q[k].cmd \in Carriers => q[k].req \in Requests,
           NEW s, Sound(w, q, s), Len(q) \in Nat
    PROVE  Sound(w, q, {a \in s : a[1] # "PASV" \/ a[2] \in Requests})
<1> DEFINE m == Len(q)
           Real(S) == {a \in S : a[1] # "PASV" \/ a[2] \in Requests}
<1>1. PICK f : /\ f[0] \subseteq s /\ {} \subseteq f[m]
               /\ \A k \in 1 .. m : /\ May(w, f[k - 1], q[k])
                                    /\ f[k] \subseteq Leave(f[k - 1], q[k])
  BY DEF Leads, Sound
<1> DEFINE g == [k \in 0 .. m |-> Real(f[k])]
<1>2. m \in Nat
  OBVIOUS
<1> HIDE DEF m
<1>3. \A k \in 0 .. m : g[k] = Real(f[k])
  OBVIOUS
<1> HIDE DEF g
<1>4. g[0] \subseteq Real(s) /\ {} \subseteq g[m]
  BY <1>1, <1>2, <1>3
<1>5. ASSUME NEW k \in 1 .. m
      PROVE  May(w, g[k - 1], q[k]) /\ g[k] \subseteq Leave(g[k - 1], q[k])
  <2>1. /\ k \in 0 .. m /\ k - 1 \in 0 .. m
        /\ q[k].cmd \in Carriers => q[k].req \in Requests
    BY <1>2 DEF m
  <2>2. May(w, g[k - 1], q[k])
    <3>1. May(w, f[k - 1], q[k]) /\ g[k - 1] = Real(f[k - 1])
      BY <1>1, <1>3, <2>1
    <3>2. \A x, y : <<x, y>>[1] = x /\ <<x, y>>[2] = y
      OBVIOUS
    <3> QED BY <2>1, <3>1, <3>2 DEF May
  <2>3. g[k] \subseteq f[k] /\ f[k - 1] \cap g[k] \subseteq g[k - 1]
    BY <1>3, <2>1
  <2>4. g[k] \subseteq Leave(f[k - 1], q[k]) \cap g[k]
    BY <1>1, <2>3
  <2>5. g[k] \subseteq Leave(f[k - 1] \cap g[k], q[k])
    BY <2>4, LessClaims
  <2>6. Leave(f[k - 1] \cap g[k], q[k]) \subseteq Leave(g[k - 1], q[k])
    BY <2>3, MoreIsLeft
  <2> QED BY <2>2, <2>5, <2>6
<1>6. Sound(w, q, Real(s))
  <2> HIDE DEF Real
  <2> QED BY <1>4, <1>5 DEF Leads, Sound, m
<1> QED BY <1>6

\* The last directory in the trash, when a command is put in it.
LEMMA LatestMore ==
    ASSUME NEW t \in Seq(Command), NEW d, NEW x \in Command
    PROVE  /\ Append(t, x) \in Seq(Command)
           /\ Latest(t, d) /\ x.cmd # "CWD" => Latest(Append(t, x), d)
           /\ x.cmd = "CWD" => Latest(Append(t, x), x.arg)
<1> DEFINE b == Append(t, x)
           m == Len(t)
<1>1. /\ b \in Seq(Command) /\ Len(b) = m + 1 /\ \A k \in 1 .. m : b[k] = t[k]
      /\ b[m + 1] = x /\ m \in Nat
  BY AppendProperties, Elements
<1> HIDE DEF b, m
<1>2. ASSUME Latest(t, d), x.cmd # "CWD" PROVE Latest(b, d)
  <2> SUFFICES ASSUME NEW k \in 1 .. Len(b), b[k].cmd = "CWD",
                      \A l \in 1 .. Len(b) : l > k => b[l].cmd # "CWD"
               PROVE  b[k].arg = d
    BY DEF Latest
  <2>1. k \in 1 .. m /\ b[k] = t[k]
    BY <1>1, <1>2
  <2>2. \A l \in 1 .. m : l \in 1 .. Len(b) /\ b[l] = t[l]
    BY <1>1
  <2> QED BY <1>2, <2>1, <2>2 DEF Latest, m
<1>3. ASSUME x.cmd = "CWD" PROVE Latest(b, x.arg)
  <2> SUFFICES ASSUME NEW k \in 1 .. Len(b), b[k].cmd = "CWD",
                      \A l \in 1 .. Len(b) : l > k => b[l].cmd # "CWD"
               PROVE  b[k].arg = x.arg
    BY DEF Latest
  <2>1. m + 1 \in 1 .. Len(b) /\ (k # m + 1 => m + 1 > k)
    BY <1>1
  <2>2. k = m + 1
    BY <1>1, <1>3, <2>1
  <2> QED BY <1>1, <2>2
<1> QED BY <1>1, <1>2, <1>3 DEF b

\* The head of the queue is shifted out of it.
LEMMA HeadGone ==
    ASSUME NEW c, Typed(c), c.queue # <<>>, NoLogin(c.queue)
    PROVE  /\ c.queue \in Seq(Command) /\ c.trash \in Seq(Command)
           /\ Head(c.queue) \in Command /\ Tail(c.queue) \in Seq(Command)
           /\ Len(c.queue) \in Nat \ {0} /\ Head(c.queue) = c.queue[1]
           /\ Head(c.queue).cmd \notin Login /\ Cut(Tail(c.queue), c.queue, 1)
           /\ NoLogin(Tail(c.queue)) /\ Append(c.trash, Head(c.queue)) \in Seq(Command)
           /\ Len(Tail(c.queue)) \in Nat
<1>1. /\ c.queue \in Seq(Command) /\ c.trash \in Seq(Command)
      /\ Head(c.queue) \in Command /\ Tail(c.queue) \in Seq(Command)
      /\ Len(c.queue) \in Nat \ {0} /\ Head(c.queue) = c.queue[1]
  BY FirstOf DEF Typed
<1>2. Head(c.queue).cmd \notin Login
  BY <1>1 DEF NoLogin
<1>3. Cut(Tail(c.queue), c.queue, 1) /\ Len(Tail(c.queue)) \in Nat
  BY <1>1, TailCuts, Elements
<1>4. NoLogin(Tail(c.queue))
  <2>1. 1 \in 0 .. Len(c.queue)
    BY <1>1
  <2> QED BY <1>1, <1>3, <2>1, CutNoLogin
<1>5. Append(c.trash, Head(c.queue)) \in Seq(Command)
  BY <1>1, LatestMore
<1> QED BY <1>1, <1>2, <1>3, <1>4, <1>5

\* A command that may have to be sent again is answered.
LEMMA KeptTrash ==
    ASSUME NEW w, NEW c, Typed(c), c.queue # <<>>, NoLogin(c.queue), Recoverable(w, c),
           NEW h, h = Head(c.queue), h.cmd # "CWD"
    PROVE  /\ Latest(Append(c.trash, h), c.cwd)
           /\ \E u : /\ Leads(w, Append(c.trash, h), Home(c.cwd), Leave(u, h))
                     /\ Sound(w, c.queue, u) /\ Sound(w, Tail(c.queue), Leave(u, h))
<1>1. c.queue \in Seq(Command) /\ c.trash \in Seq(Command) /\ h \in Command
  BY HeadGone
<1>2. PICK u : Leads(w, c.trash, Home(c.cwd), u) /\ Sound(w, c.queue, u)
  BY DEF Recoverable
<1>3. May(w, u, h) /\ Sound(w, Tail(c.queue), Leave(u, h))
  BY <1>1, <1>2, TailSound
<1>4. Leads(w, Append(c.trash, h), Home(c.cwd), Leave(u, h))
  BY <1>1, <1>2, <1>3, OneMore
<1>5. Latest(Append(c.trash, h), c.cwd)
  BY <1>1, LatestMore DEF Recoverable
<1> QED BY <1>2, <1>3, <1>4, <1>5

\* Nothing that decides on the connection is changed.
Frame(c, e) ==
    /\ e.conn = c.conn /\ e.polls = c.polls /\ e.isConnected = c.isConnected
    /\ e.legitClose = c.legitClose /\ e.known = c.known
    /\ e.ctl = c.ctl /\ e.dat \in {c.dat, None}

LEMMA KeptTaken ==
    ASSUME NEW w, NEW c, Typed(c), c.queue # <<>>, NoLogin(c.queue),
           NEW h, h = Head(c.queue), h.cmd # "CWD", NEW dir, NEW m,
           NEW e, Frame(c, e), NoLogin(e.queue), e.trash = Append(c.trash, h),
           e.cwd = c.cwd, e.mode = IF h.cmd = "TYPE" THEN h.arg ELSE c.mode,
           h.cmd = "PASV" \/ e.data \in {c.data, None},
           \A u : Sound(w, c.queue, u) /\ Sound(w, Tail(c.queue), Leave(u, h))
                    => Sound(w, e.queue, Leave(u, h)),
           (/\ Sound(w, c.queue, Seat(dir, m, c.data))
            /\ Sound(w, Tail(c.queue), Leave(Seat(dir, m, c.data), h))
            /\ h.cmd = "TYPE" => h.arg = m)
             => Sound(w, e.queue, Seat(dir, m, e.data))
    PROVE  Taken(w, c, h, e, dir, m)
<1>1. Recoverable(w, c) => Recoverable(w, e)
  <2> SUFFICES ASSUME Recoverable(w, c) PROVE Recoverable(w, e)
    OBVIOUS
  <2>1. /\ Latest(Append(c.trash, h), c.cwd)
        /\ \E u : /\ Leads(w, Append(c.trash, h), Home(c.cwd), Leave(u, h))
                  /\ Sound(w, c.queue, u) /\ Sound(w, Tail(c.queue), Leave(u, h))
    BY KeptTrash
  <2> QED BY <2>1 DEF Recoverable
<1>2. Aware(w, c, h, dir, m) => Seated(w, e, dir, m)
  <2> SUFFICES ASSUME Aware(w, c, h, dir, m) PROVE Seated(w, e, dir, m)
    OBVIOUS
  <2>1. Sound(w, c.queue, Seat(dir, m, c.data))
    BY DEF Aware
  <2>2. Sound(w, Tail(c.queue), Leave(Seat(dir, m, c.data), h))
    BY <2>1, TailSound DEF Typed
  <2>3. h.cmd = "TYPE" => h.arg = m
    BY DEF Aware
  <2>4. e.cwd \in {dir, None} /\ e.mode \in {m, None}
    BY DEF Aware
  <2> QED BY <2>1, <2>2, <2>3, <2>4 DEF Seated
<1> QED BY <1>1, <1>2 DEF Taken, Frame

LEMMA GoneTaken ==
    ASSUME NEW w, NEW c, Typed(c), c.queue # <<>>, NoLogin(c.queue),
           NEW h, h = Head(c.queue), h.cmd \in {"FEAT", "NOOP", "aborted", "REST", "SIZE"},
           NEW dir, NEW m,
           NEW e, Frame(c, e), NoLogin(e.queue), e.trash = c.trash,
           e.cwd = c.cwd, e.mode = c.mode, e.data = c.data,
           \A u : Sound(w, Tail(c.queue), u) => Sound(w, e.queue, u)
    PROVE  Taken(w, c, h, e, dir, m)
<1>1. ASSUME NEW u, Sound(w, c.queue, u) PROVE Sound(w, e.queue, u)
  <2>1. Sound(w, Tail(c.queue), Leave(u, h))
    BY <1>1, TailSound DEF Typed
  <2>2. Leave(u, h) \subseteq u
    <3>1. CASE h.cmd \in {"REST", "SIZE"}
      BY <3>1, WhatIsLeft
    <3>2. CASE h.cmd \in {"FEAT", "NOOP", "aborted"}
      <4>1. h.cmd \notin Carrying \cup Login \cup
              {"transferEnd", "REST", "SIZE", "PASV", "CWD", "TYPE"}
        BY <3>2 DEF Carrying, Transfers, Login
      <4> QED BY <4>1, WhatIsLeft
    <3> QED BY <3>1, <3>2
  <2>3. Sound(w, Tail(c.queue), u)
    BY <2>1, <2>2, Weaker DEF Sound
  <2> QED BY <2>3
<1>2. Recoverable(w, c) => Recoverable(w, e)
  <2> SUFFICES ASSUME Recoverable(w, c) PROVE Recoverable(w, e)
    OBVIOUS
  <2>1. PICK u : Leads(w, c.trash, Home(c.cwd), u) /\ Sound(w, c.queue, u)
    BY DEF Recoverable
  <2> QED BY <1>1, <2>1 DEF Recoverable
<1>3. Aware(w, c, h, dir, m) => Seated(w, e, dir, m)
  BY <1>1 DEF Aware, Seated
<1> QED BY <1>2, <1>3 DEF Taken, Frame

\* The directory is set: it is the one to begin with in the next session.
LEMMA DirectoryTaken ==
    ASSUME NEW w, NEW c, Typed(c), c.queue # <<>>, NoLogin(c.queue),
           \A k \in 1 .. Len(c.trash) : c.trash[k].cmd \in {"CWD", "TYPE", "PASV", "RNFR"},
           NEW h, h = Head(c.queue), h.cmd = "CWD", NEW dir, NEW m,
           NEW e, Frame(c, e), e.queue = Tail(c.queue), e.trash = Append(c.trash, h),
           e.cwd = h.arg, e.mode = c.mode, e.data = c.data
    PROVE  Taken(w, c, h, e, dir, m)
<1> DEFINE t == Tail(c.queue)
           Other(s) == {a \in s : a[1] # "CWD"}
<1>1. /\ c.queue \in Seq(Command) /\ c.trash \in Seq(Command) /\ h \in Command
      /\ NoLogin(t) /\ Len(c.trash) \in Nat /\ h.arg # None
  <2>1. h \in Command /\ h.arg \in Dirs
    BY HeadGone, OfCommand
  <2> QED BY <2>1, HeadGone, Elements, FtpAssumption
<1>2. \A u : Sound(w, c.queue, u) => Sound(w, t, Leave(u, h))
  BY <1>1, TailSound
<1>3. \A s : Leave(s, h) = {a \in s : a # <<"TYPE", "I">> /\ a[1] # "CWD"}
                           \cup {<<"CWD", h.arg>>}
  BY WhatIsLeft
<1> HIDE DEF t
<1>4. Recoverable(w, c) => Recoverable(w, e)
  <2> SUFFICES ASSUME Recoverable(w, c) PROVE Recoverable(w, e)
    OBVIOUS
  <2>1. PICK u : Leads(w, c.trash, Home(c.cwd), u) /\ Sound(w, c.queue, u)
    BY DEF Recoverable
  <2>2. Leads(w, c.trash, Other(Home(c.cwd)), Other(u))
    BY <1>1, <2>1, AnyDirectory
  <2>3. Other(Home(c.cwd)) \subseteq Home(h.arg)
    BY DEF Home
  <2> HIDE DEF Other
  <2>4. Leads(w, c.trash, Home(h.arg), Other(u))
    BY <2>2, <2>3, Weaker
  <2>5. May(w, Other(u), h)
    BY DEF May, Carrying, Transfers
  <2>6. Leads(w, e.trash, Home(e.cwd), Leave(Other(u), h))
    BY <1>1, <2>4, <2>5, OneMore
  <2>7. Leave(u, h) \subseteq Leave(Other(u), h)
    BY <1>3 DEF Other
  <2>8. Sound(w, e.queue, Leave(Other(u), h))
    BY <1>2, <2>1, <2>7, Weaker DEF Sound, t
  <2>9. Latest(e.trash, e.cwd)
    BY <1>1, LatestMore
  <2> QED BY <2>6, <2>8, <2>9 DEF Recoverable
<1>5. Aware(w, c, h, dir, m) => Seated(w, e, dir, m)
  <2> SUFFICES ASSUME Aware(w, c, h, dir, m) PROVE Seated(w, e, dir, m)
    OBVIOUS
  <2>1. Sound(w, c.queue, Seat(dir, m, c.data)) /\ h.arg = dir /\ c.mode \in {m, None}
    BY DEF Aware
  <2>2. Leave(Seat(dir, m, c.data), h) \subseteq Seat(dir, m, c.data)
    BY <1>3, <2>1 DEF Seat
  <2>3. Sound(w, e.queue, Seat(dir, m, e.data))
    BY <1>2, <2>1, <2>2, Weaker DEF Sound, t
  <2> QED BY <2>1, <2>3 DEF Seated
<1> QED BY <1>1, <1>4, <1>5 DEF Taken, Frame, t

\* The directory is found to be the one that a session begins in.
LEMMA FoundTaken ==
    ASSUME NEW w, NEW c, Typed(c), c.queue # <<>>, NoLogin(c.queue),
           \A k \in 1 .. Len(c.trash) : c.trash[k].cmd \in {"CWD", "TYPE", "PASV", "RNFR"},
           NEW h, h = Head(c.queue), h.cmd = "PWD", NEW dir, NEW m,
           NEW e, Frame(c, e), e.queue = Tail(c.queue), e.trash = <<>>,
           e.cwd \in {c.cwd, Root}, e.mode = c.mode, e.data = c.data
    PROVE  Taken(w, c, h, e, dir, m)
<1> DEFINE t == Tail(c.queue)
<1>1. /\ c.queue \in Seq(Command) /\ c.trash \in Seq(Command) /\ h \in Command
      /\ NoLogin(t)
  BY HeadGone
<1>2. \A u : Sound(w, c.queue, u) => May(w, u, h) /\ Sound(w, t, Leave(u, h))
  BY <1>1, TailSound
<1>3. \A s : Leave(s, h) = {a \in s : a # <<"TYPE", "I">> /\ a[1] # "PWD"}
  <2>1. h.cmd \notin Carrying \cup Login \cup
          {"transferEnd", "REST", "SIZE", "PASV", "CWD", "TYPE"}
    BY DEF Carrying, Transfers, Login
  <2> QED BY <2>1, WhatIsLeft
<1>4. \A s : May(w, s, h) => <<"CWD", Root>> \in s
  BY DEF May
<1> HIDE DEF t
<1>5. Recoverable(w, c) => Recoverable(w, e)
  <2> SUFFICES ASSUME Recoverable(w, c) PROVE Recoverable(w, e)
    OBVIOUS
  <2>1. PICK u : Leads(w, c.trash, Home(c.cwd), u) /\ Sound(w, c.queue, u)
    BY DEF Recoverable
  <2>2. u \subseteq Home(c.cwd) \cup {<<"TYPE", "I">>}
    BY <1>1, <2>1, TrashClaims DEF Recoverable
  <2>3. <<"CWD", Root>> \in Home(c.cwd)
    BY <1>2, <1>4, <2>1, <2>2
  <2>4. Home(e.cwd) = Home(c.cwd)
    <3>1. c.cwd \in {None, Root}
      BY <2>3 DEF Home, Serves
    <3> QED BY <3>1 DEF Home
  <2>5. Leave(u, h) \subseteq Home(e.cwd)
    BY <1>3, <2>2, <2>4
  <2>6. Sound(w, e.queue, Home(e.cwd))
    BY <1>2, <2>1, <2>5, Weaker DEF Sound, t
  <2>7. Leads(w, <<>>, Home(e.cwd), Home(e.cwd)) /\ Latest(<<>>, e.cwd)
    BY NoCommand DEF Latest
  <2> QED BY <2>6, <2>7 DEF Recoverable
<1>6. Aware(w, c, h, dir, m) => Seated(w, e, dir, m)
  <2> SUFFICES ASSUME Aware(w, c, h, dir, m) PROVE Seated(w, e, dir, m)
    OBVIOUS
  <2>1. Sound(w, c.queue, Seat(dir, m, c.data)) /\ c.cwd \in {dir, None} /\ c.mode \in {m, None}
    BY DEF Aware
  <2>2. <<"CWD", Root>> \in Seat(dir, m, c.data)
    BY <1>2, <1>4, <2>1
  <2>3. dir = Root
    BY <2>2 DEF Seat, Served, Serves
  <2>4. Leave(Seat(dir, m, c.data), h) \subseteq Seat(dir, m, c.data)
    BY <1>3
  <2>5. Sound(w, e.queue, Seat(dir, m, e.data))
    BY <1>2, <2>1, <2>4, Weaker DEF Sound, t
  <2> QED BY <2>1, <2>3, <2>5 DEF Seated
<1> QED BY <1>1, <1>5, <1>6 DEF Taken, Frame, t

\* A data connection is made for the transfer that comes next in the queue.
LEMMA ServedNext ==
    ASSUME NEW w, NEW report, NEW q \in Seq(Command), Line(w, report, q), q # <<>>,
           NEW dir, NEW m, NEW data, NEW h, h.cmd = "PASV",
           Sound(w, q, Leave(Seat(dir, m, data), h))
    PROVE  Sound(w, q, Seat(dir, m, DataSocket(q)))
<1> DEFINE s == {<<"CWD", dir>>, <<"TYPE", m>>}
           d == DataSocket(q)
<1>1. Leave(Seat(dir, m, data), h) = Seat(dir, m, data) \cup Serves(Requests)
  BY WhatIsLeft
<1>2. /\ Len(q) \in Nat
      /\ \A k \in 1 .. Len(q) : q[k].cmd \in Carriers => q[k].req \in Requests
  <2>1. \A k \in 1 .. Len(q) : q[k] \in Command
    BY Elements
  <2>2. \A k \in 1 .. Len(q) : q[k].req \in Requests \cup {0}
    BY <2>1, OfCommand
  <2>3. \A k \in 1 .. Len(q) : q[k].cmd \in Carriers => q[k].req # 0
    BY DEF Line, Fine, Carriers, Carrying, Transfers
  <2> QED BY <2>2, <2>3, Elements
<1>3. Sound(w, q, {a \in Leave(Seat(dir, m, data), h) : a[1] # "PASV" \/ a[2] \in Requests})
  BY <1>2, OnlyRequests
<1>4. {a \in Leave(Seat(dir, m, data), h) : a[1] # "PASV" \/ a[2] \in Requests}
        \subseteq s \cup Serves(Requests)
  BY <1>1 DEF Seat, Served, Serves
<1>5. Sound(w, q, s \cup Serves(Requests))
  BY <1>3, <1>4, Weaker DEF Sound
<1>6. Ends(q) # {} => d.id = q[FirstEnd(q)].req
  BY DEF DataSocket
<1> HIDE DEF d, s
<1>7. Sound(w, q, s \cup Serves({d.id}))
  BY <1>5, <1>6, FirstServed DEF Line
<1>8. Sound(w, q, s \cup Served(d))
  BY <1>5, <1>7 DEF Served
<1> QED BY <1>8 DEF Seat, s, d

LEMMA PasvTaken ==
    ASSUME NEW w, NEW c, Typed(c), c.queue # <<>>, NoLogin(c.queue),
           NEW report, Line(w, report, c.queue),
           NEW h, h = Head(c.queue), h.cmd = "PASV", NEW dir, NEW m, NEW code,
           NEW d, d = [c EXCEPT !.queue = Tail(c.queue), !.trash = Append(c.trash, h)]
    PROVE  Taken(w, c, h, PasvAnswered(d, code), dir, m)
<1> DEFINE t == Tail(c.queue)
           b == Append(c.trash, h)
           Holds(e) == Taken(w, c, h, e, dir, m)
<1>1. /\ c.queue \in Seq(Command) /\ h \in Command /\ t \in Seq(Command)
      /\ Cut(t, c.queue, 1) /\ NoLogin(t) /\ b \in Seq(Command) /\ Len(t) \in Nat
      /\ Len(c.queue) \in Nat \ {0} /\ h = c.queue[1]
  BY HeadGone
<1>2. Line(w, report, t)
  <2>1. 1 \in 0 .. Len(c.queue) /\ c.queue[1].cmd \notin Carriers
    BY <1>1 DEF Carriers
  <2> QED BY <1>1, <2>1, CutLine
<1> HIDE DEF t, b
<1>3. ASSUME NEW e, Frame(c, e), NoLogin(e.queue), e.trash = b, e.cwd = c.cwd, e.mode = c.mode,
             \A u : Sound(w, t, Leave(u, h)) => Sound(w, e.queue, Leave(u, h)),
             Sound(w, t, Leave(Seat(dir, m, c.data), h)) => Sound(w, e.queue, Seat(dir, m, e.data))
      PROVE  Holds(e)
  BY <1>3, KeptTaken DEF t, b
<1>4. /\ Typed(d) /\ Frame(c, d) /\ d.queue = t /\ d.trash = b /\ d.cwd = c.cwd
      /\ d.mode = c.mode /\ d.data = c.data
  BY <1>1 DEF Typed, IsClient, Frame, t, b
<1>5. ASSUME NEW q \in Seq(Command), NoLogin(q),
             \A s : Sound(w, t, s) => \A u : Sound(w, q, u)
      PROVE  /\ Holds(NextCommand([d EXCEPT !.queue = q]))
             /\ \A r \in Requests \cup {0} :
                  Holds(NextCommand(Report([d EXCEPT !.queue = q], r, "failed")))
  <2> DEFINE e == [d EXCEPT !.queue = q]
  <2>1. Typed(e)
    BY <1>4, <1>5, QueueTypes
  <2>2. /\ Frame(c, e) /\ e.queue = q /\ e.trash = b /\ e.cwd = c.cwd /\ e.mode = c.mode
        /\ e.data = c.data
    BY <1>4 DEF Typed, IsClient, Frame
  <2> HIDE DEF e
  <2>3. Taken(w, c, h, e, dir, m)
    BY <1>3, <1>5, <2>2
  <2> QED BY <2>1, <2>3, TakenOn DEF e
<1>6. t = <<>> => Holds(d)
  <2> SUFFICES ASSUME t = <<>> PROVE Holds(d)
    OBVIOUS
  <2>1. Sound(w, t, Seat(dir, m, d.data))
    BY NoCommand DEF Sound
  <2> HIDE DEF Holds
  <2> QED BY <1>1, <1>3, <1>4, <2>1
<1>7. t # <<>> => Holds(NextCommand([d EXCEPT !.data = DataSocket(t)]))
  <2> SUFFICES ASSUME t # <<>> PROVE Holds(NextCommand([d EXCEPT !.data = DataSocket(t)]))
    OBVIOUS
  <2> DEFINE e == [d EXCEPT !.data = DataSocket(t)]
  <2>1. DataSocket(t) \in DataConn
    BY <1>1, SocketTypes
  <2>2. /\ Typed(e) /\ Frame(c, e) /\ e.queue = t /\ e.trash = b /\ e.cwd = c.cwd
        /\ e.mode = c.mode /\ e.data = DataSocket(t)
    BY <1>4, <2>1 DEF Typed, IsClient, Frame
  <2> HIDE DEF e
  <2>3. Sound(w, t, Leave(Seat(dir, m, c.data), h)) => Sound(w, e.queue, Seat(dir, m, e.data))
    BY <1>1, <1>2, <2>2, ServedNext
  <2>4. Taken(w, c, h, e, dir, m)
    BY <1>1, <1>3, <2>2, <2>3
  <2> QED BY <2>2, <2>4, TakenOn DEF e
<1>8. t # <<>> /\ Head(t).cmd = "LIST" =>
        Holds(NextCommand(Report([d EXCEPT !.queue = Tail(t)], Head(t).req, "failed")))
  <2> SUFFICES ASSUME t # <<>>, Head(t).cmd = "LIST"
               PROVE  Holds(NextCommand(Report([d EXCEPT !.queue = Tail(t)], Head(t).req, "failed")))
    OBVIOUS
  <2>1. /\ Tail(t) \in Seq(Command) /\ Head(t).req \in Requests \cup {0}
        /\ Len(t) \in Nat \ {0} /\ Head(t) = t[1] /\ Len(Tail(t)) \in Nat
        /\ Cut(Tail(t), t, 1)
    BY <1>1, FirstOf, OfCommand, TailCuts, Elements
  <2>2. 1 \in 1 .. Len(t) /\ 1 \in 0 .. Len(t) /\ t[1].cmd \in Carrying
    BY <2>1 DEF Carrying, Transfers
  <2>3. \A s : Sound(w, t, s) => \A u : Sound(w, Tail(t), u)
    BY <1>1, <2>1, <2>2, Renewed
  <2>4. NoLogin(Tail(t))
    BY <1>1, <2>1, <2>2, CutNoLogin
  <2> HIDE DEF Holds
  <2> QED BY <1>5, <2>1, <2>3, <2>4
<1>9. Holds(NextCommand([d EXCEPT !.queue = <<>>]))
  <2>1. <<>> \in Seq(Command) /\ NoLogin(<<>>) /\ \A u : Sound(w, <<>>, u)
    BY NoCommand DEF NoLogin, Sound
  <2> HIDE DEF Holds
  <2> QED BY <1>5, <2>1
<1>10. Ends(t) # {} => Holds(NextCommand(Report([d EXCEPT
                !.queue = SubSeq(t, FirstEnd(t) + 1, Len(t))], t[FirstEnd(t)].req, "failed")))
  <2> DEFINE n == FirstEnd(t)
             q == SubSeq(t, n + 1, Len(t))
  <2> SUFFICES ASSUME Ends(t) # {}
               PROVE  Holds(NextCommand(Report([d EXCEPT !.queue = q], t[n].req, "failed")))
    OBVIOUS
  <2>1. /\ n \in 1 .. Len(t) /\ n \in Nat /\ q \in Seq(Command)
        /\ t[n].req \in Requests \cup {0} /\ Len(q) \in Nat
    BY <1>1, FirstEndTypes, RestOf, Elements
  <2>2. t[n].cmd = "transferEnd"
    <3>1. Ends(t) \subseteq Nat
      BY <1>1 DEF Ends
    <3>2. n \in Ends(t)
      BY <3>1, LeastOf DEF FirstEnd
    <3> QED BY <3>2 DEF Ends, IsEnd
  <2> HIDE DEF n
  <2>3. n \in 0 .. Len(t)
    BY <1>1, <2>1
  <2>4. Cut(q, t, n)
    BY <1>1, <2>3, SubSeqCuts
  <2> HIDE DEF q
  <2>5. \A s : Sound(w, t, s) => \A u : Sound(w, q, u)
    BY <1>1, <2>1, <2>2, <2>4, Renewed
  <2>6. NoLogin(q)
    BY <1>1, <2>3, <2>4, CutNoLogin
  <2> HIDE DEF Holds
  <2> QED BY <1>5, <2>1, <2>5, <2>6
<1> HIDE DEF Holds
<1>11. Holds(PasvAnswered(d, code))
  <2>1. d.queue = t
    BY <1>4
  <2> QED BY <1>6, <1>7, <1>8, <1>9, <1>10, <2>1 DEF PasvAnswered
<1> QED BY <1>11 DEF Holds

LEMMA SizeTaken ==
    ASSUME NEW w, NEW c, Typed(c), c.queue # <<>>, NoLogin(c.queue),
           NEW h, h = Head(c.queue), h.cmd = "SIZE", NEW dir, NEW m, NEW code, NEW size \in Nat,
           NEW b, Typed(b), Frame(c, b), b.queue = Tail(c.queue), b.trash = c.trash,
           b.cwd = c.cwd, b.mode = c.mode, b.data = c.data
    PROVE  Taken(w, c, h, SizeAnswered(b, h, code, size), dir, m)
<1> DEFINE t == Tail(c.queue)
           At(cmd) == {k \in 1 .. Len(b.queue) :
                         b.queue[k].cmd = cmd /\ ~ b.queue[k].begun}
           Least(S) == CHOOSE k \in S : \A l \in S : k <= l
           Becomes(k, cmd, arg) == [b EXCEPT !.queue[k].cmd = cmd, !.queue[k].arg = arg]
           Holds(d) == Taken(w, c, h, d, dir, m)
<1>1. /\ h \in Command /\ h.arg \in {"STOR", "APPE"} /\ t \in Seq(Command) /\ Len(t) \in Nat
      /\ NoLogin(t)
  BY HeadGone, OfCommand
<1>2. ASSUME NEW e, Frame(c, e), NoLogin(e.queue), e.trash = c.trash,
             e.cwd = c.cwd, e.mode = c.mode, e.data = c.data,
             \A u : Sound(w, t, u) => Sound(w, e.queue, u)
      PROVE  Holds(e)
  BY <1>2, GoneTaken
<1> HIDE DEF t
<1>3. /\ Typed(b) /\ Frame(c, b) /\ b.queue = t /\ b.trash = c.trash /\ b.cwd = c.cwd
      /\ b.mode = c.mode /\ b.data = c.data
  BY DEF t
<1>4. ASSUME NEW cmd \in {"STOR", "APPE"}, At(cmd) # {}
      PROVE  /\ Holds(NextCommand(Becomes(Least(At(cmd)), "APPE", size)))
             /\ Holds(NextCommand(Becomes(Least(At(cmd)), "STOR", None)))
  <2> DEFINE k == Least(At(cmd))
  <2>1. k \in 1 .. Len(t) /\ t[k].cmd \in {"STOR", "APPE"}
    <3>1. At(cmd) \subseteq Nat
      BY <1>1, <1>3, Elements
    <3>2. k \in At(cmd)
      <4> HIDE DEF At
      <4> QED BY <1>4, <3>1, LeastOf
    <3> QED BY <1>3, <3>2
  <2> HIDE DEF k
  <2>2. ASSUME NEW new \in {"STOR", "APPE"}, NEW arg,
               [[t[k] EXCEPT !.cmd = new] EXCEPT !.arg = arg] \in Command
        PROVE  Holds(NextCommand(Becomes(k, new, arg)))
    <3> DEFINE y == [[t[k] EXCEPT !.cmd = new] EXCEPT !.arg = arg]
               q == [t EXCEPT ![k] = y]
               d == [b EXCEPT !.queue = q]
    <3>1. y \in Command /\ y.cmd = new /\ y.req = t[k].req
      <4>1. t[k] \in Command
        BY <1>1, <2>1, Elements
      <4> QED BY <2>2, <4>1 DEF Command
    <3>2. q \in Seq(Command) /\ Len(q) = Len(t)
          /\ \A i \in 1 .. Len(t) : q[i] = IF i = k THEN y ELSE t[i]
      <4> HIDE DEF y
      <4> QED BY <1>1, <2>1, <3>1, ExceptSeq
    <3>3. Becomes(k, new, arg) = d
      <4>1. b.queue \in Seq(Command) /\ k \in 1 .. Len(b.queue)
        BY <1>1, <1>3, <2>1
      <4>2. Becomes(k, new, arg) = [b EXCEPT !.queue = [b.queue EXCEPT ![k] =
                                     [[b.queue[k] EXCEPT !.cmd = new] EXCEPT !.arg = arg]]]
        BY <4>1 DEF Typed, IsClient
      <4> QED BY <1>3, <4>2
    <3> HIDE DEF q, Becomes, y
    <3>4. \A u : Sound(w, t, u) => Sound(w, q, u)
      <4>1. \A i \in 1 .. Len(t) : AsGood(w, t[i], q[i])
        <5> SUFFICES ASSUME NEW i \in 1 .. Len(t) PROVE AsGood(w, t[i], q[i])
          OBVIOUS
        <5>1. q[i].req = t[i].req
          BY <2>1, <3>1, <3>2
        <5>2. \/ q[i] = t[i] \/ {t[i].cmd, q[i].cmd} \subseteq {"STOR", "APPE"}
          BY <2>1, <3>1, <3>2
        <5> QED BY <5>1, <5>2, Alike
      <4> QED BY <3>2, <4>1, Exchanged DEF Sound
    <3>5. NoLogin(q)
      <4> SUFFICES ASSUME NEW i \in 1 .. Len(q) PROVE q[i].cmd \notin Login
        BY DEF NoLogin
      <4>1. i \in 1 .. Len(t)
        BY <3>2
      <4>2. t[i].cmd \notin Login
        BY <1>1, <4>1 DEF NoLogin
      <4> QED BY <3>1, <3>2, <4>1, <4>2 DEF Login
    <3>6. /\ Typed(d) /\ Frame(c, d) /\ d.queue = q /\ d.trash = c.trash /\ d.cwd = c.cwd
          /\ d.mode = c.mode /\ d.data = c.data
      BY <1>3, <3>2, QueueTypes DEF Typed, IsClient, Frame
    <3> HIDE DEF d
    <3>7. Taken(w, c, h, d, dir, m)
      BY <1>2, <3>4, <3>5, <3>6
    <3> QED BY <3>3, <3>6, <3>7, TakenOn
  <2>3. t[k] \in Command
    BY <1>1, <2>1, Elements
  <2> HIDE DEF Becomes, Holds
  <2> QED BY <2>1, <2>2, <2>3, TransferRenamed DEF k
<1>5. SizeAnswered(b, h, code, size) = NextCommand(
         CASE code = 2 /\ At(h.arg) # {} -> Becomes(Least(At(h.arg)), "APPE", size)
           [] code # 2 /\ At("APPE") # {} -> Becomes(Least(At("APPE")), "STOR", None)
           [] OTHER -> b)
  BY DEF SizeAnswered
<1>6. Holds(NextCommand(b))
  <2>1. Taken(w, c, h, b, dir, m)
    BY <1>1, <1>2, <1>3
  <2> QED BY <1>3, <2>1, TakenOn
<1> HIDE DEF At, Least, Becomes, Holds
<1>7. Holds(SizeAnswered(b, h, code, size))
  BY <1>1, <1>4, <1>5, <1>6
<1> QED BY <1>7 DEF Holds

\* A request is carried out without a transfer of data, or cannot be.
LEMMA SimpleTaken ==
    ASSUME NEW w, NEW c, Typed(c), c.queue # <<>>, NoLogin(c.queue),
           NEW h, h = Head(c.queue), h.cmd \in {"MKD", "DELE", "RNTO"}, NEW dir, NEW m, NEW code,
           NEW d, d = [c EXCEPT !.queue = Tail(c.queue), !.trash = Append(c.trash, h)]
    PROVE  Taken(w, c, h, SimpleAnswered(d, h, code), dir, m)
<1> DEFINE t == Tail(c.queue)
           b == Append(c.trash, h)
           e == [d EXCEPT !.trash = <<>>]
<1>1. /\ c.queue \in Seq(Command) /\ h \in Command /\ t \in Seq(Command)
      /\ Cut(t, c.queue, 1) /\ NoLogin(t) /\ b \in Seq(Command) /\ Len(t) \in Nat
      /\ Len(c.queue) \in Nat \ {0} /\ h = c.queue[1] /\ h.req \in Requests \cup {0}
  BY HeadGone, OfCommand
<1>2. 1 \in 1 .. Len(c.queue) /\ c.queue[1].cmd \in Carrying
  BY <1>1 DEF Carrying
<1> HIDE DEF t, b
<1>3. \A s : Sound(w, c.queue, s) => \A u : Sound(w, t, u)
  BY <1>1, <1>2, Renewed
<1>4. Typed(d) /\ Frame(c, d) /\ d.queue = t /\ d.cwd = c.cwd /\ d.mode = c.mode
      /\ d.data = c.data
  BY <1>1 DEF Typed, IsClient, Frame, t, b
<1>5. /\ Typed(e) /\ Frame(c, e) /\ e.queue = t /\ e.trash = <<>> /\ e.cwd = c.cwd
      /\ e.mode = c.mode /\ e.data = c.data
  BY <1>4 DEF Typed, IsClient, Frame
<1>6. SimpleAnswered(d, h, code) =
        NextCommand(Report(e, h.req, IF code = 2 THEN "done" ELSE "failed"))
  BY DEF SimpleAnswered
<1> HIDE DEF e
<1>7. Taken(w, c, h, e, dir, m)
  BY <1>1, <1>3, <1>5, RenewedTaken DEF Frame
<1>8. \A what \in {"done", "failed"} :
        Taken(w, c, h, NextCommand(Report(e, h.req, what)), dir, m)
  BY <1>1, <1>5, <1>7, TakenOn
<1> QED BY <1>6, <1>8

LEMMA RefusedTaken ==
    ASSUME NEW w, NEW c, Typed(c), NEW h, h.req \in Requests \cup {0}, h.cmd = "RNFR",
           NEW dir, NEW m, NEW d, Typed(d), Frame(c, d), d.cwd = c.cwd, d.mode = c.mode,
           d.data = c.data
    PROVE  Taken(w, c, h, NextCommand(Report([d EXCEPT !.queue = <<>>, !.trash = <<>>],
                                             h.req, "failed")), dir, m)
<1> DEFINE e == [d EXCEPT !.queue = <<>>, !.trash = <<>>]
<1>1. <<>> \in Seq(Command) /\ NoLogin(<<>>) /\ \A u : Sound(w, <<>>, u)
  BY NoCommand DEF NoLogin, Sound
<1>2. /\ Typed(e) /\ Frame(c, e) /\ e.queue = <<>> /\ e.trash = <<>> /\ e.cwd = c.cwd
      /\ e.mode = c.mode /\ e.data = c.data
  BY <1>1 DEF Typed, IsClient, Frame
<1> HIDE DEF e
<1>3. Taken(w, c, h, e, dir, m)
  BY <1>1, <1>2, RenewedTaken DEF Frame
<1>4. Taken(w, c, h, NextCommand(Report(e, h.req, "failed")), dir, m)
  BY <1>2, <1>3, TakenOn
<1> QED BY <1>4 DEF e

LEMMA TrashCommands ==
    ASSUME NEW w, NEW c, Orderly(w, c)
    PROVE  \A k \in 1 .. Len(c.trash) : c.trash[k].cmd \in {"CWD", "TYPE", "PASV", "RNFR"}
<1>1. c.trash \in Seq(Leading(w, c.report))
  BY DEF Orderly
<1>2. \A k \in 1 .. Len(c.trash) : c.trash[k] \in Leading(w, c.report)
  BY <1>1, Elements
<1> QED BY <1>2 DEF Leading

LEMMA ReadTaken ==
    ASSUME NEW c, Typed(c), Orderly(asked, c), c.queue # <<>>, NoLogin(c.queue),
           NEW h, h = Head(c.queue), NEW code, h.cmd \in {"CWD", "TYPE"} => code = 2,
           NEW size \in Nat, NEW dir, NEW m
    PROVE  LET d == ReadControl(c, code, size)
           IN \/ Taken(asked, c, h, d, dir, m)
              \/ /\ h.cmd \in Transfers /\ c.data # None /\ d = Poll(Begun(c))
                 /\ Taken(asked, c, h, Begun(c), dir, m)
<1> DEFINE t == Tail(c.queue)
           trash == IF h.cmd \in NotKept THEN c.trash ELSE Append(c.trash, h)
           d == IF h.cmd \in Transfers THEN c
                ELSE [c EXCEPT !.queue = t, !.trash = trash]
           Holds(e) == Taken(asked, c, h, e, dir, m)
<1>1. ReadControl(c, code, size) = Answered(d, h, code, size)
  BY DEF ReadControl
<1>2. /\ c.queue \in Seq(Command) /\ c.trash \in Seq(Command) /\ h \in Command
      /\ t \in Seq(Command) /\ Append(c.trash, h) \in Seq(Command)
      /\ h.cmd \notin Login /\ NoLogin(t)
      /\ Line(asked, c.report, c.queue)
  BY HeadGone DEF Orderly
<1>3. /\ h.req \in Requests \cup {0} /\ h.cmd \in CmdNames
      /\ h.cmd = "CWD" => h.arg \in Dirs
      /\ h.cmd = "TYPE" => h.arg \in {"A", "I"}
  BY <1>2, OfCommand
<1>4. CASE h.cmd \in Transfers
  <2>1. d = c
    BY <1>4
  <2> HIDE DEF d
  <2>2. Answered(c, h, code, size) = TransferAnswered(c, h, code)
    BY <1>4 DEF Answered, Transfers
  <2> QED BY <1>1, <1>4, <2>1, <2>2, TransferTaken
<1>5. CASE h.cmd \notin Transfers
  <2>1. d = [c EXCEPT !.queue = t, !.trash = trash]
    BY <1>5
  <2>2. trash \in Seq(Command)
    BY <1>2
  <2> HIDE DEF trash, t, d
  <2>3. /\ Typed(d) /\ Frame(c, d) /\ d.queue = t /\ d.trash = trash /\ d.cwd = c.cwd
        /\ d.mode = c.mode /\ d.data = c.data
    BY <1>2, <2>1, <2>2 DEF Typed, IsClient, Frame
  <2>4. h.cmd # "transferEnd"
    <3>1. h.cmd \notin Carriers
      BY <1>5 DEF Carriers, Transfers
    <3> QED BY <1>2, <3>1, TailOrder DEF IsEnd
  <2>5. h.cmd \notin NotKept => trash = Append(c.trash, h)
    BY DEF trash
  <2>6. h.cmd \in NotKept => trash = c.trash
    BY DEF trash
  <2>7. CASE h.cmd = "PASV"
    <3>1. d = [c EXCEPT !.queue = Tail(c.queue), !.trash = Append(c.trash, h)]
      BY <2>1, <2>5, <2>7 DEF NotKept, t
    <3>2. Answered(d, h, code, size) = PasvAnswered(d, code)
      BY <2>7 DEF Answered, Transfers
    <3> QED BY <1>1, <1>2, <2>7, <3>1, <3>2, PasvTaken
  <2>8. CASE h.cmd = "SIZE"
    <3>1. Answered(d, h, code, size) = SizeAnswered(d, h, code, size)
      BY <2>8 DEF Answered, Transfers
    <3>2. d.queue = Tail(c.queue) /\ d.trash = c.trash
      BY <2>3, <2>6, <2>8 DEF NotKept, t
    <3> QED BY <1>1, <2>3, <2>8, <3>1, <3>2, SizeTaken
  <2>9. CASE h.cmd \in {"MKD", "DELE", "RNTO"}
    <3>1. d = [c EXCEPT !.queue = Tail(c.queue), !.trash = Append(c.trash, h)]
      BY <2>1, <2>5, <2>9 DEF NotKept, t
    <3>2. Answered(d, h, code, size) = SimpleAnswered(d, h, code)
      BY <2>9 DEF Answered, Transfers
    <3>3. Taken(asked, c, h, SimpleAnswered(d, h, code), dir, m)
      BY <2>9, <3>1, SimpleTaken
    <3> QED BY <1>1, <3>2, <3>3
  <2>10. CASE h.cmd = "RNFR" /\ code # 3
    <3>1. Answered(d, h, code, size) =
            NextCommand(Report([d EXCEPT !.queue = <<>>, !.trash = <<>>], h.req, "failed"))
      BY <2>10 DEF Answered, Transfers
    <3>2. Taken(asked, c, h, NextCommand(Report([d EXCEPT !.queue = <<>>, !.trash = <<>>],
                                                h.req, "failed")), dir, m)
      BY <1>3, <2>3, <2>10, RefusedTaken
    <3> QED BY <1>1, <3>1, <3>2
  <2>11. CASE h.cmd = "CWD"
    <3> DEFINE e == [d EXCEPT !.cwd = h.arg]
               r == IF h.req # 0 /\ asked[h.req].kind = "cd" THEN h.req ELSE 0
    <3>1. Answered(d, h, code, size) = NextCommand(Report(e, r, "done"))
      BY <2>11 DEF Answered, Transfers
    <3>2. /\ Typed(e) /\ Frame(c, e) /\ e.queue = t /\ e.trash = trash /\ e.cwd = h.arg
          /\ e.mode = c.mode /\ e.data = c.data
      BY <1>3, <2>3, <2>11 DEF Typed, IsClient, Frame
    <3> HIDE DEF e
    <3>3. Taken(asked, c, h, e, dir, m)
      BY <2>5, <2>11, <3>2, TrashCommands, DirectoryTaken DEF NotKept, t
    <3>4. r \in Requests \cup {0}
      BY <1>3
    <3> HIDE DEF r
    <3>5. Taken(asked, c, h, NextCommand(Report(e, r, "done")), dir, m)
      BY <3>2, <3>3, <3>4, TakenOn
    <3> QED BY <1>1, <3>1, <3>5
  <2>12. CASE h.cmd = "PWD"
    <3> DEFINE e == [d EXCEPT !.trash = <<>>, !.cwd = IF code = 2 THEN Root ELSE d.cwd]
    <3>1. Answered(d, h, code, size) = NextCommand(e)
      BY <2>12 DEF Answered, Transfers
    <3>2. /\ Typed(e) /\ Frame(c, e) /\ e.queue = t /\ e.trash = <<>> /\ e.cwd \in {c.cwd, Root}
          /\ e.mode = c.mode /\ e.data = c.data
      <4> DEFINE cwd == IF code = 2 THEN Root ELSE d.cwd
      <4>1. cwd \in Dirs \cup {None} /\ cwd \in {c.cwd, Root}
        BY <2>3, FtpAssumption DEF Typed
      <4>2. e = [d EXCEPT !.trash = <<>>, !.cwd = cwd]
        OBVIOUS
      <4> HIDE DEF e, cwd
      <4>3. Typed(e)
        BY <2>3, <4>1, <4>2 DEF Typed, IsClient
      <4>4. /\ Frame(c, e) /\ e.queue = t /\ e.trash = <<>> /\ e.cwd = cwd
            /\ e.mode = c.mode /\ e.data = c.data
        BY <2>3, <4>2 DEF Typed, IsClient, Frame
      <4> QED BY <4>1, <4>3, <4>4
    <3> HIDE DEF e
    <3>3. Taken(asked, c, h, e, dir, m)
      BY <2>12, <3>2, TrashCommands, FoundTaken DEF t
    <3>4. Taken(asked, c, h, NextCommand(e), dir, m)
      BY <3>2, <3>3, TakenOn
    <3> QED BY <1>1, <3>1, <3>4
  <2>13. CASE h.cmd = "TYPE"
    <3> DEFINE e == [d EXCEPT !.mode = h.arg]
    <3>1. Answered(d, h, code, size) = NextCommand(e)
      BY <2>13 DEF Answered, Transfers
    <3>2. /\ Typed(e) /\ Frame(c, e) /\ e.queue = t /\ e.trash = trash /\ e.cwd = c.cwd
          /\ e.mode = h.arg /\ e.data = c.data
      BY <1>3, <2>3, <2>13 DEF Typed, IsClient, Frame
    <3> HIDE DEF e
    <3>3. Sound(asked, t, Leave(Seat(dir, m, c.data), h)) /\ h.arg = m
            => Sound(asked, t, Seat(dir, m, c.data))
      <4>1. Leave(Seat(dir, m, c.data), h) =
              {a \in Seat(dir, m, c.data) : a # <<"TYPE", "I">> /\ a[1] # "TYPE"}
              \cup {<<"TYPE", h.arg>>}
        BY <2>13, WhatIsLeft
      <4>2. h.arg = m => Leave(Seat(dir, m, c.data), h) \subseteq Seat(dir, m, c.data)
        BY <4>1 DEF Seat
      <4> QED BY <4>2, Weaker DEF Sound
    <3>4. Taken(asked, c, h, e, dir, m)
      BY <1>2, <2>5, <2>13, <3>2, <3>3, KeptTaken DEF NotKept, t
    <3>5. Taken(asked, c, h, NextCommand(e), dir, m)
      BY <3>2, <3>4, TakenOn
    <3> QED BY <1>1, <3>1, <3>5
  <2>14. CASE h.cmd = "RNFR" /\ code = 3
    <3>1. Answered(d, h, code, size) = NextCommand(d)
      BY <2>14 DEF Answered, Transfers
    <3>2. Leave(Seat(dir, m, c.data), h) \subseteq Seat(dir, m, c.data)
      <4>1. h.cmd \notin Carrying \cup Login \cup
              {"transferEnd", "REST", "SIZE", "PASV", "CWD", "TYPE"}
        BY <2>14 DEF Carrying, Transfers, Login
      <4> QED BY <4>1, WhatIsLeft
    <3>3. Sound(asked, t, Leave(Seat(dir, m, c.data), h)) => Sound(asked, t, Seat(dir, m, c.data))
      BY <3>2, Weaker DEF Sound
    <3>4. Taken(asked, c, h, d, dir, m)
      BY <1>2, <2>3, <2>5, <2>14, <3>3, KeptTaken DEF NotKept, t
    <3>5. Taken(asked, c, h, NextCommand(d), dir, m)
      BY <2>3, <3>4, TakenOn
    <3> QED BY <1>1, <3>1, <3>5
  <2>15. CASE h.cmd \in {"FEAT", "NOOP", "aborted", "REST"}
    <3>1. Answered(d, h, code, size) = NextCommand(d)
      BY <2>15 DEF Answered, Transfers
    <3>2. trash = c.trash
      BY <2>6, <2>15 DEF NotKept
    <3>3. Taken(asked, c, h, d, dir, m)
      BY <1>2, <2>3, <2>15, <3>2, GoneTaken DEF t
    <3>4. Taken(asked, c, h, NextCommand(d), dir, m)
      BY <2>3, <3>3, TakenOn
    <3> QED BY <1>1, <3>1, <3>4
  <2>16. h.cmd \in {"PASV", "SIZE", "MKD", "DELE", "RNTO", "RNFR", "CWD", "PWD", "TYPE",
                    "FEAT", "NOOP", "aborted", "REST"}
    BY <1>2, <1>3, <1>5, <2>4 DEF CmdNames, Login, Transfers
  <2> QED BY <2>7, <2>8, <2>9, <2>10, <2>11, <2>12, <2>13, <2>14, <2>15, <2>16
<1> QED BY <1>4, <1>5

----------------------------------------------------------------------------
(***************************************************************************)
(* The client logs in: what it had to do is in front of it again.          *)
(***************************************************************************)
Plain == {x \in Command : x.cmd \notin Login}

LEMMA PlainSeq ==
    ASSUME NEW q \in Seq(Command) PROVE NoLogin(q) <=> q \in Seq(Plain)
<1>1. Len(q) \in Nat /\ \A k \in 1 .. Len(q) : q[k] \in Command
  BY Elements
<1>2. q = [k \in 1 .. Len(q) |-> q[k]]
  BY <1>1
<1>3. NoLogin(q) => q \in Seq(Plain)
  <2> SUFFICES ASSUME NoLogin(q) PROVE q \in Seq(Plain)
    OBVIOUS
  <2>1. \A k \in 1 .. Len(q) : q[k] \in Plain
    BY <1>1 DEF NoLogin, Plain
  <2> HIDE DEF Plain
  <2>2. [k \in 1 .. Len(q) |-> q[k]] \in Seq(Plain)
    BY <1>1, <2>1
  <2> QED BY <1>2, <2>2
<1>4. q \in Seq(Plain) => NoLogin(q)
  <2> SUFFICES ASSUME q \in Seq(Plain) PROVE NoLogin(q)
    OBVIOUS
  <2>1. \A k \in 1 .. Len(q) : q[k] \in Plain
    BY Elements
  <2> QED BY <2>1 DEF NoLogin, Plain
<1> QED BY <1>3, <1>4

LEMMA PlainIsCommand ==
    ASSUME NEW q \in Seq(Plain) PROVE q \in Seq(Command)
<1>1. Len(q) \in Nat /\ (\A k \in 1 .. Len(q) : q[k] \in Plain) /\ q = [k \in 1 .. Len(q) |-> q[k]]
  BY Elements
<1>2. \A k \in 1 .. Len(q) : q[k] \in Command
  BY <1>1 DEF Plain
<1>3. [k \in 1 .. Len(q) |-> q[k]] \in Seq(Command)
  BY <1>1, <1>2
<1> QED BY <1>1, <1>3

LEMMA RestoredPlain ==
    ASSUME NEW t \in Seq(Plain), NEW x \in Command
    PROVE  Restored(t, x) \in Seq(Plain)
<1> DEFINE y == Cmd("SIZE", x.cmd, x.req)
           ss == [k \in 1 .. Len(t) |-> IF t[k].cmd = "TYPE" /\ x.cmd \in {"STOR", "APPE"}
                                        THEN <<t[k], y>> ELSE <<t[k]>>]
<1>1. x.cmd \in {"STOR", "APPE"} => y \in Plain
  <2>1. x.cmd \in {"STOR", "APPE"} => y \in Command
    BY OfCommand, CommandTypes DEF CmdNames
  <2>2. y.cmd = "SIZE"
    BY DEF Cmd
  <2> QED BY <2>1, <2>2 DEF Plain, Login
<1> HIDE DEF y
<1>2. \A k \in 1 .. Len(t) : ss[k] \in Seq(Plain)
  <2> TAKE k \in 1 .. Len(t)
  <2>1. t[k] \in Plain
    BY Elements
  <2>2. CASE t[k].cmd = "TYPE" /\ x.cmd \in {"STOR", "APPE"}
    BY <1>1, <2>1, <2>2
  <2>3. CASE ~ (t[k].cmd = "TYPE" /\ x.cmd \in {"STOR", "APPE"})
    BY <2>1, <2>3
  <2> QED BY <2>2, <2>3
<1>3. ss \in Seq(Seq(Plain))
  <2>1. Len(t) \in Nat
    BY Elements
  <2> QED BY <1>2, <2>1
<1>4. Restored(t, x) = FlattenSeq(ss)
  BY DEF Restored, y
<1> HIDE DEF ss
<1> QED BY <1>3, <1>4, Flattened

\* How much of a download has arrived makes no difference to its claims.
LEMMA ResumedSound ==
    ASSUME NEW w, NEW q \in Seq(Plain), q # <<>>, file \in Files
    PROVE  /\ Resumed(q) \in Seq(Plain)
           /\ \A s : Sound(w, q, s) => Sound(w, Resumed(q), s)
<1> DEFINE x == Head(q)
           size == IF x.req = 0 THEN 0 ELSE Len(file[x.req])
           Holds(p) == p \in Seq(Plain) /\ \A s : Sound(w, q, s) => Sound(w, p, s)
<1>0. q \in Seq(Command)
  BY PlainIsCommand
<1>1. x \in Command /\ x \in Plain /\ Tail(q) \in Seq(Plain)
  BY FirstOf DEF Plain
<1>2. size \in Nat
  <2>1. x.req \in Requests \cup {0}
    BY <1>1, OfCommand
  <2>2. x.req # 0 => file[x.req] \in Seq(0 .. 2)
    BY <2>1 DEF Files
  <2> QED BY <2>1, <2>2, Elements
<1>3. x.cmd = "REST" => Holds(<<[x EXCEPT !.arg = size]>> \o Tail(q))
  <2> DEFINE y == [x EXCEPT !.arg = size]
  <2> SUFFICES ASSUME x.cmd = "REST" PROVE Holds(<<y>> \o Tail(q))
    OBVIOUS
  <2>1. y \in Command
    <3> HIDE DEF size, x
    <3> QED BY <1>1, <1>2, Marked
  <2>2. y.cmd = x.cmd /\ y.req = x.req
    BY <1>1 DEF Command
  <2>3. y \in Plain
    BY <1>1, <2>1, <2>2 DEF Plain
  <2> HIDE DEF y
  <2>4. AsGood(w, Head(q), y)
    BY <2>2, Alike
  <2>5. \A s : Sound(w, q, s) => Sound(w, <<y>> \o Tail(q), s)
    BY <1>0, <2>1, <2>4, HeadSound
  <2>6. <<y>> \o Tail(q) \in Seq(Plain)
    BY <1>1, <2>3, Before1
  <2> QED BY <2>5, <2>6
<1>4. x.cmd = "RETR" => Holds(<<Cmd("REST", size, x.req)>> \o q)
  <2> DEFINE y == Cmd("REST", size, x.req)
  <2> SUFFICES ASSUME x.cmd = "RETR" PROVE Holds(<<y>> \o q)
    OBVIOUS
  <2>1. y \in Command
    <3> HIDE DEF size, x
    <3> QED BY <1>1, <1>2, OfCommand, CommandTypes DEF CmdNames
  <2>2. y.cmd = "REST"
    BY DEF Cmd
  <2>3. y \in Plain
    BY <2>1, <2>2 DEF Plain, Login
  <2> HIDE DEF y
  <2>4. \A s : Sound(w, q, s) => Sound(w, <<y>> \o q, s)
    <3> SUFFICES ASSUME NEW s, Sound(w, q, s) PROVE Sound(w, <<y>> \o q, s)
      OBVIOUS
    <3>1. May(w, s, y)
      BY <2>2 DEF May, Carrying, Transfers
    <3>2. Leave(s, y) = s
      BY <2>2, WhatIsLeft
    <3> QED BY <1>0, <2>1, <3>1, <3>2, FrontSound
  <2>5. <<y>> \o q \in Seq(Plain)
    BY <2>3, Before1
  <2> QED BY <2>4, <2>5
<1>5. Holds(q)
  OBVIOUS
<1>6. Resumed(q) = CASE x.cmd = "REST" /\ size > 0 -> <<[x EXCEPT !.arg = size]>> \o Tail(q)
                     [] x.cmd = "RETR" /\ size > 0 -> <<Cmd("REST", size, x.req)>> \o q
                     [] OTHER -> q
  BY DEF Resumed
<1> HIDE DEF size, x, Holds
<1>7. Holds(Resumed(q))
  BY <1>3, <1>4, <1>5, <1>6
<1> QED BY <1>7 DEF Holds

\* A session begins at home, and comes to the directory that is set there.
LEMMA HomeLeaves ==
    ASSUME NEW d \in Dirs \cup {None}
    PROVE  /\ d # None => Leave(Home(None), Cmd("CWD", d, 0)) = Home(d)
           /\ \A x : x.cmd = "RNFR" => Leave(Home(d), x) = Home(d)
<1>1. "A" # "I" /\ \A r \in Requests : "PASV" # "TYPE" /\ "PASV" # "CWD" /\ "PASV" # "RNFR"
  OBVIOUS
<1>2. d # None => Leave(Home(None), Cmd("CWD", d, 0)) = Home(d)
  <2> SUFFICES ASSUME d # None PROVE Leave(Home(None), Cmd("CWD", d, 0)) = Home(d)
    OBVIOUS
  <2> DEFINE x == Cmd("CWD", d, 0)
  <2>1. x.cmd = "CWD" /\ x.arg = d
    BY DEF Cmd
  <2> HIDE DEF x
  <2>2. Leave(Home(None), x) = {a \in Home(None) : a # <<"TYPE", "I">> /\ a[1] # "CWD"}
                               \cup {<<"CWD", d>>}
    BY <2>1, WhatIsLeft
  <2>3. {a \in Home(None) : a # <<"TYPE", "I">> /\ a[1] # "CWD"}
        = {<<"TYPE", "A">>} \cup Serves(Requests)
    BY DEF Home, Serves
  <2>4. Home(d) = {<<"CWD", d>>} \cup ({<<"TYPE", "A">>} \cup Serves(Requests))
    BY DEF Home
  <2> QED BY <2>2, <2>3, <2>4 DEF x
<1>3. ASSUME NEW x, x.cmd = "RNFR" PROVE Leave(Home(d), x) = Home(d)
  <2>1. "RNFR" \notin Carrying \cup Login \cup
              {"transferEnd", "REST", "SIZE", "PASV", "CWD", "TYPE"}
    BY DEF Carrying, Transfers, Login
  <2>2. Leave(Home(d), x) = {a \in Home(d) : a # <<"TYPE", "I">> /\ a[1] # "RNFR"}
    BY <1>3, <2>1, WhatIsLeft
  <2>3. \A a \in Home(d) : a # <<"TYPE", "I">> /\ a[1] # "RNFR"
    BY DEF Home, Serves
  <2> QED BY <2>2, <2>3
<1> QED BY <1>2, <1>3

\* What was to be done in the session that is lost can be done in the new one.
LEMMA RecoverSound ==
    ASSUME NEW w, NEW c, Typed(c), Orderly(w, c), NoLogin(c.queue), file \in Files,
           ~ RecoveryThrows(c), Recoverable(w, c)
    PROVE  LET d == RecoverFromDisaster(c)
           IN /\ NoLogin(d.queue) /\ Sound(w, d.queue, Home(None))
              /\ d.trash = <<>> /\ d.cwd = None /\ d.mode = c.mode /\ d.data = c.data
              /\ d.conn = c.conn /\ d.polls = c.polls /\ d.isConnected = c.isConnected
              /\ d.legitClose = c.legitClose /\ d.known = c.known
              /\ d.ctl = c.ctl /\ d.dat = c.dat
<1> DEFINE x == Head(c.queue)
           again == Restored(c.trash, x)
                    \o Resumed(<<[x EXCEPT !.begun = FALSE]>> \o Tail(c.queue))
           q == CASE c.queue = <<>> -> <<>>
                  [] c.queue # <<>> /\ x.cmd \in Transfers \union {"REST", "PASV", "SIZE"} -> again
                  [] c.queue # <<>> /\ x.cmd = "RNTO" /\ Last(c.trash).cmd = "RNFR" ->
                       <<Last(c.trash)>> \o c.queue
                  [] OTHER -> c.queue
           cd == <<Cmd("CWD", c.cwd, 0)>> \o q
           Good(p) == p \in Seq(Plain) /\ Sound(w, p, Home(c.cwd))
<1>1. /\ c.queue \in Seq(Command) /\ c.trash \in Seq(Command) /\ c.cwd \in Dirs \cup {None}
      /\ \A k \in 1 .. Len(c.trash) : c.trash[k].cmd \in {"CWD", "TYPE", "PASV", "RNFR"}
  BY TrashCommands DEF Typed
<1>2. c.queue \in Seq(Plain) /\ c.trash \in Seq(Plain)
  <2>1. NoLogin(c.trash)
    BY <1>1 DEF NoLogin, Login
  <2> QED BY <1>1, <2>1, PlainSeq
<1>3. PICK u : Leads(w, c.trash, Home(c.cwd), u) /\ Sound(w, c.queue, u)
  BY DEF Recoverable
<1>4. c.queue # <<>> /\ x.cmd \notin Transfers \cup {"REST", "PASV", "SIZE"} =>
        Sound(w, c.queue, Home(c.cwd))
  <2> SUFFICES ASSUME c.queue # <<>>, x.cmd \notin Transfers \cup {"REST", "PASV", "SIZE"}
               PROVE  Sound(w, c.queue, Home(c.cwd))
    OBVIOUS
  <2>1. u \subseteq Home(c.cwd) \cup {<<"TYPE", "I">>}
    <3>1. Latest(c.trash, c.cwd)
      BY DEF Recoverable
    <3> QED BY <1>1, <1>3, <3>1, TrashClaims
  <2>2. x.cmd \notin Login
    BY <1>2, FirstOf DEF Plain
  <2> QED BY <1>1, <1>3, <2>1, <2>2, AnyMode
<1>5. c.queue # <<>> => Good(again)
  <2> SUFFICES ASSUME c.queue # <<>> PROVE Good(again)
    OBVIOUS
  <2> DEFINE y == [x EXCEPT !.begun = FALSE]
             r == <<y>> \o Tail(c.queue)
  <2>1. x \in Command /\ x \in Plain /\ Tail(c.queue) \in Seq(Plain)
    BY <1>2, FirstOf DEF Plain
  <2>2. y \in Command /\ y.cmd = x.cmd /\ y.req = x.req /\ y.arg = x.arg
    BY <2>1, Marked DEF Command
  <2>3. y \in Plain
    BY <2>1, <2>2 DEF Plain
  <2> HIDE DEF y
  <2>4. r \in Seq(Plain) /\ r # <<>>
    BY <2>1, <2>3, Before1
  <2>5. Sound(w, r, u)
    <3>1. AsGood(w, x, y)
      BY <2>2, Alike
    <3> QED BY <1>1, <1>3, <2>2, <3>1, HeadSound
  <2> HIDE DEF r
  <2>6. Resumed(r) \in Seq(Plain) /\ Sound(w, Resumed(r), u)
    BY <2>4, <2>5, ResumedSound
  <2> HIDE DEF x
  <2>7. Restored(c.trash, x) \in Seq(Plain) /\ Leads(w, Restored(c.trash, x), Home(c.cwd), u)
    BY <1>1, <1>2, <1>3, <2>1, RestoredPlain, RestoredDoes
  <2>8. Restored(c.trash, x) \o Resumed(r) \in Seq(Plain)
    BY <2>6, <2>7, ConcatProperties
  <2>9. Sound(w, Restored(c.trash, x) \o Resumed(r), Home(c.cwd))
    BY <2>6, <2>7, PlainIsCommand, Joined DEF Sound
  <2> QED BY <2>8, <2>9 DEF r, y, x
<1>6. c.queue # <<>> /\ x.cmd = "RNTO" /\ Last(c.trash).cmd = "RNFR" =>
        Good(<<Last(c.trash)>> \o c.queue)
  <2> SUFFICES ASSUME c.queue # <<>>, x.cmd = "RNTO", Last(c.trash).cmd = "RNFR"
               PROVE  Good(<<Last(c.trash)>> \o c.queue)
    OBVIOUS
  <2> DEFINE y == Last(c.trash)
  <2>1. c.trash # <<>>
    BY DEF RecoveryThrows
  <2>2. y \in Plain /\ y \in Command
    BY <1>2, <2>1, Elements DEF Plain
  <2>3. y.cmd = "RNFR"
    OBVIOUS
  <2> HIDE DEF y
  <2>4. Sound(w, c.queue, Home(c.cwd))
    BY <1>4 DEF Transfers
  <2>5. May(w, Home(c.cwd), y)
    BY <2>3 DEF May, Carrying, Transfers
  <2>6. Leave(Home(c.cwd), y) = Home(c.cwd)
    BY <1>1, <2>3, HomeLeaves
  <2>7. Sound(w, <<y>> \o c.queue, Home(c.cwd))
    BY <1>1, <2>2, <2>4, <2>5, <2>6, FrontSound
  <2>8. <<y>> \o c.queue \in Seq(Plain)
    BY <1>2, <2>2, Before1
  <2> QED BY <2>7, <2>8 DEF y
<1>7. Good(q)
  <2>1. Good(<<>>)
    <3>1. <<>> \in Seq(Plain)
      OBVIOUS
    <3> QED BY <3>1, NoCommand DEF Sound
  <2>2. c.queue # <<>> /\ x.cmd \notin Transfers \cup {"REST", "PASV", "SIZE"} => Good(c.queue)
    BY <1>2, <1>4
  <2> HIDE DEF again, x, Good
  <2> QED BY <1>5, <1>6, <2>1, <2>2
<1>8. Home(c.cwd) = Home(None) \/ c.cwd # None
  OBVIOUS
<1>9. c.cwd # None => cd \in Seq(Plain) /\ Sound(w, cd, Home(None))
  <2> SUFFICES ASSUME c.cwd # None PROVE cd \in Seq(Plain) /\ Sound(w, cd, Home(None))
    OBVIOUS
  <2> DEFINE y == Cmd("CWD", c.cwd, 0)
  <2>1. q \in Seq(Plain) /\ q \in Seq(Command) /\ Sound(w, q, Home(c.cwd))
    BY <1>7, PlainIsCommand
  <2> HIDE DEF q
  <2>2. y \in Command
    BY <1>1, CommandTypes DEF CmdNames
  <2>3. y.cmd = "CWD"
    BY DEF Cmd
  <2>4. y \in Plain /\ May(w, Home(None), y)
    BY <2>2, <2>3 DEF Plain, Login, May, Carrying, Transfers
  <2>5. Leave(Home(None), y) = Home(c.cwd)
    BY <1>1, HomeLeaves
  <2> HIDE DEF y
  <2> QED BY <2>1, <2>2, <2>4, <2>5, FrontSound, Before1 DEF y
<1> DEFINE r == IF c.cwd = None THEN q ELSE cd
<1>10. r \in Seq(Plain) /\ Sound(w, r, Home(None))
  <2> HIDE DEF q, cd
  <2> QED BY <1>7, <1>9
<1>11. RecoverFromDisaster(c) = [c EXCEPT !.queue = r, !.cwd = None, !.trash = <<>>]
  BY DEF RecoverFromDisaster
<1>12. NoLogin(r)
  <2> HIDE DEF r
  <2> QED BY <1>10, PlainIsCommand, PlainSeq
<1> HIDE DEF r
<1> QED BY <1>10, <1>11, <1>12 DEF Typed, IsClient

\* After the rename that it ends with, nothing is counted on.
LEMMA RenameSound ==
    ASSUME NEW w, NEW report, NEW q \in Seq(Command), q # <<>>, Line(w, report, q),
           Head(q).cmd = "RNTO", NEW s, Sound(w, q, s), NEW u
    PROVE  Sound(w, q, u)
<1>1. Len(q) \in Nat \ {0} /\ Head(q) = q[1] /\ Head(q) \in Command /\ Tail(q) \in Seq(Command)
      /\ Cut(Tail(q), q, 1) /\ Len(Tail(q)) \in Nat
  BY FirstOf, TailCuts, Elements
<1>2. 1 \in 1 .. Len(q)
  BY <1>1
<1>3. w[Head(q).req].kind = "rename"
  BY <1>1, <1>2 DEF Line, Fine
<1>4. May(w, u, Head(q))
  BY <1>3 DEF May, Carriers
<1> DEFINE t == Tail(q)
<1>5. Sound(w, t, Leave(u, Head(q)))
  <2>1. q[1].cmd \in Carrying \cup {"transferEnd"}
    BY <1>1 DEF Carrying
  <2>2. Cut(t, q, 1) /\ Len(t) \in Nat
    BY <1>1
  <2> HIDE DEF t
  <2> QED BY <1>2, <2>1, <2>2, Renewed
<1> HIDE DEF t
<1>6. Sound(w, <<Head(q)>> \o t, u)
  BY <1>1, <1>4, <1>5, FrontSound DEF t
<1> QED BY <1>6, HeadAndTail DEF t

\* The first session with this server asks it where it is.
LEMMA AsksSound ==
    ASSUME NEW w, NEW q \in Seq(Plain), Sound(w, q, Home(None))
    PROVE  LET p == <<Cmd("FEAT", None, 0), Cmd("PWD", None, 0)>> \o q
           IN NoLogin(p) /\ p \in Seq(Command) /\ Sound(w, p, Home(None))
<1> DEFINE x == Cmd("FEAT", None, 0)
           y == Cmd("PWD", None, 0)
           s == Home(None)
<1>1. x \in Command /\ y \in Command /\ x.cmd = "FEAT" /\ y.cmd = "PWD"
  <2>1. x.cmd = "FEAT" /\ y.cmd = "PWD"
    BY DEF Cmd
  <2> QED BY <2>1, InternalCommands
<1> HIDE DEF x, y
<1>2. x \in Plain /\ y \in Plain
  BY <1>1 DEF Plain, Login
<1>3. ASSUME NEW z, z.cmd \in {"FEAT", "PWD"} PROVE s \subseteq Leave(s, z)
  <2>1. z.cmd \notin Carrying \cup Login \cup
              {"transferEnd", "REST", "SIZE", "PASV", "CWD", "TYPE"}
    BY <1>3 DEF Carrying, Transfers, Login
  <2>2. Leave(s, z) = {a \in s : a # <<"TYPE", "I">> /\ a[1] # z.cmd}
    BY <2>1, WhatIsLeft
  <2>3. \A a \in s : a # <<"TYPE", "I">> /\ a[1] # z.cmd
    BY <1>3 DEF Home, Serves
  <2> QED BY <2>2, <2>3
<1>4. May(w, s, x) /\ May(w, s, y)
  BY <1>1 DEF May, Carrying, Transfers, Home
<1>5. Leads(w, <<x>>, s, s) /\ Leads(w, <<y>>, s, s)
  BY <1>1, <1>3, <1>4, OneCommand
<1>6. <<x, y>> = <<x>> \o <<y>> /\ <<x>> \in Seq(Command) /\ <<y>> \in Seq(Command)
      /\ <<x, y>> \in Seq(Command) /\ <<x, y>> \in Seq(Plain)
  <2>1. <<x, y>> = <<x>> \o <<y>>
    BY <1>1, TwoOf
  <2>2. <<x>> \in Seq(Command) /\ <<y>> \in Seq(Command) /\ <<x, y>> \in Seq(Command)
    BY <1>1
  <2>3. <<x, y>> \in Seq(Plain)
    BY <1>2
  <2> QED BY <2>1, <2>2, <2>3
<1>7. Leads(w, <<x, y>>, s, s)
  BY <1>5, <1>6, Joined
<1> DEFINE p == <<x, y>>
           r == p \o q
<1>8. p \in Seq(Command) /\ p \in Seq(Plain) /\ Leads(w, p, s, s) /\ q \in Seq(Command)
  BY <1>6, <1>7, PlainIsCommand
<1> HIDE DEF p, s
<1>9. r \in Seq(Plain) /\ Leads(w, r, s, {})
  BY <1>8, Joined, ConcatProperties DEF Sound, s
<1> HIDE DEF r
<1>10. r \in Seq(Command) /\ NoLogin(r) /\ Sound(w, r, s)
  BY <1>9, PlainIsCommand, PlainSeq DEF Sound
<1> QED BY <1>10 DEF r, p, x, y, s

\* The server takes the client in: from here on it is where the server is, or is
\* stopped by what it cannot recover.
LEMMA LoggedInTaken ==
    ASSUME NEW w, NEW c, Typed(c), Orderly(w, c), NoLogin(c.queue), file \in Files,
           Recoverable(w, c), c.known \/ c.legitClose,
           c.legitClose => c.cwd = None /\ c.trash = <<>>, c.mode = None, c.data = None
    PROVE  LET d == LoggedIn(c)
           IN /\ Recoverable(w, d) /\ NoLogin(d.queue) /\ d.conn = c.conn /\ d.polls = c.polls
              /\ d.isConnected = c.isConnected /\ ~ d.legitClose /\ d.known
              /\ d.mode = None /\ d.data = None
              /\ Sound(w, d.queue, Seat(Root, "A", None))
              /\ d.cwd \in {Root, None} \/
                 (d.queue # <<>> /\ Head(d.queue).cmd = "RNTO"
                  /\ d.isReady = c.isReady /\ d.sent = c.sent)
<1> DEFINE d == [c EXCEPT !.known = TRUE, !.legitClose = c.legitClose \/ ~ c.known]
           q == <<Cmd("FEAT", None, 0), Cmd("PWD", None, 0)>> \o c.queue
           e == [d EXCEPT !.legitClose = FALSE, !.queue = q]
           r == RecoverFromDisaster(d)
           Holds(f) ==
              /\ Recoverable(w, f) /\ NoLogin(f.queue) /\ f.conn = c.conn /\ f.polls = c.polls
              /\ f.isConnected = c.isConnected /\ ~ f.legitClose /\ f.known
              /\ f.mode = None /\ f.data = None
              /\ Sound(w, f.queue, Seat(Root, "A", None))
              /\ f.cwd \in {Root, None} \/
                 (f.queue # <<>> /\ Head(f.queue).cmd = "RNTO"
                  /\ f.isReady = c.isReady /\ f.sent = c.sent)
<1>0. Seat(Root, "A", None) = Home(None)
  BY DEF Seat, Home, Served
<1>1. /\ Typed(d) /\ d.queue = c.queue /\ d.trash = c.trash /\ d.report = c.report
      /\ d.known /\ d.legitClose = c.legitClose /\ d.conn = c.conn /\ d.polls = c.polls
      /\ d.isConnected = c.isConnected /\ d.mode = None /\ d.data = None /\ d.cwd = c.cwd
      /\ d.isReady = c.isReady /\ d.sent = c.sent
  BY DEF Typed, IsClient
<1>2. Orderly(w, d)
  BY <1>1, SameOrder
<1>3. Recoverable(w, d)
  BY <1>1 DEF Recoverable
<1>4. \A f : Typed(f) /\ Holds(f) /\ f.cwd \in {Root, None} => Holds(NextCommand(f))
  <2> SUFFICES ASSUME NEW f, Typed(f), Holds(f), f.cwd \in {Root, None}
               PROVE  Holds(NextCommand(f))
    OBVIOUS
  <2>1. Onward(w, f, NextCommand(f))
    BY NextContext
  <2>2. Seated(w, f, Root, "A")
    BY DEF Seated
  <2>3. Seated(w, NextCommand(f), Root, "A")
    BY <2>1, <2>2 DEF Onward
  <2>4. NoLogin(NextCommand(f).queue)
    <3>1. LoginFirst(f.queue)
      BY DEF NoLogin, LoginFirst
    <3> QED BY <2>1, <3>1 DEF Onward
  <2> DEFINE g == NextCommand(f)
  <2>5. /\ Recoverable(w, g) /\ g.conn = f.conn /\ g.polls = f.polls
        /\ g.isConnected = f.isConnected /\ g.legitClose = f.legitClose /\ g.known = f.known
        /\ g.cwd = f.cwd /\ g.mode = f.mode /\ g.data = f.data
    BY <2>1 DEF Onward
  <2>6. Sound(w, g.queue, Seat(Root, "A", g.data)) /\ NoLogin(g.queue)
    BY <2>3, <2>4 DEF Seated
  <2> HIDE DEF g
  <2> QED BY <2>5, <2>6 DEF g
<1>5. c.legitClose => Typed(e) /\ Holds(e) /\ e.cwd \in {Root, None}
  <2> SUFFICES ASSUME c.legitClose PROVE Typed(e) /\ Holds(e) /\ e.cwd \in {Root, None}
    OBVIOUS
  <2>1. c.queue \in Seq(Plain)
    BY PlainSeq DEF Typed
  <2>2. Sound(w, c.queue, Home(None))
    <3>1. PICK u : Leads(w, <<>>, Home(None), u) /\ Sound(w, c.queue, u)
      BY DEF Recoverable
    <3>2. u \subseteq Home(None)
      <4>1. PICK f : f[0] \subseteq Home(None) /\ u \subseteq f[Len(<<>>)]
        BY <3>1 DEF Leads
      <4>2. Len(<<>>) = 0
        OBVIOUS
      <4> QED BY <4>1, <4>2
    <3> QED BY <3>1, <3>2, Weaker DEF Sound
  <2>3. NoLogin(q) /\ q \in Seq(Command) /\ Sound(w, q, Home(None))
    BY <2>1, <2>2, AsksSound
  <2> HIDE DEF q
  <2>4. /\ Typed(e) /\ e.queue = q /\ e.trash = <<>> /\ e.cwd = None /\ ~ e.legitClose
        /\ e.known /\ e.conn = c.conn /\ e.polls = c.polls /\ e.isConnected = c.isConnected
        /\ e.mode = None /\ e.data = None
    BY <1>1, <2>3 DEF Typed, IsClient
  <2> HIDE DEF e
  <2>5. Recoverable(w, e)
    <3>1. Latest(<<>>, None)
      BY DEF Latest
    <3>2. Leads(w, <<>>, Home(None), Home(None))
      BY NoCommand
    <3> QED BY <2>3, <2>4, <3>1, <3>2 DEF Recoverable
  <2> QED BY <1>0, <2>3, <2>4, <2>5
<1>6. ~ c.legitClose /\ ~ RecoveryThrows(d) => Typed(r) /\ Holds(r) /\ r.cwd \in {Root, None}
  <2> SUFFICES ASSUME ~ c.legitClose, ~ RecoveryThrows(d)
               PROVE  Typed(r) /\ Holds(r) /\ r.cwd \in {Root, None}
    OBVIOUS
  <2> HIDE DEF d
  <2>1. /\ NoLogin(r.queue) /\ Sound(w, r.queue, Home(None))
        /\ r.trash = <<>> /\ r.cwd = None /\ r.mode = d.mode /\ r.data = d.data
        /\ r.conn = d.conn /\ r.polls = d.polls /\ r.isConnected = d.isConnected
        /\ r.legitClose = d.legitClose /\ r.known = d.known
    <3>1. NoLogin(d.queue)
      BY <1>1
    <3>2. Typed(d) /\ Orderly(w, d) /\ Recoverable(w, d)
      BY <1>1, <1>2, <1>3
    <3> QED BY ONLY <3>1, <3>2, RecoverSound, file \in Files, ~ RecoveryThrows(d)
  <2>2. Typed(r)
    BY <1>1, RecoverTypes
  <2> HIDE DEF r
  <2>3. Recoverable(w, r)
    <3>1. Latest(<<>>, None)
      BY DEF Latest
    <3>2. Leads(w, <<>>, Home(None), Home(None))
      BY NoCommand
    <3> QED BY <2>1, <3>1, <3>2 DEF Recoverable
  <2> QED BY <1>0, <1>1, <2>1, <2>2, <2>3
<1>7. ~ c.legitClose /\ RecoveryThrows(d) => Holds(d)
  <2> SUFFICES ASSUME ~ c.legitClose, RecoveryThrows(d) PROVE Holds(d)
    OBVIOUS
  <2>1. c.queue # <<>> /\ Head(c.queue).cmd = "RNTO"
    BY <1>1 DEF RecoveryThrows
  <2>2. \E u : Sound(w, c.queue, u)
    BY DEF Recoverable
  <2>3. Sound(w, c.queue, Home(None))
    BY <2>1, <2>2, RenameSound DEF Typed, Orderly
  <2> HIDE DEF d
  <2> QED BY <1>0, <1>1, <1>3, <2>1, <2>3
<1>8. LoggedIn(c) = IF d.legitClose THEN NextCommand(e)
                    ELSE IF RecoveryThrows(d) THEN d ELSE NextCommand(r)
  BY DEF LoggedIn
<1> HIDE DEF d, e, r, Holds
<1>9. Holds(LoggedIn(c))
  BY <1>1, <1>4, <1>5, <1>6, <1>7, <1>8
<1> QED BY <1>9 DEF Holds

HeadIn(q, S) == q # <<>> /\ Head(q).cmd \in S

\* The server has not taken the client in.
Entering(c) == ~ c.isConnected \/ HeadIn(c.queue, {"USER", "PASS"})

\* Before the client is taken in it knows nothing of its session, and of another
\* one only what it comes back to; and it polls for a transfer that is going on.
Settled(c) ==
    /\ LoginFirst(c.queue)
    /\ c.isConnected => ~ HeadIn(c.queue, {"welcome"})
    /\ HeadIn(c.queue, {"USER", "PASS"}) =>
         c.conn = "open" /\ c.isConnected /\ c.mode = None /\ c.data = None
    /\ c.legitClose /\ c.conn # "closing" =>
         /\ c.cwd = None /\ c.trash = <<>>
         /\ c.isConnected => HeadIn(c.queue, {"USER", "PASS"})
    /\ ~ c.isConnected => c.mode = None /\ c.data = None
    /\ c.conn = "closing" => c.data = None
    /\ c.polls = 1 /\ c.isConnected =>
         ~ c.isReady /\ HeadIn(c.queue, Transfers \cup {"aborted"})

\* The user has closed the connection: what is queued will be dropped.
Doomed(c) == c.conn = "closing" /\ c.legitClose

Well(w, c) ==
    /\ c.known \/ c.legitClose
    /\ c.polls \in {0, 1}
    /\ IF Doomed(c)
       THEN /\ c.ctl = None /\ c.dat = None
            /\ c.polls = 1 => c.data = None /\ NoLogin(c.queue)
       ELSE Recoverable(w, c) /\ Settled(c)

\* A session in which nothing is to be done.
LEMMA NothingToDo ==
    ASSUME NEW w, NEW c, c.queue = <<>>, c.trash = <<>>, c.cwd \in Dirs \cup {None}
    PROVE  Recoverable(w, c) /\ LoginFirst(c.queue) /\ NoLogin(c.queue)
           /\ \A S : ~ HeadIn(c.queue, S)
<1>1. \A u : Sound(w, c.queue, u)
  BY NoCommand DEF Sound
<1>2. Recoverable(w, c)
  BY <1>1, AnySession
<1>3. Len(<<>>) = 0
  OBVIOUS
<1> QED BY <1>2, <1>3 DEF LoginFirst, NoLogin, HeadIn

\* The client goes on to log in.
LEMMA EntersOn ==
    ASSUME NEW w, NEW e, Typed(e), NEW y \in Command, y.cmd \in {"USER", "PASS"},
           NEW t \in Seq(Command), e.queue = <<y>> \o t, NoLogin(t),
           Latest(e.trash, e.cwd),
           NEW u, Leads(w, e.trash, Home(e.cwd), u), Sound(w, t, u),
           e.conn = "open", e.isConnected, e.mode = None, e.data = None, e.polls = 0,
           e.known \/ e.legitClose, e.legitClose => e.cwd = None /\ e.trash = <<>>
    PROVE  LET d == NextCommand(e)
           IN Well(w, d) /\ d.polls = 0 /\ d.conn = "open" /\ Entering(d)
<1> DEFINE d == NextCommand(e)
<1>1. /\ e.queue # <<>> /\ Head(e.queue) = y /\ e.queue \in Seq(Command)
      /\ HeadIn(e.queue, {"USER", "PASS"}) /\ ~ HeadIn(e.queue, {"welcome"})
      /\ Head(e.queue).cmd \in Login
  BY Before1 DEF HeadIn, Login
<1>2. LoginFirst(e.queue)
  <2>1. Len(<<y>>) = 1 /\ <<y>> \in Seq(Command) /\ Len(t) \in Nat
    BY Elements
  <2> DEFINE p == <<y>>
  <2> HIDE DEF p
  <2>2. /\ Len(p \o t) = Len(p) + Len(t)
        /\ \A i \in (Len(p) + 1) .. (Len(p) + Len(t)) : (p \o t)[i] = t[i - Len(p)]
    BY <2>1, ConcatProperties DEF p
  <2>3. \A k \in 1 .. Len(e.queue) : k # 1 => k - 1 \in 1 .. Len(t) /\ e.queue[k] = t[k - 1]
    BY <2>1, <2>2 DEF p
  <2> QED BY <2>3 DEF LoginFirst, NoLogin
<1>3. Recoverable(w, e)
  <2>1. May(w, u, y)
    BY DEF May, Carrying, Transfers
  <2>2. Leave(u, y) = u
    BY WhatIsLeft DEF Login
  <2>3. Sound(w, <<y>> \o t, u)
    BY <2>1, <2>2, FrontSound
  <2> QED BY <2>3 DEF Recoverable
<1>4. Onward(w, e, d)
  BY NextContext
<1>5. /\ Recoverable(w, d) /\ d.queue = e.queue /\ d.trash = e.trash
      /\ d.conn = e.conn /\ d.polls = e.polls /\ d.isConnected = e.isConnected
      /\ d.legitClose = e.legitClose /\ d.known = e.known
      /\ d.cwd = e.cwd /\ d.mode = e.mode /\ d.data = e.data
  BY <1>1, <1>3, <1>4 DEF Onward
<1> HIDE DEF d
<1>6. Settled(d)
  BY <1>1, <1>2, <1>5 DEF Settled
<1>7. Well(w, d) /\ Entering(d)
  BY <1>1, <1>5, <1>6 DEF Well, Doomed, Entering
<1> QED BY <1>5, <1>7 DEF d

\* The answers of a login.
LEMMA LoginTaken ==
    ASSUME NEW c, Typed(c), Orderly(asked, c), file \in Files,
           c.queue # <<>>, NEW h, h = Head(c.queue), h.cmd \in Login,
           Recoverable(asked, c), Settled(c), c.known \/ c.legitClose,
           c.conn = "open", c.polls = 0, c.isConnected => ~ c.isReady,
           NEW code, h.cmd = "USER" => code # 2, NEW size
    PROVE  LET d == ReadControl(c, code, size)
           IN /\ Well(asked, d) /\ d.polls = 0
              /\ d.conn = "open" =>
                   \/ Entering(d)
                   \/ /\ h.cmd = "PASS" /\ code = 2 /\ ~ Entering(d)
                      /\ Sound(asked, d.queue, Seat(Root, "A", d.data)) /\ d.mode = None
                      /\ d.cwd \in {Root, None} \/ (HeadIn(d.queue, {"RNTO"}) /\ ~ d.isReady
                                                /\ d.sent = c.sent)
<1> DEFINE w == asked
           t == Tail(c.queue)
           b == [c EXCEPT !.queue = t, !.trash = c.trash]
           Holds(d) ==
              /\ Well(w, d) /\ d.polls = 0
              /\ d.conn = "open" =>
                   \/ Entering(d)
                   \/ /\ h.cmd = "PASS" /\ code = 2 /\ ~ Entering(d)
                      /\ Sound(w, d.queue, Seat(Root, "A", d.data)) /\ d.mode = None
                      /\ d.cwd \in {Root, None} \/ (HeadIn(d.queue, {"RNTO"}) /\ ~ d.isReady
                                                /\ d.sent = c.sent)
<1>1. /\ c.queue \in Seq(Command) /\ c.trash \in Seq(Command) /\ h \in Command
      /\ t \in Seq(Command) /\ c.cwd \in Dirs \cup {None} /\ Len(c.queue) \in Nat \ {0}
      /\ Cut(t, c.queue, 1)
  BY FirstOf, TailCuts DEF Typed
<1>2. NoLogin(t)
  <2>1. \A k \in 1 .. Len(t) : k + 1 \in 1 .. Len(c.queue) /\ k + 1 # 1 /\ t[k] = c.queue[k + 1]
    BY <1>1 DEF Cut
  <2>2. LoginFirst(c.queue)
    BY DEF Settled
  <2> HIDE DEF t
  <2> QED BY <2>1, <2>2 DEF NoLogin, LoginFirst
<1>3. h.cmd \in NotKept /\ h.cmd \notin Transfers /\ h.cmd \notin Carriers
  BY DEF Login, NotKept, Transfers, Carriers
<1>4. ReadControl(c, code, size) = Answered(b, h, code, size)
  BY <1>3 DEF ReadControl
<1>5. /\ Typed(b) /\ b.queue = t /\ b.trash = c.trash /\ b.cwd = c.cwd /\ b.report = c.report
      /\ b.conn = "open" /\ b.polls = 0 /\ b.isConnected = c.isConnected
      /\ b.isReady = c.isReady /\ b.sent = c.sent /\ b.legitClose = c.legitClose /\ b.known = c.known
      /\ b.mode = None /\ b.data = None
      /\ b.legitClose => b.cwd = None /\ b.trash = <<>>
  <2> HIDE DEF t
  <2>1. c.mode = None /\ c.data = None
    <3>1. ~ c.isConnected \/ HeadIn(c.queue, {"USER", "PASS"})
      BY DEF Settled, HeadIn, Login
    <3> QED BY <3>1 DEF Settled
  <2>2. c.legitClose => c.cwd = None /\ c.trash = <<>>
    BY DEF Settled
  <2> QED BY <1>1, <2>1, <2>2 DEF Typed, IsClient
<1>6. PICK u : Leads(w, c.trash, Home(c.cwd), u) /\ Sound(w, c.queue, u)
  BY DEF Recoverable
<1>7. Latest(c.trash, c.cwd) /\ Sound(w, t, u)
  <2>1. Sound(w, t, Leave(u, h))
    BY <1>1, <1>6, TailSound
  <2>2. Leave(u, h) = u
    BY WhatIsLeft
  <2> QED BY <2>1, <2>2 DEF Recoverable
<1> HIDE DEF t, b, Holds
<1>8. ASSUME NEW y \in Command, y.cmd \in {"USER", "PASS"},
             NEW e, Typed(e), e.queue = <<y>> \o t, e.trash = c.trash, e.cwd = c.cwd,
             e.isConnected, e.conn = b.conn, e.polls = b.polls, e.mode = b.mode,
             e.data = b.data, e.known = b.known, e.legitClose = b.legitClose
      PROVE  Holds(NextCommand(e))
  <2>1. Latest(e.trash, e.cwd) /\ Leads(w, e.trash, Home(e.cwd), u)
    BY <1>6, <1>7, <1>8
  <2> HIDE DEF w
  <2>2. LET d == NextCommand(e)
        IN Well(w, d) /\ d.polls = 0 /\ d.conn = "open" /\ Entering(d)
    BY <1>1, <1>2, <1>5, <1>7, <1>8, <2>1, EntersOn
  <2> QED BY <2>2 DEF Holds
<1>9. CASE h.cmd = "welcome" /\ code # 2
  <2> DEFINE e == Cleanup(b)
             d == NextCommand(e)
  <2>1. Answered(b, h, code, size) = d
    BY <1>9 DEF Answered, Welcomed, Transfers
  <2>2. ~ c.isConnected
    BY <1>9 DEF Settled, HeadIn
  <2>3. /\ Typed(e) /\ e.queue = <<>> /\ e.trash = <<>> /\ e.cwd = None /\ e.mode = None
        /\ e.data = None /\ ~ e.isConnected /\ e.conn = "open" /\ e.polls = 0
        /\ e.known = c.known /\ e.legitClose = c.legitClose
    <3>1. Typed(Cleanup(b))
      BY <1>5, CleanupTypes
    <3> QED BY <1>5, <2>2, <3>1 DEF Cleanup, Typed, IsClient
  <2> HIDE DEF e
  <2>4. Onward(w, e, d)
    BY <2>3, NextContext
  <2>5. /\ d.queue = <<>> /\ d.trash = <<>> /\ d.cwd = None /\ d.mode = None
        /\ d.data = None /\ ~ d.isConnected /\ d.conn = "open" /\ d.polls = 0
        /\ d.known = c.known /\ d.legitClose = c.legitClose
    BY <2>3, <2>4 DEF Onward
  <2> HIDE DEF d
  <2>6. Recoverable(w, d) /\ LoginFirst(d.queue) /\ \A S : ~ HeadIn(d.queue, S)
    BY <2>5, NothingToDo
  <2>7. Settled(d)
    BY <2>5, <2>6 DEF Settled
  <2>8. Holds(d)
    BY <2>5, <2>6, <2>7 DEF Holds, Well, Doomed, Entering
  <2> QED BY <1>4, <2>1, <2>8 DEF Holds
<1>10. CASE h.cmd = "welcome" /\ code = 2
  <2> DEFINE y == Cmd("USER", None, 0)
             q == <<y>> \o t
             e == [b EXCEPT !.isConnected = TRUE, !.isReconnecting = FALSE,
                            !.reconnectsLeft = Attempts, !.queue = q]
  <2>1. Answered(b, h, code, size) = NextCommand(e)
    BY <1>5, <1>10 DEF Answered, Welcomed, Transfers
  <2>2. y \in Command /\ y.cmd = "USER"
    BY InternalCommands DEF Cmd
  <2> HIDE DEF y
  <2>3. q \in Seq(Command)
    BY <1>1, <2>2, Before1
  <2> HIDE DEF q
  <2>4. /\ Typed(e) /\ e.queue = q /\ e.trash = c.trash /\ e.cwd = c.cwd
        /\ e.isConnected /\ e.conn = b.conn /\ e.polls = b.polls /\ e.mode = b.mode
        /\ e.data = b.data /\ e.known = b.known /\ e.legitClose = b.legitClose
    <3>1. Attempts \in 0 .. Attempts
      BY RequestTypes
    <3> QED BY <1>5, <2>3, <3>1 DEF Typed, IsClient
  <2> HIDE DEF e
  <2>5. Holds(NextCommand(e))
    BY <1>8, <2>2, <2>4 DEF q
  <2> QED BY <1>4, <2>1, <2>5 DEF Holds
<1>11. h.cmd # "welcome" => c.isConnected
  BY DEF Settled, HeadIn, Login
<1>12. CASE h.cmd = "USER" /\ code = 3
  <2> DEFINE y == Cmd("PASS", None, 0)
             q == <<y>> \o t
             e == [b EXCEPT !.queue = q]
  <2>1. Answered(b, h, code, size) = NextCommand(e)
    BY <1>5, <1>12 DEF Answered, LoginAnswered, Transfers
  <2>2. y \in Command /\ y.cmd = "PASS"
    BY InternalCommands DEF Cmd
  <2> HIDE DEF y
  <2>3. q \in Seq(Command)
    BY <1>1, <2>2, Before1
  <2> HIDE DEF q
  <2>4. /\ Typed(e) /\ e.queue = q /\ e.trash = c.trash /\ e.cwd = c.cwd
        /\ e.isConnected /\ e.conn = b.conn /\ e.polls = b.polls /\ e.mode = b.mode
        /\ e.data = b.data /\ e.known = b.known /\ e.legitClose = b.legitClose
    BY <1>5, <1>11, <1>12, <2>3 DEF Typed, IsClient
  <2> HIDE DEF e
  <2>5. Holds(NextCommand(e))
    BY <1>8, <2>2, <2>4 DEF q
  <2> QED BY <1>4, <2>1, <2>5 DEF Holds
<1>13. CASE h.cmd \in {"USER", "PASS"} /\ code # 2 /\ ~ (h.cmd = "USER" /\ code = 3)
  <2> DEFINE a == Cleanup(b)
             e == [a EXCEPT !.isConnected = FALSE]
             d == Kill(e)
  <2>1. Answered(b, h, code, size) = d
    BY <1>13 DEF Answered, LoginAnswered, Transfers
  <2>2. /\ Typed(a) /\ a.queue = <<>> /\ a.trash = <<>> /\ a.cwd = None /\ a.mode = None
        /\ a.data = None /\ a.conn = "open" /\ a.polls = 0
        /\ a.known = c.known /\ a.legitClose = c.legitClose /\ a.ctl = None /\ a.dat = None
    <3>1. Typed(Cleanup(b))
      BY <1>5, CleanupTypes
    <3> QED BY <1>5, <3>1 DEF Cleanup, Typed, IsClient
  <2> HIDE DEF a
  <2>3. /\ d.queue = <<>> /\ d.trash = <<>> /\ d.cwd = None /\ d.mode = None
        /\ d.data = None /\ ~ d.isConnected /\ d.conn = "closing" /\ d.polls = 0
        /\ d.known = c.known /\ d.legitClose = c.legitClose /\ d.ctl = None /\ d.dat = None
    BY <2>2 DEF Kill, Typed, IsClient
  <2> HIDE DEF d
  <2>4. Recoverable(w, d) /\ LoginFirst(d.queue) /\ \A S : ~ HeadIn(d.queue, S)
    BY <2>3, NothingToDo
  <2>5. Settled(d)
    BY <2>3, <2>4 DEF Settled
  <2>6. Holds(d)
    BY <2>3, <2>4, <2>5 DEF Holds, Well
  <2> QED BY <1>4, <2>1, <2>6 DEF Holds
<1>14. CASE h.cmd = "PASS" /\ code = 2
  <2> DEFINE d == LoggedIn(b)
  <2>1. Answered(b, h, code, size) = d
    BY <1>14 DEF Answered, LoginAnswered, Transfers
  <2>2. Orderly(w, b)
    <3>1. Line(w, c.report, t)
      BY <1>1, <1>3, TailOrder DEF t, Orderly
    <3> QED BY <1>5, <3>1 DEF Orderly
  <2>3. Recoverable(w, b)
    BY <1>5, <1>6, <1>7 DEF Recoverable
  <2>4. NoLogin(b.queue) /\ (b.known \/ b.legitClose)
    BY <1>2, <1>5
  <2> HIDE DEF w
  <2>5. /\ Recoverable(w, d) /\ NoLogin(d.queue) /\ d.conn = b.conn /\ d.polls = b.polls
        /\ d.isConnected = b.isConnected /\ ~ d.legitClose /\ d.known
        /\ d.mode = None /\ d.data = None
        /\ Sound(w, d.queue, Seat(Root, "A", None))
        /\ d.cwd \in {Root, None} \/
           (d.queue # <<>> /\ Head(d.queue).cmd = "RNTO"
            /\ d.isReady = b.isReady /\ d.sent = b.sent)
    BY <1>5, <2>2, <2>3, <2>4, LoggedInTaken
  <2>6. d.queue \in Seq(Command)
    BY <1>5, LoggedInTypes DEF Typed
  <2> HIDE DEF d
  <2>7. ~ HeadIn(d.queue, Login)
    <3>1. d.queue # <<>> => 1 \in 1 .. Len(d.queue) /\ Head(d.queue) = d.queue[1]
      BY <2>6, FirstOf
    <3> QED BY <2>5, <3>1 DEF NoLogin, HeadIn
  <2>8. ~ HeadIn(d.queue, {"USER", "PASS"}) /\ ~ HeadIn(d.queue, {"welcome"})
    BY <2>7 DEF HeadIn, Login
  <2>9. c.isConnected /\ ~ c.isReady
    BY <1>11, <1>14
  <2>10. Settled(d) /\ ~ Entering(d)
    BY <1>5, <2>5, <2>8, <2>9 DEF Settled, Entering, LoginFirst, NoLogin
  <2>11. Holds(d)
    BY <1>5, <1>14, <2>5, <2>9, <2>10 DEF Holds, Well, Doomed, HeadIn
  <2> QED BY <1>4, <2>1, <2>11 DEF Holds, w
<1>15. h.cmd \in {"welcome", "USER", "PASS"}
  BY DEF Login
<1> QED BY <1>9, <1>10, <1>12, <1>13, <1>14, <1>15

----------------------------------------------------------------------------
(***************************************************************************)
(* What is asked for.                                                      *)
(***************************************************************************)
LEMMA ThreeOf ==
    ASSUME NEW S, NEW x \in S, NEW y \in S, NEW z \in S PROVE <<x>> \o <<y, z>> = <<x, y, z>>
<1> DEFINE a == <<x>>
           b == <<y, z>>
           c == <<x, y, z>>
<1>1. /\ a \in Seq(S) /\ b \in Seq(S) /\ c \in Seq(S) /\ Len(a) = 1 /\ Len(b) = 2 /\ Len(c) = 3
      /\ a[1] = x /\ b[1] = y /\ b[2] = z /\ c[1] = x /\ c[2] = y /\ c[3] = z
  OBVIOUS
<1> HIDE DEF a, b, c
<1>2. /\ a \o b \in Seq(S) /\ Len(a \o b) = 3 /\ (a \o b)[1] = x
      /\ (a \o b)[2] = b[1] /\ (a \o b)[3] = b[2]
  <2>1. /\ a \o b \in Seq(S) /\ Len(a \o b) = Len(a) + Len(b)
        /\ \A i \in 1 .. Len(a) + Len(b) :
             (a \o b)[i] = IF i <= Len(a) THEN a[i] ELSE b[i - Len(a)]
    <3>1. a \in Seq(S) /\ b \in Seq(S)
      BY <1>1
    <3> QED BY <3>1, ConcatProperties
  <2> DEFINE d == a \o b
  <2> HIDE DEF d
  <2>2. Len(d) = 3 /\ d[1] = x /\ d[2] = b[1] /\ d[3] = b[2]
    BY <1>1, <2>1 DEF d
  <2> QED BY <1>1, <2>1, <2>2 DEF d
<1>3. \A k \in 1 .. 3 : k = 1 \/ k = 2 \/ k = 3
  OBVIOUS
<1>4. \A k \in 1 .. Len(c) : c[k] = (a \o b)[k]
  BY <1>1, <1>2, <1>3
<1>5. c = a \o b
  BY <1>1, <1>2, <1>4, SeqEqual
<1> QED BY <1>5 DEF a, b, c

LEMMA FourOf ==
    ASSUME NEW S, NEW x \in S, NEW y \in S, NEW z \in S, NEW u \in S
    PROVE  <<x, y>> \o <<z, u>> = <<x, y, z, u>>
<1> DEFINE a == <<x, y>>
           b == <<z, u>>
           c == <<x, y, z, u>>
<1>1. /\ a \in Seq(S) /\ b \in Seq(S) /\ c \in Seq(S) /\ Len(a) = 2 /\ Len(b) = 2 /\ Len(c) = 4
      /\ a[1] = x /\ a[2] = y /\ b[1] = z /\ b[2] = u
      /\ c[1] = x /\ c[2] = y /\ c[3] = z /\ c[4] = u
  OBVIOUS
<1> HIDE DEF a, b, c
<1>2. /\ a \o b \in Seq(S) /\ Len(a \o b) = 4 /\ (a \o b)[1] = x /\ (a \o b)[2] = y
      /\ (a \o b)[3] = b[1] /\ (a \o b)[4] = b[2]
  <2>1. /\ a \o b \in Seq(S) /\ Len(a \o b) = Len(a) + Len(b)
        /\ \A i \in 1 .. Len(a) + Len(b) :
             (a \o b)[i] = IF i <= Len(a) THEN a[i] ELSE b[i - Len(a)]
    <3>1. a \in Seq(S) /\ b \in Seq(S)
      BY <1>1
    <3> QED BY <3>1, ConcatProperties
  <2> DEFINE d == a \o b
  <2> HIDE DEF d
  <2>2. Len(d) = 4 /\ d[1] = x /\ d[2] = y /\ d[3] = b[1] /\ d[4] = b[2]
    BY <1>1, <2>1 DEF d
  <2> QED BY <2>1, <2>2 DEF d
<1>3. \A k \in 1 .. 4 : k = 1 \/ k = 2 \/ k = 3 \/ k = 4
  OBVIOUS
<1>4. \A k \in 1 .. Len(c) : c[k] = (a \o b)[k]
  BY <1>1, <1>2, <1>3
<1>5. c = a \o b
  BY <1>1, <1>2, <1>4, SeqEqual
<1> QED BY <1>5 DEF a, b, c

\* The commands of a request set all that it needs, whatever comes before them.
LEMMA CommandsSound ==
    ASSUME NEW r \in Requests, NEW a \in Wishes, NEW w, w[r] = a
    PROVE  Sound(w, Commands(r, a), {}) /\ NoLogin(Commands(r, a))
<1> DEFINE C(cmd, arg) == Cmd(cmd, arg, r)
           K == <<"CWD", a.dir>>
           A == <<"TYPE", "A">>
           I == <<"TYPE", "I">>
           P == <<"PASV", r>>
           Good(q) == q \in Seq(Plain) /\ q \in Seq(Command) /\ Sound(w, q, {})
           Goes(q, s, t) == q \in Seq(Plain) /\ q \in Seq(Command) /\ Leads(w, q, s, t)
<1>1. /\ a.dir \in Dirs /\ a.resume \in BOOLEAN /\ a.kind \in Kinds
      /\ \A cmd, arg : C(cmd, arg).cmd = cmd /\ C(cmd, arg).req = r /\ C(cmd, arg).arg = arg
  BY DEF Wishes, Cmd
<1>a. /\ C("CWD", a.dir) \in Command
      /\ C("TYPE", "A") \in Command /\ C("TYPE", "I") \in Command
      /\ C("SIZE", "APPE") \in Command
      /\ C("REST", 1) \in Command /\ C("APPE", 1) \in Command
      /\ C("RETR", None) \in Command /\ C("STOR", None) \in Command
  BY <1>1, CommandTypes DEF CmdNames
<1>b. /\ C("MKD", None) \in Command /\ C("DELE", None) \in Command
      /\ C("RNFR", None) \in Command /\ C("RNTO", None) \in Command
      /\ C("PASV", None) \in Command /\ C("LIST", None) \in Command
      /\ C("transferEnd", None) \in Command
  BY PlainCommand DEF CmdNames
<1> HIDE DEF C
<1>2. ASSUME NEW x \in Command, x.cmd \notin Login, NEW s, NEW t, May(w, s, x), t \subseteq Leave(s, x)
      PROVE  Goes(<<x>>, s, t)
  <2>1. x \in Plain
    BY <1>2 DEF Plain
  <2> QED BY <1>2, <2>1, OneCommand
<1>3. ASSUME NEW p, NEW q, NEW s, NEW t, NEW u, Goes(p, s, t), Goes(q, t, u)
      PROVE  Goes(p \o q, s, u)
  <2>1. p \o q \in Seq(Plain)
    BY <1>3, ConcatProperties
  <2>2. p \o q \in Seq(Command)
    BY <1>3, ConcatProperties
  <2> QED BY <1>3, <2>1, <2>2, Joined
<1>4. ASSUME NEW s, NEW x \in Command, x.cmd \in {"CWD", "TYPE", "PASV", "REST", "SIZE", "transferEnd"}
      PROVE  May(w, s, x) /\ x.cmd \notin Login
  BY <1>4 DEF May, Carrying, Transfers, Login
<1>5. ASSUME NEW x \in Command, x.cmd = "CWD", x.arg = a.dir
      PROVE  Goes(<<x>>, {}, {K}) /\ Goes(<<x>>, {A}, {A, K})
  <2>1. \A s : Leave(s, x) = {b \in s : b # <<"TYPE", "I">> /\ b[1] # "CWD"} \cup {K}
    BY <1>5, WhatIsLeft
  <2>2. {K} \subseteq Leave({}, x) /\ {A, K} \subseteq Leave({A}, x)
    BY <2>1
  <2> HIDE DEF Goes, A, K
  <2> QED BY <1>2, <1>4, <1>5, <2>2
<1>6. ASSUME NEW x \in Command, x.cmd = "TYPE"
      PROVE  (x.arg = "I" => Goes(<<x>>, {K}, {K, I})) /\ (x.arg = "A" => Goes(<<x>>, {}, {A}))
  <2>1. \A s : Leave(s, x) = {b \in s : b # <<"TYPE", "I">> /\ b[1] # "TYPE"} \cup {<<"TYPE", x.arg>>}
    BY <1>6, WhatIsLeft
  <2>2. (x.arg = "I" => {K, I} \subseteq Leave({K}, x)) /\ (x.arg = "A" => {A} \subseteq Leave({}, x))
    BY <2>1
  <2> HIDE DEF Goes, A, K, I
  <2> QED BY <1>2, <1>4, <1>6, <2>2
<1>7. ASSUME NEW x \in Command, x.cmd = "PASV", NEW s
      PROVE  Goes(<<x>>, s, s \cup {P})
  <2>1. s \cup {P} \subseteq Leave(s, x)
    BY <1>7, WhatIsLeft DEF Serves
  <2> HIDE DEF Goes, P
  <2> QED BY <1>2, <1>4, <1>7, <2>1
<1>8. ASSUME NEW x \in Command, x.cmd \in {"REST", "SIZE"}, NEW s
      PROVE  Goes(<<x>>, s, s)
  <2>1. Leave(s, x) = s
    BY <1>8, WhatIsLeft
  <2> HIDE DEF Goes
  <2> QED BY <1>2, <1>4, <1>8, <2>1
<1>9. ASSUME NEW x \in Command, x.cmd \in Carrying, x.req = r, NEW s,
             a.kind # "rename" => K \in s, a.kind = "list" => A \in s,
             a.kind \in {"download", "upload"} => I \in s /\ x.cmd \in Carriers,
             x.cmd \in Carriers => P \in s
      PROVE  Goes(<<x>>, s, {})
  <2>1. x.cmd \notin Login /\ x.cmd # "PWD"
    BY <1>9 DEF Carrying, Transfers, Login
  <2>2. May(w, s, x)
    BY <1>9, <2>1 DEF May
  <2> HIDE DEF Goes
  <2> QED BY <1>2, <2>1, <2>2
<1>10. ASSUME NEW x \in Command, x.cmd \in {"transferEnd", "RNFR"}
       PROVE  Goes(<<x>>, {}, {})
  <2>1. x.cmd \notin Login /\ May(w, {}, x)
    BY <1>10 DEF May, Carrying, Transfers, Login
  <2> HIDE DEF Goes
  <2> QED BY <1>2, <2>1
<1>11. {"RETR", "STOR", "APPE"} = Carriers /\ {"RETR", "STOR", "APPE", "MKD", "DELE", "RNTO", "LIST"} = Carrying
       /\ "LIST" \notin Carriers
  BY DEF Carriers, Carrying, Transfers
<1> HIDE DEF Goes, K, A, I, P
<1>12. CASE a.kind = "cd"
  <2>1. Commands(r, a) = <<C("CWD", a.dir)>>
    BY <1>12 DEF Commands, C
  <2>2. Goes(<<C("CWD", a.dir)>>, {}, {K})
    BY <1>1, <1>5, <1>a
  <2>3. Leads(w, <<C("CWD", a.dir)>>, {}, {})
    BY <2>2, Weaker DEF Goes
  <2> QED BY <2>1, <2>2, <2>3, PlainSeq DEF Goes, Sound
<1>13. CASE a.kind \in {"mkdir", "remove"}
  <2>1. PICK cmd \in {"MKD", "DELE"} : Commands(r, a) = <<C("CWD", a.dir), C(cmd, None)>>
    BY <1>13 DEF Commands, C
  <2> DEFINE x == C("CWD", a.dir)
             y == C(cmd, None)
  <2>2. x \in Command /\ y \in Command /\ y.req = r /\ y.cmd \in {"MKD", "DELE"}
    BY <1>1, <1>a, <1>b
  <2>3. Goes(<<x>>, {}, {K})
    BY <1>1, <1>5, <1>a
  <2>4. Goes(<<y>>, {K}, {})
    <3>1. y.cmd \in Carrying /\ y.cmd \notin Carriers
      BY <1>11, <2>2
    <3> HIDE DEF y
    <3> QED BY <1>9, <1>13, <2>2, <3>1
  <2>5. <<x, y>> = <<x>> \o <<y>>
    BY <2>2, TwoOf
  <2>6. Goes(<<x>> \o <<y>>, {}, {})
    BY <1>3, <2>3, <2>4
  <2> QED BY <2>1, <2>5, <2>6, PlainSeq DEF Goes, Sound
<1>14. CASE a.kind = "rename"
  <2> DEFINE x == C("RNFR", None)
             y == C("RNTO", None)
  <2>1. Commands(r, a) = <<x, y>>
    BY <1>14 DEF Commands, C
  <2>2. x \in Command /\ y \in Command /\ y.req = r /\ y.cmd = "RNTO" /\ x.cmd = "RNFR"
    BY <1>1, <1>b
  <2>3. Goes(<<x>>, {}, {})
    BY <1>10, <2>2
  <2>4. Goes(<<y>>, {}, {})
    <3>1. y.cmd \in Carrying /\ y.cmd \notin Carriers
      BY <1>11, <2>2
    <3> HIDE DEF y
    <3> QED BY <1>9, <1>14, <2>2, <3>1
  <2>5. <<x, y>> = <<x>> \o <<y>>
    BY <2>2, TwoOf
  <2>6. Goes(<<x>> \o <<y>>, {}, {})
    BY <1>3, <2>3, <2>4
  <2> QED BY <2>1, <2>5, <2>6, PlainSeq DEF Goes, Sound
<1>15. CASE a.kind = "list"
  <2> DEFINE x == C("TYPE", "A")
             y == C("CWD", a.dir)
             z == C("PASV", None)
             u == C("LIST", None)
  <2>1. Commands(r, a) = <<x, y, z, u>>
    BY <1>15 DEF Commands, C
  <2>2. /\ x \in Command /\ y \in Command /\ z \in Command /\ u \in Command
        /\ x.cmd = "TYPE" /\ x.arg = "A" /\ y.cmd = "CWD" /\ y.arg = a.dir
        /\ z.cmd = "PASV" /\ u.cmd = "LIST" /\ u.req = r
    BY <1>1, <1>a, <1>b
  <2> HIDE DEF x, y, z, u
  <2>3. Goes(<<x>>, {}, {A}) /\ Goes(<<y>>, {A}, {A, K}) /\ Goes(<<z>>, {A, K}, {A, K} \cup {P})
    BY <1>5, <1>6, <1>7, <2>2
  <2>4. Goes(<<u>>, {A, K} \cup {P}, {})
    <3>1. u.cmd \in Carrying /\ u.cmd \notin Carriers
      BY <1>11, <2>2
    <3> QED BY <1>9, <1>15, <2>2, <3>1
  <2>5. Goes(<<x>> \o <<y>>, {}, {A, K})
    BY <1>3, <2>3
  <2>6. Goes(<<z>> \o <<u>>, {A, K}, {})
    BY <1>3, <2>3, <2>4
  <2>7. <<x, y>> = <<x>> \o <<y>> /\ <<z, u>> = <<z>> \o <<u>> /\ <<x, y, z, u>> = <<x, y>> \o <<z, u>>
    <3>1. <<x, y>> = <<x>> \o <<y>> /\ <<z, u>> = <<z>> \o <<u>>
      BY <2>2, TwoOf
    <3>2. <<x, y, z, u>> = <<x, y>> \o <<z, u>>
      BY <2>2, FourOf
    <3> QED BY <3>1, <3>2
  <2>8. Goes(<<x, y>> \o <<z, u>>, {}, {})
    BY <1>3, <2>5, <2>6, <2>7
  <2> QED BY <2>1, <2>7, <2>8, PlainSeq DEF Goes, Sound
<1>16. CASE a.kind = "download"
  <2> DEFINE x == C("CWD", a.dir)
             y == C("TYPE", "I")
             z == C("PASV", None)
             u == C("REST", 1)
             v == C("RETR", None)
             e == C("transferEnd", None)
             rest == IF a.resume THEN <<u>> ELSE <<>>
             s == {K, I} \cup {P}
  <2>1. Commands(r, a) = <<x, y, z>> \o rest \o <<v, e>>
    BY <1>16 DEF Commands, C
  <2>2. /\ x \in Command /\ y \in Command /\ z \in Command /\ u \in Command
        /\ v \in Command /\ e \in Command
        /\ x.cmd = "CWD" /\ x.arg = a.dir /\ y.cmd = "TYPE" /\ y.arg = "I"
        /\ z.cmd = "PASV" /\ u.cmd = "REST" /\ v.cmd = "RETR" /\ v.req = r
        /\ e.cmd = "transferEnd"
    BY <1>1, <1>a, <1>b
  <2> HIDE DEF x, y, z, u, v, e
  <2>3. Goes(<<x>>, {}, {K}) /\ Goes(<<y>>, {K}, {K, I}) /\ Goes(<<z>>, {K, I}, s)
    BY <1>5, <1>6, <1>7, <2>2
  <2>4. Goes(<<v>>, s, {}) /\ Goes(<<e>>, {}, {})
    <3>1. v.cmd \in Carrying /\ v.cmd \in Carriers
      BY <1>11, <2>2
    <3> QED BY <1>9, <1>10, <1>16, <2>2, <3>1
  <2>5. Goes(rest, s, s)
    <3>1. Goes(<<u>>, s, s)
      BY <1>8, <2>2
    <3>2. Goes(<<>>, s, s)
      <4>1. <<>> \in Seq(Plain) /\ <<>> \in Seq(Command)
        OBVIOUS
      <4> QED BY <4>1, NoCommand DEF Goes
    <3> QED BY <3>1, <3>2
  <2> HIDE DEF rest, s
  <2>6. Goes(<<y>> \o <<z>>, {K}, s) /\ Goes(<<v>> \o <<e>>, s, {})
    BY <1>3, <2>3, <2>4
  <2>7. /\ <<y, z>> = <<y>> \o <<z>> /\ <<v, e>> = <<v>> \o <<e>>
        /\ <<x, y, z>> = <<x>> \o <<y, z>>
    BY <2>2, TwoOf, ThreeOf
  <2>8. Goes(<<x, y, z>>, {}, s)
    BY <1>3, <2>3, <2>6, <2>7
  <2>9. Goes(<<x, y, z>> \o rest, {}, s)
    BY <1>3, <2>5, <2>8
  <2>10. Goes(<<x, y, z>> \o rest \o <<v, e>>, {}, {})
    BY <1>3, <2>6, <2>7, <2>9
  <2> QED BY <2>1, <2>10, PlainSeq DEF Goes, Sound
<1>17. CASE a.kind = "upload"
  <2> DEFINE x == C("CWD", a.dir)
             y == C("TYPE", "I")
             u == C("SIZE", "APPE")
             z == C("PASV", None)
             v == IF a.resume THEN C("APPE", 1) ELSE C("STOR", None)
             e == C("transferEnd", None)
             size == IF a.resume THEN <<u>> ELSE <<>>
             s == {K, I}
  <2>1. Commands(r, a) = <<x, y>> \o size \o <<z, v, e>>
    BY <1>17 DEF Commands, C
  <2>2. /\ x \in Command /\ y \in Command /\ z \in Command /\ u \in Command
        /\ v \in Command /\ e \in Command
        /\ x.cmd = "CWD" /\ x.arg = a.dir /\ y.cmd = "TYPE" /\ y.arg = "I"
        /\ z.cmd = "PASV" /\ u.cmd = "SIZE" /\ v.cmd \in {"APPE", "STOR"} /\ v.req = r
        /\ e.cmd = "transferEnd"
    BY <1>1, <1>a, <1>b
  <2> HIDE DEF x, y, z, u, v, e
  <2>3. Goes(<<x>>, {}, {K}) /\ Goes(<<y>>, {K}, s) /\ Goes(<<z>>, s, s \cup {P})
    BY <1>5, <1>6, <1>7, <2>2
  <2>4. Goes(<<v>>, s \cup {P}, {}) /\ Goes(<<e>>, {}, {})
    <3>1. v.cmd \in Carrying /\ v.cmd \in Carriers
      BY <1>11, <2>2
    <3> QED BY <1>9, <1>10, <1>17, <2>2, <3>1
  <2>5. Goes(size, s, s)
    <3>1. Goes(<<u>>, s, s)
      BY <1>8, <2>2
    <3>2. Goes(<<>>, s, s)
      <4>1. <<>> \in Seq(Plain) /\ <<>> \in Seq(Command)
        OBVIOUS
      <4> QED BY <4>1, NoCommand DEF Goes
    <3> QED BY <3>1, <3>2
  <2> HIDE DEF size, s
  <2>6. Goes(<<x>> \o <<y>>, {}, s) /\ Goes(<<v>> \o <<e>>, s \cup {P}, {})
    BY <1>3, <2>3, <2>4
  <2>7. /\ <<x, y>> = <<x>> \o <<y>> /\ <<v, e>> = <<v>> \o <<e>>
        /\ <<z, v, e>> = <<z>> \o <<v, e>>
    BY <2>2, TwoOf, ThreeOf
  <2>8. Goes(<<z, v, e>>, s, {})
    BY <1>3, <2>3, <2>6, <2>7
  <2>9. Goes(<<x, y>> \o size, {}, s)
    BY <1>3, <2>5, <2>6, <2>7
  <2>10. Goes(<<x, y>> \o size \o <<z, v, e>>, {}, {})
    BY <1>3, <2>8, <2>9
  <2> QED BY <2>1, <2>10, PlainSeq DEF Goes, Sound
<1>18. a.kind \in {"cd", "mkdir", "remove", "rename", "list", "download", "upload"}
  BY <1>1, FtpAssumption
<1> QED BY <1>12, <1>13, <1>14, <1>15, <1>16, <1>17, <1>18

----------------------------------------------------------------------------
(***************************************************************************)
(* Where things are carried out, if the user and the network are           *)
(* considerate and no directory is refused.                                *)
(***************************************************************************)
\* The reply to such a command is on its way.
Pending(cmd) == \E n \in 1 .. Len(replies) : replies[n].to.cmd = cmd

\* What the client cannot recover stops it, until the connection is closed.
Stuck ==
    HeadIn(ftp.queue, {"RNTO"}) /\ ~ ftp.isReady /\ ftp.polls = 0 /\ Silent

\* The session is where it has begun, or where the client takes it to be.
Session ==
    /\ IF Entering(ftp) THEN srv.cwd = Root /\ srv.mode = "A"
       ELSE /\ srv.user = "in"
            /\ Sound(asked, ftp.queue, Seat(srv.cwd, srv.mode, ftp.data))
            /\ \/ Stuck
               \/ /\ ftp.cwd \in {srv.cwd, None} \/ Pending("CWD")
                  /\ ftp.mode \in {srv.mode, None} \/ Pending("TYPE")
    /\ \A n \in 1 .. Len(replies) :
         LET x == replies[n].to
             code == replies[n].code
         IN /\ x.cmd \in {"CWD", "TYPE"} =>
                 /\ code = 2 /\ Head(ftp.queue) = x
                 /\ x.arg = IF x.cmd = "CWD" THEN srv.cwd ELSE srv.mode
            /\ x.cmd = "USER" => code # 2
            /\ x.cmd = "PASS" /\ code = 2 => srv.user = "in"

Wished == \A e \in executed : e.req \in Requests /\ asked[e.req] # None

ContextInv ==
    /\ Well(asked, ftp) /\ (ftp.conn = "open" => Session)
    /\ Wished /\ CarriedOutInContext

\* No connection is lost while the client logs in, and directories are there.
Certain == {"noCwd", "loginLost"} \cap Env = {}

LEMMA ContextInit ==
    ASSUME Init PROVE ContextInv
<1>1. /\ ftp.queue = <<>> /\ ftp.trash = <<>> /\ ftp.cwd = None /\ ftp.mode = None
      /\ ftp.data = None /\ ftp.conn = "none" /\ ~ ftp.isConnected /\ ftp.polls = 0
      /\ ftp.legitClose
  BY DEF Init
<1>2. Recoverable(asked, ftp) /\ LoginFirst(ftp.queue) /\ \A S : ~ HeadIn(ftp.queue, S)
  BY <1>1, NothingToDo
<1>3. Settled(ftp)
  BY <1>1, <1>2 DEF Settled
<1>4. Well(asked, ftp)
  BY <1>1, <1>2, <1>3 DEF Well, Doomed
<1>5. executed = {}
  BY DEF Init
<1> QED BY <1>1, <1>4, <1>5 DEF ContextInv, Wished, CarriedOutInContext

\* Nothing is carried out.
LEMMA NothingCarried ==
    ASSUME ContextInv, UNCHANGED <<asked, executed>>
    PROVE  Wished' /\ CarriedOutInContext'
  BY DEF ContextInv, Wished, CarriedOutInContext

\* Nothing is left to be said while there is no login at the head.
LEMMA LoginIsFirst ==
    ASSUME NEW q \in Seq(Command), LoginFirst(q), ~ HeadIn(q, Login)
    PROVE  NoLogin(q)
<1>1. q # <<>> => Head(q) = q[1]
  BY FirstOf
<1>2. Len(q) \in Nat /\ (Len(q) # 0 => q # <<>>)
  BY Elements
<1> QED BY <1>1, <1>2 DEF LoginFirst, NoLogin, HeadIn

\* One command, and commands that do not log in.
LEMMA LoginFirstAgain ==
    ASSUME NEW x \in Command, NEW q \in Seq(Command), NoLogin(q)
    PROVE  LoginFirst(<<x>> \o q)
<1>1. Len(<<x>>) = 1 /\ <<x>> \in Seq(Command) /\ Len(q) \in Nat
  BY Elements
<1> DEFINE p == <<x>>
           t == p \o q
<1> HIDE DEF p
<1>2. /\ Len(t) = Len(p) + Len(q)
      /\ \A i \in 1 .. Len(p) + Len(q) : t[i] = IF i <= Len(p) THEN p[i] ELSE q[i - Len(p)]
  BY <1>1, ConcatProperties DEF p
<1> HIDE DEF t
<1>3. \A k \in 1 .. Len(t) : k # 1 => k - 1 \in 1 .. Len(q) /\ t[k] = q[k - 1]
  BY <1>1, <1>2 DEF p
<1>4. LoginFirst(t)
  BY <1>3 DEF LoginFirst, NoLogin
<1> QED BY <1>4 DEF t, p

\* The client connects.
LEMMA ConnectingWell ==
    ASSUME NEW w, NEW c, Typed(c), Well(w, c), c.conn = "none", ~ c.isConnected, c.polls = 0
    PROVE  Well(w, Connecting(c)) /\ Connecting(c).conn = "opening"
<1> DEFINE x == Cmd("welcome", None, 0)
           first == c.queue # <<>> /\ Head(c.queue).cmd = "welcome"
           q == IF first THEN c.queue ELSE <<x>> \o c.queue
           d == Connecting(c)
<1>1. /\ c.queue \in Seq(Command) /\ Settled(c) /\ Recoverable(w, c)
      /\ c.known \/ c.legitClose
  BY DEF Well, Doomed, Typed
<1>2. x \in Command /\ x.cmd = "welcome"
  BY InternalCommands DEF Cmd
<1> HIDE DEF x
<1>3. ~ first => NoLogin(c.queue)
  <2>1. ~ HeadIn(c.queue, {"USER", "PASS"}) /\ LoginFirst(c.queue)
    BY <1>1 DEF Settled
  <2>2. ~ first => ~ HeadIn(c.queue, Login)
    BY <2>1 DEF HeadIn, Login
  <2> QED BY <1>1, <2>1, <2>2, LoginIsFirst
<1>4. LoginFirst(q)
  BY <1>1, <1>2, <1>3, LoginFirstAgain DEF Settled
<1>5. HeadIn(q, {"welcome"}) /\ ~ HeadIn(q, {"USER", "PASS"})
  BY <1>1, <1>2, Before1 DEF HeadIn
<1>6. \A u : Sound(w, c.queue, u) => Sound(w, q, u)
  <2> SUFFICES ASSUME NEW u, Sound(w, c.queue, u) PROVE Sound(w, <<x>> \o c.queue, u)
    OBVIOUS
  <2>1. May(w, u, x)
    BY <1>2 DEF May, Carrying, Transfers
  <2>2. Leave(u, x) = u
    BY <1>2, WhatIsLeft DEF Login
  <2> QED BY <1>1, <1>2, <2>1, <2>2, FrontSound
<1>7. d = [c EXCEPT !.conn = "opening", !.sent = <<>>, !.ctl = None, !.dat = None, !.queue = q]
  BY DEF Connecting, x
<1> HIDE DEF q
<1>8. /\ d.queue = q /\ d.trash = c.trash /\ d.cwd = c.cwd /\ d.mode = c.mode /\ d.data = c.data
      /\ d.conn = "opening" /\ d.polls = 0 /\ d.known = c.known /\ d.legitClose = c.legitClose
      /\ ~ d.isConnected
  BY <1>7 DEF Typed, IsClient
<1> HIDE DEF d
<1>9. Recoverable(w, d)
  BY <1>1, <1>6, <1>8 DEF Recoverable
<1>10. Settled(d)
  BY <1>1, <1>4, <1>5, <1>8 DEF Settled
<1>11. Well(w, d)
  BY <1>1, <1>8, <1>9, <1>10 DEF Well, Doomed
<1> QED BY <1>8, <1>11 DEF d

LEMMA ConnectContext ==
    ASSUME TypeInv, ContextInv, Connect \/ Reconnect
    PROVE  ContextInv'
<1>1. Typed(ftp) /\ Attempting /\ Well(asked, ftp)
  BY DEF TypeInv, ContextInv
<1>2. Wished' /\ CarriedOutInContext'
  BY NothingCarried DEF Connect, Reconnect
<1>3. ftp.conn = "none" /\ ~ ftp.isConnected /\ ftp.polls = 0
  BY <1>1, RequestTypes DEF Connect, Reconnect, Attempting, Typed
<1>4. asked' = asked
  BY DEF Connect, Reconnect
<1>5. ASSUME NEW c, Typed(c), ftp' = Connecting(c), c.conn = "none", ~ c.isConnected, c.polls = 0,
             c.queue = ftp.queue, c.trash = ftp.trash, c.cwd = ftp.cwd, c.mode = ftp.mode,
             c.data = ftp.data, c.known = ftp.known, c.legitClose = ftp.legitClose
      PROVE  ContextInv'
  <2>1. Well(asked, c)
    BY <1>1, <1>3, <1>5 DEF Well, Doomed, Settled, Recoverable
  <2>2. Well(asked, ftp') /\ ftp'.conn = "opening"
    BY <1>5, <2>1, ConnectingWell
  <2> QED BY <1>2, <1>4, <2>2 DEF ContextInv
<1>6. CASE Connect
  <2> DEFINE c == [ftp EXCEPT !.isReconnecting = FALSE, !.reconnectsLeft = Attempts]
  <2>1. ftp' = Connecting(c)
    BY <1>6 DEF Connect
  <2>2. /\ Typed(c) /\ c.conn = "none" /\ ~ c.isConnected /\ c.polls = 0
        /\ c.queue = ftp.queue /\ c.trash = ftp.trash /\ c.cwd = ftp.cwd /\ c.mode = ftp.mode
        /\ c.data = ftp.data /\ c.known = ftp.known /\ c.legitClose = ftp.legitClose
    <3>1. Attempts \in 0 .. Attempts
      BY RequestTypes
    <3> QED BY <1>1, <1>3, <3>1 DEF Typed, IsClient
  <2> HIDE DEF c
  <2> QED BY <1>5, <2>1, <2>2
<1>7. CASE Reconnect
  <2> DEFINE b == [ftp EXCEPT !.retries = ftp.retries - 1]
             c == [b EXCEPT !.reconnectsLeft = b.reconnectsLeft - 1]
  <2>1. IF ftp.isReconnecting THEN ftp' = Connecting(c) ELSE ftp' = b
    BY <1>7 DEF Reconnect
  <2>2. ftp.retries \in Nat /\ ftp.retries > 0 /\ ftp.reconnectsLeft \in 0 .. Attempts
        /\ ftp.reconnectsLeft # 0
    BY <1>1, <1>7 DEF Reconnect, Typed, Attempting
  <2>3. /\ Typed(b) /\ b.conn = "none" /\ ~ b.isConnected /\ b.polls = 0
        /\ b.queue = ftp.queue /\ b.trash = ftp.trash /\ b.cwd = ftp.cwd /\ b.mode = ftp.mode
        /\ b.data = ftp.data /\ b.known = ftp.known /\ b.legitClose = ftp.legitClose
        /\ b.reconnectsLeft = ftp.reconnectsLeft
    BY <1>1, <1>3, <2>2 DEF Typed, IsClient
  <2>4. /\ Typed(c) /\ c.conn = "none" /\ ~ c.isConnected /\ c.polls = 0
        /\ c.queue = ftp.queue /\ c.trash = ftp.trash /\ c.cwd = ftp.cwd /\ c.mode = ftp.mode
        /\ c.data = ftp.data /\ c.known = ftp.known /\ c.legitClose = ftp.legitClose
    <3> HIDE DEF b
    <3>1. ftp.reconnectsLeft - 1 \in 0 .. Attempts
      BY <2>2, RequestTypes
    <3> QED BY <2>3, <3>1 DEF Typed, IsClient
  <2> HIDE DEF b, c
  <2>5. CASE ftp.isReconnecting
    BY <1>5, <2>1, <2>4, <2>5
  <2>6. CASE ~ ftp.isReconnecting
    <3>1. Well(asked, b) /\ ftp' = b
      BY <1>1, <1>3, <2>1, <2>3, <2>6 DEF Well, Doomed, Settled, Recoverable
    <3> QED BY <1>2, <1>4, <2>3, <3>1 DEF ContextInv
  <2> QED BY <2>5, <2>6
<1> QED BY <1>6, <1>7

----------------------------------------------------------------------------
(***************************************************************************)
(* More is asked for.                                                      *)
(***************************************************************************)
LEMMA BothNoLogin ==
    ASSUME NEW p \in Seq(Command), NEW q \in Seq(Command), NoLogin(q)
    PROVE  /\ NoLogin(p) => NoLogin(p \o q)
           /\ LoginFirst(p) /\ p # <<>> => LoginFirst(p \o q)
<1>1. Len(p) \in Nat /\ Len(q) \in Nat /\ (p # <<>> => Len(p) # 0)
  BY Elements
<1> DEFINE t == p \o q
<1>2. /\ Len(t) = Len(p) + Len(q)
      /\ \A i \in 1 .. Len(p) + Len(q) : t[i] = IF i <= Len(p) THEN p[i] ELSE q[i - Len(p)]
  BY ConcatProperties
<1> HIDE DEF t
<1>3. \A k \in 1 .. Len(t) : \/ k \in 1 .. Len(p) /\ t[k] = p[k]
                             \/ k - Len(p) \in 1 .. Len(q) /\ t[k] = q[k - Len(p)]
  BY <1>1, <1>2
<1>4. NoLogin(p) => NoLogin(t)
  BY <1>3 DEF NoLogin
<1>5. LoginFirst(p) /\ p # <<>> => LoginFirst(t)
  BY <1>3 DEF NoLogin, LoginFirst
<1> QED BY <1>4, <1>5 DEF t

\* Commands that need nothing are put at the end of the queue.
LEMMA QueuedContext ==
    ASSUME TypeInv, TalkInv, ContextInv, ftp.isConnected,
           NEW v, asked' = v,
           \A k \in 1 .. Len(ftp.queue) :
             ftp.queue[k].cmd \in Carrying => v[ftp.queue[k].req] = asked[ftp.queue[k].req],
           \A k \in 1 .. Len(ftp.trash) :
             ftp.trash[k].cmd \in Carrying => v[ftp.trash[k].req] = asked[ftp.trash[k].req],
           NEW cs \in Seq(Command), NoLogin(cs), Sound(v, cs, {}),
           NEW e, Typed(e), e.queue = ftp.queue \o cs, e.trash = ftp.trash,
           e.cwd = ftp.cwd, e.mode = ftp.mode, e.data = ftp.data, e.conn = ftp.conn,
           e.polls = ftp.polls, e.isConnected = ftp.isConnected, e.isReady = ftp.isReady,
           e.legitClose = ftp.legitClose, e.known = ftp.known,
           e.ctl = ftp.ctl, e.dat = ftp.dat, e.sent = ftp.sent,
           ftp' = WriteControl(e), UNCHANGED <<replies, srv>>
    PROVE  Well(asked', ftp') /\ (ftp'.conn = "open" => Session')
<1> DEFINE d == WriteControl(e)
<1>a. \A k \in 1 .. Len(ftp.queue) :
        ftp.queue[k].cmd \in Carrying => v[ftp.queue[k].req] = asked[ftp.queue[k].req]
  OBVIOUS
<1>b. \A k \in 1 .. Len(ftp.trash) :
        ftp.trash[k].cmd \in Carrying => v[ftp.trash[k].req] = asked[ftp.trash[k].req]
  OBVIOUS
<1>1. /\ ftp.queue \in Seq(Command) /\ ftp.trash \in Seq(Command) /\ e.queue \in Seq(Command)
      /\ ftp.conn \in {"closing", "open"} /\ ftp.conn = e.conn
  BY DEF TypeInv, Typed, Attempting
<1>2. Onward(v, e, d)
  BY WriteContext
<1>3. ~ ftp.isReady => d = e
  BY DEF WriteControl
<1>4. Typed(d)
  BY WriteTypes
<1> HIDE DEF d
<1>5. /\ d.conn = ftp.conn /\ d.polls = ftp.polls /\ d.isConnected
      /\ d.legitClose = ftp.legitClose /\ d.known = ftp.known
      /\ d.cwd = ftp.cwd /\ d.mode = ftp.mode /\ d.data = ftp.data
      /\ ftp.conn # "open" => d.ctl = ftp.ctl /\ d.dat = ftp.dat
      /\ ftp' = d
  BY <1>1, <1>2 DEF Onward, d
<1>6. NoLogin(ftp.queue) => NoLogin(d.queue)
  <2>1. NoLogin(ftp.queue) => NoLogin(e.queue)
    BY <1>1, BothNoLogin
  <2>2. NoLogin(e.queue) => LoginFirst(e.queue)
    BY DEF NoLogin, LoginFirst
  <2> QED BY <1>2, <2>1, <2>2 DEF Onward
<1>7. ftp.known \/ ftp.legitClose
  BY DEF ContextInv, Well
<1>8. ftp.polls \in {0, 1}
  BY DEF ContextInv, Well
<1>9. CASE Doomed(ftp)
  <2>1. ftp.ctl = None /\ ftp.dat = None /\ (ftp.polls = 1 => ftp.data = None /\ NoLogin(ftp.queue))
    BY <1>9 DEF ContextInv, Well
  <2>2. Doomed(d) /\ d.ctl = None /\ d.dat = None
    BY <1>5, <1>9, <2>1 DEF Doomed
  <2>3. Well(v, d)
    BY <1>5, <1>6, <1>7, <1>8, <2>1, <2>2 DEF Well
  <2>4. ftp'.conn # "open"
    BY <1>5, <1>9 DEF Doomed
  <2> QED BY <1>5, <2>3, <2>4
<1>10. CASE ~ Doomed(ftp)
  <2>1. Recoverable(asked, ftp) /\ Settled(ftp)
    BY <1>10 DEF ContextInv, Well
  <2>2. \A s : Sound(asked, ftp.queue, s) => Sound(v, e.queue, s)
    <3> SUFFICES ASSUME NEW s, Sound(asked, ftp.queue, s) PROVE Sound(v, e.queue, s)
      OBVIOUS
    <3>1. Leads(asked, ftp.queue, s, {})
      BY DEF Sound
    <3>2. Leads(v, ftp.queue, s, {})
      BY ONLY <1>a, <3>1, OtherWishes
    <3> QED BY <1>1, <3>2, Joined DEF Sound
  <2>3. Recoverable(v, e)
    <3>1. PICK u : Leads(asked, ftp.trash, Home(ftp.cwd), u) /\ Sound(asked, ftp.queue, u)
      BY <2>1 DEF Recoverable
    <3>2. Leads(v, ftp.trash, Home(ftp.cwd), u)
      BY ONLY <1>b, <3>1, OtherWishes
    <3> QED BY <2>1, <2>2, <3>1, <3>2 DEF Recoverable
  <2>4. Recoverable(v, d)
    BY <1>2, <2>3 DEF Onward
  <2>5. ftp.queue # <<>> => /\ e.queue # <<>> /\ Head(e.queue) = Head(ftp.queue)
                            /\ LoginFirst(e.queue)
    BY <1>1, <2>1, HeadOfBoth, BothNoLogin DEF Settled
  <2>6. IF HeadIn(ftp.queue, {"USER", "PASS"})
        THEN HeadIn(d.queue, {"USER", "PASS"}) /\ d.queue = e.queue /\ d.trash = ftp.trash
        ELSE NoLogin(d.queue)
    <3>1. CASE HeadIn(ftp.queue, {"USER", "PASS"})
      <4>1. Head(e.queue).cmd \in Login
        BY <2>5, <3>1 DEF HeadIn, Login
      <4> QED BY <1>2, <2>5, <3>1, <4>1 DEF Onward, HeadIn
    <3>2. CASE ~ HeadIn(ftp.queue, {"USER", "PASS"})
      <4>1. ~ HeadIn(ftp.queue, Login) /\ LoginFirst(ftp.queue)
        BY <2>1, <3>2 DEF HeadIn, Login, Settled
      <4> QED BY <1>1, <1>6, <3>2, <4>1, LoginIsFirst
    <3> QED BY <3>1, <3>2
  <2>7. NoLogin(d.queue) => \A S \in {{"USER", "PASS"}, {"welcome"}} : ~ HeadIn(d.queue, S)
    <3>1. d.queue # <<>> => 1 \in 1 .. Len(d.queue) /\ Head(d.queue) = d.queue[1]
      BY <1>4, FirstOf DEF Typed
    <3> QED BY <3>1 DEF NoLogin, HeadIn, Login
  <2>8. HeadIn(ftp.queue, {"USER", "PASS"}) = HeadIn(d.queue, {"USER", "PASS"})
    BY <2>6, <2>7 DEF HeadIn
  <2>9. Settled(d)
    <3>1. LoginFirst(d.queue) /\ ~ HeadIn(d.queue, {"welcome"})
      <4>1. CASE HeadIn(ftp.queue, {"USER", "PASS"})
        BY <2>5, <2>6, <4>1 DEF HeadIn
      <4>2. CASE ~ HeadIn(ftp.queue, {"USER", "PASS"})
        BY <2>6, <2>7, <4>2 DEF LoginFirst, NoLogin
      <4> QED BY <4>1, <4>2
    <3>2. HeadIn(d.queue, {"USER", "PASS"}) =>
            d.conn = "open" /\ d.isConnected /\ d.mode = None /\ d.data = None
      BY <1>5, <2>1, <2>8 DEF Settled
    <3>3. d.legitClose /\ d.conn # "closing" =>
            d.cwd = None /\ d.trash = <<>> /\ HeadIn(d.queue, {"USER", "PASS"})
      BY <1>5, <2>1, <2>6, <2>8 DEF Settled
    <3>4. d.conn = "closing" => d.data = None
      BY <1>5, <2>1 DEF Settled
    <3>5. d.polls = 1 => ~ d.isReady /\ HeadIn(d.queue, Transfers \cup {"aborted"})
      BY <1>3, <1>5, <2>1, <2>5 DEF Settled, HeadIn
    <3> QED BY <1>5, <3>1, <3>2, <3>3, <3>4, <3>5 DEF Settled
  <2>10. Well(v, d)
    BY <1>5, <1>7, <1>8, <1>10, <2>4, <2>9 DEF Well, Doomed
  <2>11. ASSUME ftp.conn = "open" PROVE Session'
    <3>1. Session /\ Talk
      BY <2>11 DEF ContextInv, TalkInv
    <3>2. Entering(ftp') = Entering(ftp)
      BY <1>5, <2>8 DEF Entering
    <3>3. ftp.isReady => Silent
      BY <3>1 DEF Talk
    <3>4. CASE ~ ftp.isReady
      <4>1. ftp' = e
        BY <1>3, <1>5, <3>4
      <4>2. Stuck => Stuck'
        BY <2>5, <4>1 DEF Stuck, HeadIn, Silent
      <4>3. \A n \in 1 .. Len(replies) : Head(e.queue) = Head(ftp.queue)
        <5>1. replies # <<>> => ftp.queue # <<>>
          BY <3>1 DEF Talk, Silent
        <5>2. replies = <<>> => Len(replies) = 0
          OBVIOUS
        <5> QED BY <2>5, <5>1, <5>2
      <4>4. ~ Entering(ftp) =>
              /\ srv.user = "in"
              /\ Sound(v, e.queue, Seat(srv.cwd, srv.mode, e.data))
              /\ \/ Stuck'
                 \/ /\ e.cwd \in {srv.cwd, None} \/ Pending("CWD")
                    /\ e.mode \in {srv.mode, None} \/ Pending("TYPE")
        BY <2>2, <3>1, <4>2 DEF Session
      <4> QED BY <3>1, <3>2, <4>1, <4>3, <4>4 DEF Session, Pending
    <3>5. CASE ftp.isReady
      <4>1. replies = <<>> /\ ~ Stuck /\ Len(<<>>) = 0
        BY <3>3, <3>5 DEF Silent, Stuck
      <4>2. ~ Entering(ftp) => srv.user = "in" /\ Seated(v, e, srv.cwd, srv.mode)
        BY <2>2, <3>1, <4>1 DEF Session, Seated, Pending
      <4>3. ~ Entering(ftp) => srv.user = "in" /\ Seated(v, d, srv.cwd, srv.mode)
        BY <1>2, <4>2 DEF Onward
      <4> QED BY <1>5, <3>1, <3>2, <4>1, <4>3 DEF Session, Seated
    <3> QED BY <3>4, <3>5
  <2> QED BY <1>5, <2>10, <2>11
<1> QED BY <1>9, <1>10

LEMMA AskContext ==
    ASSUME TypeInv, TalkInv, OrderInv, ContextInv, Considerate,
           NEW r \in Requests, NEW a \in Wishes, Ask(r, a)
    PROVE  ContextInv'
<1> DEFINE cs == Commands(r, a)
           q == IF a.kind = "remove" THEN cs \o ftp.queue ELSE ftp.queue \o cs
           e == [ftp EXCEPT !.queue = q]
           w == [asked EXCEPT ![r] = a]
<1>1. Typed(ftp) /\ ftp.queue \in Seq(Command) /\ cs \in Seq(Command)
  BY WishTypes DEF TypeInv, Typed
<1>2. /\ asked[r] = None /\ asked' = w /\ ftp' = WriteControl(e) /\ ftp.isConnected
      /\ a.kind = "remove" => ftp.queue = <<>>
      /\ UNCHANGED <<replies, srv, executed>>
  <2>1. r >= r
    BY RequestTypes
  <2> QED BY <2>1 DEF Ask, Considerate
<1>3. asked \in [Requests -> Wishes \cup {None}] /\ Orderly(asked, ftp)
  BY DEF OrderInv
<1>4. w[r] = a /\ \A s \in Requests : s # r => w[s] = asked[s]
  BY <1>3
<1> HIDE DEF w
<1>5. Sound(w, cs, {}) /\ NoLogin(cs)
  BY <1>4, CommandsSound
<1>6. \A k \in 1 .. Len(ftp.queue) :
        ftp.queue[k].cmd \in Carrying => w[ftp.queue[k].req] = asked[ftp.queue[k].req]
  <2> SUFFICES ASSUME NEW k \in 1 .. Len(ftp.queue), ftp.queue[k].cmd \in Carrying
               PROVE  w[ftp.queue[k].req] = asked[ftp.queue[k].req]
    OBVIOUS
  <2>1. Fine(asked, ftp.report, ftp.queue[k])
    BY <1>3 DEF Orderly, Line
  <2>2. ftp.queue[k].req \in Requests \cup {0}
    BY <1>1, Elements, OfCommand
  <2>3. ftp.queue[k].req \in Requests /\ ftp.queue[k].req # r
    BY <1>2, <2>1, <2>2 DEF Fine
  <2> QED BY <1>4, <2>3
<1>7. \A k \in 1 .. Len(ftp.trash) :
        ftp.trash[k].cmd \in Carrying => w[ftp.trash[k].req] = asked[ftp.trash[k].req]
  <2>1. \A k \in 1 .. Len(ftp.trash) : ftp.trash[k].cmd \in {"CWD", "TYPE", "PASV", "RNFR"}
    BY <1>3, TrashCommands
  <2> QED BY <2>1 DEF Carrying, Transfers
<1> HIDE DEF cs
<1>8. q = ftp.queue \o cs /\ q \in Seq(Command)
  BY <1>1, <1>2, ConcatEmptySeq, ConcatProperties
<1> HIDE DEF q
<1>9. /\ Typed(e) /\ e.queue = ftp.queue \o cs /\ e.trash = ftp.trash
      /\ e.cwd = ftp.cwd /\ e.mode = ftp.mode /\ e.data = ftp.data /\ e.conn = ftp.conn
      /\ e.polls = ftp.polls /\ e.isConnected = ftp.isConnected /\ e.isReady = ftp.isReady
      /\ e.legitClose = ftp.legitClose /\ e.known = ftp.known
      /\ e.ctl = ftp.ctl /\ e.dat = ftp.dat /\ e.sent = ftp.sent
  <2>1. Typed(e)
    BY <1>1, <1>8, QueueTypes
  <2> QED BY <1>1, <1>8, <2>1 DEF Typed, IsClient
<1> HIDE DEF e
<1>10. Well(asked', ftp') /\ (ftp'.conn = "open" => Session')
  BY <1>1, <1>2, <1>5, <1>6, <1>7, <1>9, QueuedContext
<1>11. Wished' /\ CarriedOutInContext'
  <2>1. ASSUME NEW f \in executed PROVE f.req \in Requests /\ w[f.req] = asked[f.req] /\ asked[f.req] # None
    <3>1. f.req \in Requests /\ asked[f.req] # None
      BY <2>1 DEF ContextInv, Wished
    <3> QED BY <1>2, <1>4, <3>1
  <2>2. Wished /\ CarriedOutInContext
    BY DEF ContextInv
  <2> QED BY <1>2, <2>1, <2>2 DEF Wished, CarriedOutInContext
<1> QED BY <1>10, <1>11 DEF ContextInv

LEMMA KeepAliveContext ==
    ASSUME TypeInv, TalkInv, ContextInv, KeepAlive
    PROVE  ContextInv'
<1> DEFINE x == Cmd("NOOP", None, 0)
           cs == <<x>>
           e == [ftp EXCEPT !.queue = cs]
<1>1. Typed(ftp) /\ x \in Command /\ x.cmd = "NOOP"
  BY InternalCommands DEF TypeInv, Cmd
<1>2. /\ ftp' = WriteControl(e) /\ ftp.isConnected /\ ftp.queue = <<>>
      /\ UNCHANGED <<replies, srv, asked, executed>>
  BY DEF KeepAlive
<1> HIDE DEF x
<1>3. cs \in Seq(Command) /\ NoLogin(cs) /\ Sound(asked, cs, {})
  <2>1. cs \in Seq(Plain) /\ cs \in Seq(Command)
    <3>1. x \in Plain
      BY <1>1 DEF Plain, Login
    <3> QED BY <1>1, <3>1
  <2>2. May(asked, {}, x)
    BY <1>1 DEF May, Carrying, Transfers
  <2>3. {} \subseteq Leave({}, x)
    OBVIOUS
  <2>4. Leads(asked, <<x>>, {}, {})
    BY <2>2, <2>3, OneCommand
  <2> QED BY <2>1, <2>4, PlainSeq DEF Sound
<1> HIDE DEF cs
<1>4. cs = ftp.queue \o cs
  BY <1>2, <1>3, ConcatEmptySeq
<1>5. /\ Typed(e) /\ e.queue = ftp.queue \o cs /\ e.trash = ftp.trash
      /\ e.cwd = ftp.cwd /\ e.mode = ftp.mode /\ e.data = ftp.data /\ e.conn = ftp.conn
      /\ e.polls = ftp.polls /\ e.isConnected = ftp.isConnected /\ e.isReady = ftp.isReady
      /\ e.legitClose = ftp.legitClose /\ e.known = ftp.known
      /\ e.ctl = ftp.ctl /\ e.dat = ftp.dat /\ e.sent = ftp.sent
  <2>1. Typed(e)
    BY <1>1, <1>3, QueueTypes
  <2> QED BY <1>1, <1>4, <2>1 DEF Typed, IsClient
<1> HIDE DEF e
<1>6. Well(asked', ftp') /\ (ftp'.conn = "open" => Session')
  BY <1>2, <1>3, <1>5, QueuedContext
<1> QED BY <1>2, <1>6, NothingCarried DEF ContextInv

----------------------------------------------------------------------------
(***************************************************************************)
(* The user stops what is going on.                                        *)
(***************************************************************************)
LEMMA WaitsForTransfer ==
    ASSUME TypeInv, TalkInv, ftp.conn = "open",
           ftp.queue # <<>> => Head(ftp.queue).cmd \in Transfers,
           NEW n \in 1 .. Len(replies)
    PROVE  replies[n].to.cmd \in Transfers
<1>1. replies[n].to \in InFlight
  BY DEF InFlight
<1>2. RepliesFindTheirCommands
  BY TalkMatches
<1>3. /\ ftp.queue # <<>>
      /\ \/ Head(ftp.queue).cmd = "aborted"
         \/ Head(ftp.queue).cmd = replies[n].to.cmd
  BY <1>1, <1>2 DEF RepliesFindTheirCommands
<1> QED BY <1>3 DEF Transfers

\* A transfer is stopped, and with it what comes before rest.
LEMMA StoppedContext ==
    ASSUME TypeInv, TalkInv, ContextInv, ftp.isConnected,
           ftp.queue # <<>> => Head(ftp.queue).cmd \in Transfers /\ ftp.data # None,
           NEW rest \in Seq(Command), ftp.queue = <<>> => rest = <<>>,
           NoLogin(ftp.queue) => NoLogin(rest),
           \A dir, m : ftp.queue # <<>> /\ Sound(asked, ftp.queue, Seat(dir, m, ftp.data))
                         => \A u : Sound(asked, rest, u),
           NEW e, Typed(e), e.queue = <<Cmd("aborted", None, 0)>> \o rest, e.trash = <<>>,
           e.data = None, e.cwd \in {ftp.cwd, None}, e.mode \in {ftp.mode, None},
           e.conn = ftp.conn, e.polls = ftp.polls, e.isConnected,
           e.legitClose = ftp.legitClose, e.known = ftp.known,
           e.ctl \in {ftp.ctl, None}, e.dat \in {ftp.dat, None},
           e.isReady => ftp.isReady \/ ftp.data = None,
           ftp' = e, UNCHANGED <<replies, srv, asked, executed>>
    PROVE  ContextInv'
<1> DEFINE x == Cmd("aborted", None, 0)
<1>1. /\ Typed(ftp) /\ Attempting /\ ftp.queue \in Seq(Command)
      /\ ftp.conn \in {"closing", "open"} /\ Well(asked, ftp)
      /\ ftp.known \/ ftp.legitClose
      /\ ftp.polls \in {0, 1}
  BY DEF TypeInv, Typed, Attempting, ContextInv, Well
<1>2. x \in Command /\ x.cmd = "aborted"
  BY InternalCommands DEF Cmd
<1>3. e.queue = <<x>> \o rest
  OBVIOUS
<1> HIDE DEF x
<1>4. e.queue # <<>> /\ Head(e.queue) = x
  BY <1>2, <1>3, Before1
<1>5. \A S : HeadIn(e.queue, S) <=> "aborted" \in S
  BY <1>2, <1>4 DEF HeadIn
<1>6. NoLogin(rest) => NoLogin(e.queue)
  <2>1. x \in Plain /\ <<x>> \in Seq(Command)
    BY <1>2 DEF Plain, Login
  <2>2. NoLogin(<<x>>)
    <3>1. <<x>> \in Seq(Plain)
      BY <2>1
    <3> QED BY <2>1, <3>1, PlainSeq
  <2> QED BY <1>3, <2>1, <2>2, BothNoLogin
<1>7. NoLogin(e.queue) => LoginFirst(e.queue)
  BY DEF NoLogin, LoginFirst
<1>8. Wished' /\ CarriedOutInContext'
  BY NothingCarried
<1>9. ftp.queue = <<>> => NoLogin(ftp.queue)
  <2>1. Len(<<>>) = 0
    OBVIOUS
  <2> QED BY <2>1 DEF NoLogin
<1>10. CASE Doomed(ftp)
  <2>1. ftp.ctl = None /\ ftp.dat = None /\ (ftp.polls = 1 => ftp.data = None)
    BY <1>1, <1>10 DEF Well
  <2>2. Doomed(e) /\ e.ctl = None /\ e.dat = None /\ (e.polls = 1 => e.data = None)
    BY <1>10, <2>1 DEF Doomed
  <2>3. e.polls = 1 => NoLogin(e.queue)
    BY <1>6, <1>9, <2>1
  <2>4. Well(asked, e)
    BY <1>1, <2>2, <2>3 DEF Well
  <2>5. ftp'.conn # "open"
    BY <1>10 DEF Doomed
  <2> QED BY <1>8, <2>4, <2>5 DEF ContextInv
<1>11. CASE ~ Doomed(ftp)
  <2>1. Recoverable(asked, ftp) /\ Settled(ftp)
    BY <1>1, <1>11 DEF Well
  <2>2. ~ Entering(ftp)
    BY DEF Entering, HeadIn, Transfers
  <2>3. ftp.queue # <<>> => ftp.conn = "open" /\ Session
    BY <1>1, <2>1 DEF Settled, ContextInv
  <2>4. \A u : Sound(asked, rest, u)
    <3>1. CASE ftp.queue = <<>>
      BY <3>1, NoCommand DEF Sound
    <3>2. CASE ftp.queue # <<>>
      BY <2>2, <2>3, <3>2 DEF Session
    <3> QED BY <3>1, <3>2
  <2>5. \A u : Sound(asked, e.queue, u)
    <3> SUFFICES ASSUME NEW u PROVE Sound(asked, <<x>> \o rest, u)
      BY <1>3
    <3>1. May(asked, u, x)
      BY <1>2 DEF May, Carrying, Transfers
    <3>2. Sound(asked, rest, Leave(u, x))
      BY <2>4
    <3> QED BY <1>2, <3>1, <3>2, FrontSound
  <2>6. NoLogin(ftp.queue)
    <3>1. LoginFirst(ftp.queue) /\ ~ HeadIn(ftp.queue, Login)
      BY <2>1 DEF Settled, HeadIn, Login, Transfers
    <3> QED BY <1>1, <3>1, LoginIsFirst
  <2>7. LoginFirst(e.queue)
    BY <1>6, <1>7, <2>6
  <2>8. e.cwd \in Dirs \cup {None}
    BY DEF Typed
  <2>9. Recoverable(asked, e)
    BY <2>5, <2>8, AnySession
  <2>10. ~ HeadIn(ftp.queue, {"USER", "PASS"})
    BY DEF HeadIn, Transfers
  <2>11. Settled(e)
    <3>1. ~ (ftp.legitClose /\ ftp.conn # "closing")
      BY <2>1, <2>10 DEF Settled
    <3>2. ftp.polls = 1 => ~ e.isReady
      BY <2>1 DEF Settled, HeadIn
    <3> QED BY <1>5, <2>7, <3>1, <3>2 DEF Settled
  <2>12. Well(asked, e)
    BY <1>1, <1>11, <2>9, <2>11 DEF Well, Doomed
  <2>13. ASSUME ftp.conn = "open" PROVE Session'
    <3>1. Session
      BY <2>13 DEF ContextInv
    <3>2. ~ Entering(e)
      BY <1>5 DEF Entering
    <3>3. \A n \in 1 .. Len(replies) : replies[n].to.cmd \in Transfers
      BY <2>13, WaitsForTransfer
    <3>4. ~ Stuck /\ ~ Pending("CWD") /\ ~ Pending("TYPE")
      BY <3>3 DEF Stuck, HeadIn, Pending, Transfers
    <3>5. e.cwd \in {srv.cwd, None} /\ e.mode \in {srv.mode, None} /\ srv.user = "in"
      BY <2>2, <3>1, <3>4 DEF Session
    <3> QED BY <2>5, <3>2, <3>3, <3>5 DEF Session, Transfers
  <2> QED BY <1>8, <2>12, <2>13 DEF ContextInv
<1> QED BY <1>10, <1>11

\* cancel() drops the transfer with its end, and that is the one at the head.
LEMMA CancelContext ==
    ASSUME TypeInv, TypeInv', TalkInv, OrderInv, ContextInv, Considerate, Cancel
    PROVE  ContextInv'
<1> DEFINE q == ftp.queue
           ends == {k \in Ends(q) : ftp.data # None /\ ftp.isConnected
                                     /\ q[k].req = ftp.data.id}
           n == CHOOSE k \in ends : \A l \in ends : k <= l
           rest == IF ends = {} THEN q ELSE SubSeq(q, n + 1, Len(q))
           e == [ftp EXCEPT !.trash = <<>>, !.data = None,
                            !.queue = <<Cmd("aborted", None, 0)>> \o rest]
<1>1. /\ Typed(ftp) /\ q \in Seq(Command) /\ Line(asked, ftp.report, q) /\ Len(q) \in Nat
  <2>1. Typed(ftp) /\ q \in Seq(Command)
    BY DEF TypeInv, Typed
  <2>2. Len(q) \in Nat
    BY <2>1, Elements
  <2> QED BY <2>1, <2>2 DEF OrderInv, Orderly
<1>2. ftp.isConnected /\ Steady(Transfers \ {"LIST"})
  BY DEF Cancel, Considerate
<1>3. ftp' = e /\ UNCHANGED <<replies, srv, asked, executed>>
  BY <1>2 DEF Cancel
<1>4. q # <<>> => Head(q).cmd \in Carriers /\ Head(q).cmd \in Transfers /\ ftp.data # None
  BY <1>2, SteadyHead DEF Carriers, Transfers
<1>5. ends \subseteq 1 .. Len(q) /\ \A k \in ends : IsEnd(q[k])
  BY DEF Ends
<1>6. ends # {} => n \in ends
  <2>1. ends \subseteq Nat
    BY <1>1, <1>5
  <2> HIDE DEF ends
  <2> QED BY <2>1, LeastOf
<1>7. ASSUME NEW dir, NEW m, q # <<>>, Sound(asked, q, Seat(dir, m, ftp.data))
      PROVE  ends # {}
  <2>1. May(asked, Seat(dir, m, ftp.data), Head(q))
    BY <1>1, <1>7, TailSound
  <2>2. <<"PASV", Head(q).req>> \in Seat(dir, m, ftp.data)
    BY <1>4, <1>7, <2>1 DEF May, Carriers, Carrying, Transfers
  <2>3. ftp.data.id = Head(q).req
    BY <1>4, <1>7, <2>2 DEF Seat, Served, Serves
  <2>4. 1 \in 1 .. Len(q) /\ q[1] = Head(q)
    BY <1>1, <1>7, FirstOf
  <2>5. 1 < Len(q) /\ IsEnd(q[1 + 1]) /\ q[1 + 1].req = q[1].req
    BY <1>1, <1>4, <1>7, <2>4 DEF Line
  <2>6. 2 \in ends
    BY <1>1, <1>2, <1>4, <1>7, <2>3, <2>4, <2>5 DEF Ends
  <2> QED BY <2>6
<1> HIDE DEF n, ends
<1>8. rest \in Seq(Command)
  <2>1. CASE ends = {}
    BY <1>1, <2>1
  <2>2. CASE ends # {}
    <3>0. n \in 1 .. Len(q)
      BY <1>5, <1>6, <2>2
    <3>1. n \in Nat
      BY <1>1, <3>0
    <3>2. SubSeq(q, n + 1, Len(q)) \in Seq(Command)
      BY <1>1, <3>1, RestOf
    <3> QED BY <2>2, <3>2
  <2> QED BY <2>1, <2>2
<1>9. ends # {} => n \in 1 .. Len(q) /\ Cut(SubSeq(q, n + 1, Len(q)), q, n)
  <2> SUFFICES ASSUME ends # {}
               PROVE  n \in 1 .. Len(q) /\ Cut(SubSeq(q, n + 1, Len(q)), q, n)
    OBVIOUS
  <2>1. n \in 1 .. Len(q)
    BY <1>5, <1>6
  <2>2. n \in 0 .. Len(q)
    BY <1>1, <2>1
  <2> QED BY <1>1, <2>1, <2>2, SubSeqCuts
<1>10. q = <<>> => rest = <<>>
  <2>1. q = <<>> => Len(q) = 0
    OBVIOUS
  <2>2. q = <<>> => ends = {}
    BY <1>5, <2>1
  <2> QED BY <2>2
<1>11. NoLogin(q) => NoLogin(rest)
  <2>1. ASSUME ends # {}, NoLogin(q) PROVE NoLogin(SubSeq(q, n + 1, Len(q)))
    BY <1>1, <1>9, <2>1, CutNoLogin
  <2> QED BY <2>1
<1>12. ASSUME NEW dir, NEW m, q # <<>>, Sound(asked, q, Seat(dir, m, ftp.data)), NEW u
       PROVE  Sound(asked, rest, u)
  <2>1. ends # {}
    BY <1>7, <1>12
  <2>2. n \in 1 .. Len(q) /\ Cut(rest, q, n) /\ q[n].cmd \in Carrying \cup {"transferEnd"}
    BY <1>5, <1>6, <1>9, <2>1 DEF IsEnd
  <2>3. Len(rest) \in Nat
    BY <1>8, Elements
  <2> HIDE DEF rest
  <2> QED BY <1>1, <1>12, <2>2, <2>3, Renewed
<1> HIDE DEF rest
<1>13. e.queue = <<Cmd("aborted", None, 0)>> \o rest /\ e.trash = <<>> /\ e.data = None
       /\ e.cwd = ftp.cwd /\ e.mode = ftp.mode /\ e.conn = ftp.conn /\ e.polls = ftp.polls
       /\ e.isConnected /\ e.legitClose = ftp.legitClose /\ e.known = ftp.known
       /\ e.ctl = ftp.ctl /\ e.dat = ftp.dat /\ e.isReady = ftp.isReady
  BY <1>1, <1>2 DEF Typed, IsClient
<1> HIDE DEF e
<1>14. Typed(e)
  BY <1>3 DEF TypeInv
<1> QED BY <1>2, <1>3, <1>4, <1>8, <1>10, <1>11, <1>12, <1>13, <1>14, StoppedContext

LEMMA AbortContext ==
    ASSUME TypeInv, TypeInv', TalkInv, ContextInv, Considerate, Abort
    PROVE  ContextInv'
<1> DEFINE c == Cleanup([ftp EXCEPT !.isReconnecting = FALSE])
           e == [c EXCEPT !.queue = <<Cmd("aborted", None, 0)>>, !.data = None,
                          !.isReady = ftp.data = None]
<1>1. Typed(ftp) /\ Well(asked, ftp)
  BY DEF TypeInv, ContextInv
<1>2. Steady(Transfers) /\ ftp' = (IF ftp.isConnected THEN e ELSE c)
      /\ UNCHANGED <<replies, srv, asked, executed>>
  BY DEF Abort
<1>3. ftp.queue # <<>> => Head(ftp.queue).cmd \in Transfers /\ ftp.data # None
  BY <1>2, SteadyHead
<1>4. /\ IsClient(c) /\ c.queue = <<>> /\ c.trash = <<>> /\ c.mode = None /\ c.cwd = None
      /\ c.ctl = None /\ c.dat = None /\ c.conn = ftp.conn /\ c.polls = ftp.polls
      /\ c.isConnected = ftp.isConnected /\ c.legitClose = ftp.legitClose
      /\ c.known = ftp.known /\ c.data = ftp.data
  BY <1>1 DEF Cleanup, Typed, IsClient
<1> HIDE DEF c
<1>5. CASE ftp.isConnected
  <2>1. Len(<<>>) = 0 /\ <<>> \in Seq(Command)
    OBVIOUS
  <2>2. NoLogin(<<>>)
    BY <2>1 DEF NoLogin
  <2>3. e.queue = <<Cmd("aborted", None, 0)>> \o <<>>
    <3>1. <<Cmd("aborted", None, 0)>> \in Seq(Command)
      BY InternalCommands
    <3> QED BY <1>4, <3>1, ConcatEmptySeq DEF IsClient
  <2>4. /\ e.trash = <<>> /\ e.data = None /\ e.cwd = None /\ e.mode = None
        /\ e.conn = ftp.conn /\ e.polls = ftp.polls /\ e.isConnected
        /\ e.legitClose = ftp.legitClose /\ e.known = ftp.known
        /\ e.ctl = None /\ e.dat = None /\ e.isReady = (ftp.data = None)
    BY <1>4, <1>5 DEF IsClient
  <2> HIDE DEF e
  <2>5. Typed(e) /\ ftp' = e
    BY <1>2, <1>5 DEF TypeInv
  <2>6. \A u : Sound(asked, <<>>, u)
    BY NoCommand DEF Sound
  <2> QED BY <1>2, <1>3, <1>5, <2>1, <2>2, <2>3, <2>4, <2>5, <2>6, StoppedContext
<1>6. CASE ~ ftp.isConnected
  <2>1. ftp' = c
    BY <1>2, <1>6
  <2>2. Recoverable(asked, c) /\ LoginFirst(c.queue) /\ NoLogin(c.queue)
        /\ \A S : ~ HeadIn(c.queue, S)
    BY <1>4, NothingToDo
  <2>3. Well(asked, c)
    <3>1. Doomed(c) = Doomed(ftp)
      BY <1>4 DEF Doomed
    <3>2. ~ Doomed(ftp) => Settled(c)
      BY <1>1, <1>4, <1>6, <2>2 DEF Well, Settled
    <3> QED BY <1>1, <1>4, <2>2, <3>1, <3>2 DEF Well
  <2>4. ASSUME ftp.conn = "open" PROVE Session'
    <3>1. Session /\ Entering(ftp) /\ Entering(c)
      BY <1>4, <1>6, <2>4 DEF ContextInv, Entering
    <3>2. \A n \in 1 .. Len(replies) : replies[n].to.cmd \in Transfers
      BY <1>3, <2>4, WaitsForTransfer
    <3> QED BY <1>2, <2>1, <3>1, <3>2 DEF Session, Transfers
  <2> QED BY <1>2, <1>4, <2>1, <2>3, <2>4, NothingCarried DEF ContextInv
<1> QED BY <1>5, <1>6

LEMMA DisconnectContext ==
    ASSUME TypeInv, ContextInv, Considerate, Disconnect
    PROVE  ContextInv'
<1>1. Typed(ftp) /\ Well(asked, ftp) /\ ftp.conn # "none"
  BY DEF TypeInv, ContextInv, Considerate, Disconnect
<1>2. /\ ftp' = Kill([Cleanup(ftp) EXCEPT !.legitClose = TRUE, !.data = None])
      /\ UNCHANGED <<replies, srv, asked, executed>>
  BY DEF Disconnect
<1>3. /\ ftp'.conn = "closing" /\ ftp'.legitClose /\ ftp'.ctl = None /\ ftp'.dat = None
      /\ ftp'.data = None /\ ftp'.queue = <<>> /\ ftp'.polls = ftp.polls
  BY <1>1, <1>2 DEF Kill, Cleanup, Typed, IsClient
<1>4. NoLogin(ftp'.queue)
  <2>1. Len(<<>>) = 0
    OBVIOUS
  <2> QED BY <1>3, <2>1 DEF NoLogin
<1>5. Well(asked, ftp')
  BY <1>1, <1>3, <1>4 DEF Well, Doomed
<1> QED BY <1>2, <1>3, <1>5, NothingCarried DEF ContextInv

----------------------------------------------------------------------------
(***************************************************************************)
(* The connection is lost, or given up.                                    *)
(***************************************************************************)
LEMMA LostLater ==
    ASSUME TypeInv, Certain, Lose PROVE ~ HeadIn(ftp.queue, {"USER", "PASS"})
<1>1. ftp.queue # <<>> => 1 \in 1 .. Len(ftp.queue) /\ Head(ftp.queue) = ftp.queue[1]
  BY FirstOf DEF TypeInv, Typed
<1> QED BY <1>1 DEF Lose, Certain, HeadIn

LEMMA ResetContext ==
    ASSUME TypeInv, ContextInv, Certain, CheckTimeout \/ CheckDataTimeout
    PROVE  ContextInv'
<1>1. /\ Typed(ftp) /\ Attempting /\ Well(asked, ftp)
      /\ ftp.conn \in {"none", "opening", "open", "closing"}
  BY DEF TypeInv, ContextInv, Typed
<1>2. /\ ftp' = ResetConnection(ftp) /\ ftp.isConnected /\ Lose
      /\ ftp.ctl # None \/ ftp.dat # None
      /\ UNCHANGED <<replies, srv, asked, executed>>
  BY DEF CheckTimeout, CheckDataTimeout
<1>3. ~ HeadIn(ftp.queue, {"USER", "PASS"})
  BY <1>2, LostLater
<1>4. ~ Doomed(ftp) /\ Recoverable(asked, ftp) /\ Settled(ftp)
  BY <1>1, <1>2 DEF Well
<1>5. ftp.conn \in {"open", "closing"}
  BY <1>1, <1>2 DEF Attempting
<1>6. ftp.known
  BY <1>1, <1>2, <1>3, <1>4 DEF Well, Settled, Doomed
<1> DEFINE d == ResetConnection(ftp)
<1>7. /\ d.conn = "closing" /\ ~ d.legitClose /\ d.data = None /\ d.queue = ftp.queue
      /\ d.trash = ftp.trash /\ d.cwd = ftp.cwd /\ d.mode = ftp.mode /\ d.polls = ftp.polls
      /\ d.isConnected /\ d.isReady = ftp.isReady /\ d.known
  BY <1>1, <1>2, <1>5, <1>6 DEF ResetConnection, Kill, Typed, IsClient
<1> HIDE DEF d
<1>8. Recoverable(asked, d)
  BY <1>4, <1>7 DEF Recoverable
<1>9. Settled(d)
  BY <1>2, <1>3, <1>4, <1>7 DEF Settled
<1>10. Well(asked, d)
  BY <1>1, <1>7, <1>8, <1>9 DEF Well, Doomed
<1> QED BY <1>2, <1>7, <1>10, NothingCarried DEF ContextInv, d

LEMMA StopContext ==
    ASSUME TypeInv, ContextInv, Certain, StopRequest
    PROVE  ContextInv'
<1> DEFINE d == OnDisconnect(ftp)
           b == [ftp EXCEPT !.conn = "none", !.sent = <<>>,
                            !.isConnected = FALSE, !.data = None]
<1>1. /\ Typed(ftp) /\ Well(asked, ftp) /\ ftp.queue \in Seq(Command)
      /\ ftp.polls \in {0, 1}
  BY DEF TypeInv, ContextInv, Typed, Well
<1>2. ftp' = d /\ UNCHANGED <<asked, executed>>
  BY DEF StopRequest
<1>3. /\ Typed(b) /\ b.conn = "none" /\ ~ b.isConnected /\ b.data = None /\ b.polls = ftp.polls
      /\ b.legitClose = ftp.legitClose /\ b.known = ftp.known /\ b.queue = ftp.queue
      /\ b.trash = ftp.trash /\ b.cwd = ftp.cwd
  BY <1>1 DEF Typed, IsClient
<1>4. CASE ftp.legitClose
  <2>1. d = Cleanup(b)
    BY <1>4 DEF OnDisconnect
  <2>2. /\ d.queue = <<>> /\ d.trash = <<>> /\ d.cwd = None /\ d.mode = None
        /\ d.data = None /\ d.conn = "none" /\ ~ d.isConnected /\ d.polls = ftp.polls
        /\ d.legitClose
    <3> HIDE DEF b
    <3> QED BY <1>3, <1>4, <2>1 DEF Cleanup, Typed, IsClient
  <2> HIDE DEF d
  <2>3. Recoverable(asked, d) /\ LoginFirst(d.queue) /\ \A S : ~ HeadIn(d.queue, S)
    BY <2>2, NothingToDo
  <2>4. Settled(d)
    BY <2>2, <2>3 DEF Settled
  <2>5. Well(asked, d)
    BY <1>1, <2>2, <2>3, <2>4 DEF Well, Doomed
  <2> QED BY <1>2, <2>2, <2>5, NothingCarried DEF ContextInv
<1>5. CASE ~ ftp.legitClose
  <2>1. Recoverable(asked, ftp) /\ Settled(ftp) /\ ftp.known /\ LoginFirst(ftp.queue)
    BY <1>1, <1>5 DEF Well, Doomed, Settled
  <2>2. ~ HeadIn(ftp.queue, {"USER", "PASS"})
    <3>1. CASE Lose
      BY <3>1, LostLater
    <3>2. CASE ftp.conn = "closing"
      BY <2>1, <3>2 DEF Settled
    <3> QED BY <3>1, <3>2 DEF StopRequest
  <2> DEFINE welcome == ftp.queue # <<>> /\ Head(ftp.queue).cmd = "welcome"
  <2>3. d.queue = ftp.queue \/ (welcome /\ d.queue = Tail(ftp.queue))
    <3> HIDE DEF b
    <3> QED BY <1>3, <1>5 DEF OnDisconnect, Typed, IsClient, b
  <2>4. /\ d.conn = "none" /\ ~ d.isConnected /\ d.data = None /\ d.mode = None
        /\ ~ d.legitClose /\ d.known /\ d.trash = ftp.trash /\ d.cwd = ftp.cwd
        /\ d.polls = ftp.polls
    BY <1>1, <1>5, <2>1 DEF OnDisconnect, Typed, IsClient
  <2> HIDE DEF d
  <2>5. /\ Recoverable(asked, d) /\ LoginFirst(d.queue)
        /\ ~ HeadIn(d.queue, {"USER", "PASS"})
    <3>1. CASE d.queue = ftp.queue
      BY <2>1, <2>2, <2>4, <3>1 DEF Recoverable
    <3>2. CASE welcome /\ d.queue = Tail(ftp.queue)
      <4>1. PICK u : Leads(asked, ftp.trash, Home(ftp.cwd), u) /\ Sound(asked, ftp.queue, u)
        BY <2>1 DEF Recoverable
      <4>2. Sound(asked, Tail(ftp.queue), Leave(u, Head(ftp.queue)))
        BY <1>1, <3>2, <4>1, TailSound
      <4>3. Leave(u, Head(ftp.queue)) = u
        BY <3>2, WhatIsLeft DEF Login
      <4>4. Recoverable(asked, d)
        BY <2>1, <2>4, <3>2, <4>1, <4>2, <4>3 DEF Recoverable
      <4>5. /\ Cut(Tail(ftp.queue), ftp.queue, 1) /\ Len(ftp.queue) \in Nat \ {0}
            /\ Tail(ftp.queue) \in Seq(Command)
        BY <1>1, <3>2, TailCuts, FirstOf
      <4> DEFINE t == Tail(ftp.queue)
      <4> HIDE DEF t
      <4>6. \A k \in 1 .. Len(t) : k + 1 \in 1 .. Len(ftp.queue) /\ k + 1 # 1
                                   /\ t[k] = ftp.queue[k + 1]
        BY <4>5 DEF Cut, t
      <4>7. NoLogin(t)
        BY <2>1, <4>6 DEF NoLogin, LoginFirst
      <4>8. t # <<>> => 1 \in 1 .. Len(t) /\ Head(t) = t[1]
        BY <4>5, FirstOf DEF t
      <4>9. LoginFirst(t) /\ ~ HeadIn(t, {"USER", "PASS"})
        BY <4>7, <4>8 DEF NoLogin, LoginFirst, HeadIn, Login
      <4> QED BY <3>2, <4>4, <4>9 DEF t
    <3> QED BY <2>3, <3>1, <3>2
  <2>6. Settled(d)
    BY <2>4, <2>5 DEF Settled
  <2>7. Well(asked, d)
    BY <1>1, <2>4, <2>5, <2>6 DEF Well, Doomed
  <2> QED BY <1>2, <2>4, <2>7, NothingCarried DEF ContextInv
<1> QED BY <1>4, <1>5

----------------------------------------------------------------------------
(***************************************************************************)
(* Replies are read.                                                       *)
(***************************************************************************)
LEMMA GoesOnWell ==
    ASSUME NEW c, Typed(c), Orderly(asked, c), file \in Files,
           c.queue # <<>>, NoLogin(c.queue), NEW h, h = Head(c.queue),
           Recoverable(asked, c), Settled(c), c.known \/ c.legitClose,
           c.isConnected, c.polls = 0, ~ Doomed(c),
           h.cmd \in Transfers => ~ c.isReady,
           h.cmd = "PASV" => c.conn = "open",
           NEW code, h.cmd \in {"CWD", "TYPE"} => code = 2, NEW size \in Nat,
           NEW dir, NEW m
    PROVE  LET d == ReadControl(c, code, size)
           IN /\ Well(asked, d) /\ ~ Entering(d) /\ d.conn = c.conn
              /\ Aware(asked, c, h, dir, m) => Seated(asked, d, dir, m)
<1> DEFINE d == ReadControl(c, code, size)
           b == Begun(c)
<1>0. Typed(d)
  BY ReadTypes
<1>1. PICK e : /\ Taken(asked, c, h, e, dir, m)
               /\ \/ d = e
                  \/ h.cmd \in Transfers /\ c.data # None /\ e = b /\ d = Poll(b)
  BY ReadTaken
<1>2. h.cmd \in Transfers => Typed(b)
  BY BegunTypes
<1>3. h.cmd \in Transfers => b.isReady = c.isReady /\ Head(b.queue).cmd = h.cmd /\ b.queue # <<>>
  <2> SUFFICES ASSUME h.cmd \in Transfers
               PROVE  b.isReady = c.isReady /\ Head(b.queue).cmd = h.cmd /\ b.queue # <<>>
    OBVIOUS
  <2> DEFINE y == [Head(c.queue) EXCEPT !.begun = TRUE]
  <2>1. /\ c.queue \in Seq(Command) /\ h \in Command /\ Tail(c.queue) \in Seq(Command)
    BY FirstOf DEF Typed
  <2>2. y \in Command /\ y.cmd = h.cmd
    <3>1. Head(c.queue) \in Command /\ Head(c.queue).cmd \in Transfers
      BY <2>1
    <3>2. \A x \in Command : [x EXCEPT !.begun = TRUE].cmd = x.cmd
      BY DEF Command
    <3> QED BY <3>1, <3>2, Marked
  <2> HIDE DEF y
  <2>3. b = [c EXCEPT !.queue = <<y>> \o Tail(c.queue)]
    BY DEF Begun, y
  <2>4. b.queue = <<y>> \o Tail(c.queue) /\ b.isReady = c.isReady
    BY <2>3 DEF Typed, IsClient
  <2> HIDE DEF b
  <2>5. <<y>> \o Tail(c.queue) # <<>> /\ Head(<<y>> \o Tail(c.queue)) = y
    BY <2>1, <2>2, Before1
  <2> QED BY <2>2, <2>4, <2>5
<1>4. /\ d.queue = e.queue /\ d.trash = e.trash /\ d.cwd = e.cwd /\ d.mode = e.mode
      /\ d.data = e.data /\ d.conn = e.conn /\ d.isConnected = e.isConnected
      /\ d.legitClose = e.legitClose /\ d.known = e.known
      /\ \/ d.polls = 0
         \/ d.polls = 1 /\ ~ d.isReady /\ HeadIn(d.queue, Transfers)
  <2>1. CASE d = e
    BY <1>1, <2>1 DEF Taken
  <2>2. CASE h.cmd \in Transfers /\ e = b /\ d = Poll(b)
    <3>1. b.polls = 0
      BY <1>1, <2>2 DEF Taken
    <3> HIDE DEF d, b
    <3>2. d = [b EXCEPT !.polls = b.polls + 1] /\ Typed(b)
      BY <1>2, <2>2 DEF Poll
    <3>3. /\ d.queue = b.queue /\ d.trash = b.trash /\ d.cwd = b.cwd /\ d.mode = b.mode
          /\ d.data = b.data /\ d.conn = b.conn /\ d.isConnected = b.isConnected
          /\ d.legitClose = b.legitClose /\ d.known = b.known
          /\ d.polls = 1 /\ d.isReady = b.isReady
      BY <3>1, <3>2 DEF Typed, IsClient
    <3> QED BY <1>3, <2>2, <3>3 DEF HeadIn
  <2> QED BY <1>1, <2>1, <2>2
<1> HIDE DEF d, b
<1>5. /\ Recoverable(asked, d) /\ NoLogin(d.queue)
      /\ d.conn = c.conn /\ d.isConnected /\ d.legitClose = c.legitClose /\ d.known = c.known
      /\ h.cmd # "PASV" => d.data \in {c.data, None}
      /\ Aware(asked, c, h, dir, m) => Seated(asked, d, dir, m)
  <2>1. Recoverable(asked, e) /\ (Aware(asked, c, h, dir, m) => Seated(asked, e, dir, m))
    BY <1>1 DEF Taken
  <2>2. Recoverable(asked, d) /\ (Seated(asked, e, dir, m) => Seated(asked, d, dir, m))
    BY <1>4, <2>1 DEF Recoverable, Seated
  <2> QED BY <1>1, <1>4, <2>1, <2>2 DEF Taken
<1>6. d.queue # <<>> => 1 \in 1 .. Len(d.queue) /\ Head(d.queue) = d.queue[1]
  BY <1>0, FirstOf DEF Typed
<1>7. ~ HeadIn(d.queue, Login)
  BY <1>5, <1>6 DEF NoLogin, HeadIn
<1>8. ~ HeadIn(d.queue, {"USER", "PASS"}) /\ ~ HeadIn(d.queue, {"welcome"})
  BY <1>7 DEF HeadIn, Login
<1>9. ~ HeadIn(c.queue, {"USER", "PASS"})
  <2>1. 1 \in 1 .. Len(c.queue) /\ Head(c.queue) = c.queue[1]
    BY FirstOf DEF Typed
  <2> QED BY <2>1 DEF NoLogin, HeadIn, Login
<1>10. Settled(d)
  <2>1. LoginFirst(d.queue)
    BY <1>5 DEF NoLogin, LoginFirst
  <2>2. ~ (d.legitClose /\ d.conn # "closing")
    BY <1>5, <1>9 DEF Settled
  <2>3. d.conn = "closing" => d.data = None
    BY <1>5 DEF Settled
  <2>4. d.polls = 1 => ~ d.isReady /\ HeadIn(d.queue, Transfers \cup {"aborted"})
    BY <1>4 DEF HeadIn
  <2> QED BY <1>5, <1>8, <2>1, <2>2, <2>3, <2>4 DEF Settled
<1>11. Well(asked, d) /\ ~ Entering(d)
  BY <1>4, <1>5, <1>8, <1>10 DEF Well, Entering, Doomed
<1> QED BY <1>5, <1>11 DEF d

LEMMA PollContext ==
    ASSUME TypeInv, TalkInv, OrderInv, ContextInv, PollAgain
    PROVE  ContextInv'
<1> DEFINE c == [ftp EXCEPT !.polls = ftp.polls - 1]
           h == Head(ftp.queue)
<1>1. /\ Typed(ftp) /\ Attempting /\ Well(asked, ftp) /\ ftp.polls = 1 /\ file \in Files
      /\ Orderly(asked, ftp)
      /\ ftp.known \/ ftp.legitClose
  BY DEF TypeInv, ContextInv, Well, PollAgain, OrderInv
<1>2. /\ ftp' = IF ftp.isConnected THEN ReadControl(c, 2, 0) ELSE c
      /\ UNCHANGED <<replies, srv, asked, executed>>
  BY DEF PollAgain
<1>3. /\ Typed(c) /\ c.polls = 0 /\ c.queue = ftp.queue /\ c.trash = ftp.trash
      /\ c.cwd = ftp.cwd /\ c.mode = ftp.mode /\ c.data = ftp.data /\ c.conn = ftp.conn
      /\ c.isConnected = ftp.isConnected /\ c.isReady = ftp.isReady
      /\ c.legitClose = ftp.legitClose /\ c.known = ftp.known /\ c.report = ftp.report
      /\ c.ctl = ftp.ctl /\ c.dat = ftp.dat
  <2>1. ftp.polls - 1 = 0 /\ 0 \in Nat
    BY <1>1
  <2>2. c = [ftp EXCEPT !.polls = 0]
    BY <2>1
  <2> QED BY <1>1, <2>1, <2>2 DEF Typed, IsClient
<1> HIDE DEF c
<1>4. Doomed(c) = Doomed(ftp)
  BY <1>3 DEF Doomed
<1>5. Wished' /\ CarriedOutInContext'
  BY <1>2, NothingCarried
<1>6. Orderly(asked, c)
  BY <1>1, <1>3, SameOrder
<1>7. ~ Doomed(ftp) => Recoverable(asked, c) /\ Settled(c)
  <2>1. ~ Doomed(ftp) => Recoverable(asked, ftp) /\ Settled(ftp)
    BY <1>1 DEF Well
  <2>2. ~ Doomed(ftp) => Recoverable(asked, c)
    BY <1>3, <2>1 DEF Recoverable
  <2>3. ~ Doomed(ftp) => Settled(c)
    BY <1>3, <2>1 DEF Settled
  <2> QED BY <2>2, <2>3
<1>8. ftp.conn = "open" => Session /\ Silent /\ ftp.isConnected
  BY <1>1 DEF TalkInv, Talk, ContextInv
<1>9. CASE ~ ftp.isConnected
  <2>1. ftp' = c
    BY <1>2, <1>9
  <2>2. Well(asked, c)
    BY <1>1, <1>3, <1>4, <1>7 DEF Well
  <2> QED BY <1>2, <1>3, <1>5, <1>8, <1>9, <2>1, <2>2 DEF ContextInv
<1>10. CASE ftp.isConnected /\ Doomed(ftp)
  <2> DEFINE d == ReadControl(c, 2, 0)
  <2>1. ftp' = d
    BY <1>2, <1>10
  <2>2. /\ c.ctl = None /\ c.dat = None /\ c.data = None /\ NoLogin(c.queue)
        /\ c.conn = "closing" /\ c.legitClose
    BY <1>1, <1>3, <1>10 DEF Well, Doomed
  <2>3. /\ d.conn = "closing" /\ d.legitClose /\ d.ctl = None /\ d.dat = None /\ d.polls = 0
    <3>1. CASE c.queue = <<>>
      <4>1. d = NextCommand(c)
        BY <3>1 DEF ReadControl, Answered, Cmd, Transfers
      <4>2. Onward(asked, c, d)
        BY <1>3, <4>1, NextContext
      <4> HIDE DEF d
      <4> QED BY <1>3, <2>2, <4>2 DEF Onward
    <3>2. CASE c.queue # <<>>
      <4>1. \A dir, m : Taken(asked, c, Head(c.queue), d, dir, m)
        <5> TAKE dir, m
        <5>1. 0 \in Nat
          OBVIOUS
        <5> QED BY <1>3, <1>6, <2>2, <3>2, <5>1, ReadTaken
      <4> HIDE DEF d
      <4> QED BY <1>3, <2>2, <4>1 DEF Taken
    <3> QED BY <3>1, <3>2
  <2> HIDE DEF d
  <2>4. d.polls # 1
    BY <2>3
  <2>5. Well(asked, d)
    BY <2>3, <2>4 DEF Well, Doomed
  <2> QED BY <1>2, <1>5, <2>1, <2>3, <2>5 DEF ContextInv
<1>11. CASE ftp.isConnected /\ ~ Doomed(ftp)
  <2> DEFINE d == ReadControl(c, 2, 0)
  <2>1. ftp' = d
    BY <1>2, <1>11
  <2>2. HeadIn(ftp.queue, Transfers \cup {"aborted"}) /\ ~ ftp.isReady /\ LoginFirst(ftp.queue)
    BY <1>1, <1>11 DEF Well, Settled
  <2>3. c.queue # <<>> /\ h = Head(c.queue) /\ h.cmd \in Transfers \cup {"aborted"}
        /\ ~ HeadIn(ftp.queue, Login) /\ ~ HeadIn(ftp.queue, {"USER", "PASS"})
    BY <1>3, <2>2 DEF HeadIn, Login, Transfers
  <2>4. NoLogin(c.queue)
    BY <1>3, <2>2, <2>3, LoginIsFirst DEF Typed
  <2>5. h.cmd \notin {"PASV", "CWD", "TYPE"}
    BY <2>3 DEF Transfers
  <2> HIDE DEF h
  <2>6. \A dir, m : /\ Well(asked, d) /\ ~ Entering(d) /\ d.conn = c.conn
                    /\ Aware(asked, c, h, dir, m) => Seated(asked, d, dir, m)
    <3> TAKE dir, m
    <3>1. 0 \in Nat /\ ~ Doomed(c) /\ Recoverable(asked, c) /\ Settled(c)
      BY <1>4, <1>7, <1>11
    <3>2. Typed(c) /\ Orderly(asked, c) /\ file \in Files /\ (c.known \/ c.legitClose)
          /\ c.isConnected /\ c.polls = 0 /\ ~ c.isReady
      BY <1>1, <1>3, <1>6, <1>11, <2>2
    <3> QED BY ONLY <2>3, <2>4, <2>5, <3>1, <3>2, GoesOnWell
  <2> HIDE DEF d
  <2>7. ASSUME ftp.conn = "open" PROVE Session'
    <3>1. Session /\ replies = <<>> /\ Len(<<>>) = 0
      BY <1>8, <2>7 DEF Silent
    <3>2. ~ Entering(ftp) /\ ~ Stuck
      BY <1>1, <1>11, <2>3 DEF Entering, Stuck
    <3>3. srv.user = "in" /\ Aware(asked, c, h, srv.cwd, srv.mode)
      BY <1>3, <2>5, <3>1, <3>2 DEF Session, Pending, Aware
    <3>4. ~ Entering(d) /\ Seated(asked, d, srv.cwd, srv.mode)
      BY <2>6, <3>3
    <3> QED BY <1>2, <2>1, <3>1, <3>3, <3>4 DEF Session, Seated
  <2> QED BY <1>2, <1>3, <1>5, <2>1, <2>6, <2>7 DEF ContextInv
<1> QED BY <1>9, <1>10, <1>11

\* All that is there to read answers the same command, and a command that
\* transfers nothing is answered once.
LEMMA OneAnswered ==
    ASSUME TypeInv, TalkInv, ftp.conn = "open", NEW n \in 1 .. Len(replies)
    PROVE  /\ ftp.queue # <<>> /\ Fits(replies[n].to) /\ ftp.sent = <<>>
           /\ ftp.polls = 0 /\ (ftp.isConnected => ~ ftp.isReady)
           /\ \A k \in 1 .. Len(replies) : replies[k].to = replies[n].to
           /\ replies[n].to.cmd \in Transfers \/ (Len(replies) = 1 /\ srv.xfer = None)
           /\ ~ Silent /\ replies[n].to \in Command
<1>1. Talk
  BY DEF TalkInv
<1>2. ~ Silent
  <2>1. replies # <<>>
    <3>1. Len(<<>>) = 0
      OBVIOUS
    <3> QED BY <3>1
  <2> QED BY <2>1 DEF Silent
<1>3. ftp.queue # <<>> /\ ftp.polls = 0 /\ (ftp.isConnected => ~ ftp.isReady)
  BY <1>1, <1>2 DEF Talk
<1>4. PICK x \in Command : Fits(x) /\ UnderWay(x)
  BY <1>1, <1>2 DEF Talk
<1>5. ~ Sent(x) /\ ~ Going(x)
  BY <1>2 DEF Sent, Going, Silent
<1>6. /\ ftp.sent = <<>> /\ \A k \in 1 .. Len(replies) : replies[k].to = x
      /\ x.cmd \in Transfers \/ (Len(replies) = 1 /\ srv.xfer = None)
  <2>1. CASE Answer(x)
    BY <2>1 DEF Answer
  <2>2. CASE BothAnswers(x)
    <3>1. \A k \in 1 .. 2 : k = 1 \/ k = 2
      OBVIOUS
    <3> QED BY <2>2, <3>1 DEF BothAnswers, Begins
  <2>3. CASE Starting(x)
    BY <2>3 DEF Starting, Begins
  <2> QED BY <1>4, <1>5, <2>1, <2>2, <2>3 DEF UnderWay
<1> QED BY <1>2, <1>3, <1>4, <1>6

LEMMA ReadContext ==
    ASSUME TypeInv, TalkInv, OrderInv, ContextInv, OnDataAvailable
    PROVE  ContextInv'
<1>1. PICK n \in 1 .. Len(replies) :
        /\ ftp' = ReadControl([ftp EXCEPT !.ctl = None], replies[n].code, replies[n].size)
        /\ replies' = SubSeq(replies, n + 1, Len(replies))
  BY DEF OnDataAvailable
<1> DEFINE c == [ftp EXCEPT !.ctl = None]
           h == Head(ftp.queue)
           x == replies[n].to
           code == replies[n].code
           size == replies[n].size
           d == ReadControl(c, code, size)
<1>2. /\ ftp.conn = "open" /\ UNCHANGED <<srv, asked, executed>>
      /\ ftp' = d
  BY <1>1 DEF OnDataAvailable
<1>3. /\ Typed(ftp) /\ Attempting /\ Well(asked, ftp) /\ file \in Files
      /\ Orderly(asked, ftp) /\ Session
      /\ ftp.known \/ ftp.legitClose
  BY <1>2 DEF TypeInv, ContextInv, Well, OrderInv
<1>4. /\ ftp.queue # <<>> /\ Fits(x) /\ ftp.sent = <<>>
      /\ ftp.polls = 0 /\ (ftp.isConnected => ~ ftp.isReady)
      /\ \A k \in 1 .. Len(replies) : replies[k].to = x
      /\ x.cmd \in Transfers \/ (Len(replies) = 1 /\ srv.xfer = None)
      /\ ~ Silent /\ x \in Command
  BY <1>2, OneAnswered
<1>5. replies \in Seq(Reply) /\ Len(replies) \in Nat /\ size \in Nat
  <2>1. replies \in Seq(Reply)
    BY DEF TypeInv
  <2>2. replies[n] \in Reply /\ Len(replies) \in Nat
    BY <2>1, Elements
  <2> QED BY <2>1, <2>2 DEF Reply
<1>6. /\ x.cmd \in {"CWD", "TYPE"} =>
           code = 2 /\ h = x /\ x.arg = IF x.cmd = "CWD" THEN srv.cwd ELSE srv.mode
      /\ x.cmd = "USER" => code # 2
      /\ x.cmd = "PASS" /\ code = 2 => srv.user = "in"
  BY <1>3 DEF Session
<1>7. h.cmd = "aborted" \/ h.cmd = x.cmd
  BY <1>4 DEF Fits
<1>8. /\ Typed(c) /\ c.queue = ftp.queue /\ c.trash = ftp.trash
      /\ c.cwd = ftp.cwd /\ c.mode = ftp.mode /\ c.data = ftp.data /\ c.conn = "open"
      /\ c.isConnected = ftp.isConnected /\ c.isReady = ftp.isReady /\ c.polls = 0
      /\ c.legitClose = ftp.legitClose /\ c.known = ftp.known /\ c.report = ftp.report
      /\ c.sent = <<>>
  BY <1>2, <1>3, <1>4 DEF Typed, IsClient
<1>9. /\ Orderly(asked, c) /\ Recoverable(asked, c) /\ Settled(c) /\ ~ Doomed(c)
      /\ Settled(ftp)
  <2>1. Orderly(asked, c)
    BY <1>3, <1>8, SameOrder
  <2>2. Recoverable(asked, ftp) /\ Settled(ftp)
    BY <1>2, <1>3 DEF Well, Doomed
  <2>3. Recoverable(asked, c)
    BY <1>8, <2>2 DEF Recoverable
  <2>4. Settled(c)
    BY <1>2, <1>4, <1>8, <2>2 DEF Settled
  <2>5. ~ Doomed(c)
    BY <1>8 DEF Doomed
  <2> QED BY <2>1, <2>2, <2>3, <2>4, <2>5
<1>10. Wished' /\ CarriedOutInContext'
  BY <1>2, NothingCarried
<1>11. x.cmd \notin Transfers => replies' = <<>> /\ Len(replies') = 0
  <2> SUFFICES ASSUME x.cmd \notin Transfers PROVE replies' = <<>> /\ Len(replies') = 0
    OBVIOUS
  <2> HIDE DEF x
  <2>1. Len(replies) = 1 /\ n = 1
    BY <1>4
  <2>2. replies' = SubSeq(replies, 2, 1)
    BY <1>1, <2>1
  <2>3. SubSeq(replies, 2, 1) = <<>>
    BY <1>5
  <2> QED BY <2>2, <2>3
<1>12. \A k \in 1 .. Len(replies') : replies'[k].to.cmd \in Transfers
  <2>1. CASE x.cmd \in Transfers
    <3>1. \A k \in 1 .. Len(replies') : k + n \in 1 .. Len(replies) /\ replies'[k] = replies[k + n]
      BY <1>1, <1>5
    <3> QED BY <1>4, <2>1, <3>1
  <2>2. CASE x.cmd \notin Transfers
    BY <1>11, <2>2
  <2> QED BY <2>1, <2>2
<1>13. \A k \in 1 .. Len(replies') : replies'[k].to.cmd \notin {"CWD", "TYPE", "USER", "PASS"}
  BY <1>12 DEF Transfers
<1> HIDE DEF c, d, x, code, size
<1>14. CASE h.cmd \in Login
  <2>1. x.cmd = h.cmd /\ x.cmd \notin Transfers
    BY <1>7, <1>14 DEF Login, Transfers
  <2>2. h.cmd = "USER" => code # 2
    BY <1>6, <2>1
  <2>3. c.queue # <<>> /\ h = Head(c.queue) /\ (c.isConnected => ~ c.isReady)
    BY <1>4, <1>8
  <2>4. c.known \/ c.legitClose
    BY <1>3, <1>8
  <2> HIDE DEF h
  <2>5. /\ Well(asked, d) /\ d.polls = 0
        /\ d.conn = "open" =>
             \/ Entering(d)
             \/ /\ h.cmd = "PASS" /\ code = 2 /\ ~ Entering(d)
                /\ Sound(asked, d.queue, Seat(Root, "A", d.data)) /\ d.mode = None
                /\ d.cwd \in {Root, None} \/ (HeadIn(d.queue, {"RNTO"}) /\ ~ d.isReady
                                                /\ d.sent = c.sent)
    BY <1>3, <1>8, <1>9, <1>14, <2>2, <2>3, <2>4, LoginTaken DEF d
  <2>6. ASSUME d.conn = "open" PROVE Session'
    <3>1. Entering(ftp)
      <4>1. h = Head(ftp.queue)
        BY DEF h
      <4>2. h.cmd = "welcome" => HeadIn(ftp.queue, {"welcome"})
        BY <1>4, <4>1 DEF HeadIn
      <4>3. h.cmd # "welcome" => HeadIn(ftp.queue, {"USER", "PASS"})
        BY <1>4, <1>14, <4>1 DEF HeadIn, Login
      <4> QED BY <1>9, <4>2, <4>3 DEF Entering, Settled
    <3>2. srv.cwd = Root /\ srv.mode = "A"
      BY <1>3, <3>1 DEF Session
    <3>3. CASE Entering(d)
      BY <1>2, <1>13, <3>2, <3>3 DEF Session
    <3>4. CASE ~ Entering(d)
      <4>1. /\ srv.user = "in" /\ Sound(asked, d.queue, Seat(Root, "A", d.data))
            /\ d.mode = None
            /\ d.cwd \in {Root, None} \/ (HeadIn(d.queue, {"RNTO"}) /\ ~ d.isReady
                                                /\ d.sent = <<>>)
        BY <1>6, <1>8, <2>1, <2>5, <2>6, <3>4
      <4>2. replies' = <<>> /\ srv.xfer = None
        BY <1>4, <1>11, <2>1
      <4>3. d.cwd \in {Root, None} \/ Stuck'
        BY <1>2, <2>5, <4>1, <4>2 DEF Stuck, Silent
      <4> QED BY <1>2, <1>13, <3>2, <3>4, <4>1, <4>3 DEF Session
    <3> QED BY <3>3, <3>4
  <2> QED BY <1>2, <1>10, <2>5, <2>6 DEF ContextInv
<1>15. CASE h.cmd \notin Login
  <2>1. LoginFirst(ftp.queue) /\ ~ HeadIn(ftp.queue, Login) /\ ~ HeadIn(ftp.queue, {"USER", "PASS"})
    BY <1>9, <1>15 DEF Settled, HeadIn, Login
  <2>2. NoLogin(ftp.queue)
    BY <1>3, <2>1, LoginIsFirst DEF Typed
  <2>3. ftp.isConnected
    <3>1. Greets(ftp)
      BY <1>2 DEF TalkInv, Talk
    <3> QED BY <1>4, <1>15, <3>1 DEF Greets, Login
  <2>4. h.cmd \in {"CWD", "TYPE"} => code = 2 /\ h.arg = IF h.cmd = "CWD" THEN srv.cwd ELSE srv.mode
    BY <1>6, <1>7
  <2>5. ~ Entering(ftp) /\ ~ Stuck
    BY <1>4, <2>1, <2>3 DEF Entering, Stuck
  <2>6. /\ Pending("CWD") => h.cmd = "CWD"
        /\ Pending("TYPE") => h.cmd = "TYPE"
    BY <1>4, <1>6 DEF Pending
  <2>7. srv.user = "in" /\ Aware(asked, c, h, srv.cwd, srv.mode)
    BY <1>3, <1>8, <2>4, <2>5, <2>6 DEF Session, Aware
  <2>8. \A dir, m : /\ Well(asked, d) /\ ~ Entering(d) /\ d.conn = c.conn
                    /\ Aware(asked, c, h, dir, m) => Seated(asked, d, dir, m)
    <3> TAKE dir, m
    <3>1. c.queue # <<>> /\ h = Head(c.queue) /\ NoLogin(c.queue) /\ ~ c.isReady /\ c.isConnected
      BY <1>4, <1>8, <2>2, <2>3
    <3>2. c.known \/ c.legitClose
      BY <1>3, <1>8
    <3>3. h.cmd \in {"CWD", "TYPE"} => code = 2
      BY <2>4
    <3>4. h.cmd \in Transfers => ~ c.isReady
      BY <3>1
    <3>5. h.cmd = "PASV" => c.conn = "open"
      BY <1>8
    <3>6. Typed(c) /\ Orderly(asked, c) /\ file \in Files /\ Recoverable(asked, c) /\ Settled(c)
          /\ ~ Doomed(c) /\ c.polls = 0 /\ size \in Nat
      BY <1>3, <1>5, <1>8, <1>9
    <3> HIDE DEF h
    <3> QED BY ONLY <3>1, <3>2, <3>3, <3>4, <3>5, <3>6, GoesOnWell DEF d
  <2>9. Session'
    <3>1. Seated(asked, d, srv.cwd, srv.mode)
      BY <2>7, <2>8
    <3> QED BY <1>2, <1>13, <2>7, <2>8, <3>1 DEF Session, Seated
  <2> QED BY <1>2, <1>10, <2>8, <2>9 DEF ContextInv
<1> QED BY <1>14, <1>15

----------------------------------------------------------------------------
(***************************************************************************)
(* The server and the data connection.                                     *)
(***************************************************************************)
LEMMA AcceptContext ==
    ASSUME TypeInv, ContextInv, Accept
    PROVE  ContextInv'
<1>1. Typed(ftp) /\ Well(asked, ftp) /\ ~ ftp.isConnected
  BY DEF TypeInv, ContextInv, Accept, Attempting
<1>2. ftp.conn = "opening" /\ ftp' = [ftp EXCEPT !.conn = "open"]
      /\ UNCHANGED <<asked, executed>>
  BY DEF Accept
<1>3. srv'.cwd = Root /\ srv'.mode = "A"
  BY DEF Accept
<1>4. \A n \in 1 .. Len(replies') : replies'[n].to.cmd = "welcome"
  <2>1. PICK code : replies' = <<[to |-> Cmd("welcome", None, 0), code |-> code, size |-> 0]>>
    BY DEF Accept
  <2> QED BY <2>1 DEF Cmd
<1>5. /\ ftp'.conn = "open" /\ ftp'.queue = ftp.queue /\ ftp'.trash = ftp.trash
      /\ ftp'.cwd = ftp.cwd /\ ftp'.mode = ftp.mode /\ ftp'.data = ftp.data
      /\ ~ ftp'.isConnected /\ ftp'.isReady = ftp.isReady /\ ftp'.polls = ftp.polls
      /\ ftp'.legitClose = ftp.legitClose /\ ftp'.known = ftp.known
  BY <1>1, <1>2 DEF Typed, IsClient
<1>6. Recoverable(asked, ftp) /\ Settled(ftp)
  BY <1>1, <1>2 DEF Well, Doomed
<1>7. Recoverable(asked, ftp')
  BY <1>5, <1>6 DEF Recoverable
<1>8. Settled(ftp')
  BY <1>1, <1>2, <1>5, <1>6 DEF Settled
<1>9. Well(asked, ftp')
  BY <1>1, <1>5, <1>7, <1>8 DEF Well, Doomed
<1>10. Entering(ftp')
  BY <1>5 DEF Entering
<1>11. Session'
  BY <1>3, <1>4, <1>10 DEF Session
<1> QED BY <1>2, <1>5, <1>9, <1>11, NothingCarried DEF ContextInv

\* A step that the client does not see in its queue.
LEMMA UnseenContext ==
    ASSUME TypeInv, ContextInv, ftp.conn = "open",
           ftp'.conn = "open", ftp'.queue = ftp.queue, ftp'.trash = ftp.trash,
           ftp'.cwd = ftp.cwd, ftp'.mode = ftp.mode, ftp.data = None => ftp'.data = None,
           \A dir, m : Sound(asked, ftp.queue, Seat(dir, m, ftp.data))
                         => Sound(asked, ftp.queue, Seat(dir, m, ftp'.data)),
           ftp'.isConnected = ftp.isConnected, ftp'.isReady = ftp.isReady,
           ftp'.polls = ftp.polls, ftp'.legitClose = ftp.legitClose, ftp'.known = ftp.known,
           UNCHANGED asked, ~ Stuck \/ (ftp'.sent = ftp.sent /\ replies' = replies /\ srv' = srv),
           srv'.cwd = srv.cwd, srv'.mode = srv.mode, srv'.user = srv.user,
           \A n \in 1 .. Len(replies) : n \in 1 .. Len(replies') /\ replies'[n] = replies[n],
           \A n \in 1 .. Len(replies') :
              \/ n \in 1 .. Len(replies)
              \/ replies'[n].to.cmd \notin {"CWD", "TYPE", "USER", "PASS"}
    PROVE  Well(asked', ftp') /\ Session'
<1>1. Well(asked, ftp) /\ Session
  BY DEF ContextInv
<1>2. Recoverable(asked, ftp) /\ Settled(ftp)
  BY <1>1 DEF Well, Doomed
<1>3. Recoverable(asked, ftp')
  BY <1>2 DEF Recoverable
<1>4. Settled(ftp')
  BY <1>2 DEF Settled
<1>5. Well(asked, ftp')
  BY <1>1, <1>3, <1>4 DEF Well, Doomed
<1>6. Entering(ftp') = Entering(ftp)
  BY DEF Entering
<1>7. Stuck => Stuck'
  BY DEF Stuck, Silent
<1>8. \A cmd : Pending(cmd) => Pending(cmd)'
  BY DEF Pending
<1>10. ~ Entering(ftp) =>
         /\ srv.user = "in" /\ Sound(asked, ftp.queue, Seat(srv.cwd, srv.mode, ftp'.data))
         /\ \/ Stuck'
            \/ /\ ftp.cwd \in {srv.cwd, None} \/ Pending("CWD")'
               /\ ftp.mode \in {srv.mode, None} \/ Pending("TYPE")'
  BY <1>1, <1>7, <1>8 DEF Session
<1>11. \A n \in 1 .. Len(replies') :
         LET x == replies'[n].to
             code == replies'[n].code
         IN /\ x.cmd \in {"CWD", "TYPE"} =>
                 /\ code = 2 /\ Head(ftp.queue) = x
                 /\ x.arg = IF x.cmd = "CWD" THEN srv.cwd ELSE srv.mode
            /\ x.cmd = "USER" => code # 2
            /\ x.cmd = "PASS" /\ code = 2 => srv.user = "in"
  BY <1>1 DEF Session
<1>12. Entering(ftp) => srv'.cwd = Root /\ srv'.mode = "A"
  BY <1>1 DEF Session
<1> QED BY <1>5, <1>6, <1>10, <1>11, <1>12 DEF Session

\* A data connection stays the one of its transfer.
LEMMA SameServed ==
    ASSUME NEW w, NEW report, NEW q \in Seq(Command), Line(w, report, q),
           NEW d, d # None, NEW e, e = None \/ e.id = d.id,
           NEW dir, NEW m, Sound(w, q, Seat(dir, m, d))
    PROVE  Sound(w, q, Seat(dir, m, e))
<1>1. \A k \in 1 .. Len(q) : q[k].cmd \in Carriers => q[k].req \in Requests
  <2> SUFFICES ASSUME NEW k \in 1 .. Len(q), q[k].cmd \in Carriers PROVE q[k].req \in Requests
    OBVIOUS
  <2>1. q[k] \in Command
    BY Elements
  <2> QED BY <2>1, OfCommand DEF Carriers
<1> DEFINE s == Seat(dir, m, d)
<1>2. Sound(w, q, {a \in s : a[1] # "PASV" \/ a[2] \in Requests})
  <2>1. Len(q) \in Nat
    BY Elements
  <2> HIDE DEF s
  <2> QED BY ONLY <1>1, <2>1, Sound(w, q, s), OnlyRequests DEF s
<1>3. {a \in s : a[1] # "PASV" \/ a[2] \in Requests} \subseteq Seat(dir, m, e)
  BY DEF Seat, Served, Serves
<1> QED BY <1>2, <1>3, Weaker DEF Sound

LEMMA DataContext ==
    ASSUME TypeInv, OrderInv, ContextInv, DataMoves \/ DataFinishes
    PROVE  ContextInv'
<1>1. /\ Typed(ftp) /\ ftp.conn = "open" /\ srv \in Server /\ Orderly(asked, ftp)
      /\ ftp.queue \in Seq(Command)
  BY DEF TypeInv, Typed, DataMoves, DataFinishes, OrderInv
<1>2. ftp.data \in DataConn /\ ftp.data # None
  BY <1>1 DEF Typed, DataMoves, DataFinishes
<1>3. /\ UNCHANGED <<replies, asked, executed>>
      /\ srv'.cwd = srv.cwd /\ srv'.mode = srv.mode /\ srv'.user = srv.user
      /\ srv.xfer # None \/ srv' = srv
  BY <1>1 DEF DataMoves, DataFinishes, Server
<1>4. PICK e : ftp' = [ftp EXCEPT !.data = e] /\ e.id = ftp.data.id
  <2>1. CASE DataMoves
    <3>1. ftp' = [ftp EXCEPT !.data = [ftp.data EXCEPT !.moved = ftp.data.moved + 1]]
      BY <1>1, <2>1 DEF DataMoves, Typed, IsClient
    <3>2. [ftp.data EXCEPT !.moved = ftp.data.moved + 1].id = ftp.data.id
      BY <1>2 DEF DataConn
    <3> QED BY <3>1, <3>2
  <2>2. CASE DataFinishes
    <3>1. ftp' = [ftp EXCEPT !.data = [ftp.data EXCEPT !.finished = TRUE]]
      BY <1>1, <2>2 DEF DataFinishes, Typed, IsClient
    <3>2. [ftp.data EXCEPT !.finished = TRUE].id = ftp.data.id
      BY <1>2 DEF DataConn
    <3> QED BY <3>1, <3>2
  <2> QED BY <2>1, <2>2
<1>5. /\ ftp'.conn = ftp.conn /\ ftp'.queue = ftp.queue /\ ftp'.trash = ftp.trash
      /\ ftp'.cwd = ftp.cwd /\ ftp'.mode = ftp.mode
      /\ ftp'.isConnected = ftp.isConnected /\ ftp'.isReady = ftp.isReady
      /\ ftp'.polls = ftp.polls /\ ftp'.legitClose = ftp.legitClose
      /\ ftp'.known = ftp.known /\ ftp'.sent = ftp.sent /\ ftp'.data = e
  BY <1>1, <1>4 DEF Typed, IsClient
<1>6. \A dir, m : Sound(asked, ftp.queue, Seat(dir, m, ftp.data))
                    => Sound(asked, ftp.queue, Seat(dir, m, ftp'.data))
  BY <1>1, <1>2, <1>4, <1>5, SameServed DEF Orderly
<1>7. ~ Stuck \/ srv' = srv
  BY <1>3 DEF Stuck, Silent
<1>8. Well(asked', ftp') /\ Session'
  BY <1>1, <1>2, <1>3, <1>5, <1>6, <1>7, UnseenContext
<1> QED BY <1>3, <1>8, NothingCarried DEF ContextInv

LEMMA EndContext ==
    ASSUME TypeInv, TalkInv, ContextInv, TransferEnds
    PROVE  ContextInv'
<1>1. /\ Typed(ftp) /\ ftp.conn = "open" /\ srv \in Server /\ replies \in Seq(Reply)
      /\ srv.xfer # None
  BY DEF TypeInv, TransferEnds
<1>2. srv.xfer.of.cmd \in Transfers
  <2>1. Talk /\ ~ Silent
    BY <1>1 DEF TalkInv, Silent
  <2>2. PICK x \in Command : UnderWay(x)
    BY <2>1 DEF Talk
  <2> QED BY <1>1, <2>2 DEF UnderWay, Sent, Answer, BothAnswers, Going, Starting, Begins
<1>3. PICK code : Replied(srv.xfer.of, code, 0)
  BY DEF TransferEnds
<1>4. /\ UNCHANGED <<ftp, asked, executed>>
      /\ srv'.cwd = srv.cwd /\ srv'.mode = srv.mode /\ srv'.user = srv.user
  BY <1>1 DEF TransferEnds, Server
<1>5. ~ Stuck
  BY <1>1 DEF Stuck, Silent
<1> DEFINE y == [to |-> srv.xfer.of, code |-> code, size |-> 0]
<1>6. replies' = Append(replies, y) /\ y.to.cmd \in Transfers
  BY <1>2, <1>3 DEF Replied
<1> HIDE DEF y
<1>7. /\ \A n \in 1 .. Len(replies) : n \in 1 .. Len(replies') /\ replies'[n] = replies[n]
      /\ \A n \in 1 .. Len(replies') : n \in 1 .. Len(replies) \/ replies'[n] = y
  BY <1>1, <1>6
<1>8. \A n \in 1 .. Len(replies') :
        n \in 1 .. Len(replies) \/ replies'[n].to.cmd \notin {"CWD", "TYPE", "USER", "PASS"}
  BY <1>6, <1>7 DEF Transfers
<1>9. Well(asked', ftp') /\ Session'
  BY <1>1, <1>4, <1>5, <1>7, <1>8, UnseenContext
<1> QED BY <1>4, <1>9, NothingCarried DEF ContextInv

\* The command that the server carries out is the one at the head, or was
\* cancelled.
LEMMA SentOne ==
    ASSUME TypeInv, TalkInv, Execute
    PROVE  LET x == Head(ftp.sent)
           IN /\ x \in Command /\ replies = <<>> /\ srv.xfer = None /\ ~ Stuck
              /\ ftp.queue # <<>> /\ ftp.conn = "open"
              /\ Head(ftp.queue) = x \/ x.begun
<1>1. Talk /\ ftp.sent # <<>> /\ ftp.conn = "open"
  BY DEF TalkInv, Execute
<1>2. ~ Silent
  BY <1>1 DEF Silent
<1>3. PICK y \in Command : UnderWay(y)
  BY <1>1, <1>2 DEF Talk
<1>4. Sent(y)
  BY <1>1, <1>3 DEF UnderWay, Answer, BothAnswers, Going, Starting
<1>5. Head(ftp.sent) = y
  BY <1>4 DEF Sent
<1> QED BY <1>1, <1>2, <1>4, <1>5 DEF Talk, Sent, Stuck

\* What the server carries out in such a session is carried out as it was meant.
LEMMA CarriedContext ==
    ASSUME TypeInv, OrderInv, ContextInv, ftp.conn = "open", ~ Entering(ftp),
           ftp.queue # <<>>, NEW x, x = Head(ftp.queue), x.cmd \in Carrying,
           CarriedOut(x), UNCHANGED asked
    PROVE  Wished' /\ CarriedOutInContext'
<1> DEFINE s == Seat(srv.cwd, srv.mode, ftp.data)
           kind == asked[x.req].kind
           new == [cmd |-> x.cmd, req |-> x.req, cwd |-> srv.cwd, mode |-> srv.mode]
<1>1. ftp.queue \in Seq(Command) /\ Line(asked, ftp.report, ftp.queue) /\ srv \in Server
  BY DEF TypeInv, Typed, OrderInv, Orderly
<1>2. Sound(asked, ftp.queue, s)
  BY DEF ContextInv, Session
<1>3. May(asked, s, x)
  BY <1>1, <1>2, TailSound
<1>4. /\ kind # "rename" => <<"CWD", asked[x.req].dir>> \in s
      /\ kind = "list" => <<"TYPE", "A">> \in s
      /\ kind \in {"download", "upload"} => <<"TYPE", "I">> \in s
  BY <1>3 DEF May
<1>5. /\ \A dir : <<"CWD", dir>> \in s => dir = srv.cwd
      /\ \A m : <<"TYPE", m>> \in s => m = srv.mode
  BY DEF Seat, Served, Serves
<1>6. x.req \in Requests /\ asked[x.req] # None
  <2>1. 1 \in 1 .. Len(ftp.queue) /\ ftp.queue[1] = x /\ x \in Command
    BY <1>1, FirstOf
  <2>2. Fine(asked, ftp.report, x)
    BY <1>1, <2>1 DEF Line
  <2>3. x.req \in Requests \cup {0}
    BY <2>1, OfCommand
  <2> QED BY <2>2, <2>3 DEF Fine
<1>7. executed' = executed \cup {new}
  BY DEF CarriedOut
<1>8. new.req = x.req /\ new.cwd = srv.cwd /\ new.mode = srv.mode
  OBVIOUS
<1> HIDE DEF s, new
<1>9. Wished'
  BY <1>6, <1>7, <1>8 DEF ContextInv, Wished
<1>10. /\ kind # "rename" => new.cwd = asked[new.req].dir
       /\ kind = "list" => new.mode = "A"
       /\ kind \in {"download", "upload"} => new.mode = "I"
  BY <1>4, <1>5, <1>8
<1>11. CarriedOutInContext'
  <2>1. CarriedOutInContext
    BY DEF ContextInv
  <2> QED BY <1>7, <1>8, <1>10, <2>1 DEF CarriedOutInContext
<1> QED BY <1>9, <1>11

\* A directory or a mode is set, that the commands after this one count on.
LEMMA SetSound ==
    ASSUME NEW w, NEW q \in Seq(Command), q # <<>>, NEW x, x = Head(q),
           NEW dir, NEW m, NEW d, Sound(w, q, Seat(dir, m, d))
    PROVE  /\ x.cmd = "CWD" => Sound(w, q, Seat(x.arg, m, d))
           /\ x.cmd = "TYPE" => Sound(w, q, Seat(dir, x.arg, d))
<1>1. x \in Command /\ Tail(q) \in Seq(Command) /\ q = <<x>> \o Tail(q)
  BY FirstOf, HeadAndTail
<1>2. ASSUME NEW s, x.cmd \in {"CWD", "TYPE"}, Leave(Seat(dir, m, d), x) = Leave(s, x)
      PROVE  Sound(w, q, s)
  <2>1. Sound(w, Tail(q), Leave(s, x))
    BY <1>2, TailSound
  <2>2. May(w, s, x)
    BY <1>2 DEF May, Carrying, Transfers
  <2> QED BY <1>1, <2>1, <2>2, FrontSound
<1>3. x.cmd = "CWD" => Leave(Seat(dir, m, d), x) = Leave(Seat(x.arg, m, d), x)
  <2> SUFFICES ASSUME x.cmd = "CWD"
               PROVE  Leave(Seat(dir, m, d), x) = Leave(Seat(x.arg, m, d), x)
    OBVIOUS
  <2> DEFINE s == Seat(dir, m, d)
             t == Seat(x.arg, m, d)
             K(u) == {a \in u : a # <<"TYPE", "I">> /\ a[1] # "CWD"}
  <2>1. /\ Leave(s, x) = K(s) \cup {<<x.cmd, x.arg>>}
        /\ Leave(t, x) = K(t) \cup {<<x.cmd, x.arg>>}
    <3> HIDE DEF s, t
    <3> QED BY WhatIsLeft
  <2>2. K(s) = K(t)
    BY DEF Seat
  <2> HIDE DEF s, t, K
  <2>3. Leave(s, x) = Leave(t, x)
    BY <2>1, <2>2
  <2> QED BY <2>3 DEF s, t
<1>4. x.cmd = "TYPE" => Leave(Seat(dir, m, d), x) = Leave(Seat(dir, x.arg, d), x)
  <2> SUFFICES ASSUME x.cmd = "TYPE"
               PROVE  Leave(Seat(dir, m, d), x) = Leave(Seat(dir, x.arg, d), x)
    OBVIOUS
  <2> DEFINE s == Seat(dir, m, d)
             t == Seat(dir, x.arg, d)
             K(u) == {a \in u : a # <<"TYPE", "I">> /\ a[1] # "TYPE"}
  <2>1. /\ Leave(s, x) = K(s) \cup {<<x.cmd, x.arg>>}
        /\ Leave(t, x) = K(t) \cup {<<x.cmd, x.arg>>}
    <3> HIDE DEF s, t
    <3> QED BY WhatIsLeft
  <2>2. K(s) = K(t)
    BY DEF Seat
  <2> HIDE DEF s, t, K
  <2>3. Leave(s, x) = Leave(t, x)
    BY <2>1, <2>2
  <2> QED BY <2>3 DEF s, t
<1> QED BY <1>2, <1>3, <1>4

LEMMA ExecuteContext ==
    ASSUME TypeInv, TalkInv, OrderInv, ContextInv, Certain, Execute
    PROVE  ContextInv'
<1> DEFINE x == Head(ftp.sent)
<1>1. /\ x \in Command /\ replies = <<>> /\ srv.xfer = None /\ ~ Stuck
      /\ ftp.queue # <<>> /\ ftp.conn = "open"
      /\ Head(ftp.queue) = x \/ x.begun
  BY SentOne
<1>2. /\ ftp' = [ftp EXCEPT !.sent = Tail(ftp.sent)] /\ UNCHANGED asked
      /\ IF x.cmd \in {"USER", "PASS"} THEN LogsIn(x)
         ELSE IF srv.user # "in" \/ x.cmd = "welcome" \/ x.begun THEN Refuses(x)
         ELSE \/ Sets(x) \/ Changes(x) \/ BeginsTransfer(x)
              \/ x.cmd \in Refused /\ Refuses(x)
  BY DEF Execute
<1>3. /\ Typed(ftp) /\ Well(asked, ftp) /\ srv \in Server /\ Session /\ Greets(ftp)
      /\ ftp.queue \in Seq(Command)
  BY <1>1 DEF TypeInv, Typed, ContextInv, TalkInv, Talk
<1>4. /\ ftp'.conn = "open" /\ ftp'.queue = ftp.queue /\ ftp'.trash = ftp.trash
      /\ ftp'.cwd = ftp.cwd /\ ftp'.mode = ftp.mode /\ ftp'.data = ftp.data
      /\ ftp'.isConnected = ftp.isConnected /\ ftp'.isReady = ftp.isReady
      /\ ftp'.polls = ftp.polls /\ ftp'.legitClose = ftp.legitClose /\ ftp'.known = ftp.known
  BY <1>1, <1>2, <1>3 DEF Typed, IsClient
<1> HIDE DEF x
<1>5. x.begun => x.cmd \in Transfers
  BY <1>1, OfCommand
<1>6. ASSUME NEW code, NEW size, Replied(x, code, size)
      PROVE  Len(replies') = 1 /\ replies'[1].to = x /\ replies'[1].code = code
  BY <1>1, <1>6 DEF Replied
<1>7. \A n \in 1 .. 1 : n = 1
  OBVIOUS
<1>8. /\ Well(asked', ftp') /\ Entering(ftp') = Entering(ftp)
  <2>1. Recoverable(asked, ftp) /\ Settled(ftp)
    BY <1>1, <1>3 DEF Well, Doomed
  <2>2. Recoverable(asked, ftp')
    BY <1>4, <2>1 DEF Recoverable
  <2>3. Settled(ftp')
    BY <1>1, <1>4, <2>1 DEF Settled
  <2>4. Well(asked, ftp')
    BY <1>1, <1>3, <1>4, <2>2, <2>3 DEF Well, Doomed
  <2>5. Entering(ftp') = Entering(ftp)
    BY <1>4 DEF Entering
  <2> QED BY <1>2, <2>4, <2>5
\* What neither is of a login nor sets anything is not seen in the session.
<1>9. ASSUME x.cmd \notin {"CWD", "TYPE", "USER", "PASS"},
             NEW code, NEW size, Replied(x, code, size),
             srv'.cwd = srv.cwd, srv'.mode = srv.mode, srv'.user = srv.user
      PROVE  Session'
  <2>1. Len(replies') = 1 /\ replies'[1].to = x
    BY <1>6, <1>9
  <2>2. \A n \in 1 .. Len(replies) : n \in 1 .. Len(replies') /\ replies'[n] = replies[n]
    <3>1. Len(<<>>) = 0
      OBVIOUS
    <3> QED BY <1>1, <3>1
  <2>3. \A n \in 1 .. Len(replies') : replies'[n].to.cmd \notin {"CWD", "TYPE", "USER", "PASS"}
    BY <1>7, <1>9, <2>1
  <2>4. \A dir, m : Sound(asked, ftp.queue, Seat(dir, m, ftp.data))
                      => Sound(asked, ftp.queue, Seat(dir, m, ftp'.data))
    BY <1>4
  <2>5. Well(asked', ftp') /\ Session'
    BY <1>1, <1>2, <1>4, <1>9, <2>2, <2>3, <2>4, UnseenContext
  <2> QED BY <2>5
<1>10. CASE x.cmd \in {"USER", "PASS"}
  <2>1. LogsIn(x) /\ Head(ftp.queue) = x
    BY <1>1, <1>2, <1>5, <1>10 DEF Transfers
  <2>2. Entering(ftp)
    BY <1>1, <1>10, <2>1 DEF Entering, HeadIn
  <2>3. /\ srv'.cwd = Root /\ srv'.mode = "A" /\ UNCHANGED executed
        /\ \E code : /\ Replied(x, code, 0)
                     /\ x.cmd = "USER" => code # 2
                     /\ x.cmd = "PASS" /\ code = 2 => srv'.user = "in"
    <3>1. srv.cwd = Root /\ srv.mode = "A"
      BY <1>3, <2>2 DEF Session
    <3>2. CASE x.cmd = "USER"
      BY <1>3, <2>1, <3>1, <3>2 DEF LogsIn, Server
    <3>3. CASE x.cmd = "PASS"
      <4>1. /\ Replied(x, IF srv.user = "none" THEN 5 ELSE 2, 0)
            /\ srv' = [srv EXCEPT !.user = IF srv.user = "none" THEN "none" ELSE "in"]
            /\ UNCHANGED executed
        BY <2>1, <3>3 DEF LogsIn
      <4>2. (IF srv.user = "none" THEN 5 ELSE 2) = 2 => srv'.user = "in"
        BY <1>3, <4>1 DEF Server
      <4> QED BY <1>3, <3>1, <3>3, <4>1, <4>2 DEF Server
    <3> QED BY <1>10, <3>2, <3>3
  <2>4. PICK code : /\ Replied(x, code, 0)
                    /\ x.cmd = "USER" => code # 2
                    /\ x.cmd = "PASS" /\ code = 2 => srv'.user = "in"
    BY <2>3
  <2>5. Len(replies') = 1 /\ replies'[1].to = x /\ replies'[1].code = code
    BY <1>6, <2>4
  <2>6. \A n \in 1 .. Len(replies') :
          /\ replies'[n].to.cmd \notin {"CWD", "TYPE"}
          /\ replies'[n].to.cmd = "USER" => replies'[n].code # 2
          /\ replies'[n].to.cmd = "PASS" /\ replies'[n].code = 2 => srv'.user = "in"
    BY <1>7, <1>10, <2>4, <2>5
  <2>7. Session'
    BY <1>8, <2>2, <2>3, <2>6 DEF Session
  <2> QED BY <1>2, <1>8, <2>3, <2>7, NothingCarried DEF ContextInv
<1>11. x.cmd \notin {"USER", "PASS", "welcome"} /\ ~ x.begun => Head(ftp.queue) = x /\ ~ Entering(ftp)
  BY <1>1, <1>3 DEF Greets, Entering, HeadIn
<1>12. ~ Entering(ftp) =>
         /\ srv.user = "in" /\ Sound(asked, ftp.queue, Seat(srv.cwd, srv.mode, ftp.data))
         /\ ftp.cwd \in {srv.cwd, None} /\ ftp.mode \in {srv.mode, None}
  <2>1. ~ Pending("CWD") /\ ~ Pending("TYPE")
    <3>1. Len(<<>>) = 0
      OBVIOUS
    <3> QED BY <1>1, <3>1 DEF Pending
  <2> QED BY <1>1, <1>3, <2>1 DEF Session
<1>13. ASSUME x.cmd \notin {"CWD", "TYPE", "USER", "PASS"}, Refuses(x)
       PROVE  ContextInv'
  <2>1. srv'.cwd = srv.cwd /\ srv'.mode = srv.mode /\ srv'.user = srv.user
    BY <1>3, <1>13 DEF Refuses, Server
  <2>2. Session' /\ UNCHANGED executed
    BY <1>9, <1>13, <2>1 DEF Refuses
  <2> QED BY <1>2, <1>8, <2>2, NothingCarried DEF ContextInv
<1>14. CASE x.cmd \notin {"USER", "PASS"} /\ (srv.user # "in" \/ x.cmd = "welcome" \/ x.begun)
  <2>1. x.cmd \notin {"CWD", "TYPE"}
    BY <1>5, <1>11, <1>12, <1>14 DEF Transfers
  <2> QED BY <1>2, <1>13, <1>14, <2>1
<1>15. CASE /\ x.cmd \notin {"USER", "PASS"} /\ srv.user = "in" /\ x.cmd # "welcome" /\ ~ x.begun
  <2>1. /\ Head(ftp.queue) = x /\ ~ Entering(ftp)
        /\ Sound(asked, ftp.queue, Seat(srv.cwd, srv.mode, ftp.data))
        /\ ftp.cwd \in {srv.cwd, None} /\ ftp.mode \in {srv.mode, None}
    BY <1>11, <1>12, <1>15
  <2>2. Sets(x) \/ Changes(x) \/ BeginsTransfer(x) \/ (x.cmd \in Refused /\ Refuses(x))
    BY <1>2, <1>15
  <2>3. CASE x.cmd \in Refused /\ Refuses(x)
    <3>1. x.cmd \notin {"CWD", "TYPE"}
      BY <2>3 DEF Refused, Certain
    <3> QED BY <1>13, <1>15, <2>3, <3>1
  <2>4. CASE Sets(x) /\ x.cmd \notin {"CWD", "TYPE"}
    <3>1. PICK code, size : Replied(x, code, size)
      BY <2>4 DEF Sets
    <3>2. /\ srv'.cwd = srv.cwd /\ srv'.mode = srv.mode /\ srv'.user = srv.user
          /\ UNCHANGED executed
      BY <1>3, <2>4 DEF Sets, Server
    <3>3. Session'
      BY <1>9, <1>15, <2>4, <3>1, <3>2
    <3> QED BY <1>2, <1>8, <3>2, <3>3, NothingCarried DEF ContextInv
  <2>5. CASE Sets(x) /\ x.cmd \in {"CWD", "TYPE"}
    <3>1. /\ Replied(x, 2, 0) /\ UNCHANGED executed /\ srv'.user = "in"
          /\ srv'.cwd = IF x.cmd = "CWD" THEN x.arg ELSE srv.cwd
          /\ srv'.mode = IF x.cmd = "TYPE" THEN x.arg ELSE srv.mode
      BY <1>3, <1>15, <2>5 DEF Sets, Server
    <3>2. Len(replies') = 1 /\ replies'[1].to = x /\ replies'[1].code = 2
      BY <1>6, <3>1
    <3>3. Sound(asked, ftp.queue, Seat(srv'.cwd, srv'.mode, ftp.data))
      BY <1>1, <1>3, <2>1, <2>5, <3>1, SetSound
    <3>4. /\ ftp.cwd \in {srv'.cwd, None} \/ Pending("CWD")'
          /\ ftp.mode \in {srv'.mode, None} \/ Pending("TYPE")'
      <4>1. x.cmd = "CWD" => Pending("CWD")'
        BY <3>2 DEF Pending
      <4>2. x.cmd = "TYPE" => Pending("TYPE")'
        BY <3>2 DEF Pending
      <4> QED BY <2>1, <2>5, <3>1, <4>1, <4>2
    <3>5. \A n \in 1 .. Len(replies') :
            LET y == replies'[n].to
                code == replies'[n].code
            IN /\ y.cmd \in {"CWD", "TYPE"} =>
                    /\ code = 2 /\ Head(ftp.queue) = y
                    /\ y.arg = IF y.cmd = "CWD" THEN srv'.cwd ELSE srv'.mode
               /\ y.cmd = "USER" => code # 2
               /\ y.cmd = "PASS" /\ code = 2 => srv'.user = "in"
      BY <1>7, <2>1, <2>5, <3>1, <3>2
    <3>6. Session'
      BY <1>2, <1>4, <1>8, <2>1, <3>1, <3>3, <3>4, <3>5 DEF Session
    <3> QED BY <1>2, <1>8, <3>1, <3>6, NothingCarried DEF ContextInv
  <2>6. CASE Changes(x) \/ BeginsTransfer(x)
    <3>1. x.cmd \in Carrying /\ x.cmd \notin {"CWD", "TYPE", "USER", "PASS"}
      BY <2>6 DEF Changes, BeginsTransfer, Carrying, Transfers
    <3>2. CASE Refuses(x)
      BY <1>13, <3>1, <3>2
    <3>3. CASE ~ Refuses(x)
      <4>1. CarriedOut(x) /\ \E code : Replied(x, code, 0)
        BY <2>6, <3>3 DEF Changes, BeginsTransfer
      <4>2. srv'.cwd = srv.cwd /\ srv'.mode = srv.mode /\ srv'.user = srv.user
        BY <1>3, <2>6, <3>3 DEF Changes, BeginsTransfer, Server
      <4>3. Wished' /\ CarriedOutInContext'
        BY <1>1, <1>2, <2>1, <3>1, <4>1, CarriedContext
      <4>4. Session'
        BY <1>9, <3>1, <4>1, <4>2
      <4> QED BY <1>8, <4>3, <4>4 DEF ContextInv
    <3> QED BY <3>2, <3>3
  <2> QED BY <2>2, <2>3, <2>4, <2>5, <2>6
<1> QED BY <1>10, <1>14, <1>15

LEMMA ContextStep ==
    ASSUME TypeInv, TypeInv', TalkInv, OrderInv, ContextInv, Considerate, Certain, [Next]_vars
    PROVE  ContextInv'
<1>1. CASE Connect \/ Reconnect
  BY <1>1, ConnectContext
<1>2. CASE Cancel
  BY <1>2, CancelContext
<1>3. CASE Abort
  BY <1>3, AbortContext
<1>4. CASE Disconnect
  BY <1>4, DisconnectContext
<1>5. CASE \E r \in Requests, a \in Wishes : Ask(r, a)
  BY <1>5, AskContext
<1>6. CASE KeepAlive
  BY <1>6, KeepAliveContext
<1>7. CASE CheckTimeout \/ CheckDataTimeout
  BY <1>7, ResetContext
<1>8. CASE PollAgain
  BY <1>8, PollContext
<1>9. CASE Accept
  BY <1>9, AcceptContext
<1>10. CASE StopRequest
  BY <1>10, StopContext
<1>11. CASE OnDataAvailable
  BY <1>11, ReadContext
<1>12. CASE Execute
  BY <1>12, ExecuteContext
<1>13. CASE DataMoves \/ DataFinishes
  BY <1>13, DataContext
<1>14. CASE TransferEnds
  BY <1>14, EndContext
<1>15. CASE UNCHANGED vars
  BY <1>15 DEF vars, ContextInv, Session, Stuck, Silent, Pending, Wished, CarriedOutInContext
<1> QED BY <1>1, <1>2, <1>3, <1>4, <1>5, <1>6, <1>7, <1>8, <1>9, <1>10, <1>11, <1>12, <1>13,
           <1>14, <1>15 DEF Next

\* Whatever is carried out is carried out in the directory, and transferred in the
\* mode, that was asked for: though the client leaves out the commands it takes for
\* needless, and after a loss sends again only those it has kept.  For considerate
\* users, a server that lets the client into the directories it asks for, and a
\* connection that is not lost while the client logs in.
THEOREM CarriedOutWhereAsked ==
    ASSUME Considerate, Certain PROVE Spec => []CarriedOutInContext
<1> DEFINE Inv == TypeInv /\ TalkInv /\ OrderInv /\ ContextInv
<1>1. Init => Inv
  BY TypeInit, TalkInit, OrderInit, ContextInit
<1>2. Inv /\ [Next]_vars => Inv'
  <2> SUFFICES ASSUME TypeInv, TalkInv, OrderInv, ContextInv, [Next]_vars
               PROVE  TypeInv' /\ TalkInv' /\ OrderInv' /\ ContextInv'
    OBVIOUS
  <2>1. TypeInv'
    BY TypeStep
  <2>2. TalkInv'
    BY <2>1, TalkStep
  <2>3. OrderInv'
    BY OrderStep
  <2>4. ContextInv'
    BY <2>1, ContextStep
  <2> QED BY <2>1, <2>2, <2>3, <2>4
<1>3. Inv => CarriedOutInContext
  BY DEF ContextInv
<1> QED BY <1>1, <1>2, <1>3, PTL DEF Spec
=============================================================================
