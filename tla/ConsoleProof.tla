----------------------------- MODULE ConsoleProof -----------------------------
(***************************************************************************)
(* Proofs about the console of a server, for any requests, any output and  *)
(* any capacities of the channels, the PTY and the history.                *)
(***************************************************************************)
EXTENDS Console, TLAPS, SequenceTheorems, WellFoundedInduction

-----------------------------------------------------------------------------
(* The subscribers' channels *)

\* What makes ChannelsSafe inductive: whoever takes a channel out of the map,
\* under the lock, is the one that closes it, so no channel of the map is closed;
\* and the map does not change while a line is being published, so the
\* subscribers left to serve are still in it.
ChanInv ==
  /\ DOMAIN pc = Reqs
  /\ subs \cap closed = {}
  /\ runner = "send" => todo \subseteq subs
  /\ \A c \in Reqs : pc[c] \in {"idle", "subscribe", "close"} => c \notin subs \cup closed
  /\ ~panicked

\* ChanInv is inductive.
LEMMA ChanNext == ChanInv /\ [Next]_vars => ChanInv'
<1> SUFFICES ASSUME ChanInv, [Next]_vars PROVE ChanInv'
    OBVIOUS
<1> USE DEF ChanInv, Move
<1>1. CASE \/ Execute \/ Emit \/ Die \/ Quit \/ ClosePty
      BY <1>1 DEF Execute, Emit, Die, Quit, ClosePty, process, reader, channels, reqs
<1>2. CASE ReadLine
      BY <1>2 DEF ReadLine, reader, channels, reqs
<1>3. ASSUME NEW c \in Reqs, Send(c) PROVE ChanInv'
      BY <1>3 DEF Send, reqs
<1>4. CASE Sent \/ ReadFails
      BY <1>4 DEF Sent, ReadFails, channels, reqs
<1>5. CASE CloseSubscribers
      BY <1>5 DEF CloseSubscribers, reqs
<1>6. ASSUME NEW c \in Reqs, Filter(c) PROVE ChanInv'
      BY <1>6 DEF Filter, FilterRecv, FilterSend, FilterEnds, reader, channels, reqs
<1>7. ASSUME NEW c \in Reqs, Lock(c) \/ Queue(c) \/ Write(c) \/ WriteFails(c)
      PROVE  ChanInv'
      BY <1>7 DEF Lock, Queue, Write, WriteFails, reader, channels
<1>8. ASSUME NEW c \in Reqs, Subscribe(c) PROVE ChanInv'
      BY <1>8 DEF Subscribe, reader
<1>9. ASSUME NEW c \in Reqs, Collect(c) PROVE ChanInv'
      BY <1>9 DEF Collect, Done, reader, channels
<1>10. ASSUME NEW c \in Reqs, CollectEnds(c) \/ Cancel(c) PROVE ChanInv'
  <2>1. CASE CollectEnds(c)
        BY <2>1 DEF CollectEnds, Done, reader, channels
  <2>2. CASE Cancel(c)
        BY <2>2 DEF Cancel, reader
  <2>. QED BY <1>10, <2>1, <2>2
<1>11. ASSUME NEW c \in Reqs, Delete(c) PROVE ChanInv'
      BY <1>11 DEF Delete, reader
<1>12. ASSUME NEW c \in Reqs, Close(c) PROVE ChanInv'
      BY <1>12 DEF Close, reader
<1>13. CASE UNCHANGED vars
      BY <1>13 DEF vars, reader, channels, reqs
<1>. QED BY <1>1, <1>2, <1>3, <1>4, <1>5, <1>6, <1>7, <1>8, <1>9, <1>10, <1>11, <1>12, <1>13
         DEF Next, Process, Runner, Capture

\* However publishing, the end of the process and the cancellations of
\* subscribers interleave, no channel is sent to after it was closed and none
\* is closed twice.
THEOREM ChannelsAreSafe == Spec => []ChannelsSafe
<1>1. Init => ChanInv
      BY DEF Init, ChanInv
<1>2. ChanInv => ChannelsSafe
      BY DEF ChanInv, ChannelsSafe
<1>. QED BY <1>1, <1>2, ChanNext, PTL DEF Spec
-----------------------------------------------------------------------------
(* The answers                                                             *)
(*                                                                         *)
(* ReplyIsOwn is not inductive: what a request has collected is right only *)
(* because of what is still under way to it.  Everything between a request *)
(* and its command, from what it has collected back to what the process    *)
(* has not executed yet, is put in one row of eight stages (Way).  In it   *)
(* the lines of a collecting request stand in the order they are printed,  *)
(* with nothing but echoes after them (Flows), and no output is missing in *)
(* between unless its channel refused some (Unbroken); a request that has  *)
(* not written has none at all (Foreign).  Each step moves a line one      *)
(* stage on, drops one, cuts the row off or prints the next line.          *)

Kinds == {"echo", "audit", "begin", "out", "end", "noise", "quit"}

\* The lines whose number tells how much output was printed before them.
Counted == {"out", "end", "noise"}

Lines == {l \in [kind : Kinds, req : Reqs \cup {Nobody}, n : Nat] :
            /\ l.kind = "out" => l.n # 0
            /\ l.kind \notin Counted => l.n = 0
            /\ l.kind = "quit" <=> l.req = Nobody}

Points == {"idle", "subscribe", "queue", "write", "collect", "cancel", "delete", "close",
           "returned"}

Ends == {"", "end", "timeout", "closed", "error"}

\* Whose commands the process executes.
Writers == Reqs \cup {Nobody}

Types ==
  /\ pc \in [Reqs -> Points]
  /\ job \in Lines \cup {Nothing} /\ input \in Seq(Writers)
  /\ ~alive => job = Nothing /\ input = <<>>
  /\ pty \in Seq(Lines)
  /\ runner \in {"read", "send", "closing", "done"}
  /\ runner = "send" => line \in Lines
  /\ filter \in [Reqs -> {"off", "recv", "send", "done"}]
  /\ chan \in [Reqs -> Seq(Lines)] /\ out \in [Reqs -> Seq(Lines)]
  /\ hand \in [Reqs -> Lines \cup {Nothing}]
  /\ \A c \in Reqs : filter[c] = "send" => hand[c] \in Lines
  /\ reply \in [Reqs -> Seq(Lines)]
  /\ how \in [Reqs -> Ends] /\ total \in [Reqs -> Nat]
  /\ history \in Seq(Kinds)

\* One request at a time writes and collects.
Early == {"idle", "subscribe", "queue", "write"}
MuInv ==
  \A c \in Reqs :
    /\ pc[c] \notin {"idle", "returned"} => mu = c
    /\ pc[c] \in Early \cup {"collect", "cancel"} => c \notin quit
    /\ pc[c] \in {"queue", "write", "collect"} /\ c \notin subs => runner = "done"

\* An echo is announced before it can be read, and read once.
PtyEcho ==
  /\ \A i \in DOMAIN pty : pty[i].kind = "echo" =>
       /\ pty[i].req \in suppressed /\ pc[pty[i].req] \notin Early
       /\ \A j \in DOMAIN pty : pty[j].kind = "echo" /\ pty[j].req = pty[i].req => i = j
  /\ \A c \in Reqs : pc[c] = "write" => c \in suppressed

\* So none gets any further, no noise beyond the filter, and no sentinel into
\* the log.
Silent(s) == \A i \in DOMAIN s : s[i].kind # "echo"
Filtered(s) == \A i \in DOMAIN s : s[i].kind \notin {"echo", "noise"}

Logged == {"audit", "out", "noise", "quit"}

Silence ==
  /\ job.kind \notin {"echo", "quit"}
  /\ runner = "send" => line.kind # "echo"
  /\ \A c \in Reqs : /\ filter[c] = "send" => hand[c].kind \notin {"echo", "noise"}
                     /\ Silent(chan[c]) /\ Filtered(out[c])
  /\ \A i \in DOMAIN history : history[i] \in Logged

EchoInv == PtyEcho /\ Silence

\* What stands between request c and the command it has written, from what it
\* has collected to what the process has still to execute.
Opened(c) == IF c \in started THEN <<Line("begin", c, 0)>> ELSE <<>>
Held(c)   == IF filter[c] = "send" THEN <<hand[c]>> ELSE <<>>
Sending(c) == IF runner = "send" /\ c \in todo THEN <<line>> ELSE <<>>
Printing  == IF job = Nothing THEN <<>> ELSE <<job>>
Command(b) == IF b = Nobody THEN QuitEcho ELSE Line("audit", b, 0)
Coming    == [i \in DOMAIN input |-> Command(input[i])]

Way(c) == [k \in 0..7 |-> IF k = 0 THEN Opened(c) \o reply[c] ELSE
                          IF k = 1 THEN out[c] ELSE
                          IF k = 2 THEN Held(c) ELSE
                          IF k = 3 THEN chan[c] ELSE
                          IF k = 4 THEN Sending(c) ELSE
                          IF k = 5 THEN pty ELSE
                          IF k = 6 THEN Printing ELSE Coming]

Mine(c, l) == l.req = c /\ l.kind # "echo"

Rank(l) == IF l.kind = "audit" THEN 0 ELSE
           IF l.kind = "begin" THEN 1 ELSE
           IF l.kind = "end" THEN l.n + 2 ELSE l.n + 1

Later(x, y) == Rank(x) < Rank(y) \/ (Rank(x) = Rank(y) /\ y.kind = "noise")

\* After a line of c only later ones of c come, and echoes.
Before(c, x, y) == Mine(c, x) => y.kind \in {"echo", "quit"} \/ (Mine(c, y) /\ Later(x, y))

Flows(c, F) ==
  \A k, m \in 0..7 : \A i \in DOMAIN F[k], j \in DOMAIN F[m] :
    k < m \/ (k = m /\ i < j) => Before(c, F[k][i], F[m][j])

In(F, y) == \E k \in 0..7 : \E i \in DOMAIN F[k] : F[k][i] = y

\* The last line, noise aside, of a command that has printed n lines of output,
\* and that line at the time l was printed.
Prev(c, n) == IF n = 0 THEN Line("begin", c, 0) ELSE Line("out", c, n)
Left(l) == IF l.kind = "out" THEN l.n - 1 ELSE l.n
Pre(c, l) == Prev(c, Left(l))

Needs(c, l) == l.kind \in Counted /\ l.req = c

Unbroken(c, F) ==
  \A k \in 0..7 : \A i \in DOMAIN F[k] : Needs(c, F[k][i]) => In(F, Pre(c, F[k][i]))

Foreign(c, F) == \A k \in 0..7 : \A i \in DOMAIN F[k] : ~Mine(c, F[k][i])

CollectInv ==
  \A c \in Reqs :
    /\ pc[c] \in Early => c \notin started /\ Foreign(c, Way(c))
    /\ pc[c] = "collect" => Flows(c, Way(c)) /\ (c \notin lost => Unbroken(c, Way(c)))
    /\ c \notin started => reply[c] = <<>>

\* The reply s to c has the first m lines of its output.
Has(c, s, m) == \A n \in 1..m : \E i \in DOMAIN s : s[i] = Line("out", c, n)

\* A line of a reply: output of c, later than what is ahead of it.
Own(c, s, i) ==
  \/ s[i] = QuitEcho
  \/ s[i].kind = "out" /\ s[i].req = c /\ \A j \in 1..(i - 1) : s[j].n < s[i].n

ReplyInv ==
  \A c \in Reqs :
    /\ \A i \in DOMAIN reply[c] : Own(c, reply[c], i)
    /\ c \notin lost => \A i \in DOMAIN reply[c] : Has(c, reply[c], reply[c][i].n)
    /\ how[c] = "end" => pc[c] = "cancel" /\ (c \notin lost => Has(c, reply[c], total[c]))

AnswerInv == ChanInv /\ Types /\ MuInv /\ EchoInv /\ CollectInv /\ ReplyInv

\* Lines, their kinds and their fields.
LEMMA LineFacts ==
  ASSUME NEW k \in Kinds \ {"quit"}, NEW c \in Reqs, NEW n \in Nat,
         k = "out" => n # 0, k \notin Counted => n = 0
  PROVE  /\ Line(k, c, n) \in Lines
         /\ Line(k, c, n).kind = k /\ Line(k, c, n).req = c /\ Line(k, c, n).n = n
BY ConsoleAssumption DEF Line, Lines, Nobody

LEMMA QuitLine ==
  /\ QuitEcho \in Lines /\ QuitEcho.kind = "quit" /\ QuitEcho.req = Nobody /\ QuitEcho.n = 0
  /\ Nobody \notin Reqs
<1>1. 0 \in Nat /\ 0 \notin Reqs
      BY ConsoleAssumption
<1>. QED BY <1>1 DEF QuitEcho, Line, Lines, Kinds, Counted, Nobody

LEMMA OwnLines ==
  ASSUME NEW c \in Reqs
  PROVE  /\ \A k \in {"echo", "audit", "begin"} :
              /\ Line(k, c, 0) \in Lines
              /\ Line(k, c, 0).kind = k /\ Line(k, c, 0).req = c /\ Line(k, c, 0).n = 0
         /\ \A k \in {"end", "noise"} : \A n \in Nat :
              /\ Line(k, c, n) \in Lines
              /\ Line(k, c, n).kind = k /\ Line(k, c, n).req = c /\ Line(k, c, n).n = n
         /\ \A n \in Nat \ {0} :
              /\ Line("out", c, n) \in Lines
              /\ Line("out", c, n).kind = "out" /\ Line("out", c, n).req = c
              /\ Line("out", c, n).n = n
<1>1. 0 \in Nat /\ \A n \in Nat \ {0} : n \in Nat /\ n # 0
      BY ConsoleAssumption
<1>2. \A k \in {"echo", "audit", "begin"} : k \in Kinds \ {"quit"} /\ k # "out"
      BY DEF Kinds
<1>3. \A k \in {"end", "noise"} : k \in Kinds \ {"quit"} /\ k # "out" /\ k \in Counted
      BY DEF Kinds, Counted
<1>4. "out" \in Kinds \ {"quit"} /\ "out" \in Counted
      BY DEF Kinds, Counted
<1>5. \A k \in {"echo", "audit", "begin"} :
        /\ Line(k, c, 0) \in Lines
        /\ Line(k, c, 0).kind = k /\ Line(k, c, 0).req = c /\ Line(k, c, 0).n = 0
      BY <1>1, <1>2, LineFacts
<1>6. \A k \in {"end", "noise"} : \A n \in Nat :
        /\ Line(k, c, n) \in Lines
        /\ Line(k, c, n).kind = k /\ Line(k, c, n).req = c /\ Line(k, c, n).n = n
      BY <1>1, <1>3, LineFacts
<1>7. \A n \in Nat \ {0} :
        /\ Line("out", c, n) \in Lines
        /\ Line("out", c, n).kind = "out" /\ Line("out", c, n).req = c
        /\ Line("out", c, n).n = n
      BY <1>1, <1>4, LineFacts
<1>. QED BY <1>5, <1>6, <1>7

LEMMA LineTypes ==
  ASSUME NEW x \in Lines
  PROVE  /\ x.kind \in Kinds /\ x.n \in Nat
         /\ (x.kind = "out" => x.n # 0) /\ (x.kind \notin Counted => x.n = 0)
         /\ (x.kind # "quit" => x.req \in Reqs) /\ (x.kind = "quit" => x = QuitEcho)
         /\ x = Line(x.kind, x.req, x.n) /\ x # Nothing
<1>1. /\ x \in [kind : Kinds, req : Reqs \cup {Nobody}, n : Nat]
      /\ (x.kind = "out" => x.n # 0) /\ (x.kind \notin Counted => x.n = 0)
      /\ (x.kind = "quit" <=> x.req = Nobody)
      BY DEF Lines
<1>2. x = [kind |-> x.kind, req |-> x.req, n |-> x.n]
      BY <1>1
<1>3. x.kind \in Kinds /\ x.kind # "none"
      BY <1>1 DEF Kinds
<1>4. Nothing.kind = "none"
      BY DEF Nothing
<1>5. x.kind = "quit" => x = QuitEcho
      BY <1>1, <1>2 DEF QuitEcho, Line, Counted
<1>. QED BY <1>1, <1>2, <1>3, <1>4, <1>5 DEF Line

LEMMA RankIs ==
  ASSUME NEW x \in Lines
  PROVE  Rank(x) \in Nat
<1>1. x.n \in Nat
      BY LineTypes, ConsoleAssumption
<1>. QED BY <1>1 DEF Rank

-----------------------------------------------------------------------------
(* Ways and what becomes of them *)

\* What a step makes of the way to a request that does not collect yet, and of
\* the way to one that does.
Trims(c, F, G) ==
  /\ Foreign(c, F) => Foreign(c, G)
  /\ Flows(c, F) => Flows(c, G)

Carries(c, F, G) ==
  /\ Trims(c, F, G)
  /\ Flows(c, F) /\ Unbroken(c, F) => Unbroken(c, G)

Ways == [0..7 -> Seq(Lines)]

Same(F, G) == \A m \in 0..7 : G[m] = F[m]

Moved(F, G, k) ==
  /\ F[k + 1] # <<>>
  /\ G[k] = Append(F[k], Head(F[k + 1])) /\ G[k + 1] = Tail(F[k + 1])
  /\ \A m \in 0..7 : m # k /\ m # k + 1 => G[m] = F[m]

Dropped(F, G, k) ==
  /\ F[k] # <<>> /\ G[k] = Tail(F[k])
  /\ \A m \in 0..7 : m # k => G[m] = F[m]

\* The stages of a way are sequences of lines.
LEMMA WayFacts ==
  ASSUME NEW F \in Ways, NEW m \in 0..7
  PROVE  F[m] \in Seq(Lines) /\ Len(F[m]) \in Nat /\ DOMAIN F[m] = 1..Len(F[m])
BY DEF Ways

\* Nothing moves.
LEMMA SameCarries ==
  ASSUME NEW c, NEW F, NEW G, Same(F, G)
  PROVE  Carries(c, F, G)
<1>1. \A m \in 0..7 : G[m] = F[m]
      BY DEF Same
<1>2. Foreign(c, F) => Foreign(c, G)
      BY <1>1 DEF Foreign
<1>3. Flows(c, F) => Flows(c, G)
      BY <1>1 DEF Flows
<1>4. \A y : In(F, y) => In(G, y)
      BY <1>1 DEF In
<1>5. Unbroken(c, F) => Unbroken(c, G)
      BY <1>1, <1>4 DEF Unbroken
<1>. QED BY <1>2, <1>3, <1>5 DEF Carries, Trims

\* A line moves on.
LEMMA MoveCarries ==
  ASSUME NEW c, NEW F \in Ways, NEW G, NEW k \in 0..6, Moved(F, G, k)
  PROVE  Carries(c, F, G)
<1> DEFINE A(m, j) == IF m = k /\ j = Len(F[k]) + 1 THEN k + 1 ELSE m
           B(m, j) == IF m = k /\ j = Len(F[k]) + 1 THEN 1 ELSE IF m = k + 1 THEN j + 1 ELSE j
<1>0. k \in 0..7 /\ k + 1 \in 0..7 /\ k # k + 1
      OBVIOUS
<1>1. \A m \in 0..7 : m # k /\ m # k + 1 => G[m] = F[m]
      BY DEF Moved
<1> DEFINE f == F[k]
           g == F[k + 1]
<1>2. /\ f \in Seq(Lines) /\ Len(f) \in Nat /\ DOMAIN f = 1..Len(f)
      /\ g \in Seq(Lines) /\ Len(g) \in Nat /\ DOMAIN g = 1..Len(g)
      /\ g # <<>> /\ G[k] = Append(f, Head(g)) /\ G[k + 1] = Tail(g)
      BY <1>0, WayFacts DEF Moved
<1> HIDE DEF f, g
<1>3. /\ DOMAIN G[k] = 1..(Len(f) + 1) /\ \A j \in 1..Len(f) : G[k][j] = f[j]
      /\ G[k][Len(f) + 1] = g[1]
      /\ Len(g) >= 1 /\ DOMAIN G[k + 1] = 1..(Len(g) - 1)
      /\ \A j \in 1..(Len(g) - 1) : G[k + 1][j] = g[j + 1]
      BY <1>2
<1>4. ASSUME NEW m \in 0..7, NEW j \in DOMAIN G[m]
      PROVE  /\ A(m, j) \in 0..7 /\ B(m, j) \in DOMAIN F[A(m, j)] /\ B(m, j) \in Nat /\ j \in Nat
             /\ G[m][j] = F[A(m, j)][B(m, j)]
             /\ j >= 1 /\ (m = k => j <= Len(f) + 1)
  <2>1. CASE m = k
    <3>1. CASE j = Len(f) + 1
          BY <1>0, <1>2, <1>3, <2>1, <3>1 DEF f, g
    <3>2. CASE j # Len(f) + 1
          BY <1>0, <1>2, <1>3, <2>1, <3>2 DEF f
    <3>. QED BY <3>1, <3>2
  <2>2. CASE m = k + 1
    <3>1. j \in 1..(Len(g) - 1) /\ m # k
          BY <1>0, <1>3, <2>2
    <3>2. A(m, j) = k + 1 /\ B(m, j) = j + 1
          BY <2>2, <3>1
    <3>3. j + 1 \in DOMAIN g /\ G[k + 1][j] = g[j + 1]
          BY <1>2, <1>3, <3>1
    <3>. QED BY <1>0, <2>2, <3>1, <3>2, <3>3 DEF g
  <2>3. CASE m # k /\ m # k + 1
    <3>1. G[m] = F[m] /\ A(m, j) = m /\ B(m, j) = j
          BY <1>1, <2>3
    <3>2. Len(F[m]) \in Nat /\ DOMAIN F[m] = 1..Len(F[m])
          BY WayFacts
    <3> HIDE DEF A, B
    <3>. QED BY <2>3, <3>1, <3>2
  <2>. QED BY <2>1, <2>2, <2>3
<1>5. ASSUME NEW m \in 0..7, NEW p \in 0..7, NEW j \in DOMAIN G[m], NEW q \in DOMAIN G[p],
             m < p \/ (m = p /\ j < q)
      PROVE  A(m, j) < A(p, q) \/ (A(m, j) = A(p, q) /\ B(m, j) < B(p, q))
  <2>1. j \in Nat /\ j >= 1 /\ (m = k => j <= Len(f) + 1)
        BY <1>4
  <2>2. q \in Nat /\ q >= 1 /\ (p = k => q <= Len(f) + 1)
        BY <1>4
  <2>. QED BY <1>2, <1>5, <2>1, <2>2 DEF f
<1>6. \A y : In(F, y) => In(G, y)
  <2> SUFFICES ASSUME NEW m \in 0..7, NEW j \in DOMAIN F[m] PROVE In(G, F[m][j])
      BY DEF In
  <2>1. j \in Nat /\ j >= 1 /\ j <= Len(F[m])
    <3>1. Len(F[m]) \in Nat /\ DOMAIN F[m] = 1..Len(F[m])
          BY WayFacts
    <3>. QED BY <3>1
  <2>2. CASE m = k
    <3>1. j \in DOMAIN G[k] /\ G[k][j] = F[m][j]
          BY <1>2, <1>3, <2>1, <2>2 DEF f
    <3>. QED BY <1>0, <3>1 DEF In
  <2>3. CASE m = k + 1 /\ j = 1
    <3>1. Len(f) + 1 \in DOMAIN G[k] /\ G[k][Len(f) + 1] = F[m][j]
          BY <1>2, <1>3, <2>3 DEF g
    <3>. QED BY <1>0, <3>1 DEF In
  <2>4. CASE m = k + 1 /\ j # 1
    <3>1. j - 1 \in 1..(Len(g) - 1) /\ (j - 1) + 1 = j
          BY <1>2, <2>1, <2>4 DEF g
    <3>2. j - 1 \in DOMAIN G[k + 1] /\ G[k + 1][j - 1] = F[m][j]
          BY <1>3, <2>4, <3>1 DEF g
    <3>. QED BY <1>0, <3>2 DEF In
  <2>5. CASE m # k /\ m # k + 1
        BY <1>1, <2>5 DEF In
  <2>. QED BY <2>2, <2>3, <2>4, <2>5
<1> HIDE DEF A, B
<1>7. Foreign(c, F) => Foreign(c, G)
      BY <1>4 DEF Foreign
<1>8. ASSUME Flows(c, F) PROVE Flows(c, G)
  <2> SUFFICES ASSUME NEW m \in 0..7, NEW p \in 0..7, NEW j \in DOMAIN G[m], NEW q \in DOMAIN G[p],
                      m < p \/ (m = p /\ j < q)
               PROVE  Before(c, G[m][j], G[p][q])
      BY DEF Flows
  <2>1. A(m, j) < A(p, q) \/ (A(m, j) = A(p, q) /\ B(m, j) < B(p, q))
        BY <1>5
  <2>2. /\ A(m, j) \in 0..7 /\ B(m, j) \in DOMAIN F[A(m, j)] /\ G[m][j] = F[A(m, j)][B(m, j)]
        /\ A(p, q) \in 0..7 /\ B(p, q) \in DOMAIN F[A(p, q)] /\ G[p][q] = F[A(p, q)][B(p, q)]
        BY <1>4
  <2>. QED BY <1>8, <2>1, <2>2 DEF Flows
<1>9. ASSUME Unbroken(c, F) PROVE Unbroken(c, G)
  <2> SUFFICES ASSUME NEW m \in 0..7, NEW j \in DOMAIN G[m], Needs(c, G[m][j])
               PROVE  In(G, Pre(c, G[m][j]))
      BY DEF Unbroken
  <2>1. A(m, j) \in 0..7 /\ B(m, j) \in DOMAIN F[A(m, j)] /\ G[m][j] = F[A(m, j)][B(m, j)]
        BY <1>4
  <2>2. In(F, Pre(c, G[m][j]))
        BY <1>9, <2>1 DEF Unbroken
  <2>. QED BY <1>6, <2>2
<1>. QED BY <1>7, <1>8, <1>9 DEF Carries, Trims

\* The first line of a stage is lost.
LEMMA DropTrims ==
  ASSUME NEW c, NEW F \in Ways, NEW G, NEW k \in 0..7, Dropped(F, G, k)
  PROVE  /\ Trims(c, F, G)
         /\ ~Mine(c, Head(F[k])) \/ Head(F[k]).kind = "noise" => Carries(c, F, G)
         /\ \A y : In(F, y) /\ y # Head(F[k]) => In(G, y)
         /\ \A y : In(G, y) => In(F, y)
<1> DEFINE B(m, j) == IF m = k THEN j + 1 ELSE j
           f == F[k]
<1>1. \A m \in 0..7 : m # k => G[m] = F[m]
      BY DEF Dropped
<1>2. /\ f \in Seq(Lines) /\ Len(f) \in Nat /\ DOMAIN f = 1..Len(f)
      /\ f # <<>> /\ G[k] = Tail(f)
      BY WayFacts DEF Dropped
<1> HIDE DEF f
<1>3. /\ Len(f) >= 1 /\ DOMAIN G[k] = 1..(Len(f) - 1) /\ Head(f) = f[1]
      /\ \A j \in 1..(Len(f) - 1) : G[k][j] = f[j + 1]
      BY <1>2
<1>4. ASSUME NEW m \in 0..7, NEW j \in DOMAIN G[m]
      PROVE  /\ B(m, j) \in DOMAIN F[m] /\ G[m][j] = F[m][B(m, j)]
             /\ j \in Nat
  <2>1. CASE m = k
    <3>1. j \in 1..(Len(f) - 1) /\ B(m, j) = j + 1 /\ G[k][j] = f[j + 1]
          BY <1>3, <2>1
    <3>2. j + 1 \in DOMAIN f /\ j \in Nat
          BY <1>2, <3>1
    <3>. QED BY <2>1, <3>1, <3>2 DEF f
  <2>2. CASE m # k
    <3>1. G[m] = F[m] /\ B(m, j) = j
          BY <1>1, <2>2
    <3>2. Len(F[m]) \in Nat /\ DOMAIN F[m] = 1..Len(F[m])
          BY WayFacts
    <3> HIDE DEF B
    <3>. QED BY <3>1, <3>2
  <2>. QED BY <2>1, <2>2
<1>5. ASSUME NEW m \in 0..7, NEW j \in DOMAIN F[m], F[m][j] # Head(F[k])
      PROVE  In(G, F[m][j])
  <2>1. CASE m = k
    <3>1. j \in 1..Len(f) /\ j # 1
          BY <1>2, <1>3, <1>5, <2>1 DEF f
    <3>2. j - 1 \in 1..(Len(f) - 1) /\ (j - 1) + 1 = j
          BY <1>2, <3>1
    <3>3. j - 1 \in DOMAIN G[k] /\ G[k][j - 1] = F[m][j]
          BY <1>3, <2>1, <3>2 DEF f
    <3>. QED BY <3>3 DEF In
  <2>2. CASE m # k
        BY <1>1, <2>2 DEF In
  <2>. QED BY <2>1, <2>2
<1>6. (\A y : In(F, y) /\ y # Head(F[k]) => In(G, y)) /\ (\A y : In(G, y) => In(F, y))
  <2>1. \A y : In(F, y) /\ y # Head(F[k]) => In(G, y)
    <3> SUFFICES ASSUME NEW m \in 0..7, NEW j \in DOMAIN F[m], F[m][j] # Head(F[k])
                 PROVE  In(G, F[m][j])
        BY DEF In
    <3>. QED BY <1>5
  <2> HIDE DEF B
  <2>2. \A y : In(G, y) => In(F, y)
    <3> SUFFICES ASSUME NEW m \in 0..7, NEW j \in DOMAIN G[m] PROVE In(F, G[m][j])
        BY DEF In
    <3>1. B(m, j) \in DOMAIN F[m] /\ G[m][j] = F[m][B(m, j)]
          BY <1>4, Zenon
    <3>. QED BY <3>1, Zenon DEF In
  <2>. QED BY <2>1, <2>2
<1>7. Foreign(c, F) => Foreign(c, G)
      BY <1>4 DEF Foreign
<1>8. ASSUME Flows(c, F) PROVE Flows(c, G)
  <2> SUFFICES ASSUME NEW m \in 0..7, NEW p \in 0..7, NEW j \in DOMAIN G[m], NEW q \in DOMAIN G[p],
                      m < p \/ (m = p /\ j < q)
               PROVE  Before(c, G[m][j], G[p][q])
      BY DEF Flows
  <2>1. /\ B(m, j) \in DOMAIN F[m] /\ G[m][j] = F[m][B(m, j)] /\ j \in Nat
        /\ B(p, q) \in DOMAIN F[p] /\ G[p][q] = F[p][B(p, q)] /\ q \in Nat
        BY <1>4
  <2>2. m < p \/ (m = p /\ B(m, j) < B(p, q))
        BY <1>8, <2>1
  <2> HIDE DEF B
  <2>. QED BY <1>8, <2>1, <2>2 DEF Flows
<1>9. ASSUME ~Mine(c, Head(F[k])) \/ Head(F[k]).kind = "noise", Unbroken(c, F) PROVE Unbroken(c, G)
  <2> SUFFICES ASSUME NEW m \in 0..7, NEW j \in DOMAIN G[m], Needs(c, G[m][j])
               PROVE  In(G, Pre(c, G[m][j]))
      BY DEF Unbroken
  <2> DEFINE y == Pre(c, G[m][j])
  <2>1. B(m, j) \in DOMAIN F[m] /\ G[m][j] = F[m][B(m, j)]
        BY <1>4
  <2> HIDE DEF B
  <2>2. In(F, y)
        BY <1>9, <2>1 DEF Unbroken
  <2>3. Mine(c, y) /\ y.kind # "noise"
        BY DEF Pre, Prev, Line, Mine
  <2> HIDE DEF y
  <2>4. In(G, y)
        BY <1>6, <1>9, <2>2, <2>3
  <2>. QED BY <2>4 DEF y
<1>. QED BY <1>6, <1>7, <1>8, <1>9 DEF Carries, Trims

\* The output printed before a line, if it is on the way, is ahead of it.
LEMMA PrevPrecedes ==
  ASSUME NEW c \in Reqs, NEW F \in Ways, Flows(c, F),
         NEW m \in 0..7, NEW i \in DOMAIN F[m], Needs(c, F[m][i]),
         NEW a \in 0..7, NEW b \in DOMAIN F[a], F[a][b] = Pre(c, F[m][i])
  PROVE  a < m \/ (a = m /\ b < i)
<1> DEFINE x == F[m][i]
<1>1. x \in Lines /\ i \in Nat /\ b \in Nat
  <2>1. F[m] \in Seq(Lines) /\ DOMAIN F[m] = 1..Len(F[m])
        BY WayFacts
  <2>2. DOMAIN F[a] = 1..Len(F[a])
        BY WayFacts
  <2>. QED BY <2>1, <2>2
<1>2. x.n \in Nat /\ (x.kind = "out" => x.n # 0) /\ x.kind \in Counted /\ x.req = c
      BY <1>1, LineTypes DEF Needs
<1> HIDE DEF x
<1>3. ~Before(c, x, Pre(c, x)) /\ x # Pre(c, x)
  <2> DEFINE y == Pre(c, x)
  <2>1. /\ Left(x) \in Nat /\ Left(x) + 1 <= Rank(x)
        /\ Rank(x) \in Nat /\ (x.kind = "out" => Left(x) = x.n - 1)
        BY <1>2, ConsoleAssumption DEF Left, Rank, Counted
  <2>2. /\ y.kind \in {"begin", "out"} /\ Rank(y) = Left(x) + 1
        /\ (y.kind = "out" => y.n = Left(x))
    <3>1. CASE Left(x) = 0
          BY <2>1, <3>1 DEF Pre, Prev, Line, Rank
    <3>2. CASE Left(x) # 0
          BY <2>1, <3>2 DEF Pre, Prev, Line, Rank
    <3>. QED BY <3>1, <3>2
  <2> HIDE DEF y
  <2>3. ~Later(x, y) /\ x # y
        BY <1>2, <2>1, <2>2, ConsoleAssumption DEF Later, Counted
  <2>4. Mine(c, x)
        BY <1>2 DEF Mine, Counted
  <2>. QED BY <2>2, <2>3, <2>4 DEF Before, y
<1>4. ~(m < a \/ (m = a /\ i < b))
      BY <1>3 DEF Flows, x
<1>5. ~(m = a /\ i = b)
      BY <1>3 DEF x
<1>. QED BY <1>1, <1>4, <1>5

\* All that is further away than stage s is lost.
Cut(F, G, s) ==
  \A m \in 0..7 : G[m] = IF m < s THEN F[m] ELSE <<>>

LEMMA CutCarries ==
  ASSUME NEW c \in Reqs, NEW F \in Ways, NEW G, NEW s \in 0..7, Cut(F, G, s)
  PROVE  Carries(c, F, G)
<1>1. \A m \in 0..7 : \A j \in DOMAIN G[m] : m < s /\ G[m] = F[m]
  <2> SUFFICES ASSUME NEW m \in 0..7, NEW j \in DOMAIN G[m] PROVE m < s /\ G[m] = F[m]
      OBVIOUS
  <2>1. G[m] = IF m < s THEN F[m] ELSE <<>>
        BY DEF Cut
  <2>. QED BY <2>1
<1>2. \A m \in 0..7 : m < s => G[m] = F[m]
      BY DEF Cut
<1>3. Foreign(c, F) => Foreign(c, G)
      BY <1>1 DEF Foreign
<1>4. ASSUME Flows(c, F) PROVE Flows(c, G)
  <2> SUFFICES ASSUME NEW m \in 0..7, NEW p \in 0..7, NEW j \in DOMAIN G[m], NEW q \in DOMAIN G[p],
                      m < p \/ (m = p /\ j < q)
               PROVE  Before(c, G[m][j], G[p][q])
      BY DEF Flows
  <2>1. G[m] = F[m] /\ G[p] = F[p]
        BY <1>1
  <2>. QED BY <1>4, <2>1 DEF Flows
<1>5. ASSUME Flows(c, F), Unbroken(c, F) PROVE Unbroken(c, G)
  <2> SUFFICES ASSUME NEW m \in 0..7, NEW j \in DOMAIN G[m], Needs(c, G[m][j])
               PROVE  In(G, Pre(c, G[m][j]))
      BY DEF Unbroken
  <2>1. m < s /\ G[m] = F[m]
        BY <1>1
  <2> DEFINE x == F[m][j]
  <2>2. x \in Lines /\ j \in DOMAIN F[m] /\ Needs(c, x)
        BY <2>1, WayFacts
  <2>3. PICK a \in 0..7 : \E b \in DOMAIN F[a] : F[a][b] = Pre(c, x)
        BY <1>5, <2>2 DEF Unbroken, In
  <2>4. PICK b \in DOMAIN F[a] : F[a][b] = Pre(c, x)
        BY <2>3
  <2>5. CASE a < s
    <3>1. G[a] = F[a]
          BY <1>2, <2>5
    <3>. QED BY <2>1, <2>4, <3>1 DEF In
  <2>6. a < s
        BY <1>5, <2>1, <2>2, <2>4, PrevPrecedes
  <2>. QED BY <2>5, <2>6
<1>. QED BY <1>3, <1>4, <1>5 DEF Carries, Trims

\* The process prints the line x and goes on to the line y, or to no more.
Printed(F, G, x, y) ==
  /\ F[6] = <<x>> /\ G[5] = Append(F[5], x) /\ G[6] = y
  /\ \A m \in 0..7 : m # 5 /\ m # 6 => G[m] = F[m]

\* y follows x in what one command prints.
Follows(x, y) ==
  /\ x.req = y.req /\ Later(x, y)
  /\ x.kind \notin {"echo", "quit"} /\ y.kind \notin {"echo", "quit"}
  /\ y.kind \in Counted => x = Pre(y.req, y) \/ (x.kind = "noise" /\ x.n = Left(y))

\* A printed line is followed by the next line of the same command.
LEMMA PrintCarries ==
  ASSUME NEW c \in Reqs, NEW F \in Ways, NEW G, NEW x \in Lines, NEW y \in Seq(Lines),
         Printed(F, G, x, y),
         y = <<>> \/ \E z \in Lines : y = <<z>> /\ Follows(x, z),
         \A j \in DOMAIN F[7] : F[7][j].kind \in {"audit", "quit"}
  PROVE  Carries(c, F, G)
<1> DEFINE M == [F EXCEPT ![5] = Append(F[5], x), ![6] = <<>>]
<1>1. /\ M \in Ways /\ M[5] = Append(F[5], x) /\ M[6] = <<>>
      /\ \A m \in 0..7 : m # 5 /\ m # 6 => M[m] = F[m]
  <2> DEFINE f == Append(F[5], x)
  <2>1. F[5] \in Seq(Lines)
        BY WayFacts
  <2>2. f \in Seq(Lines) /\ <<>> \in Seq(Lines)
        BY <2>1
  <2> HIDE DEF f
  <2> DEFINE N == [F EXCEPT ![5] = f, ![6] = <<>>]
  <2>3. /\ N \in Ways /\ N[5] = f /\ N[6] = <<>>
        /\ \A m \in 0..7 : m # 5 /\ m # 6 => N[m] = F[m]
        BY <2>2 DEF Ways
  <2>. QED BY <2>3 DEF f
<1>2. Moved(F, M, 5)
  <2>1. F[6] = <<x>> /\ 5 + 1 = 6
        BY DEF Printed
  <2>2. F[6] # <<>> /\ Head(F[6]) = x /\ Tail(F[6]) = <<>>
        BY <2>1
  <2>. QED BY <1>1, <2>1, <2>2 DEF Moved
<1>3. Carries(c, F, M)
      BY <1>2, MoveCarries
<1>4. CASE y = <<>>
  <2>1. Same(M, G)
        BY <1>1, <1>4 DEF Same, Printed
  <2>. QED BY <1>3, <2>1, SameCarries DEF Carries, Trims
<1>5. ASSUME NEW z \in Lines, y = <<z>>, Follows(x, z) PROVE Carries(c, F, G)
  <2> DEFINE n == Len(F[5]) + 1
  <2> HIDE DEF M
  <2>1. /\ \A m \in 0..7 : m # 6 => G[m] = M[m]
        /\ G[6] = <<z>> /\ DOMAIN G[6] = {1} /\ G[6][1] = z
    <3>1. G[6] = <<z>> /\ G[5] = M[5] /\ \A m \in 0..7 : m # 5 /\ m # 6 => G[m] = F[m]
          BY <1>1, <1>5 DEF Printed
    <3>2. DOMAIN G[6] = {1} /\ G[6][1] = z
          BY <3>1
    <3>. QED BY <1>1, <3>1, <3>2
  <2>2. n \in DOMAIN M[5] /\ M[5][n] = x /\ \A j \in DOMAIN M[5] : j \in Nat /\ (j = n \/ j < n)
    <3>1. F[5] \in Seq(Lines)
          BY WayFacts
    <3>. QED BY <1>1, <3>1
  <2> HIDE DEF n
  <2>3. \A j \in DOMAIN G[7] : G[7][j].kind \in {"audit", "quit"}
        BY <1>1, <2>1
  <2>4. DOMAIN M[6] = {}
        BY <1>1
  <2>5. ASSUME Foreign(c, M) PROVE Foreign(c, G)
    <3>1. ~Mine(c, x)
          BY <2>2, <2>5 DEF Foreign
    <3>2. ~Mine(c, z)
          BY <1>5, <3>1 DEF Mine, Follows
    <3>. QED BY <2>1, <2>5, <3>2 DEF Foreign
  <2>6. ASSUME Flows(c, M) PROVE Flows(c, G)
    <3> SUFFICES ASSUME NEW a \in 0..7, NEW b \in 0..7, NEW i \in DOMAIN G[a], NEW j \in DOMAIN G[b],
                        a < b \/ (a = b /\ i < j)
                 PROVE  Before(c, G[a][i], G[b][j])
        BY DEF Flows
    <3>1. CASE a # 6 /\ b # 6
          BY <2>1, <2>6, <3>1 DEF Flows
    <3>2. CASE b = 6
      <4>1. a < 6 /\ G[b][j] = z /\ G[a] = M[a]
            BY <2>1, <3>2
      <4>2. G[a][i] = x \/ Before(c, G[a][i], x)
        <5>1. CASE a = 5
              BY <2>2, <2>6, <4>1, <5>1 DEF Flows
        <5>2. CASE a < 5
              BY <2>2, <2>6, <4>1, <5>2 DEF Flows
        <5>. QED BY <4>1, <5>1, <5>2
      <4>3. G[a][i] \in Lines
        <5>1. M[a] \in Seq(Lines)
              BY <1>1, WayFacts
        <5>. QED BY <4>1, <5>1
      <4>4. Rank(G[a][i]) \in Nat /\ Rank(x) \in Nat /\ Rank(z) \in Nat
            BY <4>3, RankIs
      <4>. QED BY <1>5, <4>1, <4>2, <4>4 DEF Before, Mine, Follows, Later
    <3>3. CASE a = 6 /\ b # 6
      <4>1. b = 7 /\ G[a][i] = z /\ G[b] = M[b] /\ G[b][j].kind \in {"audit", "quit"}
            BY <2>1, <2>3, <3>3
      <4>2. Before(c, x, G[b][j])
            BY <2>2, <2>6, <4>1 DEF Flows
      <4>3. G[b][j].kind = "quit" \/ ~Mine(c, x)
        <5>1. Rank(x) \in Nat /\ (G[b][j].kind = "audit" => Rank(G[b][j]) = 0)
              BY RankIs DEF Rank
        <5>. QED BY <4>1, <4>2, <5>1 DEF Before, Later
      <4>. QED BY <1>5, <4>1, <4>3 DEF Before, Mine, Follows
    <3>. QED BY <3>1, <3>2, <3>3
  <2>7. ASSUME Unbroken(c, M) PROVE Unbroken(c, G)
    <3>1. ASSUME NEW w, In(M, w) PROVE In(G, w)
      <4>1. PICK a \in 0..7 : \E i \in DOMAIN M[a] : M[a][i] = w
            BY <3>1 DEF In
      <4>2. a # 6
            BY <2>4, <4>1
      <4>. QED BY <2>1, <4>1, <4>2 DEF In
    <3> SUFFICES ASSUME NEW a \in 0..7, NEW i \in DOMAIN G[a], Needs(c, G[a][i])
                 PROVE  In(G, Pre(c, G[a][i]))
        BY DEF Unbroken
    <3>2. CASE a # 6
      <4>1. G[a] = M[a]
            BY <2>1, <3>2
      <4>2. In(M, Pre(c, G[a][i]))
            BY <2>7, <4>1 DEF Unbroken
      <4>. QED BY <3>1, <4>2
    <3>3. CASE a = 6
      <4>1. /\ G[a][i] = z /\ x.req = c
            /\ x = Pre(c, z) \/ (x.kind = "noise" /\ x.n = Left(z))
            BY <1>5, <2>1, <3>3 DEF Follows, Needs
      <4>2. In(M, x)
            BY <2>2 DEF In
      <4>3. ASSUME x.kind = "noise", x.n = Left(z) PROVE In(M, Pre(c, z))
        <5>1. Needs(c, x) /\ Pre(c, x) = Pre(c, z)
              BY <4>1, <4>3 DEF Needs, Counted, Pre, Left
        <5>. QED BY <2>2, <2>7, <5>1 DEF Unbroken
      <4>. QED BY <3>1, <4>1, <4>2, <4>3
    <3>. QED BY <3>2, <3>3
  <2>. QED BY <1>3, <2>5, <2>6, <2>7 DEF Carries, Trims
<1>. QED BY <1>4, <1>5

\* The stages of a way, now and after a step.
LEMMA WayIs ==
  ASSUME NEW c
  PROVE  /\ Way(c)[0] = Opened(c) \o reply[c] /\ Way(c)[1] = out[c] /\ Way(c)[2] = Held(c)
         /\ Way(c)[3] = chan[c] /\ Way(c)[4] = Sending(c) /\ Way(c)[5] = pty
         /\ Way(c)[6] = Printing /\ Way(c)[7] = Coming
BY DEF Way

LEMMA WayWillBe ==
  ASSUME NEW c
  PROVE  /\ Way(c)'[0] = (Opened(c) \o reply[c])' /\ Way(c)'[1] = out'[c] /\ Way(c)'[2] = Held(c)'
         /\ Way(c)'[3] = chan'[c] /\ Way(c)'[4] = Sending(c)' /\ Way(c)'[5] = pty'
         /\ Way(c)'[6] = Printing' /\ Way(c)'[7] = Coming'
BY DEF Way

\* What the process has still to execute, as lines.
LEMMA CommandIs ==
  ASSUME NEW b \in Writers
  PROVE  Command(b) \in Lines /\ Command(b).kind \in {"audit", "quit"} /\ Command(b).req = b
<1>1. CASE b = Nobody
      BY <1>1, QuitLine DEF Command
<1>2. CASE b # Nobody
      BY <1>2, OwnLines DEF Command, Writers
<1>. QED BY <1>1, <1>2

LEMMA ComingIs ==
  ASSUME Types
  PROVE  /\ Coming \in Seq(Lines) /\ DOMAIN Coming = DOMAIN input /\ Len(Coming) = Len(input)
         /\ \A j \in DOMAIN Coming : Coming[j] = Command(input[j])
         /\ \A j \in DOMAIN Coming : Coming[j].kind \in {"audit", "quit"}
         /\ input = <<>> <=> Coming = <<>>
<1>1. /\ input \in Seq(Writers) /\ DOMAIN input = 1..Len(input) /\ Len(input) \in Nat
      BY DEF Types
<1> DEFINE e(j) == Command(input[j])
<1>2. Coming = [j \in 1..Len(input) |-> e(j)]
      BY <1>1 DEF Coming
<1>3. \A j \in 1..Len(input) : e(j) \in Lines /\ e(j).kind \in {"audit", "quit"}
  <2>1. \A j \in 1..Len(input) : input[j] \in Writers
        BY <1>1
  <2>. QED BY <2>1, CommandIs
<1> HIDE DEF e
<1>4. /\ Coming \in Seq(Lines) /\ DOMAIN Coming = DOMAIN input /\ Len(Coming) = Len(input)
      /\ \A j \in DOMAIN Coming : Coming[j] = e(j)
      /\ input = <<>> <=> Coming = <<>>
      BY <1>1, <1>2, <1>3
<1>. QED BY <1>1, <1>3, <1>4 DEF e

LEMMA WayType ==
  ASSUME Types, NEW c \in Reqs
  PROVE  Way(c) \in Ways
<1>1. Opened(c) \o reply[c] \in Seq(Lines)
  <2>1. Line("begin", c, 0) \in Lines
        BY OwnLines
  <2>2. Opened(c) \in Seq(Lines)
        BY <2>1 DEF Opened
  <2>. QED BY <2>2 DEF Types
<1>2. out[c] \in Seq(Lines) /\ chan[c] \in Seq(Lines) /\ pty \in Seq(Lines)
      BY DEF Types
<1>3. Held(c) \in Seq(Lines) /\ Sending(c) \in Seq(Lines) /\ Printing \in Seq(Lines)
      BY DEF Types, Held, Sending, Printing
<1>4. Coming \in Seq(Lines)
      BY ComingIs
<1>5. ASSUME NEW k \in 0..7 PROVE Way(c)[k] \in Seq(Lines)
  <2>1. k = 0 \/ k = 1 \/ k = 2 \/ k = 3 \/ k = 4 \/ k = 5 \/ k = 6 \/ k = 7
        OBVIOUS
  <2>2. /\ Way(c)[0] \in Seq(Lines) /\ Way(c)[1] \in Seq(Lines)
        /\ Way(c)[2] \in Seq(Lines) /\ Way(c)[3] \in Seq(Lines)
        BY <1>1, <1>2, <1>3, WayIs
  <2>3. /\ Way(c)[4] \in Seq(Lines) /\ Way(c)[5] \in Seq(Lines)
        /\ Way(c)[6] \in Seq(Lines) /\ Way(c)[7] \in Seq(Lines)
        BY <1>2, <1>3, <1>4, WayIs
  <2>. QED BY <2>1, <2>2, <2>3, Zenon
<1>6. Way(c) = [k \in 0..7 |-> Way(c)[k]]
      BY DEF Way
<1>. QED BY <1>5, <1>6 DEF Ways

\* What the process prints after a line is the next line of the same command.
LEMMA AfterIs ==
  ASSUME NEW x \in Lines, x.kind \notin {"echo", "quit"}, NEW z \in After(x)
  PROVE  z = Nothing \/ (z \in Lines /\ z # Nothing /\ Follows(x, z))
<1> DEFINE r == x.req
<1>1. /\ r \in Reqs /\ x.kind \in Kinds /\ x.n \in Nat /\ x = Line(x.kind, r, x.n)
      /\ (x.kind = "out" => x.n # 0) /\ (x.kind \notin Counted => x.n = 0)
      BY LineTypes
<1>2. \A y \in Lines : y # Nothing
      BY LineTypes
<1>3. CASE x.kind = "audit"
  <2> DEFINE b == Line("begin", r, 0)
  <2>1. b \in Lines /\ b.kind = "begin" /\ b.req = r
        BY <1>1, OwnLines
  <2>2. z = b
        BY <1>3 DEF After
  <2> HIDE DEF b
  <2>3. Follows(x, b)
        BY <1>3, <2>1 DEF Follows, Later, Rank, Counted
  <2>. QED BY <1>2, <2>1, <2>2, <2>3
<1>4. CASE x.kind = "end"
      BY <1>4 DEF After
<1>5. CASE x.kind \notin {"audit", "end"}
  <2>1. /\ x.kind \in {"begin", "out", "noise"} /\ Rank(x) = x.n + 1
        /\ x = Prev(r, x.n) \/ x.kind = "noise"
        BY <1>1, <1>5 DEF Kinds, Counted, Rank, Prev
  <2>2. \/ z = Line("end", r, x.n) \/ z = Line("noise", r, x.n)
        \/ x.n + 1 \in Nat \ {0} /\ z = Line("out", r, x.n + 1)
        BY <1>1, <1>5 DEF After
  <2>3. /\ z \in Lines /\ z.req = r /\ z.kind \in Counted /\ z.n \in Nat
        /\ z.n = x.n + (IF z.kind = "out" THEN 1 ELSE 0)
        BY <1>1, <2>2, OwnLines DEF Counted
  <2>4. Left(z) = x.n
        BY <1>1, <2>3 DEF Left
  <2>5. Later(x, z)
        BY <1>1, <2>1, <2>3, ConsoleAssumption DEF Later, Rank, Counted
  <2>6. z.kind \notin {"echo", "quit"}
        BY <2>3 DEF Counted
  <2>7. Follows(x, z)
        BY <2>1, <2>3, <2>4, <2>5, <2>6 DEF Follows, Pre
  <2>. QED BY <1>2, <2>3, <2>7
<1>. QED BY <1>3, <1>4, <1>5

\* The types are inductive, and a dead process has nothing left to print.
LEMMA TypesNext == Types /\ Silence /\ [Next]_vars => Types'
<1> SUFFICES ASSUME Types, Silence, [Next]_vars PROVE Types'
    OBVIOUS
<1> USE DEF Types
<1>1. CASE Execute
  <2>1. /\ Head(input) \in Writers /\ Tail(input) \in Seq(Writers)
        /\ <<>> \in Seq(Writers)
        BY <1>1 DEF Execute
  <2>2. Head(input) # Nobody => Line("audit", Head(input), 0) \in Lines
        BY <2>1, OwnLines DEF Writers
  <2>3. /\ job' \in Lines \cup {Nothing} /\ input' \in Seq(Writers)
        /\ (~alive' => job' = Nothing /\ input' = <<>>)
        BY <1>1, <2>1, <2>2 DEF Execute
  <2>. QED BY <1>1, <2>3 DEF Execute, reader, channels, filters, reqs
<1>2. CASE Emit
  <2>1. job \in Lines
        BY <1>2 DEF Emit
  <2>2. job' \in Lines \cup {Nothing}
    <3>1. job.kind \notin {"echo", "quit"}
          BY DEF Silence
    <3>2. job' = Nothing \/ (job' \in Lines /\ job' # Nothing /\ Follows(job, job'))
          BY <1>2, <2>1, <3>1, AfterIs DEF Emit
    <3>. QED BY <3>2
  <2>3. pty' \in Seq(Lines)
        BY <1>2, <2>1 DEF Emit
  <2>. QED BY <1>2, <2>2, <2>3 DEF Emit, reader, channels, filters, reqs
<1>3. CASE Die \/ Quit \/ ClosePty
  <2>1. CASE Die
        BY <2>1 DEF Die, reader, channels, filters, reqs
  <2>0. CASE Quit
    <3>1. /\ Append(pty, QuitEcho) \in Seq(Lines)
          /\ Append(input, Nobody) \in Seq(Writers)
      <4>1. Nobody \in Writers
            BY DEF Writers
      <4>. QED BY <4>1, QuitLine
    <3>. QED BY <2>0, <3>1 DEF Quit, reader, channels, filters, reqs
  <2>2. CASE ClosePty
    <3>1. pty' \in Seq(Lines) /\ UNCHANGED <<alive, job, input>>
          BY <2>2 DEF ClosePty
    <3>. QED BY <2>2, <3>1 DEF ClosePty, reader, channels, filters, reqs
  <2>. QED BY <1>3, <2>0, <2>1, <2>2
<1>4. CASE ReadLine
  <2>1. Head(pty) \in Lines /\ Tail(pty) \in Seq(Lines)
        BY <1>4 DEF ReadLine
  <2>0. Head(pty).kind \in Kinds
        BY <2>1, LineTypes
  <2>2. AppendHistory(history, Head(pty).kind) \in Seq(Kinds)
    <3>1. CASE history = <<>>
      <4>1. Len(history) = 0 /\ 0 < HistCap
            BY <3>1, ConsoleAssumption
      <4>. QED BY <2>0, <4>1 DEF AppendHistory
    <3>2. CASE history # <<>>
          BY <2>0, <3>2 DEF AppendHistory
    <3>. QED BY <3>1, <3>2
  <2>. QED BY <1>4, <2>1, <2>2 DEF ReadLine, process, reader, channels, filters, reqs
<1>5. ASSUME NEW c \in Reqs, Send(c) PROVE Types'
  <2>1. line \in Lines /\ chan[c] \in Seq(Lines)
        BY <1>5 DEF Send
  <2>2. Append(chan[c], line) \in Seq(Lines)
        BY <2>1
  <2>3. chan' \in [Reqs -> Seq(Lines)]
        BY <1>5, <2>2 DEF Send
  <2>. QED BY <1>5, <2>3 DEF Send, process, filters, reqs
<1>6. CASE Sent \/ ReadFails \/ CloseSubscribers
      BY <1>6 DEF Sent, ReadFails, CloseSubscribers, process, channels, filters, reqs
<1>7. ASSUME NEW c \in Reqs, FilterRecv(c) PROVE Types'
  <2>1. Head(chan[c]) \in Lines /\ Tail(chan[c]) \in Seq(Lines)
        BY <1>7 DEF FilterRecv
  <2>. QED BY <1>7, <2>1 DEF FilterRecv, process, reader, reqs
<1>8. ASSUME NEW c \in Reqs, FilterSend(c) PROVE Types'
  <2>1. Append(out[c], hand[c]) \in Seq(Lines)
        BY <1>8 DEF FilterSend
  <2>. QED BY <1>8, <2>1 DEF FilterSend, process, reader, channels, reqs
<1>9. ASSUME NEW c \in Reqs, FilterEnds(c) PROVE Types'
      BY <1>9 DEF FilterEnds, process, reader, reqs
<1>10. ASSUME NEW c \in Reqs, Lock(c) \/ Subscribe(c) \/ Queue(c) PROVE Types'
      BY <1>10 DEF Lock, Subscribe, Queue, Move, Points, process, reader, channels, filters
<1>11. ASSUME NEW c \in Reqs, Write(c) PROVE Types'
  <2>1. Line("echo", c, 0) \in Lines
        BY OwnLines
  <2>2. pty' \in Seq(Lines) /\ input' \in Seq(Writers)
    <3>1. c \in Writers
          BY DEF Writers
    <3>. QED BY <1>11, <2>1, <3>1 DEF Write
  <2>. QED BY <1>11, <2>2 DEF Write, Move, Points, reader, channels, filters
<1>12. ASSUME NEW c \in Reqs, WriteFails(c) \/ CollectEnds(c) PROVE Types'
  <2>1. \E e \in {"error", "closed", "timeout"} : how' = [how EXCEPT ![c] = e]
        BY <1>12 DEF WriteFails, CollectEnds, Done
  <2>2. pc' \in [Reqs -> Points] /\ how' \in [Reqs -> Ends]
    <3>1. \A e \in {"error", "closed", "timeout"} : e \in Ends
          BY Zenon DEF Ends
    <3>2. pc' = [pc EXCEPT ![c] = "cancel"]
          BY <1>12 DEF WriteFails, CollectEnds, Done, Move
    <3>. QED BY <2>1, <3>1, <3>2 DEF Points
  <2>3. UNCHANGED <<job, input, alive, pty, runner, line, filter, chan, out, hand, reply, total,
                    history>>
        BY <1>12 DEF WriteFails, CollectEnds, process, reader, channels, filters
  <2>. QED BY <2>2, <2>3
<1>13. ASSUME NEW c \in Reqs, Collect(c) PROVE Types'
  <2>1. Head(out[c]) \in Lines /\ Tail(out[c]) \in Seq(Lines)
        BY <1>13 DEF Collect
  <2>2. pc' \in [Reqs -> Points] /\ reply' \in [Reqs -> Seq(Lines)]
    <3> DEFINE l == Head(out[c])
    <3>1. Append(reply[c], l) \in Seq(Lines)
          BY <2>1
    <3>2. /\ pc' = pc \/ pc' = [pc EXCEPT ![c] = "cancel"]
          /\ reply' = reply \/ reply' = [reply EXCEPT ![c] = Append(reply[c], l)]
          BY <1>13 DEF Collect, Done, Move
    <3> HIDE DEF l
    <3>3. pc' \in [Reqs -> Points]
      <4>1. "cancel" \in Points /\ pc \in [Reqs -> Points]
            BY DEF Points
      <4>. QED BY ONLY <3>2, <4>1, c \in Reqs
    <3>4. PICK s \in Seq(Lines) : reply' = reply \/ reply' = [reply EXCEPT ![c] = s]
          BY ONLY <3>1, <3>2
    <3>5. reply' \in [Reqs -> Seq(Lines)]
      <4>1. reply \in [Reqs -> Seq(Lines)]
            OBVIOUS
      <4>. QED BY ONLY <3>4, <4>1, c \in Reqs
    <3>. QED BY <3>3, <3>5
  <2>3. /\ how' \in [Reqs -> Ends]
        /\ total' \in [Reqs -> Nat]
    <3> DEFINE l == Head(out[c])
    <3>1. l.n \in Nat
          BY <2>1, LineTypes
    <3>2. /\ how' = how \/ how' = [how EXCEPT ![c] = "end"]
          /\ total' = total \/ total' = [total EXCEPT ![c] = l.n]
          BY <1>13 DEF Collect, Done
    <3> HIDE DEF l
    <3>3. "end" \in Ends
          BY Zenon DEF Ends
    <3>4. how' \in [Reqs -> Ends]
          BY <3>2, <3>3
    <3>5. total' \in [Reqs -> Nat]
          BY <3>1, <3>2
    <3>. QED BY <3>4, <3>5
  <2>. QED BY <1>13, <2>1, <2>2, <2>3 DEF Collect, process, reader, channels
<1>14. ASSUME NEW c \in Reqs, Cancel(c) \/ Delete(c) \/ Close(c) PROVE Types'
  <2>1. CASE Cancel(c)
    <3>1. pc' \in [Reqs -> Points] /\ reply' \in [Reqs -> Seq(Lines)]
      <4>1. <<>> \in Seq(Lines)
            OBVIOUS
      <4>2. reply' = [reply EXCEPT ![c] = <<>>] /\ pc' = [pc EXCEPT ![c] = "delete"]
            BY <2>1 DEF Cancel, Move
      <4>3. \A e : e = <<>> /\ e \in Seq(Lines) => [reply EXCEPT ![c] = e] \in [Reqs -> Seq(Lines)]
            OBVIOUS
      <4>. QED BY <4>1, <4>2, <4>3 DEF Points
    <3>2. /\ how' \in [Reqs -> Ends]
          /\ total' \in [Reqs -> Nat]
      <4>1. "" \in Ends
            BY Zenon DEF Ends
      <4>2. \A e \in Ends : [how EXCEPT ![c] = e] \in [Reqs -> Ends]
            OBVIOUS
      <4>3. how' = [how EXCEPT ![c] = ""] /\ total' = [total EXCEPT ![c] = 0]
            BY <2>1 DEF Cancel
      <4>4. how' \in [Reqs -> Ends]
            BY <4>1, <4>2, <4>3, Zenon
      <4>. QED BY <4>3, <4>4
    <3>. QED BY <2>1, <3>1, <3>2 DEF Cancel, process, reader
  <2>2. CASE Delete(c)
    <3>1. pc' \in [Reqs -> Points] /\ chan' \in [Reqs -> Seq(Lines)]
          BY <2>2 DEF Delete, Move, Points
    <3>. QED BY <2>2, <3>1 DEF Delete, process, reader, filters
  <2>3. CASE Close(c)
        BY <2>3 DEF Close, Move, Points, process, reader, filters
  <2>. QED BY <1>14, <2>1, <2>2, <2>3
<1>15. CASE UNCHANGED vars
      BY <1>15 DEF vars, process, reader, channels, filters, reqs
<1>. QED BY <1>1, <1>2, <1>3, <1>4, <1>5, <1>6, <1>7, <1>8, <1>9, <1>10, <1>11, <1>12, <1>13,
            <1>14, <1>15 DEF Next, Process, Runner, Filter, Capture

\* commandMu is held from the lock to the return.
LEMMA MuNext == ChanInv /\ Types /\ MuInv /\ [Next]_vars => MuInv'
<1> SUFFICES ASSUME ChanInv, Types, MuInv, [Next]_vars PROVE MuInv'
    OBVIOUS
<1>0. pc \in [Reqs -> Points] /\ 0 \notin Reqs
      BY ConsoleAssumption DEF Types
<1> USE DEF MuInv, Early, Move, Nobody
<1>1. CASE \/ Execute \/ Emit \/ Die \/ Quit \/ ClosePty \/ Sent \/ ReadFails \/ ReadLine
      BY <1>1 DEF Execute, Emit, Die, Quit, ClosePty, Sent, ReadFails, ReadLine, process, reader,
                  channels, filters, reqs
<1>2. CASE CloseSubscribers
      BY <1>2 DEF CloseSubscribers, filters, reqs
<1>3. ASSUME NEW c \in Reqs, Send(c) \/ Filter(c) PROVE MuInv'
      BY <1>3 DEF Send, Filter, FilterRecv, FilterSend, FilterEnds, reader, channels, filters, reqs
<1>4. ASSUME NEW c \in Reqs, Lock(c) PROVE MuInv'
      BY <1>0, <1>4 DEF Lock, reader, channels, filters
<1>5. ASSUME NEW c \in Reqs, Subscribe(c) PROVE MuInv'
      BY <1>0, <1>5 DEF Subscribe, reader
<1>6. ASSUME NEW c \in Reqs, Queue(c) \/ Write(c) \/ WriteFails(c) PROVE MuInv'
      BY <1>0, <1>6 DEF Queue, Write, WriteFails, reader, channels, filters
<1>7. ASSUME NEW c \in Reqs, Collect(c) PROVE MuInv'
      BY <1>0, <1>7 DEF Collect, Done, reader, channels
<1>8. ASSUME NEW c \in Reqs, CollectEnds(c) PROVE MuInv'
      BY <1>0, <1>8 DEF CollectEnds, Done, reader, channels, filters
<1>9. ASSUME NEW c \in Reqs, Cancel(c) PROVE MuInv'
      BY <1>0, <1>9 DEF Cancel, reader
<1>10. ASSUME NEW c \in Reqs, Delete(c) \/ Close(c) PROVE MuInv'
      BY <1>0, <1>10 DEF Delete, Close, reader, filters
<1>11. CASE UNCHANGED vars
      BY <1>11 DEF vars, reader, channels, filters, reqs
<1>. QED BY <1>1, <1>2, <1>3, <1>4, <1>5, <1>6, <1>7, <1>8, <1>9, <1>10, <1>11
         DEF Next, Process, Runner, Capture

\* Tail and Append, index by index.
LEMMA TailAt ==
  ASSUME NEW R, NEW s \in Seq(R), s # <<>>
  PROVE  /\ 1 \in DOMAIN s /\ Head(s) = s[1] /\ Head(s) \in R /\ Tail(s) \in Seq(R)
         /\ \A i \in DOMAIN Tail(s) : i \in Nat /\ i + 1 \in DOMAIN s /\ i + 1 # 1 /\ Tail(s)[i] = s[i + 1]
OBVIOUS

LEMMA TailIs ==
  ASSUME NEW R, NEW s \in Seq(R), s # <<>>
  PROVE  Tail(s) = [i \in 1..(Len(s) - 1) |-> s[i + 1]]
<1> DEFINE t == Tail(s)
           n == Len(s) - 1
<1>1. t \in Seq(R) /\ DOMAIN t = 1..n /\ \A i \in 1..n : t[i] = s[i + 1]
      OBVIOUS
<1>2. t = [i \in DOMAIN t |-> t[i]]
  <2>1. t \in [1..Len(t) -> R]
        BY <1>1, LenProperties
  <2>. QED BY <2>1
<1> HIDE DEF t, n
<1>3. t = [i \in 1..n |-> s[i + 1]]
      BY <1>1, <1>2, Zenon
<1>. QED BY <1>3 DEF t, n

LEMMA AppendAt ==
  ASSUME NEW R, NEW s \in Seq(R), NEW x \in R
  PROVE  /\ Append(s, x) \in Seq(R)
         /\ \A i \in DOMAIN Append(s, x) :
              (i \in DOMAIN s /\ Append(s, x)[i] = s[i]) \/ (i = Len(s) + 1 /\ Append(s, x)[i] = x)
         /\ Len(s) + 1 \notin DOMAIN s
<1> DEFINE t == Append(s, x)
           k == Len(s)
<1>1. t \in Seq(R) /\ DOMAIN t = 1..(k + 1) /\ k \in Nat /\ DOMAIN s = 1..k
      OBVIOUS
<1>2. (\A i \in 1..k : t[i] = s[i]) /\ t[k + 1] = x
      OBVIOUS
<1> HIDE DEF t, k
<1>3. (\A i \in 1..(k + 1) : i \in 1..k \/ i = k + 1) /\ k + 1 \notin 1..k
      BY <1>1
<1>4. /\ t \in Seq(R)
      /\ \A i \in DOMAIN t : (i \in DOMAIN s /\ t[i] = s[i]) \/ (i = k + 1 /\ t[i] = x)
      /\ k + 1 \notin DOMAIN s
  <2>1. ASSUME NEW i \in DOMAIN t
        PROVE  (i \in DOMAIN s /\ t[i] = s[i]) \/ (i = k + 1 /\ t[i] = x)
    <3>1. i \in 1..k \/ i = k + 1
          BY <1>1, <1>3
    <3>. QED BY <1>1, <1>2, <3>1
  <2>. QED BY <1>1, <1>3, <2>1
<1>. QED BY <1>4 DEF t, k

\* Every echo in the PTY is announced: it is queued before the command is written.
LEMMA PtyEchoNext == Types /\ PtyEcho /\ Silence /\ [Next]_vars => PtyEcho'
<1> SUFFICES ASSUME Types, PtyEcho, Silence, [Next]_vars PROVE PtyEcho'
    OBVIOUS
<1>0. pty \in Seq(Lines) /\ pc \in [Reqs -> Points] /\ \A i \in DOMAIN pty : pty[i] \in Lines
      BY DEF Types
<1>a. \A i \in DOMAIN pty : pty[i].kind = "echo" => pty[i].req \in Reqs
      BY <1>0, LineTypes
\* A step that leaves the PTY and the announcements alone and sends no request
\* back.
<1>b. ASSUME pty' = pty, suppressed \subseteq suppressed',
             \A c \in Reqs : pc'[c] = pc[c] \/ (pc'[c] # "write" /\ (pc'[c] \in Early => pc[c] \in Early))
      PROVE  PtyEcho'
      BY <1>a, <1>b DEF PtyEcho
<1>1. CASE Execute \/ Die \/ Sent \/ ReadFails \/ CloseSubscribers
      BY <1>1, <1>b DEF Execute, Die, Sent, ReadFails, CloseSubscribers, reqs
<1>2. CASE Emit \/ Quit
  <2>1. PICK x \in Lines : x.kind # "echo" /\ pty' = Append(pty, x)
    <3>1. CASE Emit
          BY <3>1 DEF Emit, Types, Silence
    <3>2. CASE Quit
          BY <3>2, QuitLine DEF Quit
    <3>. QED BY <1>2, <3>1, <3>2
  <2>2. suppressed' = suppressed /\ pc' = pc
        BY <1>2 DEF Emit, Quit, reqs
  <2>3. \A i \in DOMAIN pty' : pty'[i].kind = "echo" => i \in DOMAIN pty /\ pty'[i] = pty[i]
        BY <1>0, <2>1, <2>2, AppendAt
  <2>. QED BY <2>2, <2>3 DEF PtyEcho
<1>3. CASE ClosePty
  <2>1. pty' = <<>> /\ suppressed' = suppressed /\ pc' = pc
        BY <1>3 DEF ClosePty, reqs
  <2>. QED BY <2>1 DEF PtyEcho
<1>4. CASE ReadLine
  <2> DEFINE l == Head(pty)
  <2>1. pty # <<>> /\ pty' = Tail(pty) /\ pc' = pc
        BY <1>4 DEF ReadLine, reqs
  <2>2. /\ l = pty[1] /\ 1 \in DOMAIN pty
        /\ \A i \in DOMAIN pty' : i \in Nat /\ i + 1 \in DOMAIN pty /\ i + 1 # 1 /\ pty'[i] = pty[i + 1]
        BY <1>0, <2>1, TailAt
  <2>3. \/ l.kind = "echo" /\ suppressed' = suppressed \ {l.req}
        \/ suppressed' = suppressed
        BY <1>4 DEF ReadLine
  <2> HIDE DEF l
  <2>4. \A i \in DOMAIN pty' : pty'[i].kind = "echo" =>
          /\ pty'[i].req \in suppressed' /\ pc'[pty'[i].req] \notin Early
          /\ \A j \in DOMAIN pty' : pty'[j].kind = "echo" /\ pty'[j].req = pty'[i].req => i = j
    <3> SUFFICES ASSUME NEW i \in DOMAIN pty', pty'[i].kind = "echo"
                 PROVE  /\ pty'[i].req \in suppressed' /\ pc'[pty'[i].req] \notin Early
                        /\ \A j \in DOMAIN pty' :
                             pty'[j].kind = "echo" /\ pty'[j].req = pty'[i].req => i = j
        OBVIOUS
    <3>1. i \in Nat /\ i + 1 \in DOMAIN pty /\ i + 1 # 1 /\ pty'[i] = pty[i + 1]
          BY <2>2
    <3>2. /\ pty[i + 1].req \in suppressed /\ pc[pty[i + 1].req] \notin Early
          /\ \A j \in DOMAIN pty :
               pty[j].kind = "echo" /\ pty[j].req = pty[i + 1].req => i + 1 = j
          BY <3>1 DEF PtyEcho
    <3>3. pty'[i].req \in suppressed'
          BY <2>2, <2>3, <3>1, <3>2
    <3>4. ASSUME NEW j \in DOMAIN pty', pty'[j].kind = "echo", pty'[j].req = pty'[i].req
          PROVE  i = j
      <4>1. j \in Nat /\ j + 1 \in DOMAIN pty /\ pty'[j] = pty[j + 1]
            BY <2>2
      <4>2. i + 1 = j + 1
            BY <3>1, <3>2, <3>4, <4>1
      <4>. QED BY <3>1, <4>1, <4>2
    <3>. QED BY <2>1, <3>1, <3>2, <3>3, <3>4
  <2>5. \A c \in Reqs : pc'[c] = "write" => c \in suppressed'
    <3> SUFFICES ASSUME NEW c \in Reqs, pc[c] = "write" PROVE c \in suppressed'
        BY <2>1
    <3>1. c \in suppressed
          BY DEF PtyEcho
    <3>2. l.kind = "echo" => l.req # c
          BY <2>2 DEF PtyEcho, Early
    <3>. QED BY <2>3, <3>1, <3>2
  <2>. QED BY <2>4, <2>5 DEF PtyEcho
<1>5. ASSUME NEW c \in Reqs, Send(c) \/ Filter(c) PROVE PtyEcho'
      BY <1>5, <1>b DEF Send, Filter, FilterRecv, FilterSend, FilterEnds, reqs
<1>6. ASSUME NEW c \in Reqs, Lock(c) \/ Subscribe(c) PROVE PtyEcho'
      BY <1>0, <1>6, <1>b DEF Lock, Subscribe, Move, Early
<1>7. ASSUME NEW c \in Reqs, Queue(c) PROVE PtyEcho'
  <2>1. pty' = pty /\ suppressed' = suppressed \cup {c} /\ pc[c] = "queue"
        /\ pc' = [pc EXCEPT ![c] = "write"]
        BY <1>7 DEF Queue, Move
  <2>. QED BY <1>0, <1>a, <2>1 DEF PtyEcho, Early
<1>8. ASSUME NEW c \in Reqs, Write(c) PROVE PtyEcho'
  <2> DEFINE e == Line("echo", c, 0)
  <2>1. /\ pty' = Append(pty, e) /\ suppressed' = suppressed /\ pc[c] = "write"
        /\ pc' = [pc EXCEPT ![c] = "collect"]
        BY <1>8 DEF Write, Move
  <2>2. e \in Lines /\ e.req = c
        BY OwnLines
  <2> HIDE DEF e
  <2>3. \A i \in DOMAIN pty' : \/ i \in DOMAIN pty /\ pty'[i] = pty[i]
                               \/ i = Len(pty) + 1 /\ pty'[i] = e
        BY <1>0, <2>1, <2>2, AppendAt
  <2>4. \A i \in DOMAIN pty : pty[i].kind = "echo" => pty[i].req # c
        BY <2>1 DEF PtyEcho, Early
  <2>5. c \in suppressed
        BY <2>1 DEF PtyEcho
  <2>6. pc'[c] = "collect" /\ \A d \in Reqs : d # c => pc'[d] = pc[d]
        BY <1>0, <2>1
  <2>. QED BY <1>a, <2>1, <2>2, <2>3, <2>4, <2>5, <2>6 DEF PtyEcho, Early
<1>9. ASSUME NEW c \in Reqs, WriteFails(c) PROVE PtyEcho'
  <2>1. /\ pty' = pty /\ suppressed' = suppressed \ {c} /\ pc[c] = "write"
        /\ pc' = [pc EXCEPT ![c] = "cancel"]
        BY <1>9 DEF WriteFails, Move
  <2>. QED BY <1>0, <1>a, <2>1 DEF PtyEcho, Early
<1>10. ASSUME NEW c \in Reqs, Collect(c) PROVE PtyEcho'
  <2>1. pc' = pc \/ pc' = [pc EXCEPT ![c] = "cancel"]
        BY <1>10 DEF Collect, Done, Move
  <2>. QED BY <1>0, <1>10, <1>b, <2>1 DEF Collect, Early
<1>11. ASSUME NEW c \in Reqs, CollectEnds(c) \/ Cancel(c) \/ Delete(c) \/ Close(c) PROVE PtyEcho'
      BY <1>0, <1>11, <1>b DEF CollectEnds, Done, Cancel, Delete, Close, Move, Early
<1>12. CASE UNCHANGED vars
      BY <1>12, <1>b DEF vars, reqs
<1>. QED BY <1>1, <1>2, <1>3, <1>4, <1>5, <1>6, <1>7, <1>8, <1>9, <1>10, <1>11, <1>12
         DEF Next, Process, Runner, Capture

\* So it is swallowed when it is read and gets no further.
LEMMA SilenceNext == Types /\ PtyEcho /\ Silence /\ [Next]_vars => Silence'
<1> SUFFICES ASSUME Types, PtyEcho, Silence, [Next]_vars PROVE Silence'
    OBVIOUS
<1>1. CASE Execute \/ Quit
      BY <1>1 DEF Execute, Quit, Silence, Line, reader, channels, filters
<1>2. CASE Emit \/ Die
  <2>1. job'.kind \notin {"echo", "quit"}
    <3>1. CASE Emit
      <4>1. job \in Lines /\ job.kind \notin {"echo", "quit"} /\ job' \in After(job)
            BY <3>1 DEF Emit, Types, Silence
      <4>2. job' = Nothing \/ Follows(job, job')
            BY <4>1, AfterIs
      <4>. QED BY <4>2 DEF Follows, Nothing
    <3>2. CASE Die
          BY <3>2 DEF Die, Nothing
    <3>. QED BY <1>2, <3>1, <3>2
  <2>. QED BY <1>2, <2>1 DEF Emit, Die, Silence, reader, channels, filters
<1>3. CASE ClosePty \/ Sent \/ ReadFails \/ CloseSubscribers
      BY <1>3 DEF ClosePty, Sent, ReadFails, CloseSubscribers, Silence, process, reader, channels,
                  filters
<1>4. CASE ReadLine
  <2> DEFINE l == Head(pty)
  <2>1. l \in Lines /\ l = pty[1] /\ 1 \in DOMAIN pty
        BY <1>4, TailAt DEF ReadLine, Types
  <2>2. UNCHANGED <<job, filter, hand, chan, out>>
        BY <1>4 DEF ReadLine, process, channels, filters
  <2>3. CASE l.kind = "echo" /\ l.req \in suppressed
        BY <1>4, <2>2, <2>3 DEF ReadLine, Silence, reader
  <2>4. CASE ~(l.kind = "echo" /\ l.req \in suppressed)
    <3>1. l.kind # "echo"
          BY <2>1, <2>4 DEF PtyEcho
    <3>2. /\ line' = l
          /\ history' = IF Sentinel(l) THEN history ELSE AppendHistory(history, l.kind)
          BY <1>4, <2>4 DEF ReadLine
    <3>3. l.kind \in Kinds
          BY <2>1, LineTypes
    <3> DEFINE q == l.kind
    <3> HIDE DEF l
    <3>4. \A i \in DOMAIN history' : history'[i] \in Logged
      <4>1. CASE Sentinel(l)
            BY <3>2, <4>1 DEF Silence
      <4>2. CASE ~Sentinel(l)
        <5>1. q \in Logged /\ q \in Kinds
              BY <3>1, <3>3, <4>2 DEF Kinds, Sentinel, Logged
        <5>2. history \in Seq(Kinds)
              BY DEF Types
        <5>3. PICK h \in Seq(Kinds) :
                /\ history' = Append(h, q)
                /\ \A i \in DOMAIN h : h[i] \in Logged
          <6>1. CASE Len(history) < HistCap
            <7>1. history' = Append(history, q)
                  BY <3>2, <4>2, <6>1 DEF AppendHistory
            <7>. QED BY <5>2, <7>1 DEF Silence
          <6>2. CASE ~(Len(history) < HistCap)
            <7>1. history' = Append(Tail(history), q) /\ history # <<>>
                  BY <3>2, <4>2, <5>2, <6>2, ConsoleAssumption DEF AppendHistory
            <7>2. /\ Tail(history) \in Seq(Kinds)
                  /\ \A i \in DOMAIN Tail(history) : i + 1 \in DOMAIN history
                                                    /\ Tail(history)[i] = history[i + 1]
                  BY <5>2, <7>1, TailAt
            <7>. QED BY <7>1, <7>2 DEF Silence
          <6>. QED BY <6>1, <6>2
        <5> HIDE DEF q
        <5>4. \A i \in DOMAIN history' : (i \in DOMAIN h /\ history'[i] = h[i]) \/ history'[i] = q
              BY <5>1, <5>3, AppendAt
        <5>. QED BY <5>1, <5>3, <5>4
      <4>. QED BY <4>1, <4>2
    <3>. QED BY <2>2, <3>1, <3>2, <3>4 DEF Silence
  <2>. QED BY <2>3, <2>4
<1>5. ASSUME NEW c \in Reqs, Send(c) PROVE Silence'
  <2>1. /\ runner = "send" /\ UNCHANGED <<job, runner, line, filter, hand, out, history>>
        /\ chan' = chan \/ chan' = [chan EXCEPT ![c] = Append(chan[c], line)]
        BY <1>5 DEF Send, process, filters
  <2>2. line \in Lines /\ chan[c] \in Seq(Lines) /\ chan \in [Reqs -> Seq(Lines)]
        BY <2>1 DEF Types
  <2>3. line.kind # "echo" /\ Silent(chan[c])
        BY <2>1 DEF Silence
  <2>4. Silent(Append(chan[c], line))
        BY <2>2, <2>3, AppendAt DEF Silent
  <2>5. \A d \in Reqs : chan'[d] = chan[d] \/ chan'[d] = Append(chan[c], line)
        BY <2>1, <2>2
  <2>. QED BY <2>1, <2>4, <2>5 DEF Silence
<1>6. ASSUME NEW c \in Reqs, FilterRecv(c) PROVE Silence'
  <2> DEFINE l == Head(chan[c])
  <2>1. /\ chan[c] # <<>> /\ UNCHANGED <<job, runner, line, out, history>>
        /\ chan' = [chan EXCEPT ![c] = Tail(chan[c])]
        /\ \/ /\ Keeps(c, l)
              /\ hand' = [hand EXCEPT ![c] = l] /\ filter' = [filter EXCEPT ![c] = "send"]
           \/ UNCHANGED <<hand, filter>>
        BY <1>6 DEF FilterRecv, process, reader
  <2>2. chan[c] \in Seq(Lines) /\ chan \in [Reqs -> Seq(Lines)] /\ hand \in [Reqs -> Lines \cup {Nothing}]
        /\ filter \in [Reqs -> {"off", "recv", "send", "done"}]
        BY DEF Types
  <2>3. Silent(chan[c])
        BY DEF Silence
  <2>4. Silent(Tail(chan[c])) /\ l.kind # "echo"
        BY <2>1, <2>2, <2>3, TailAt DEF Silent
  <2>6. Keeps(c, l) => l.kind \notin {"echo", "noise"}
        BY <2>4 DEF Keeps, IsSentinel
  <2> HIDE DEF l
  <2>5. \A d \in Reqs : /\ chan'[d] = chan[d] \/ chan'[d] = Tail(chan[c])
                        /\ \/ hand'[d] = l /\ Keeps(c, l)
                           \/ hand'[d] = hand[d] /\ filter'[d] = filter[d]
        BY <2>1, <2>2
  <2>. QED BY <2>1, <2>4, <2>5, <2>6 DEF Silence
<1>7. ASSUME NEW c \in Reqs, FilterSend(c) PROVE Silence'
  <2>1. /\ filter[c] = "send" /\ UNCHANGED <<job, runner, line, chan, history>>
        /\ out' = [out EXCEPT ![c] = Append(out[c], hand[c])]
        /\ hand' = [hand EXCEPT ![c] = Nothing] /\ filter' = [filter EXCEPT ![c] = "recv"]
        BY <1>7 DEF FilterSend, process, reader, channels
  <2>2. out[c] \in Seq(Lines) /\ out \in [Reqs -> Seq(Lines)] /\ hand \in [Reqs -> Lines \cup {Nothing}]
        /\ filter \in [Reqs -> {"off", "recv", "send", "done"}] /\ hand[c] \in Lines
        BY <2>1 DEF Types
  <2>3. Filtered(out[c]) /\ hand[c].kind \notin {"echo", "noise"}
        BY <2>1 DEF Silence
  <2>4. Filtered(Append(out[c], hand[c]))
        BY <2>2, <2>3, AppendAt DEF Filtered
  <2>5. \A d \in Reqs : /\ out'[d] = out[d] \/ out'[d] = Append(out[c], hand[c])
                        /\ filter'[d] = "recv" \/ (hand'[d] = hand[d] /\ filter'[d] = filter[d])
        BY <2>1, <2>2
  <2>. QED BY <2>1, <2>4, <2>5 DEF Silence
<1>8. ASSUME NEW c \in Reqs, FilterEnds(c) \/ Delete(c) PROVE Silence'
  <2>1. Silent(<<>>) /\ Filtered(<<>>)
        BY DEF Silent, Filtered
  <2>2. /\ UNCHANGED <<job, runner, line, history>>
        /\ out' = out \/ out' = [out EXCEPT ![c] = <<>>]
        /\ chan' = chan \/ chan' = [chan EXCEPT ![c] = <<>>]
        /\ \/ UNCHANGED <<hand, filter>>
           \/ hand' = [hand EXCEPT ![c] = Nothing] /\ filter' = [filter EXCEPT ![c] = "done"]
        BY <1>8 DEF FilterEnds, Delete, process, reader, filters
  <2>3. /\ out \in [Reqs -> Seq(Lines)] /\ chan \in [Reqs -> Seq(Lines)]
        /\ hand \in [Reqs -> Lines \cup {Nothing}] /\ filter \in [Reqs -> {"off", "recv", "send", "done"}]
        BY DEF Types
  <2>4. \A d \in Reqs : /\ out'[d] = out[d] \/ out'[d] = <<>>
                        /\ chan'[d] = chan[d] \/ chan'[d] = <<>>
                        /\ filter'[d] = "done" \/ (hand'[d] = hand[d] /\ filter'[d] = filter[d])
        BY <2>2, <2>3
  <2>. QED BY <2>1, <2>2, <2>4 DEF Silence
<1>9. ASSUME NEW c \in Reqs, Subscribe(c) PROVE Silence'
  <2>1. /\ UNCHANGED <<job, runner, line, history, chan, out, hand>>
        /\ filter' = [filter EXCEPT ![c] = "recv"]
        BY <1>9 DEF Subscribe, process, reader
  <2>2. \A d \in Reqs : filter'[d] = "recv" \/ filter'[d] = filter[d]
        BY <2>1 DEF Types
  <2>. QED BY <2>1, <2>2 DEF Silence
<1>10. ASSUME NEW c \in Reqs, Collect(c) PROVE Silence'
  <2>1. /\ out[c] # <<>> /\ UNCHANGED <<job, runner, line, history, chan, hand, filter>>
        /\ out' = [out EXCEPT ![c] = Tail(out[c])]
        BY <1>10 DEF Collect, process, reader, channels
  <2>2. out[c] \in Seq(Lines) /\ out \in [Reqs -> Seq(Lines)] /\ Filtered(out[c])
        BY DEF Types, Silence
  <2>3. Filtered(Tail(out[c]))
        BY <2>1, <2>2, TailAt DEF Filtered
  <2>4. \A d \in Reqs : out'[d] = out[d] \/ out'[d] = Tail(out[c])
        BY <2>1, <2>2
  <2>. QED BY <2>1, <2>3, <2>4 DEF Silence
<1>11. ASSUME NEW c \in Reqs,
              \/ Lock(c) \/ Queue(c) \/ Write(c) \/ WriteFails(c) \/ CollectEnds(c)
              \/ Cancel(c) \/ Close(c)
       PROVE  Silence'
  <2>1. UNCHANGED <<job, runner, line, history, chan, out, hand, filter>>
        BY <1>11 DEF Lock, Queue, Write, WriteFails, CollectEnds, Cancel, Close, process, reader,
                     channels, filters
  <2>. QED BY <2>1 DEF Silence
<1>12. CASE UNCHANGED vars
      BY <1>12 DEF vars, process, reader, channels, filters, Silence
<1>. QED BY <1>1, <1>2, <1>3, <1>4, <1>5, <1>6, <1>7, <1>8, <1>9, <1>10, <1>11, <1>12
         DEF Next, Process, Runner, Filter, Capture

-----------------------------------------------------------------------------
(* What each step does to the way to a request *)

\* A stage changes only with its own variables.
LEMMA StageSame ==
  ASSUME NEW c
  PROVE  /\ (c \in started' <=> c \in started) /\ reply'[c] = reply[c] => Way(c)'[0] = Way(c)[0]
         /\ out'[c] = out[c] => Way(c)'[1] = Way(c)[1]
         /\ filter'[c] = filter[c] /\ hand'[c] = hand[c] => Way(c)'[2] = Way(c)[2]
         /\ chan'[c] = chan[c] => Way(c)'[3] = Way(c)[3]
         /\ Sending(c)' = Sending(c) => Way(c)'[4] = Way(c)[4]
         /\ pty' = pty => Way(c)'[5] = Way(c)[5]
         /\ job' = job => Way(c)'[6] = Way(c)[6]
         /\ input' = input => Way(c)'[7] = Way(c)[7]
<1>1. (c \in started' <=> c \in started) /\ reply'[c] = reply[c] => Way(c)'[0] = Way(c)[0]
  <2> SUFFICES ASSUME (c \in started') <=> (c \in started), reply'[c] = reply[c]
               PROVE  Way(c)'[0] = Way(c)[0]
      OBVIOUS
  <2>1. Opened(c)' = Opened(c)
        BY DEF Opened
  <2>2. Way(c)[0] = Opened(c) \o reply[c]
        BY WayIs
  <2>3. Way(c)'[0] = Opened(c)' \o reply'[c]
        BY WayWillBe
  <2>. QED BY <2>1, <2>2, <2>3
<1>2. filter'[c] = filter[c] /\ hand'[c] = hand[c] => Way(c)'[2] = Way(c)[2]
      BY DEF Way, Held
<1>3. job' = job => Way(c)'[6] = Way(c)[6]
      BY DEF Way, Printing
<1>4. input' = input => Way(c)'[7] = Way(c)[7]
      BY DEF Way, Coming
<1>5. /\ out'[c] = out[c] => Way(c)'[1] = Way(c)[1]
      /\ chan'[c] = chan[c] => Way(c)'[3] = Way(c)[3]
      /\ Sending(c)' = Sending(c) => Way(c)'[4] = Way(c)[4]
      /\ pty' = pty => Way(c)'[5] = Way(c)[5]
      BY WayIs, WayWillBe
<1>. QED BY <1>1, <1>2, <1>3, <1>4, <1>5

LEMMA EachStage ==
  ASSUME NEW m \in 0..7
  PROVE  m = 0 \/ m = 1 \/ m = 2 \/ m = 3 \/ m = 4 \/ m = 5 \/ m = 6 \/ m = 7
OBVIOUS

LEMMA NoneComing == [i \in DOMAIN <<>> |-> Command(<<>>[i])] = <<>>
OBVIOUS

\* A step keeps a request that has not written free of lines of its own, and
\* the lines of one that collects in order and, unless one was lost, complete.
Onward(c) ==
  /\ Foreign(c, Way(c)) => Foreign(c, Way(c)')
  /\ pc[c] = "collect" =>
       /\ Flows(c, Way(c)) => Flows(c, Way(c)')
       /\ c \notin lost' /\ Flows(c, Way(c)) /\ Unbroken(c, Way(c)) => Unbroken(c, Way(c)')

\* What is enough for Onward.
LEMMA OnwardIf ==
  ASSUME NEW c
  PROVE  /\ Carries(c, Way(c), Way(c)') => Onward(c)
         /\ Trims(c, Way(c), Way(c)') /\ (pc[c] = "collect" => c \in lost') => Onward(c)
         /\ Same(Way(c), Way(c)') => Onward(c)
<1>1. Same(Way(c), Way(c)') => Carries(c, Way(c), Way(c)')
      BY SameCarries
<1>. QED BY <1>1 DEF Carries, Trims, Onward

\* Noise and a line of another request may be dropped, and any line of one that
\* counts it as lost.
LEMMA DropOnward ==
  ASSUME NEW c, NEW k \in 0..7, Way(c) \in Ways, Dropped(Way(c), Way(c)', k),
         \/ ~Mine(c, Head(Way(c)[k])) \/ Head(Way(c)[k]).kind = "noise"
         \/ (pc[c] = "collect" => c \in lost')
  PROVE  Onward(c)
<1> DEFINE F == Way(c)
           G == Way(c)'
<1>1. F \in Ways /\ Dropped(F, G, k)
      OBVIOUS
<1> HIDE DEF F, G
<1>2. /\ Trims(c, F, G)
      /\ ~Mine(c, Head(F[k])) \/ Head(F[k]).kind = "noise" => Carries(c, F, G)
      BY <1>1, DropTrims
<1>. QED BY <1>2, OnwardIf DEF F, G

\* The process begins with the next command.
LEMMA ExecuteOnward ==
  ASSUME Types, Execute, Head(input) # Nobody, NEW c \in Reqs
  PROVE  Onward(c)
<1>1. /\ job = Nothing /\ input # <<>> /\ job' = Line("audit", Head(input), 0) /\ input' = Tail(input)
      /\ UNCHANGED <<started, reply, out, filter, hand, chan, runner, todo, line, pty>>
      BY DEF Execute, reader, channels, filters, reqs
<1> DEFINE F == Way(c)
           G == Way(c)'
<1>2. F \in Ways
      BY WayType
<1>3. \A m \in 0..7 : m # 6 /\ m # 7 => G[m] = F[m]
  <2>1. Sending(c)' = Sending(c)
        BY <1>1 DEF Sending
  <2>. QED BY <1>1, <2>1, StageSame, EachStage
<1>4. F[6] = <<>> /\ F[7] = Coming /\ G[6] = <<job'>> /\ G[7] = Coming'
  <2>1. job' # Nothing
        BY <1>1 DEF Line, Nothing
  <2>. QED BY <1>1, <2>1, WayIs, WayWillBe DEF Printing
<1>5. Coming # <<>> /\ Head(Coming) = job' /\ Coming' = Tail(Coming)
  <2>1. /\ input \in Seq(Writers) /\ Len(input) \in Nat /\ Len(input) >= 1
        /\ Head(input) = input[1]
        BY <1>1 DEF Types
  <2>2. /\ Coming \in Seq(Lines) /\ Len(Coming) = Len(input) /\ Coming # <<>>
        /\ \A j \in 1..Len(input) : Coming[j] = Command(input[j])
        BY <1>1, <2>1, ComingIs
  <2>3. Head(Coming) = job'
        BY <1>1, <2>1, <2>2 DEF Command
  <2> DEFINE t == Tail(input)
             n == Len(input)
  <2>4. /\ DOMAIN t = 1..(n - 1) /\ \A j \in 1..(n - 1) : t[j] = input[j + 1]
        BY <2>1
  <2>5. Coming' = [j \in DOMAIN t |-> Command(t[j])]
        BY <1>1 DEF Coming, Command
  <2>6. Tail(Coming) = [j \in 1..(n - 1) |-> Coming[j + 1]]
        BY <2>1, <2>2, TailIs
  <2> HIDE DEF t
  <2>7. \A j \in 1..(n - 1) : Command(t[j]) = Coming[j + 1]
        BY <2>1, <2>2, <2>4
  <2> HIDE DEF n
  <2>8. Coming' = [j \in 1..(n - 1) |-> Coming[j + 1]]
        BY <2>4, <2>5, <2>7, Zenon
  <2>. QED BY <2>2, <2>3, <2>6, <2>8
<1> HIDE DEF F, G
<1>6. Moved(F, G, 6)
  <2>1. 6 + 1 = 7 /\ Append(<<>>, job') = <<job'>>
        OBVIOUS
  <2>. QED BY <1>3, <1>4, <1>5, <2>1 DEF Moved
<1>7. Carries(c, F, G)
      BY <1>2, <1>6, MoveCarries
<1>. QED BY <1>7, OnwardIf DEF F, G

\* The process prints a line.
LEMMA EmitOnward ==
  ASSUME Types, Silence, Emit, NEW c \in Reqs
  PROVE  Onward(c)
<1>1. /\ job # Nothing /\ pty' = Append(pty, job)
      /\ UNCHANGED <<started, reply, out, filter, hand, chan, runner, todo, line, input>>
      BY DEF Emit, reader, channels, filters, reqs
<1>2. job \in Lines /\ job.kind \notin {"echo", "quit"}
      BY <1>1 DEF Types, Silence
<1>3. job' = Nothing \/ (job' \in Lines /\ job' # Nothing /\ Follows(job, job'))
      BY <1>2, AfterIs DEF Emit
<1> DEFINE F == Way(c)
           G == Way(c)'
<1>4. F \in Ways
      BY WayType
<1>5. \A m \in 0..7 : m # 5 /\ m # 6 => G[m] = F[m]
  <2>1. Sending(c)' = Sending(c)
        BY <1>1 DEF Sending
  <2>. QED BY <1>1, <2>1, StageSame, EachStage
<1>6. F[5] = pty /\ F[6] = <<job>> /\ G[5] = pty' /\ G[6] = Printing'
      BY <1>1, WayIs, WayWillBe DEF Printing
<1>7. \A j \in DOMAIN F[7] : F[7][j].kind \in {"audit", "quit"}
      BY WayIs, ComingIs
<1> HIDE DEF F, G
<1> DEFINE y == Printing'
<1>8. y \in Seq(Lines) /\ (y = <<>> \/ \E z \in Lines : y = <<z>> /\ Follows(job, z))
      BY <1>3 DEF Printing
<1> HIDE DEF y
<1>9. Printed(F, G, job, y)
      BY <1>1, <1>5, <1>6 DEF Printed, y
<1>10. Carries(c, F, G)
      BY <1>2, <1>4, <1>7, <1>8, <1>9, PrintCarries
<1>. QED BY <1>10, OnwardIf DEF F, G

\* The process dies, or quits; its PTY is closed.
LEMMA EndOnward ==
  ASSUME Types, Die \/ ClosePty \/ (Execute /\ Head(input) = Nobody), NEW c \in Reqs
  PROVE  Onward(c)
<1> DEFINE F == Way(c)
           G == Way(c)'
<1>1. F \in Ways
      BY WayType
<1>2. UNCHANGED <<started, reply, out, filter, hand, chan, runner, todo, line>>
      BY DEF Die, ClosePty, Execute, reader, channels, filters, reqs
<1>3. \A m \in 0..7 : m < 5 => G[m] = F[m]
  <2>1. Sending(c)' = Sending(c)
        BY <1>2 DEF Sending
  <2>. QED BY <1>2, <2>1, StageSame, EachStage
<1>4. G[6] = <<>> /\ G[7] = <<>>
  <2>1. job' = Nothing /\ input' = <<>>
        BY DEF Die, ClosePty, Execute, Types
  <2>2. Coming' = <<>>
        BY <2>1, NoneComing DEF Coming, Command
  <2>. QED BY <2>1, <2>2, WayWillBe DEF Printing
<1>5. G[5] = F[5] \/ G[5] = <<>>
      BY WayIs, WayWillBe DEF Die, ClosePty, Execute
<1> HIDE DEF F, G
<1>6. Cut(F, G, 6) \/ Cut(F, G, 5)
      BY <1>3, <1>4, <1>5, EachStage DEF Cut
<1>7. Carries(c, F, G)
      BY <1>1, <1>6, CutCarries
<1>. QED BY <1>7, OnwardIf DEF F, G

\* A line is read: an echo is swallowed, another goes to the subscribers.
LEMMA ReadOnward ==
  ASSUME Types, MuInv, PtyEcho, ReadLine, NEW c \in Reqs, pc[c] \in Early \cup {"collect"}
  PROVE  Onward(c)
<1> DEFINE F == Way(c)
           G == Way(c)'
           l == Head(pty)
<1>1. /\ runner = "read" /\ pty # <<>> /\ pty' = Tail(pty)
      /\ UNCHANGED <<started, reply, out, filter, hand, chan, job, input>>
      BY DEF ReadLine, process, channels, filters, reqs
<1>2. F \in Ways
      BY WayType
<1>3. \A m \in 0..7 : m # 4 /\ m # 5 => G[m] = F[m]
      BY <1>1, StageSame, EachStage
<1>4. F[4] = <<>> /\ F[5] = pty /\ G[4] = Sending(c)' /\ G[5] = Tail(pty)
      BY <1>1, WayIs, WayWillBe DEF Sending
<1>5. CASE l.kind = "echo" /\ l.req \in suppressed
  <2>1. runner' = "read"
        BY <1>1, <1>5 DEF ReadLine, reader
  <2>2. Sending(c)' = <<>>
        BY <2>1 DEF Sending
  <2> HIDE DEF F, G
  <2>3. Dropped(F, G, 5)
        BY <1>1, <1>3, <1>4, <2>2 DEF Dropped
  <2>4. ~Mine(c, Head(F[5]))
        BY <1>4, <1>5 DEF Mine
  <2>. QED BY <1>2, <2>3, <2>4, DropOnward DEF F, G
<1>6. CASE ~(l.kind = "echo" /\ l.req \in suppressed)
  <2>1. runner' = "send" /\ todo' = subs /\ line' = l
        BY <1>6 DEF ReadLine
  <2>2. CASE c \in subs
    <3>1. Sending(c)' = <<l>> /\ Append(<<>>, l) = <<l>> /\ 4 + 1 = 5
          BY <2>1, <2>2 DEF Sending
    <3> HIDE DEF F, G
    <3>2. Moved(F, G, 4)
          BY <1>1, <1>3, <1>4, <3>1 DEF Moved
    <3>3. Carries(c, F, G)
          BY <1>2, <3>2, MoveCarries
    <3>. QED BY <3>3, OnwardIf DEF F, G
  <2>3. CASE c \notin subs
    <3>1. Sending(c)' = <<>>
          BY <2>1, <2>3 DEF Sending
    <3>2. pc[c] # "collect"
          BY <1>1, <2>3 DEF MuInv
    <3> HIDE DEF F, G
    <3>3. Dropped(F, G, 5)
          BY <1>1, <1>3, <1>4, <3>1 DEF Dropped
    <3>. QED BY <1>2, <3>2, <3>3, DropOnward DEF F, G
  <2>. QED BY <2>2, <2>3
<1>. QED BY <1>5, <1>6

\* A line is published to one subscriber, whose channel may be full.
LEMMA SendOnward ==
  ASSUME Types, MuInv, NEW b \in Reqs, Send(b), NEW c \in Reqs, pc[c] \in Early \cup {"collect"}
  PROVE  Onward(c)
<1> DEFINE F == Way(c)
           G == Way(c)'
<1>1. /\ runner = "send" /\ b \in todo /\ todo' = todo \ {b}
      /\ UNCHANGED <<started, reply, out, filter, hand, runner, line, pty, job, input>>
      BY DEF Send, process, filters, reqs
<1>2. /\ F \in Ways /\ chan \in [Reqs -> Seq(Lines)]
      BY WayType DEF Types
<1>3. \A m \in 0..7 : m # 3 /\ m # 4 => G[m] = F[m]
      BY <1>1, StageSame, EachStage
<1>4. F[3] = chan[c] /\ G[3] = chan'[c] /\ F[4] = Sending(c) /\ G[4] = Sending(c)'
      BY WayIs, WayWillBe
<1>5. CASE b # c
  <2>1. Sending(c)' = Sending(c) /\ chan'[c] = chan[c]
        BY <1>1, <1>2, <1>5 DEF Send, Sending
  <2>2. Same(F, G)
        BY <1>3, <1>4, <2>1 DEF Same
  <2>. QED BY <2>2, OnwardIf
<1>6. CASE b = c
  <2>1. F[4] = <<line>> /\ G[4] = <<>>
        BY <1>1, <1>4, <1>6 DEF Sending
  <2>2. F[4] # <<>> /\ Head(F[4]) = line /\ Tail(F[4]) = <<>> /\ 3 + 1 = 4
        BY <2>1
  <2>3. CASE Len(chan[c]) < Cap
    <3>1. G[3] = Append(F[3], line)
          BY <1>2, <1>4, <1>6, <2>3 DEF Send
    <3> HIDE DEF F, G
    <3>2. Moved(F, G, 3)
          BY <1>3, <2>1, <2>2, <3>1 DEF Moved
    <3>3. Carries(c, F, G)
          BY <1>2, <3>2, MoveCarries
    <3>. QED BY <3>3, OnwardIf DEF F, G
  <2>4. CASE ~(Len(chan[c]) < Cap)
    <3>1. /\ G[3] = F[3]
          /\ line.req = c /\ line.kind # "noise" => lost' = lost \cup ({c} \ quit)
          BY <1>4, <1>6, <2>4 DEF Send
    <3>2. c \in lost' \/ ~Mine(c, line) \/ line.kind = "noise"
          BY <3>1 DEF MuInv, Mine
    <3> HIDE DEF F, G
    <3>3. Dropped(F, G, 4)
          BY <1>3, <2>1, <2>2, <3>1 DEF Dropped
    <3>. QED BY <1>2, <2>2, <3>2, <3>3, DropOnward DEF F, G
  <2>. QED BY <2>3, <2>4
<1>. QED BY <1>5, <1>6

\* The filter takes a line, and drops noise and the sentinels of other requests.
LEMMA FilterRecvOnward ==
  ASSUME Types, NEW b \in Reqs, FilterRecv(b), NEW c \in Reqs
  PROVE  Onward(c)
<1> DEFINE F == Way(c)
           G == Way(c)'
           l == Head(chan[b])
<1>1. /\ filter[b] = "recv" /\ chan[b] # <<>> /\ chan' = [chan EXCEPT ![b] = Tail(chan[b])]
      /\ UNCHANGED <<started, reply, out, runner, todo, line, pty, job, input>>
      BY DEF FilterRecv, process, reader, reqs
<1>2. /\ F \in Ways /\ chan \in [Reqs -> Seq(Lines)] /\ hand \in [Reqs -> Lines \cup {Nothing}]
      /\ filter \in [Reqs -> {"off", "recv", "send", "done"}]
      BY WayType DEF Types
<1>3. \A m \in 0..7 : m # 2 /\ m # 3 => G[m] = F[m]
  <2>1. Sending(c)' = Sending(c)
        BY <1>1 DEF Sending
  <2>. QED BY <1>1, <2>1, StageSame, EachStage
<1>4. F[2] = Held(c) /\ G[2] = Held(c)' /\ F[3] = chan[c] /\ G[3] = chan'[c]
      BY WayIs, WayWillBe
<1>5. CASE b # c
  <2>1. Held(c)' = Held(c) /\ chan'[c] = chan[c]
        BY <1>1, <1>2, <1>5 DEF FilterRecv, Held
  <2>2. Same(F, G)
        BY <1>3, <1>4, <2>1 DEF Same
  <2>. QED BY <2>2, OnwardIf
<1>6. CASE b = c
  <2>1. F[2] = <<>> /\ F[3] # <<>> /\ Head(F[3]) = l /\ G[3] = Tail(F[3]) /\ 2 + 1 = 3
        BY <1>1, <1>2, <1>4, <1>6 DEF Held
  <2>2. CASE Keeps(b, l)
    <3>1. G[2] = <<l>> /\ Append(<<>>, l) = <<l>>
          BY <1>2, <1>4, <1>6, <2>2 DEF FilterRecv, Held
    <3> HIDE DEF F, G, l
    <3>2. Moved(F, G, 2)
          BY <1>3, <2>1, <3>1 DEF Moved
    <3>3. Carries(c, F, G)
          BY <1>2, <3>2, MoveCarries
    <3>. QED BY <3>3, OnwardIf DEF F, G
  <2>3. CASE ~Keeps(b, l)
    <3>1. G[2] = <<>>
          BY <1>1, <1>4, <1>6, <2>3 DEF FilterRecv, Held
    <3>2. l \in Lines
          BY <1>1, <1>2, TailAt
    <3> HIDE DEF F, G, l
    <3>3. Dropped(F, G, 3)
          BY <1>3, <2>1, <3>1 DEF Dropped
    <3>4. ~Mine(c, l) \/ l.kind = "noise"
          BY <1>6, <2>3 DEF Keeps, Sentinel, IsSentinel, Mine
    <3>. QED BY <1>2, <2>1, <3>3, <3>4, DropOnward DEF F, G
  <2>. QED BY <2>2, <2>3
<1>. QED BY <1>5, <1>6

\* The filter hands its line on.
LEMMA FilterSendOnward ==
  ASSUME Types, NEW b \in Reqs, FilterSend(b), NEW c \in Reqs
  PROVE  Onward(c)
<1> DEFINE F == Way(c)
           G == Way(c)'
<1>1. /\ filter[b] = "send" /\ out' = [out EXCEPT ![b] = Append(out[b], hand[b])]
      /\ hand' = [hand EXCEPT ![b] = Nothing] /\ filter' = [filter EXCEPT ![b] = "recv"]
      /\ UNCHANGED <<started, reply, chan, runner, todo, line, pty, job, input>>
      BY DEF FilterSend, process, reader, channels, reqs
<1>2. /\ F \in Ways /\ out \in [Reqs -> Seq(Lines)] /\ hand \in [Reqs -> Lines \cup {Nothing}]
      /\ filter \in [Reqs -> {"off", "recv", "send", "done"}]
      BY WayType DEF Types
<1>3. \A m \in 0..7 : m # 1 /\ m # 2 => G[m] = F[m]
  <2>1. Sending(c)' = Sending(c)
        BY <1>1 DEF Sending
  <2>. QED BY <1>1, <2>1, StageSame, EachStage
<1>4. F[1] = out[c] /\ G[1] = out'[c] /\ F[2] = Held(c) /\ G[2] = Held(c)'
      BY WayIs, WayWillBe
<1>5. CASE b # c
  <2>1. Held(c)' = Held(c) /\ out'[c] = out[c]
        BY <1>1, <1>2, <1>5 DEF Held
  <2>2. Same(F, G)
        BY <1>3, <1>4, <2>1 DEF Same
  <2>. QED BY <2>2, OnwardIf
<1>6. CASE b = c
  <2>1. F[2] = <<hand[c]>> /\ G[2] = <<>> /\ G[1] = Append(F[1], hand[c]) /\ 1 + 1 = 2
        BY <1>1, <1>2, <1>4, <1>6 DEF Held
  <2>2. F[2] # <<>> /\ Head(F[2]) = hand[c] /\ Tail(F[2]) = <<>>
        BY <2>1
  <2> HIDE DEF F, G
  <2>3. Moved(F, G, 1)
        BY <1>3, <2>1, <2>2 DEF Moved
  <2>4. Carries(c, F, G)
        BY <1>2, <2>3, MoveCarries
  <2>. QED BY <2>4, OnwardIf DEF F, G
<1>. QED BY <1>5, <1>6

\* The steps that leave the lines alone, and those of other requests.
LEMMA QuietOnward ==
  ASSUME Types, NEW c \in Reqs,
         \/ Sent \/ ReadFails \/ CloseSubscribers \/ UNCHANGED vars
         \/ \E b \in Reqs : \/ Lock(b) \/ Queue(b) \/ WriteFails(b) \/ CollectEnds(b) \/ Close(b)
                            \/ b # c /\ (FilterEnds(b) \/ Subscribe(b) \/ Collect(b) \/ Cancel(b)
                                         \/ Delete(b))
  PROVE  Onward(c)
<1>0. /\ chan \in [Reqs -> Seq(Lines)] /\ out \in [Reqs -> Seq(Lines)]
      /\ hand \in [Reqs -> Lines \cup {Nothing}] /\ reply \in [Reqs -> Seq(Lines)]
      /\ filter \in [Reqs -> {"off", "recv", "send", "done"}]
      BY DEF Types
<1>1. CASE Sent \/ ReadFails \/ CloseSubscribers
  <2>1. /\ UNCHANGED <<pty, job, input, started, reply, out, filter, hand, chan>>
        BY <1>1 DEF Sent, ReadFails, CloseSubscribers, process, channels, filters, reqs
  <2>2. Sending(c)' = Sending(c)
        BY <1>1 DEF Sent, ReadFails, CloseSubscribers, Sending
  <2>. QED BY <2>1, <2>2, StageSame, EachStage, OnwardIf DEF Same
<1>2. CASE UNCHANGED vars
  <2>1. UNCHANGED <<pty, job, input, started, reply, out, filter, hand, chan, runner, todo, line>>
        BY <1>2 DEF vars, process, reader, channels, filters, reqs
  <2>2. Sending(c)' = Sending(c)
        BY <2>1 DEF Sending
  <2>. QED BY <2>1, <2>2, StageSame, EachStage, OnwardIf DEF Same
<1>3. ASSUME NEW b \in Reqs,
             Lock(b) \/ Queue(b) \/ WriteFails(b) \/ CollectEnds(b) \/ Close(b)
      PROVE  Onward(c)
  <2>1. UNCHANGED <<pty, job, input, started, reply, out, filter, hand, chan, runner, todo, line>>
        BY <1>3 DEF Lock, Queue, WriteFails, CollectEnds, Close, process, reader, channels, filters
  <2>2. Sending(c)' = Sending(c)
        BY <2>1 DEF Sending
  <2>. QED BY <2>1, <2>2, StageSame, EachStage, OnwardIf DEF Same
<1>4. ASSUME NEW b \in Reqs, b # c,
             FilterEnds(b) \/ Subscribe(b) \/ Collect(b) \/ Cancel(b) \/ Delete(b)
      PROVE  Onward(c)
  <2>1. UNCHANGED <<pty, job, input, runner, todo, line>>
        BY <1>4 DEF FilterEnds, Subscribe, Collect, Cancel, Delete, process, reader
  <2>2. chan'[c] = chan[c]
    <3>1. chan' = chan \/ \E x : chan' = [chan EXCEPT ![b] = x]
          BY <1>4, Zenon DEF FilterEnds, Subscribe, Collect, Cancel, Delete, channels
    <3>. QED BY <1>0, <1>4, <3>1
  <2>3. out'[c] = out[c]
    <3>1. out' = out \/ \E x : out' = [out EXCEPT ![b] = x]
          BY <1>4, Zenon DEF FilterEnds, Subscribe, Collect, Cancel, Delete, filters
    <3>. QED BY <1>0, <1>4, <3>1
  <2>4. filter'[c] = filter[c] /\ hand'[c] = hand[c]
    <3>1. /\ filter' = filter \/ \E x : filter' = [filter EXCEPT ![b] = x]
          /\ hand' = hand \/ \E x : hand' = [hand EXCEPT ![b] = x]
          BY <1>4, Zenon DEF FilterEnds, Subscribe, Collect, Cancel, Delete, filters
    <3>. QED BY <1>0, <1>4, <3>1
  <2>5. (c \in started' <=> c \in started) /\ reply'[c] = reply[c]
    <3>1. CASE FilterEnds(b) \/ Subscribe(b) \/ Delete(b)
          BY <3>1 DEF FilterEnds, Subscribe, Delete, reqs
    <3>2. CASE Collect(b) \/ Cancel(b)
      <4>1. started' \in {started, started \cup {b}, started \ {b}}
            BY <3>2 DEF Collect, Cancel
      <4>2. \A d \in Reqs : d # b => reply'[d] = reply[d]
            BY <1>0, <3>2 DEF Collect, Cancel
      <4>. QED BY <1>4, <4>1, <4>2
    <3>. QED BY <1>4, <3>1, <3>2
  <2>6. Sending(c)' = Sending(c)
        BY <2>1 DEF Sending
  <2>. QED BY <2>1, <2>2, <2>3, <2>4, <2>5, <2>6, StageSame, EachStage, OnwardIf DEF Same
<1>. QED BY <1>1, <1>2, <1>3, <1>4

\* A filter that was not cancelled ends with nothing left.
LEMMA FilterEndsOnward ==
  ASSUME Types, NEW c \in Reqs, FilterEnds(c), c \notin quit
  PROVE  Onward(c)
<1>0. chan \in [Reqs -> Seq(Lines)] /\ filter \in [Reqs -> {"off", "recv", "send", "done"}]
      BY DEF Types
<1>1. UNCHANGED <<pty, job, input, runner, todo, line, started, reply, out>>
      BY DEF FilterEnds, process, reader, reqs
<1>2. chan'[c] = chan[c] /\ filter[c] = "recv" /\ filter'[c] = "done"
      BY <1>0 DEF FilterEnds
<1>3. Sending(c)' = Sending(c) /\ Held(c)' = Held(c)
      BY <1>1, <1>2 DEF Sending, Held
<1>4. Way(c)'[2] = Way(c)[2]
      BY <1>3, WayIs, WayWillBe
<1>5. Same(Way(c), Way(c)')
      BY <1>1, <1>2, <1>3, <1>4, StageSame, EachStage DEF Same
<1>. QED BY <1>5, OnwardIf

\* A request subscribes with an empty filter.
LEMMA SubscribeOnward ==
  ASSUME Types, NEW c \in Reqs, Subscribe(c)
  PROVE  Onward(c)
<1> DEFINE F == Way(c)
           G == Way(c)'
<1>1. /\ filter' = [filter EXCEPT ![c] = "recv"] /\ pc[c] = "subscribe"
      /\ UNCHANGED <<pty, job, input, runner, todo, line, started, reply, out, chan>>
      BY DEF Subscribe, Move, process, reader
<1>2. \A m \in 0..7 : m # 2 => G[m] = F[m]
  <2>1. Sending(c)' = Sending(c)
        BY <1>1 DEF Sending
  <2>. QED BY <1>1, <2>1, StageSame, EachStage
<1>3. F[2] = Held(c) /\ G[2] = <<>>
  <2>1. filter'[c] = "recv"
        BY <1>1 DEF Types
  <2>. QED BY <2>1, WayIs, WayWillBe DEF Held
<1>4. CASE filter[c] = "send"
  <2>1. F[2] = <<hand[c]>> /\ F \in Ways
        BY <1>3, <1>4, WayType DEF Held
  <2>2. F[2] # <<>> /\ G[2] = Tail(F[2])
        BY <1>3, <2>1
  <2>3. Dropped(F, G, 2)
        BY <1>2, <2>2 DEF Dropped
  <2>. QED BY <1>1, <2>1, <2>3, DropOnward
<1>5. CASE filter[c] # "send"
  <2>1. Same(F, G)
        BY <1>2, <1>3, <1>5 DEF Held, Same
  <2>. QED BY <2>1, OnwardIf
<1>. QED BY <1>4, <1>5

\* What a write adds to the ways: an echo at the end of the PTY and, while the
\* process runs, the command at the very end.
Wrote(b, e) ==
  /\ pty' = Append(pty, e) /\ input' \in {input, Append(input, b)}
  /\ UNCHANGED <<job, runner, todo, line, started, reply, out, filter, hand, chan>>

LEMMA WriteAdds ==
  ASSUME Types, NEW b \in Writers, NEW e \in Lines, Wrote(b, e), NEW c \in Reqs
  PROVE  /\ \A m \in 0..7 : \A i \in DOMAIN Way(c)'[m] :
              \/ i \in DOMAIN Way(c)[m] /\ Way(c)'[m][i] = Way(c)[m][i]
              \/ Way(c)'[m][i] = e
              \/ /\ Way(c)'[m][i] = Command(b) /\ m = 7
                 /\ \A j \in DOMAIN Way(c)'[m] : ~(i < j)
         /\ \A m \in 0..7 : \A i \in DOMAIN Way(c)[m] :
              i \in DOMAIN Way(c)'[m] /\ Way(c)'[m][i] = Way(c)[m][i]
<1> DEFINE F == Way(c)
           G == Way(c)'
<1>1. /\ pty' = Append(pty, e) /\ input' \in {input, Append(input, b)}
      /\ UNCHANGED <<job, runner, todo, line, started, reply, out, filter, hand, chan>>
      BY DEF Wrote
<1>2. \A m \in 0..7 : m # 5 /\ m # 7 => G[m] = F[m]
  <2>1. Sending(c)' = Sending(c)
        BY <1>1 DEF Sending
  <2>. QED BY <1>1, <2>1, StageSame, EachStage
<1>3. F[5] = pty /\ G[5] = pty' /\ F[7] = Coming /\ G[7] = Coming'
      BY WayIs, WayWillBe
<1>4. /\ \A i \in DOMAIN pty' : \/ i \in DOMAIN pty /\ pty'[i] = pty[i]
                                \/ pty'[i] = e
      /\ \A i \in DOMAIN pty : i \in DOMAIN pty' /\ pty'[i] = pty[i]
  <2>1. pty \in Seq(Lines)
        BY DEF Types
  <2>2. \A i \in DOMAIN pty : i \in DOMAIN Append(pty, e) /\ Append(pty, e)[i] = pty[i]
        BY <2>1
  <2>. QED BY <1>1, <2>1, <2>2, AppendAt
<1>5. /\ \A i \in DOMAIN Coming' :
           \/ i \in DOMAIN Coming /\ Coming'[i] = Coming[i]
           \/ Coming'[i] = Command(b) /\ \A j \in DOMAIN Coming' : ~(i < j)
      /\ \A i \in DOMAIN Coming : i \in DOMAIN Coming' /\ Coming'[i] = Coming[i]
  <2>1. /\ DOMAIN Coming = DOMAIN input /\ \A i \in DOMAIN input : Coming[i] = Command(input[i])
        /\ DOMAIN Coming' = DOMAIN input'
        /\ \A i \in DOMAIN input' : Coming'[i] = Command(input'[i])
        BY DEF Coming, Command
  <2>2. CASE input' = input
        BY <2>1, <2>2
  <2>3. CASE input' = Append(input, b)
    <3>1. input \in Seq(Writers) /\ Len(input) \in Nat
          BY DEF Types
    <3>2. \A i \in DOMAIN input' : \/ i \in DOMAIN input /\ input'[i] = input[i]
                                   \/ i = Len(input) + 1 /\ input'[i] = b
          BY <2>3, <3>1, AppendAt
    <3>3. \A j \in DOMAIN input' : j \in Nat /\ j <= Len(input) + 1
          BY <2>3, <3>1
    <3>4. \A j \in DOMAIN input' : ~(Len(input) + 1 < j)
          BY <3>1, <3>3
    <3>5. \A i \in DOMAIN input : i \in DOMAIN input' /\ input'[i] = input[i]
          BY <2>3, <3>1
    <3>. QED BY <2>1, <3>2, <3>4, <3>5
  <2>. QED BY <1>1, <2>2, <2>3
<1> HIDE DEF F, G
<1>6. ASSUME NEW m \in 0..7, NEW i \in DOMAIN G[m]
      PROVE  \/ i \in DOMAIN F[m] /\ G[m][i] = F[m][i]
             \/ G[m][i] = e
             \/ /\ G[m][i] = Command(b) /\ m = 7
                /\ \A j \in DOMAIN G[m] : ~(i < j)
  <2>1. CASE m = 5
        BY <1>3, <1>4, <2>1
  <2>2. CASE m = 7
        BY <1>3, <1>5, <2>2
  <2>3. CASE m # 5 /\ m # 7
        BY <1>2, <2>3
  <2>. QED BY <2>1, <2>2, <2>3
<1>7. ASSUME NEW m \in 0..7, NEW i \in DOMAIN F[m]
      PROVE  i \in DOMAIN G[m] /\ G[m][i] = F[m][i]
  <2>1. CASE m = 5
        BY <1>3, <1>4, <2>1
  <2>2. CASE m = 7
        BY <1>3, <1>5, <2>2
  <2>3. CASE m # 5 /\ m # 7
        BY <1>2, <2>3
  <2>. QED BY <2>1, <2>2, <2>3
<1>. QED BY <1>6, <1>7 DEF F, G

\* "quit" is written: its echo is in nobody's way.
LEMMA QuitOnward ==
  ASSUME Types, Quit, NEW c \in Reqs
  PROVE  Onward(c)
<1> DEFINE F == Way(c)
           G == Way(c)'
<1>1. Wrote(Nobody, QuitEcho)
      BY DEF Quit, Wrote, reader, channels, filters, reqs
<1>2. /\ \A m \in 0..7 : \A i \in DOMAIN G[m] :
           (i \in DOMAIN F[m] /\ G[m][i] = F[m][i]) \/ G[m][i] = QuitEcho
      /\ \A m \in 0..7 : \A i \in DOMAIN F[m] : i \in DOMAIN G[m] /\ G[m][i] = F[m][i]
  <2>1. Nobody \in Writers /\ Command(Nobody) = QuitEcho
        BY DEF Writers, Command
  <2>. QED BY <1>1, <2>1, WriteAdds, QuitLine
<1>3. ~Mine(c, QuitEcho) /\ ~Needs(c, QuitEcho) /\ QuitEcho.kind = "quit"
      BY QuitLine DEF Mine, Needs
<1> HIDE DEF F, G
<1>4. Foreign(c, F) => Foreign(c, G)
      BY <1>2, <1>3 DEF Foreign
<1>5. ASSUME Flows(c, F) PROVE Flows(c, G)
  <2> SUFFICES ASSUME NEW m \in 0..7, NEW p \in 0..7, NEW j \in DOMAIN G[m], NEW q \in DOMAIN G[p],
                      m < p \/ (m = p /\ j < q)
               PROVE  Before(c, G[m][j], G[p][q])
      BY DEF Flows
  <2>1. CASE G[m][j] = QuitEcho \/ G[p][q] = QuitEcho
        BY <1>3, <2>1 DEF Before
  <2>2. CASE ~(G[m][j] = QuitEcho \/ G[p][q] = QuitEcho)
    <3>1. /\ j \in DOMAIN F[m] /\ G[m][j] = F[m][j]
          /\ q \in DOMAIN F[p] /\ G[p][q] = F[p][q]
          BY <1>2, <2>2
    <3>. QED BY <1>5, <3>1 DEF Flows
  <2>. QED BY <2>1, <2>2
<1>6. ASSUME Unbroken(c, F) PROVE Unbroken(c, G)
  <2> SUFFICES ASSUME NEW m \in 0..7, NEW j \in DOMAIN G[m], Needs(c, G[m][j])
               PROVE  In(G, Pre(c, G[m][j]))
      BY DEF Unbroken
  <2>1. j \in DOMAIN F[m] /\ G[m][j] = F[m][j]
        BY <1>2, <1>3
  <2>2. In(F, Pre(c, G[m][j]))
        BY <1>6, <2>1 DEF Unbroken
  <2>. QED BY <1>2, <2>2 DEF In
<1>7. Carries(c, F, G)
      BY <1>4, <1>5, <1>6 DEF Carries, Trims
<1>. QED BY <1>7, OnwardIf DEF F, G

\* A command that another request writes.
LEMMA WriteOnward ==
  ASSUME Types, MuInv, NEW b \in Reqs, Write(b), NEW c \in Reqs, b # c
  PROVE  Onward(c)
<1>1. pc[c] # "collect"
      BY DEF MuInv, Write, Move
<1>2. ASSUME Foreign(c, Way(c)) PROVE Foreign(c, Way(c)')
  <2> SUFFICES ASSUME NEW m \in 0..7, NEW i \in DOMAIN Way(c)'[m] PROVE ~Mine(c, Way(c)'[m][i])
      BY DEF Foreign
  <2>1. ~Mine(c, Line("echo", b, 0)) /\ ~Mine(c, Command(b)) /\ Line("echo", b, 0) \in Lines
    <3>1. Command(b).req = b
          BY CommandIs DEF Writers
    <3>. QED BY <3>1, OwnLines DEF Mine
  <2>2. Wrote(b, Line("echo", b, 0))
        BY DEF Write, Wrote, Writers, reader, channels, filters
  <2>. QED BY <1>2, <2>1, <2>2, WriteAdds DEF Foreign, Writers
<1>. QED BY <1>1, <1>2 DEF Onward

\* A request that writes begins to collect with a clear way.
LEMMA WriteBegins ==
  ASSUME Types, NEW c \in Reqs, Write(c), Foreign(c, Way(c))
  PROVE  Flows(c, Way(c)') /\ Unbroken(c, Way(c)')
<1> DEFINE G == Way(c)'
<1>1. ASSUME NEW m \in 0..7, NEW i \in DOMAIN G[m], Mine(c, G[m][i])
      PROVE  G[m][i] = Command(c) /\ m = 7 /\ \A j \in DOMAIN G[m] : ~(i < j)
  <2>1. ~Mine(c, Line("echo", c, 0)) /\ Line("echo", c, 0) \in Lines
        BY OwnLines DEF Mine
  <2>2. Wrote(c, Line("echo", c, 0))
        BY DEF Write, Wrote, Writers, reader, channels, filters
  <2>. QED BY <1>1, <2>1, <2>2, WriteAdds DEF Foreign, Writers
<1>2. Command(c).kind \in {"audit", "quit"}
      BY CommandIs DEF Writers
<1> HIDE DEF G
<1>3. Flows(c, G)
  <2> SUFFICES ASSUME NEW m \in 0..7, NEW p \in 0..7, NEW i \in DOMAIN G[m], NEW j \in DOMAIN G[p],
                      m < p \/ (m = p /\ i < j), Mine(c, G[m][i])
               PROVE  FALSE
      BY DEF Flows, Before
  <2>1. m = 7 /\ \A q \in DOMAIN G[m] : ~(i < q)
        BY <1>1
  <2>. QED BY <2>1
<1>4. Unbroken(c, G)
  <2> SUFFICES ASSUME NEW m \in 0..7, NEW i \in DOMAIN G[m], Needs(c, G[m][i])
               PROVE  FALSE
      BY DEF Unbroken
  <2>1. Mine(c, G[m][i]) /\ G[m][i].kind \in Counted
        BY DEF Mine, Needs, Counted
  <2>. QED BY <1>1, <1>2, <2>1 DEF Counted
<1>. QED BY <1>3, <1>4 DEF G

\* A request collects a line.
LEMMA CollectOnward ==
  ASSUME Types, NEW c \in Reqs, Collect(c), pc'[c] = "collect", c \notin started => reply[c] = <<>>
  PROVE  Onward(c)
<1> DEFINE F == Way(c)
           G == Way(c)'
           l == Head(out[c])
<1>1. /\ out[c] # <<>> /\ pc[c] = "collect" /\ out' = [out EXCEPT ![c] = Tail(out[c])]
      /\ UNCHANGED <<pty, job, input, runner, todo, line, filter, hand, chan, lost>>
      BY DEF Collect, process, reader, channels
<1>2. /\ F \in Ways /\ out \in [Reqs -> Seq(Lines)] /\ reply \in [Reqs -> Seq(Lines)]
      /\ pc \in [Reqs -> Points]
      BY WayType DEF Types
<1>3. \A m \in 0..7 : m # 0 /\ m # 1 => G[m] = F[m]
  <2>1. Sending(c)' = Sending(c)
        BY <1>1 DEF Sending
  <2>. QED BY <1>1, <2>1, StageSame, EachStage
<1>4. /\ F[0] = Opened(c) \o reply[c] /\ G[0] = (Opened(c) \o reply[c])'
      /\ F[1] = out[c] /\ G[1] = Tail(out[c]) /\ 0 + 1 = 1
  <2>1. out'[c] = Tail(out[c])
        BY <1>1, <1>2
  <2>. QED BY <2>1, WayIs, WayWillBe
<1>5. l \in Lines
      BY <1>1, <1>2, TailAt
<1>6. ASSUME G[0] = Append(F[0], l) PROVE Onward(c)
  <2> HIDE DEF F, G
  <2>1. Moved(F, G, 0)
        BY <1>1, <1>3, <1>4, <1>6 DEF Moved
  <2>2. Carries(c, F, G)
        BY <1>2, <2>1, MoveCarries
  <2>. QED BY <2>2, OnwardIf DEF F, G
<1>7. CASE c \notin started
  <2>1. F[0] = <<>> /\ reply'[c] = <<>>
    <3>1. reply[c] = <<>> /\ Opened(c) = <<>> /\ reply'[c] = reply[c]
          BY <1>7 DEF Opened, Collect
    <3>. QED BY <1>4, <3>1
  <2>2. CASE IsSentinel(c, "begin", l)
    <3>1. c \in started'
          BY <1>7, <2>2 DEF Collect
    <3>0. l = Line("begin", c, 0)
          BY <1>5, <2>2, LineTypes DEF IsSentinel, Counted
    <3>2. Opened(c)' = <<l>>
          BY <3>0, <3>1 DEF Opened
    <3>3. G[0] = <<l>> \o <<>>
          BY <1>4, <2>1, <3>2
    <3> HIDE DEF l
    <3>4. <<l>> \in Seq(Lines) /\ <<l>> \o <<>> = <<l>> /\ Append(<<>>, l) = <<l>>
          BY <1>5
    <3>. QED BY <1>6, <2>1, <3>3, <3>4
  <2>3. CASE ~IsSentinel(c, "begin", l)
    <3>1. c \notin started'
          BY <1>7, <2>3 DEF Collect
    <3>2. G[0] = F[0]
          BY <1>4, <1>7, <2>1, <3>1 DEF Opened
    <3>3. l = F[1][1] /\ 1 \in DOMAIN F[1] /\ l = Head(F[1])
          BY <1>1, <1>2, <1>4, TailAt
    <3> HIDE DEF F, G, l
    <3>4. Dropped(F, G, 1)
          BY <1>1, <1>3, <1>4, <3>2 DEF Dropped
    <3>0. /\ Trims(c, F, G)
          /\ \A y : In(F, y) /\ y # Head(F[1]) => In(G, y)
          /\ \A y : In(G, y) => In(F, y)
      <4> DEFINE k == 1
      <4>1. k \in 0..7 /\ Dropped(F, G, k)
            BY <3>4
      <4> HIDE DEF k
      <4>2. /\ Trims(c, F, G)
            /\ \A y : In(F, y) /\ y # Head(F[k]) => In(G, y)
            /\ \A y : In(G, y) => In(F, y)
            BY <1>2, <4>1, DropTrims
      <4>. QED BY <4>2 DEF k
    <3>5. ASSUME ~Needs(c, l), Unbroken(c, F) PROVE Unbroken(c, G)
      <4>1. /\ \A y : In(F, y) /\ y # l => In(G, y)
            /\ \A y : In(G, y) => In(F, y)
            BY <3>0, <3>3
      <4> SUFFICES ASSUME NEW m \in 0..7, NEW j \in DOMAIN G[m], Needs(c, G[m][j])
                   PROVE  In(G, Pre(c, G[m][j]))
          BY DEF Unbroken
      <4>2. In(F, G[m][j])
            BY <4>1 DEF In
      <4>3. In(F, Pre(c, G[m][j]))
            BY <3>5, <4>2 DEF Unbroken, In
      <4>4. Pre(c, G[m][j]) # l
            BY <2>3, <3>5 DEF Pre, Prev, Line, IsSentinel, Needs, Counted
      <4>. QED BY <4>1, <4>3, <4>4
    <3>6. ASSUME Needs(c, l), Flows(c, F), Unbroken(c, F) PROVE FALSE
      <4>1. PICK a \in 0..7 : \E b \in DOMAIN F[a] : F[a][b] = Pre(c, F[1][1])
            BY <3>3, <3>6 DEF Unbroken, In
      <4>2. PICK b \in DOMAIN F[a] : F[a][b] = Pre(c, F[1][1])
            BY <4>1
      <4>3. a < 1 \/ (a = 1 /\ b < 1)
            BY <1>2, <3>3, <3>6, <4>2, PrevPrecedes
      <4>4. b \in Nat /\ b >= 1 /\ a # 0
        <5>1. Len(F[a]) \in Nat /\ DOMAIN F[a] = 1..Len(F[a])
              BY <1>2, WayFacts
        <5>. QED BY <2>1, <5>1
      <4>. QED BY <4>3, <4>4
    <3>. QED BY <3>0, <3>5, <3>6 DEF Onward, Trims, F, G
  <2>. QED BY <2>2, <2>3
<1>8. CASE c \in started
  <2>1. ~IsSentinel(c, "end", l)
    <3>1. IsSentinel(c, "end", l) => pc'[c] = "cancel"
          BY <1>2, <1>8 DEF Collect, Done, Move
    <3>. QED BY <3>1
  <2>2. reply'[c] = Append(reply[c], l) /\ started' = started
        BY <1>2, <1>8, <2>1 DEF Collect
  <2>3. Opened(c)' = Opened(c) /\ Opened(c) = <<Line("begin", c, 0)>>
        BY <1>8, <2>2 DEF Opened
  <2>4. Line("begin", c, 0) \in Lines /\ reply[c] \in Seq(Lines)
        BY <1>2, OwnLines
  <2> DEFINE o == Line("begin", c, 0)
             r == reply[c]
  <2>5. G[0] = <<o>> \o Append(r, l) /\ F[0] = <<o>> \o r /\ o \in Lines /\ r \in Seq(Lines)
        BY <1>4, <2>2, <2>3, <2>4
  <2> HIDE DEF o, r, l, F, G
  <2>6. <<o>> \o Append(r, l) = Append(<<o>> \o r, l)
        BY <1>5, <2>5
  <2>7. G[0] = Append(F[0], l)
        BY <2>5, <2>6
  <2>. QED BY <1>6, <2>7
<1>. QED BY <1>7, <1>8

-----------------------------------------------------------------------------
(* The answers stay right *)

\* What a step may do to a request.
LEMMA RequestNext ==
  ASSUME Types, [Next]_vars, NEW c \in Reqs
  PROVE  /\ pc'[c] \in Early => pc[c] \in Early
         /\ pc'[c] = "collect" => pc[c] = "collect" \/ Write(c)
         /\ c \in lost => c \in lost' \/ (reply'[c] = <<>> /\ pc'[c] = "delete")
         /\ c \in started' => c \in started \/ pc[c] = "collect"
         /\ c \notin started' => reply'[c] = <<>> \/ (c \notin started /\ reply'[c] = reply[c])
         /\ \/ reply'[c] = reply[c]
            \/ reply'[c] = <<>>
            \/ /\ Collect(c) /\ c \in started /\ ~IsSentinel(c, "end", Head(out[c]))
               /\ reply'[c] = Append(reply[c], Head(out[c]))
<1>0. pc \in [Reqs -> Points] /\ reply \in [Reqs -> Seq(Lines)]
      BY DEF Types
<1>1. CASE \/ Process \/ Die \/ Quit \/ ClosePty \/ ReadLine \/ Sent \/ ReadFails \/ CloseSubscribers
           \/ UNCHANGED vars
  <2>1. UNCHANGED <<pc, lost, started, reply>>
        BY <1>1 DEF Process, Execute, Emit, Die, Quit, ClosePty, ReadLine, Sent, ReadFails,
                    CloseSubscribers, vars, channels, reqs
  <2>. QED BY <2>1
<1>2. ASSUME NEW b \in Reqs, Send(b) \/ Filter(b) PROVE UNCHANGED <<pc, started, reply>> /\ lost \subseteq lost'
      BY <1>2 DEF Send, Filter, FilterRecv, FilterSend, FilterEnds, channels, reqs
<1>3. ASSUME NEW b \in Reqs, \/ Lock(b) \/ Subscribe(b) \/ Queue(b) \/ Write(b) \/ WriteFails(b)
                             \/ CollectEnds(b) \/ Delete(b) \/ Close(b)
      PROVE  UNCHANGED <<lost, started, reply>>
      BY <1>3 DEF Lock, Subscribe, Queue, Write, WriteFails, CollectEnds, Delete, Close, channels
<1>4. ASSUME NEW b \in Reqs, \/ Lock(b) \/ Subscribe(b) \/ Queue(b) \/ WriteFails(b)
                             \/ CollectEnds(b) \/ Delete(b) \/ Close(b)
      PROVE  /\ pc'[c] \in Early => pc[c] \in Early
             /\ pc'[c] = "collect" => pc[c] = "collect"
      BY <1>0, <1>4 DEF Lock, Subscribe, Queue, WriteFails, CollectEnds, Done, Delete, Close, Move, Early
<1>5. ASSUME NEW b \in Reqs, Write(b)
      PROVE  /\ pc'[c] \in Early => pc[c] \in Early
             /\ pc'[c] = "collect" => pc[c] = "collect" \/ Write(c)
  <2>1. pc' = [pc EXCEPT ![b] = "collect"]
        BY <1>5 DEF Write, Move
  <2>2. b # c => pc'[c] = pc[c]
        BY <1>0, <2>1
  <2>3. b = c => pc'[c] = "collect"
        BY <1>0, <2>1
  <2>. QED BY <1>5, <2>2, <2>3 DEF Early
<1>6. ASSUME NEW b \in Reqs, Cancel(b)
      PROVE  /\ pc'[c] \in Early => pc[c] \in Early
             /\ pc'[c] = "collect" => pc[c] = "collect"
             /\ c \in lost => c \in lost' \/ (reply'[c] = <<>> /\ pc'[c] = "delete")
             /\ c \in started' => c \in started
             /\ reply'[c] = <<>> \/ ((c \in started' <=> c \in started) /\ reply'[c] = reply[c])
  <2>1. /\ pc' = [pc EXCEPT ![b] = "delete"] /\ reply' = [reply EXCEPT ![b] = <<>>]
        /\ started' = started \ {b} /\ lost' = lost \ {b}
        BY <1>6 DEF Cancel, Move
  <2>2. CASE b = c
    <3>1. pc'[c] = "delete" /\ reply'[c] = <<>>
          BY <1>0, <2>1, <2>2
    <3>. QED BY <2>1, <3>1 DEF Early
  <2>3. CASE b # c
    <3>1. pc'[c] = pc[c] /\ reply'[c] = reply[c]
          BY <1>0, <2>1, <2>3
    <3>. QED BY <2>1, <2>3, <3>1
  <2>. QED BY <2>2, <2>3
<1>7. ASSUME NEW b \in Reqs, Collect(b)
      PROVE  /\ pc'[c] \in Early => pc[c] \in Early
             /\ pc'[c] = "collect" => pc[c] = "collect"
             /\ lost' = lost
             /\ c \in started => c \in started'
             /\ c \in started' => c \in started \/ pc[c] = "collect"
             /\ \/ reply'[c] = reply[c]
                \/ /\ b = c /\ c \in started /\ ~IsSentinel(c, "end", Head(out[c]))
                   /\ reply'[c] = Append(reply[c], Head(out[c]))
  <2>1. /\ pc[b] = "collect" /\ lost' = lost
        /\ pc' = pc \/ pc' = [pc EXCEPT ![b] = "cancel"]
        /\ started' = started \/ started' = started \cup {b}
        /\ \/ reply' = reply
           \/ /\ b \in started /\ ~IsSentinel(b, "end", Head(out[b]))
              /\ reply' = [reply EXCEPT ![b] = Append(reply[b], Head(out[b]))]
        BY <1>7 DEF Collect, Done, Move, channels
  <2>2. CASE b = c
    <3>1. pc'[c] = pc[c] \/ pc'[c] = "cancel"
          BY <1>0, <2>1, <2>2
    <3>2. reply' = reply \/ (/\ c \in started /\ ~IsSentinel(c, "end", Head(out[c]))
                             /\ reply'[c] = Append(reply[c], Head(out[c])))
          BY <1>0, <2>1, <2>2
    <3>. QED BY <2>1, <2>2, <3>1, <3>2 DEF Early
  <2>3. CASE b # c
    <3>1. pc'[c] = pc[c] /\ reply'[c] = reply[c]
          BY <1>0, <2>1, <2>3
    <3>. QED BY <2>1, <2>3, <3>1
  <2>. QED BY <2>2, <2>3
<1>. QED BY <1>1, <1>2, <1>3, <1>4, <1>5, <1>6, <1>7 DEF Next, Runner, Filter, Capture

\* The ways stay in order and complete.
LEMMA CollectNext ==
  Types /\ MuInv /\ EchoInv /\ CollectInv /\ [Next]_vars => CollectInv'
<1> SUFFICES ASSUME Types, MuInv, PtyEcho, Silence, CollectInv, [Next]_vars, NEW c \in Reqs
             PROVE  /\ pc'[c] \in Early => c \notin started' /\ Foreign(c, Way(c)')
                    /\ pc'[c] = "collect" =>
                         Flows(c, Way(c)') /\ (c \notin lost' => Unbroken(c, Way(c)'))
                    /\ c \notin started' => reply'[c] = <<>>
    BY DEF CollectInv, EchoInv
<1>1. ASSUME pc[c] \in Early \cup {"collect"}, pc'[c] \in Early \cup {"collect"}, ~Write(c)
      PROVE  Onward(c)
  <2>1. CASE Process \/ Die \/ Quit \/ ClosePty
        BY <2>1, ExecuteOnward, EmitOnward, EndOnward, QuitOnward DEF Process
  <2>2. CASE ReadLine
        BY <1>1, <2>2, ReadOnward
  <2>3. ASSUME NEW b \in Reqs, Send(b) PROVE Onward(c)
        BY <1>1, <2>3, SendOnward
  <2>4. ASSUME NEW b \in Reqs, FilterRecv(b) \/ FilterSend(b) PROVE Onward(c)
        BY <2>4, FilterRecvOnward, FilterSendOnward
  <2>5. ASSUME NEW b \in Reqs, b # c, Write(b) PROVE Onward(c)
        BY <2>5, WriteOnward
  <2>6. CASE FilterEnds(c)
        BY <1>1, <2>6, FilterEndsOnward DEF MuInv
  <2>7. CASE Subscribe(c)
        BY <2>7, SubscribeOnward
  <2>8. CASE Collect(c)
    <3>1. pc'[c] = "collect"
          BY <1>1, <2>8, RequestNext DEF Collect, Early
    <3>. QED BY <2>8, <3>1, CollectOnward DEF CollectInv
  <2>9. ~Cancel(c) /\ ~Delete(c)
    <3>1. pc[c] # "cancel" /\ pc[c] # "delete"
          BY <1>1 DEF Early
    <3>. QED BY <3>1 DEF Cancel, Delete, Move
  <2>10. CASE \/ Sent \/ ReadFails \/ CloseSubscribers \/ UNCHANGED vars
              \/ \E b \in Reqs : \/ Lock(b) \/ Queue(b) \/ WriteFails(b) \/ CollectEnds(b) \/ Close(b)
                                 \/ b # c /\ (FilterEnds(b) \/ Subscribe(b) \/ Collect(b)
                                              \/ Cancel(b) \/ Delete(b))
        BY <2>10, QuietOnward
  <2>. QED BY <1>1, <2>1, <2>2, <2>3, <2>4, <2>5, <2>6, <2>7, <2>8, <2>9, <2>10
           DEF Next, Runner, Filter, Capture
<1>2. ASSUME pc'[c] \in Early PROVE c \notin started' /\ Foreign(c, Way(c)')
  <2>1. pc[c] \in Early /\ pc[c] # "collect" /\ ~Write(c)
    <3>1. pc[c] \in Early
          BY <1>2, RequestNext
    <3>2. ~Write(c)
          BY <1>2 DEF Write, Move, Types, Early
    <3>. QED BY <3>1, <3>2 DEF Early
  <2>2. c \notin started /\ Foreign(c, Way(c))
        BY <2>1 DEF CollectInv
  <2>3. c \notin started'
        BY <2>1, <2>2, RequestNext
  <2>. QED BY <1>1, <1>2, <2>1, <2>2, <2>3 DEF Onward
<1>3. ASSUME pc'[c] = "collect"
      PROVE  Flows(c, Way(c)') /\ (c \notin lost' => Unbroken(c, Way(c)'))
  <2>1. CASE Write(c)
    <3>1. Foreign(c, Way(c))
          BY <2>1 DEF CollectInv, Write, Move, Early
    <3>. QED BY <2>1, <3>1, WriteBegins
  <2>2. CASE ~Write(c)
    <3>1. pc[c] = "collect" /\ (c \in lost => c \in lost')
          BY <1>3, <2>2, RequestNext
    <3>2. Flows(c, Way(c)) /\ (c \notin lost => Unbroken(c, Way(c)))
          BY <3>1 DEF CollectInv
    <3>3. Onward(c)
          BY <1>1, <1>3, <2>2, <3>1
    <3>. QED BY <3>1, <3>2, <3>3 DEF Onward
  <2>. QED BY <2>1, <2>2
<1>4. ASSUME c \notin started' PROVE reply'[c] = <<>>
      BY <1>4, RequestNext DEF CollectInv
<1>. QED BY <1>2, <1>3, <1>4

\* How a request comes to its END.
LEMMA EndNext ==
  ASSUME Types, [Next]_vars, NEW c \in Reqs, how[c] = "end" => pc[c] = "cancel", how'[c] = "end"
  PROVE  /\ pc'[c] = "cancel" /\ reply'[c] = reply[c]
         /\ c \in lost => c \in lost'
         /\ \/ how[c] = "end" /\ total'[c] = total[c]
            \/ /\ Collect(c) /\ c \in started /\ IsSentinel(c, "end", Head(out[c]))
               /\ total'[c] = Head(out[c]).n
<1>0. /\ pc \in [Reqs -> Points] /\ reply \in [Reqs -> Seq(Lines)] /\ total \in [Reqs -> Nat]
      /\ how \in [Reqs -> Ends]
      BY DEF Types
<1>1. CASE \/ Process \/ Die \/ Quit \/ ClosePty \/ ReadLine \/ Sent \/ ReadFails
           \/ CloseSubscribers \/ UNCHANGED vars
  <2>1. UNCHANGED <<pc, lost, reply, how, total>>
        BY <1>1 DEF Process, Execute, Emit, Die, Quit, ClosePty, ReadLine, Sent, ReadFails,
                    CloseSubscribers, vars, channels, reqs
  <2>. QED BY <2>1
<1>2. ASSUME NEW b \in Reqs, Send(b) \/ Filter(b)
      PROVE  UNCHANGED <<pc, reply, how, total>> /\ lost \subseteq lost'
      BY <1>2 DEF Send, Filter, FilterRecv, FilterSend, FilterEnds, channels, reqs
<1>3. ASSUME NEW b \in Reqs, \/ Lock(b) \/ Subscribe(b) \/ Queue(b) \/ Write(b)
                             \/ Delete(b) \/ Close(b)
      PROVE  pc'[c] = pc[c] /\ UNCHANGED <<lost, reply, how, total>>
  <2>1. UNCHANGED <<lost, reply, how, total>>
        BY <1>3 DEF Lock, Subscribe, Queue, Write, Delete, Close, channels
  <2>2. pc[c] = "cancel"
        BY <2>1
  <2>3. pc[b] # "cancel" /\ \E x : pc' = [pc EXCEPT ![b] = x]
        BY <1>3, Zenon DEF Lock, Subscribe, Queue, Write, Delete, Close, Move
  <2>. QED BY <1>0, <2>1, <2>2, <2>3
<1>4. ASSUME NEW b \in Reqs, WriteFails(b) \/ CollectEnds(b)
      PROVE  pc'[c] = pc[c] /\ UNCHANGED <<lost, reply, total>> /\ how'[c] = how[c]
  <2>1. UNCHANGED <<lost, reply, total>>
        BY <1>4 DEF WriteFails, CollectEnds, channels
  <2>2. /\ pc' = [pc EXCEPT ![b] = "cancel"]
        /\ \E x \in {"error", "closed", "timeout"} : how' = [how EXCEPT ![b] = x]
        BY <1>4 DEF WriteFails, CollectEnds, Done, Move
  <2>3. b # c
        BY <1>0, <2>2
  <2>. QED BY <1>0, <2>1, <2>2, <2>3
<1>5. ASSUME NEW b \in Reqs, Cancel(b)
      PROVE  pc'[c] = pc[c] /\ (c \in lost => c \in lost')
             /\ reply'[c] = reply[c] /\ how'[c] = how[c] /\ total'[c] = total[c]
  <2>1. /\ pc' = [pc EXCEPT ![b] = "delete"] /\ reply' = [reply EXCEPT ![b] = <<>>]
        /\ how' = [how EXCEPT ![b] = ""] /\ total' = [total EXCEPT ![b] = 0] /\ lost' = lost \ {b}
        BY <1>5 DEF Cancel, Move
  <2>2. b # c
        BY <1>0, <2>1
  <2>. QED BY <1>0, <2>1, <2>2
<1>6. ASSUME NEW b \in Reqs, Collect(b)
      PROVE  /\ pc'[c] = "cancel" /\ reply'[c] = reply[c] /\ (c \in lost => c \in lost')
             /\ \/ how[c] = "end" /\ total'[c] = total[c]
                \/ /\ Collect(c) /\ c \in started /\ IsSentinel(c, "end", Head(out[c]))
                   /\ total'[c] = Head(out[c]).n
  <2>1. /\ pc[b] = "collect" /\ lost' = lost
        /\ \/ /\ UNCHANGED <<pc, how, total>>
              /\ \E x : reply' = [reply EXCEPT ![b] = x]
           \/ UNCHANGED <<pc, how, total, reply>>
           \/ /\ b \in started /\ IsSentinel(b, "end", Head(out[b])) /\ UNCHANGED reply
              /\ pc' = [pc EXCEPT ![b] = "cancel"] /\ how' = [how EXCEPT ![b] = "end"]
              /\ total' = [total EXCEPT ![b] = Head(out[b]).n]
        BY <1>6 DEF Collect, Done, Move, channels
  <2>2. CASE b = c
    <3>1. how[c] # "end"
          BY <2>1, <2>2
    <3>2. /\ b \in started /\ IsSentinel(b, "end", Head(out[b])) /\ UNCHANGED reply
          /\ pc' = [pc EXCEPT ![b] = "cancel"] /\ total' = [total EXCEPT ![b] = Head(out[b]).n]
          BY <2>1, <2>2, <3>1
    <3>. QED BY <1>0, <1>6, <2>1, <2>2, <3>2
  <2>3. CASE b # c
    <3>1. how'[c] = how[c] /\ pc'[c] = pc[c] /\ total'[c] = total[c] /\ reply'[c] = reply[c]
          BY <1>0, <2>1, <2>3
    <3>. QED BY <2>1, <3>1
  <2>. QED BY <2>2, <2>3
<1>7. CASE \E b \in Reqs : Collect(b)
      BY <1>6, <1>7
<1>8. CASE \E b \in Reqs : Send(b) \/ Filter(b)
      BY <1>2, <1>8
<1>9. CASE \E b \in Reqs : \/ Lock(b) \/ Subscribe(b) \/ Queue(b) \/ Write(b)
                           \/ Delete(b) \/ Close(b)
      BY <1>3, <1>9
<1>10. CASE \E b \in Reqs : WriteFails(b) \/ CollectEnds(b) \/ Cancel(b)
      BY <1>4, <1>5, <1>10
<1>. QED BY <1>1, <1>7, <1>8, <1>9, <1>10 DEF Next, Runner, Capture

\* The next line a request takes between its sentinels: the echo of "quit", or a
\* line of its own, later than all it has; and if none was lost it has all the
\* output printed before that line.
LEMMA NextLine ==
  ASSUME Types, Silence, CollectInv, ReplyInv, NEW c \in Reqs, pc[c] = "collect", c \in started,
         out[c] # <<>>
  PROVE  /\ Head(out[c]) \in Lines
         /\ \/ Head(out[c]) = QuitEcho
            \/ /\ Head(out[c]).req = c
               /\ \/ Head(out[c]).kind = "end"
                  \/ /\ Head(out[c]).kind = "out"
                     /\ \A j \in DOMAIN reply[c] : reply[c][j].n < Head(out[c]).n
               /\ c \notin lost => Has(c, reply[c], Left(Head(out[c])))
<1> DEFINE F == Way(c)
           l == Head(out[c])
           r == reply[c]
           o == Line("begin", c, 0)
<1>1. /\ F \in Ways /\ Flows(c, F) /\ (c \notin lost => Unbroken(c, F))
      BY WayType DEF CollectInv
<1>2. /\ out[c] \in Seq(Lines) /\ r \in Seq(Lines) /\ Len(r) \in Nat /\ DOMAIN r = 1..Len(r)
      BY DEF Types
<1>3. /\ l \in Lines /\ F[1][1] = l /\ 1 \in DOMAIN F[1] /\ l.kind \notin {"echo", "noise"}
  <2>1. F[1] = out[c]
        BY WayIs
  <2>2. l \in Lines /\ l = out[c][1] /\ 1 \in DOMAIN out[c]
        BY <1>2, TailAt
  <2>3. l.kind \notin {"echo", "noise"}
        BY <2>2 DEF Silence, Filtered
  <2>. QED BY <2>1, <2>2, <2>3
<1>4. o \in Lines /\ o.kind = "begin" /\ o.req = c
      BY OwnLines
<1>5. /\ DOMAIN F[0] = 1..(Len(r) + 1) /\ F[0][1] = o
      /\ \A j \in 1..Len(r) : F[0][j + 1] = r[j]
  <2>1. F[0] = <<o>> \o r
        BY WayIs DEF Opened
  <2> HIDE DEF F, o, r
  <2>2. <<o>> \in Seq(Lines) /\ Len(<<o>>) = 1 /\ <<o>>[1] = o
        BY <1>4
  <2>3. /\ Len(F[0]) = 1 + Len(r) /\ F[0] \in Seq(Lines)
        /\ \A i \in 1..(1 + Len(r)) : F[0][i] = IF i <= 1 THEN <<o>>[i] ELSE r[i - 1]
        BY <1>2, <2>1, <2>2, ConcatProperties
  <2>4. ASSUME NEW j \in 1..Len(r) PROVE F[0][j + 1] = r[j]
    <3>1. j + 1 \in 1..(1 + Len(r)) /\ ~(j + 1 <= 1) /\ (j + 1) - 1 = j
          BY <1>2
    <3>. QED BY <2>3, <3>1
  <2>5. F[0][1] = o /\ DOMAIN F[0] = 1..(Len(r) + 1)
        BY <1>2, <2>2, <2>3
  <2>. QED BY <2>4, <2>5
<1>6. \A j \in DOMAIN r : /\ r[j] \in Lines /\ r[j].n \in Nat /\ (c \notin lost => Has(c, r, r[j].n))
                          /\ r[j] = QuitEcho \/ (r[j].kind = "out" /\ r[j].req = c)
  <2> SUFFICES ASSUME NEW j \in DOMAIN r
               PROVE  /\ r[j] \in Lines /\ r[j].n \in Nat /\ (c \notin lost => Has(c, r, r[j].n))
                      /\ r[j] = QuitEcho \/ (r[j].kind = "out" /\ r[j].req = c)
      OBVIOUS
  <2>1. r[j] \in Lines
        BY <1>2
  <2>2. r[j].n \in Nat
        BY <2>1, LineTypes
  <2>. QED BY <2>1, <2>2 DEF ReplyInv, Own
<1> HIDE DEF F, l, r, o
<1>7. CASE l.kind = "quit"
  <2>1. l = QuitEcho
        BY <1>3, <1>7, LineTypes
  <2>. QED BY <1>3, <2>1 DEF l
<1>8. CASE l.kind # "quit"
  <2>1. /\ l.kind \in {"out", "end"} /\ l.req = c /\ l.n \in Nat
        /\ (l.kind = "out" => l.n # 0)
    <3>1. Before(c, o, l)
      <4>1. 1 \in DOMAIN F[0]
            BY <1>2, <1>5
      <4>. QED BY <1>1, <1>3, <1>5, <4>1 DEF Flows
    <3>2. l.kind \in Kinds /\ l.n \in Nat /\ (l.kind = "out" => l.n # 0)
          BY <1>3, LineTypes
    <3>3. Mine(c, l) /\ Later(o, l) /\ Rank(o) = 1
          BY <1>3, <1>4, <1>8, <3>1 DEF Before, Mine, Rank
    <3>4. l.kind \notin {"audit", "begin"}
          BY <1>3, <3>3 DEF Later, Rank
    <3>. QED BY <1>3, <1>8, <3>2, <3>3, <3>4 DEF Mine, Kinds
  <2>2. ASSUME l.kind = "out", NEW j \in DOMAIN r PROVE r[j].n < l.n
    <3>1. CASE r[j] = QuitEcho
      <4>1. r[j].n = 0
            BY <3>1, QuitLine
      <4>. QED BY <2>1, <2>2, <4>1
    <3>2. CASE r[j] # QuitEcho
      <4>1. j + 1 \in DOMAIN F[0] /\ F[0][j + 1] = r[j]
            BY <1>2, <1>5
      <4>2. Before(c, r[j], l)
            BY <1>1, <1>3, <4>1 DEF Flows
      <4>3. r[j].kind = "out" /\ r[j].req = c
            BY <1>6, <3>2
      <4>4. Rank(r[j]) < Rank(l)
            BY <2>2, <4>2, <4>3 DEF Before, Mine, Later
      <4>. QED BY <1>6, <2>1, <2>2, <4>3, <4>4 DEF Rank
    <3>. QED BY <3>1, <3>2
  <2>3. Left(l) \in Nat /\ Needs(c, l)
        BY <2>1 DEF Left, Needs, Counted
  <2>4. ASSUME c \notin lost PROVE Has(c, r, Left(l))
    <3>1. CASE Left(l) = 0
          BY <3>1 DEF Has
    <3>2. CASE Left(l) # 0
      <4>1. PICK a \in 0..7 : \E b \in DOMAIN F[a] : F[a][b] = Pre(c, l)
            BY <1>1, <1>3, <2>3, <2>4 DEF Unbroken, In
      <4>2. PICK b \in DOMAIN F[a] : F[a][b] = Pre(c, l)
            BY <4>1
      <4>3. a < 1 \/ (a = 1 /\ b < 1)
            BY <1>1, <1>3, <2>3, <4>2, PrevPrecedes
      <4>4. Len(F[a]) \in Nat /\ DOMAIN F[a] = 1..Len(F[a])
            BY <1>1, WayFacts
      <4>5. a = 0 /\ b \in 1..(Len(r) + 1)
            BY <1>5, <4>3, <4>4
      <4>6. F[a][b].kind = "out" /\ F[a][b].n = Left(l)
            BY <3>2, <4>2 DEF Pre, Prev, Line
      <4>7. b # 1
            BY <1>4, <1>5, <4>5, <4>6
      <4>8. b - 1 \in 1..Len(r) /\ (b - 1) + 1 = b
            BY <1>2, <4>5, <4>7
      <4>9. F[a][b] = r[b - 1] /\ b - 1 \in DOMAIN r
            BY <1>2, <1>5, <4>5, <4>8
      <4>. QED BY <1>6, <2>4, <4>6, <4>9
    <3>. QED BY <3>1, <3>2
  <2>. QED BY <1>3, <2>1, <2>2, <2>4 DEF l, r
<1>. QED BY <1>7, <1>8

\* And so do the replies.
LEMMA ReplyNext == Types /\ EchoInv /\ CollectInv /\ ReplyInv /\ [Next]_vars => ReplyInv'
<1> SUFFICES ASSUME Types, Silence, CollectInv, ReplyInv, [Next]_vars, NEW c \in Reqs
             PROVE  /\ \A i \in DOMAIN reply'[c] :
                         /\ Own(c, reply'[c], i)
                         /\ c \notin lost' => Has(c, reply'[c], reply'[c][i].n)
                    /\ how'[c] = "end" =>
                         /\ pc'[c] = "cancel"
                         /\ c \notin lost' => Has(c, reply'[c], total'[c])
    BY DEF ReplyInv, EchoInv, Own, Has
<1>1. ASSUME NEW i \in DOMAIN reply'[c]
      PROVE  /\ Own(c, reply'[c], i)
             /\ c \notin lost' => Has(c, reply'[c], reply'[c][i].n)
  <2>1. reply'[c] # <<>>
        OBVIOUS
  <2>2. c \notin lost' => c \notin lost
        BY <2>1, RequestNext
  <2>3. CASE reply'[c] = reply[c]
        BY <2>2, <2>3 DEF ReplyInv
  <2>4. CASE /\ Collect(c) /\ c \in started /\ ~IsSentinel(c, "end", Head(out[c]))
             /\ reply'[c] = Append(reply[c], Head(out[c]))
    <3> DEFINE l == Head(out[c])
               r == reply[c]
    <3>1. /\ l \in Lines
          /\ \/ l = QuitEcho
             \/ /\ l.kind = "out" /\ l.req = c /\ \A j \in DOMAIN r : r[j].n < l.n
                /\ c \notin lost => Has(c, r, l.n - 1)
      <4>1. pc[c] = "collect" /\ out[c] # <<>>
            BY <2>4 DEF Collect
      <4>. QED BY <2>4, <4>1, NextLine DEF IsSentinel, Left
    <3>2. r \in Seq(Lines) /\ Len(r) \in Nat /\ DOMAIN r = 1..Len(r)
          BY DEF Types
    <3>3. \A j \in DOMAIN r : Own(c, r, j) /\ (c \notin lost => Has(c, r, r[j].n))
          BY DEF ReplyInv
    <3> HIDE DEF l, r
    <3> DEFINE t == Append(r, l)
    <3>4. /\ DOMAIN t = 1..(Len(r) + 1) /\ t[Len(r) + 1] = l
          /\ \A j \in 1..Len(r) : t[j] = r[j]
          BY <3>1, <3>2
    <3>5. t = reply'[c]
          BY <2>4 DEF l, r
    <3> HIDE DEF t
    <3>6. \A m : Has(c, r, m) => Has(c, t, m)
      <4> SUFFICES ASSUME NEW m, Has(c, r, m), NEW n \in 1..m
                   PROVE  \E j \in DOMAIN t : t[j] = Line("out", c, n)
          BY DEF Has
      <4>1. PICK j \in DOMAIN r : r[j] = Line("out", c, n)
            BY DEF Has
      <4>2. j \in DOMAIN t /\ t[j] = r[j]
            BY <3>2, <3>4
      <4>. QED BY <4>1, <4>2
    <3>7. CASE i = Len(r) + 1
      <4>1. t[i] = l /\ \A j \in 1..(i - 1) : t[j] = r[j] /\ j \in DOMAIN r
            BY <3>2, <3>4, <3>7
      <4>2. Own(c, t, i)
            BY <3>1, <4>1 DEF Own
      <4>3. ASSUME c \notin lost PROVE Has(c, t, l.n)
        <5>1. CASE l = QuitEcho
          <6>1. l.n = 0
                BY <5>1, QuitLine
          <6>. QED BY <6>1 DEF Has
        <5>2. CASE l # QuitEcho
          <6>1. /\ Has(c, t, l.n - 1) /\ l.n \in Nat /\ l = Line("out", c, l.n)
            <7>1. l = Line(l.kind, l.req, l.n) /\ l.n \in Nat
                  BY <3>1, LineTypes
            <7>. QED BY <3>1, <3>6, <4>3, <5>2, <7>1
          <6>2. i \in DOMAIN t /\ t[i] = Line("out", c, l.n)
                BY <3>5, <4>1, <6>1
          <6>3. \A n \in 1..l.n : n \in 1..(l.n - 1) \/ n = l.n
                BY <6>1
          <6>. QED BY <6>1, <6>2, <6>3 DEF Has
        <5>. QED BY <5>1, <5>2
      <4>. QED BY <2>2, <3>5, <4>1, <4>2, <4>3
    <3>8. CASE i # Len(r) + 1
      <4>1. i \in DOMAIN r /\ t[i] = r[i] /\ \A j \in 1..(i - 1) : t[j] = r[j]
            BY <3>2, <3>4, <3>5, <3>8
      <4>2. Own(c, t, i)
            BY <3>3, <4>1 DEF Own
      <4>. QED BY <2>2, <3>3, <3>5, <3>6, <4>1, <4>2
    <3>. QED BY <3>7, <3>8
  <2>. QED BY <2>1, <2>3, <2>4, RequestNext
<1>2. ASSUME how'[c] = "end"
      PROVE  /\ pc'[c] = "cancel"
             /\ c \notin lost' => Has(c, reply'[c], total'[c])
  <2>1. how[c] = "end" => pc[c] = "cancel" /\ (c \notin lost => Has(c, reply[c], total[c]))
        BY DEF ReplyInv
  <2>2. /\ pc'[c] = "cancel" /\ reply'[c] = reply[c] /\ (c \in lost => c \in lost')
        /\ \/ how[c] = "end" /\ total'[c] = total[c]
           \/ /\ Collect(c) /\ c \in started /\ IsSentinel(c, "end", Head(out[c]))
              /\ total'[c] = Head(out[c]).n
        BY <1>2, <2>1, EndNext
  <2>3. CASE how[c] = "end" /\ total'[c] = total[c]
        BY <2>1, <2>2, <2>3
  <2>4. CASE /\ Collect(c) /\ c \in started /\ IsSentinel(c, "end", Head(out[c]))
             /\ total'[c] = Head(out[c]).n
    <3>1. pc[c] = "collect" /\ out[c] # <<>> /\ Head(out[c]).kind = "end"
          BY <2>4 DEF Collect, IsSentinel
    <3>2. c \notin lost => Has(c, reply[c], Head(out[c]).n)
          BY <2>4, <3>1, NextLine, QuitLine DEF Left
    <3>. QED BY <2>2, <2>4, <3>2
  <2>. QED BY <2>2, <2>3, <2>4
<1>. QED BY <1>1, <1>2

\* At the start nothing is under way.
LEMMA AnswerInit == Init => AnswerInv
<1> SUFFICES ASSUME Init PROVE AnswerInv
    OBVIOUS
<1>1. /\ <<>> \in Seq(Lines) /\ <<>> \in Seq(Writers) /\ <<>> \in Seq(Kinds)
      /\ DOMAIN <<>> = {}
      OBVIOUS
<1>2. ChanInv /\ MuInv
      BY DEF Init, ChanInv, MuInv
<1>3. Types
  <2>1. how = [c \in Reqs |-> ""] /\ "" \in Ends
        BY Zenon DEF Init, Ends
  <2>2. how \in [Reqs -> Ends]
        BY <2>1, Zenon
  <2>3. total \in [Reqs -> Nat]
        BY DEF Init
  <2>. QED BY <1>1, <2>2, <2>3 DEF Init, Types, Points
<1>4. EchoInv
      BY <1>1 DEF Init, EchoInv, PtyEcho, Silence, Silent, Filtered, Nothing
<1>5. ReplyInv
      BY <1>1 DEF Init, ReplyInv
<1>6. CollectInv
  <2> SUFFICES ASSUME NEW c \in Reqs PROVE Foreign(c, Way(c))
      BY DEF CollectInv, Init
  <2>1. Opened(c) = <<>> /\ reply[c] = <<>>
        BY DEF Init, Opened
  <2>1b. <<>> \o <<>> = <<>>
        BY <1>1, ConcatEmptySeq
  <2>2. Held(c) = <<>> /\ Sending(c) = <<>> /\ Printing = <<>>
        BY DEF Init, Held, Sending, Printing
  <2>3. Coming = <<>>
        BY NoneComing DEF Init, Coming, Command
  <2>4. out[c] = <<>> /\ chan[c] = <<>> /\ pty = <<>>
        BY DEF Init
  <2>5. \A m \in 0..7 : Way(c)[m] = <<>>
        BY <2>1, <2>1b, <2>2, <2>3, <2>4, WayIs, EachStage
  <2>. QED BY <1>1, <2>5 DEF Foreign
<1>. QED BY <1>2, <1>3, <1>4, <1>5, <1>6 DEF AnswerInv

\* A request is answered with its own output, in the order it was printed, and
\* nothing else but the echo of a "quit"; and with all its output, noise left
\* out, when END came and no line was lost on the way, however many requests come
\* and time out, in whatever state their output still is.  No echo of a request
\* and no sentinel gets into the log or the tail history.
THEOREM RepliesAreOwn == Spec => []ReplyIsOwn
<1>1. AnswerInv /\ [Next]_vars => AnswerInv'
      BY ChanNext, TypesNext, MuNext, PtyEchoNext, SilenceNext, CollectNext, ReplyNext
         DEF AnswerInv, EchoInv
<1>2. AnswerInv => ReplyIsOwn
  <2> SUFFICES ASSUME ReplyInv, Silence PROVE ReplyIsOwn
      BY DEF AnswerInv, EchoInv
  <2>1. \A i \in DOMAIN history : history[i] \in {"audit", "out", "noise", "quit"}
        BY DEF Silence, Logged
  <2>. QED BY <2>1 DEF ReplyInv, ReplyIsOwn, Own, Has
<1>. QED BY <1>1, <1>2, AnswerInit, PTL DEF Spec
=============================================================================
