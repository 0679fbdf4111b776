------------------------------ MODULE Console ------------------------------
(***************************************************************************)
(* The console of one dedicated server (orch/console.go, rcon.go): its     *)
(* PTY, the goroutine that reads it (run), the log and the tail history,   *)
(* the subscribers' bounded channels, and the admin requests that run a    *)
(* command and capture what it prints between two sentinel lines           *)
(* (captureCommandBetweenSentinels).                                       *)
(*                                                                         *)
(* A line is a record of its kind, the request it belongs to and a number: *)
(*   "echo"   the PTY's echo of a request's line    "audit" its preamble   *)
(*   "begin", "end"  its sentinels; the number of END is that of the lines *)
(*            of output before it                                          *)
(*   "out"    a line of output, with its position                          *)
(*   "noise"  a line of output that is blank or reports files being opened *)
(*            (shouldRelayServerConsoleLine), after so many lines of "out" *)
(*   "quit"   the echo of the "quit" stopServer writes, of no request      *)
(*                                                                         *)
(* pc of a request: "idle", "subscribe" (it holds commandMu), "queue",     *)
(* "write", "collect", "cancel", "delete", "close", "returned".            *)
(* filter, its filtering goroutine: "off", "recv", "send", "done".         *)
(* runner: "read", "send" (publishLine holds the subscribers' read lock),  *)
(* "closing", "done".                                                      *)
(***************************************************************************)
EXTENDS Naturals, Sequences, FiniteSets, SequencesExt

CONSTANTS
  Reqs,      \* admin requests, one command each, by the order they get commandMu
  Loads,     \* sets of requests, each with a bound on the lines their commands
             \* print, noise too, and the stops meanwhile: [reqs, lines]
  Cap,       \* capacity of the channels (256)
  PtyCap,    \* lines the PTY holds
  HistCap    \* historyCap (2048)

ASSUME ConsoleAssumption ==
  /\ Reqs \subseteq Nat \ {0}
  /\ Loads \subseteq [reqs : SUBSET Reqs, lines : Nat]
  /\ {Cap, PtyCap, HistCap} \subseteq Nat \ {0}

Nobody == 0
Line(k, c, n) == [kind |-> k, req |-> c, n |-> n]
QuitEcho == Line("quit", Nobody, 0)
Nothing == [kind |-> "none", req |-> Nobody, n |-> 0]

VARIABLES
  load,        \* the load of this behaviour
  alive,       \* the process runs
  ptyOpen,     \* Nexus has not closed its side
  input,       \* commands written and not executed; Nobody's is "quit"
  spent,       \* lines printed and stops asked for
  job,         \* the line the process prints next, Nothing between commands
  pty,         \* lines printed and not read
  suppressed,  \* suppressedRelayEcho, by request
  runner, todo, line,  \* run: control, subscribers left to serve, the line
  history,     \* the tail history, by kind; the log file has the same lines
  subs,        \* subscribers
  chan, closed,  \* their channels
  filter, hand, out, quit,  \* the filters: control, line held, output, done
  mu,          \* holder of commandMu
  pc, started, reply, \* the requests
  how,         \* how a request ended: "", "end", "timeout", "closed", "error"
  total,       \* history: the number of the END a request has read
  lost,        \* requests whose full channel refused a line meant for them
  panicked     \* a channel was closed twice, or sent to after its close

process == <<load, alive, ptyOpen, input, spent, job>>
reader  == <<runner, todo, line, history>>
channels == <<subs, chan, closed, lost, panicked>>
filters == <<filter, hand, out, quit>>
reqs    == <<mu, pc, started, reply, how, total>>
vars    == <<process, pty, suppressed, reader, channels, filters, reqs>>

Init ==
  /\ load \in Loads
  /\ alive = TRUE /\ ptyOpen = TRUE /\ input = <<>> /\ spent = 0 /\ job = Nothing
  /\ pty = <<>> /\ suppressed = {}
  /\ runner = "read" /\ todo = {} /\ line = Nothing /\ history = <<>>
  /\ subs = {} /\ chan = [c \in Reqs |-> <<>>] /\ closed = {}
  /\ lost = {} /\ panicked = FALSE
  /\ filter = [c \in Reqs |-> "off"] /\ hand = [c \in Reqs |-> Nothing]
  /\ out = [c \in Reqs |-> <<>>] /\ quit = {}
  /\ mu = Nobody /\ pc = [c \in Reqs |-> "idle"] /\ started = {}
  /\ reply = [c \in Reqs |-> <<>>] /\ how = [c \in Reqs |-> ""]
  /\ total = [c \in Reqs |-> 0]

-----------------------------------------------------------------------------
(* The process: it executes what was written in order. *)

\* "quit" ends it.
Execute ==
  /\ alive /\ job = Nothing /\ input # <<>>
  /\ IF Head(input) = Nobody
       THEN alive' = FALSE /\ input' = <<>> /\ UNCHANGED job
       ELSE /\ job' = Line("audit", Head(input), 0)
            /\ input' = Tail(input)
            /\ UNCHANGED alive
  /\ UNCHANGED <<load, ptyOpen, spent, pty, suppressed, reader, channels, filters, reqs>>

\* What a command prints after l: audit, BEGIN, output and noise, END.
After(l) ==
  CASE l.kind = "audit" -> {Line("begin", l.req, 0)}
    [] l.kind = "end"   -> {Nothing}
    [] OTHER -> {Line("noise", l.req, l.n), Line("out", l.req, l.n + 1),
                 Line("end", l.req, l.n)}

Emit ==
  /\ alive /\ job # Nothing /\ Len(pty) < PtyCap
  /\ pty' = Append(pty, job)
  /\ job' \in After(job)
  /\ IF job'.kind \in {"out", "noise"} THEN spent < load.lines /\ spent' = spent + 1
                                        ELSE UNCHANGED spent
  /\ UNCHANGED <<load, alive, ptyOpen, input, suppressed, reader, channels, filters, reqs>>

\* It may also end by itself or by a signal.
Die ==
  /\ alive
  /\ alive' = FALSE /\ job' = Nothing /\ input' = <<>>
  /\ UNCHANGED <<load, ptyOpen, spent, pty, suppressed, reader, channels, filters, reqs>>

\* stopServer: it does not take commandMu, and the echo is not suppressed.
Quit ==
  /\ spent < load.lines
  /\ ptyOpen /\ Len(pty) < PtyCap
  /\ spent' = spent + 1
  /\ input' = IF alive THEN Append(input, Nobody) ELSE input
  /\ pty' = Append(pty, QuitEcho)
  /\ UNCHANGED <<load, alive, ptyOpen, job, suppressed, reader, channels, filters, reqs>>

\* cmd.Wait has returned; what was not read is lost.
ClosePty ==
  /\ ~alive /\ ptyOpen
  /\ ptyOpen' = FALSE /\ pty' = <<>>
  /\ UNCHANGED <<load, alive, input, spent, job, suppressed, reader, channels, filters, reqs>>

-----------------------------------------------------------------------------
(* run, publishLine, appendHistoryLine, closeSubscribers *)

Sentinel(l) == l.kind \in {"begin", "end"}

AppendHistory(h, l) == IF Len(h) < HistCap THEN Append(h, l) ELSE Append(Tail(h), l)

\* One line: a suppressed echo is swallowed; anything else is logged and
\* remembered, unless it is a sentinel, and goes to the subscribers.
ReadLine ==
  LET l == Head(pty) IN
  /\ runner = "read" /\ pty # <<>>
  /\ pty' = Tail(pty)
  /\ IF l.kind = "echo" /\ l.req \in suppressed
       THEN suppressed' = suppressed \ {l.req} /\ UNCHANGED reader
       ELSE /\ runner' = "send" /\ todo' = subs /\ line' = l
            /\ history' = IF Sentinel(l) THEN history ELSE AppendHistory(history, l.kind)
            /\ UNCHANGED suppressed
  /\ UNCHANGED <<process, channels, filters, reqs>>

\* A full channel loses the line.  The sentinels, the preamble and the output of
\* another request, noise and the echo of "quit" are no loss to c's answer.
Send(c) ==
  /\ runner = "send" /\ c \in todo
  /\ todo' = todo \ {c}
  /\ panicked' = (panicked \/ c \in closed)
  /\ IF Len(chan[c]) < Cap
       THEN chan' = [chan EXCEPT ![c] = Append(@, line)] /\ UNCHANGED lost
       ELSE /\ lost' = IF line.req = c /\ line.kind # "noise" THEN lost \cup ({c} \ quit)
                                                            ELSE lost
            /\ UNCHANGED chan
  /\ UNCHANGED <<process, pty, suppressed, runner, line, history, subs, closed,
                 filters, reqs>>

Sent ==
  /\ runner = "send" /\ todo = {}
  /\ runner' = "read" /\ line' = Nothing
  /\ UNCHANGED <<process, pty, suppressed, todo, history, channels, filters, reqs>>

\* A read error: the process is gone.
ReadFails ==
  /\ runner = "read" /\ ~alive /\ pty = <<>>
  /\ runner' = "closing"
  /\ UNCHANGED <<process, pty, suppressed, todo, line, history, channels, filters, reqs>>

CloseSubscribers ==
  /\ runner = "closing"
  /\ runner' = "done"
  /\ closed' = closed \cup subs /\ subs' = {}
  /\ panicked' = (panicked \/ closed \cap subs # {})
  /\ UNCHANGED <<process, pty, suppressed, todo, line, history, chan, lost,
                 filters, reqs>>

-----------------------------------------------------------------------------
(* The filtering goroutine of subscribeFiltered. *)

\* Mutant: the sentinels are the same for every request.
IsSentinel_fixed(c, k, l) == l.kind = k

\* newConsoleSentinels: every request has a pair of its own.
IsSentinel(c, k, l) == l.kind = k /\ l.req = c

\* sentinelFilter: the request's own sentinels pass; of the rest,
\* serverCommandNoiseFilter drops the sentinels of others and the noise.
Keeps(c, l) ==
  \/ IsSentinel(c, "begin", l) \/ IsSentinel(c, "end", l)
  \/ ~Sentinel(l) /\ l.kind # "noise"

FilterRecv(c) ==
  /\ filter[c] = "recv" /\ chan[c] # <<>>
  /\ chan' = [chan EXCEPT ![c] = Tail(@)]
  /\ IF Keeps(c, Head(chan[c]))
       THEN /\ hand' = [hand EXCEPT ![c] = Head(chan[c])]
            /\ filter' = [filter EXCEPT ![c] = "send"]
       ELSE UNCHANGED <<hand, filter>>
  /\ UNCHANGED <<process, pty, suppressed, reader, subs, closed, lost, panicked,
                 out, quit, reqs>>

FilterSend(c) ==
  /\ filter[c] = "send" /\ Len(out[c]) < Cap
  /\ out' = [out EXCEPT ![c] = Append(@, hand[c])]
  /\ hand' = [hand EXCEPT ![c] = Nothing]
  /\ filter' = [filter EXCEPT ![c] = "recv"]
  /\ UNCHANGED <<process, pty, suppressed, reader, channels, quit, reqs>>

\* The request cancelled (nobody reads its lines any more), or the channel is
\* closed and empty.  A channel nobody refers to any more is forgotten.
FilterEnds(c) ==
  /\ \/ filter[c] \in {"recv", "send"} /\ c \in quit
     \/ filter[c] = "recv" /\ c \in closed /\ chan[c] = <<>>
  /\ filter' = [filter EXCEPT ![c] = "done"]
  /\ hand' = [hand EXCEPT ![c] = Nothing]
  /\ out' = IF c \in quit THEN [out EXCEPT ![c] = <<>>] ELSE out
  /\ chan' = IF c \in subs THEN chan ELSE [chan EXCEPT ![c] = <<>>]
  /\ UNCHANGED <<process, pty, suppressed, reader, subs, closed, lost, panicked, quit,
                 reqs>>

-----------------------------------------------------------------------------
(* captureCommandBetweenSentinels *)

Move(c, from, to) == pc[c] = from /\ pc' = [pc EXCEPT ![c] = to]

Lock(c) ==
  /\ Move(c, "idle", "subscribe")
  /\ mu = Nobody /\ c \in load.reqs /\ \A d \in load.reqs : d < c => pc[d] # "idle"
  /\ mu' = c
  /\ UNCHANGED <<process, pty, suppressed, reader, channels, filters, started, reply, how,
                 total>>

\* The write lock of the subscribers: not while a line is being published.
Subscribe(c) ==
  /\ Move(c, "subscribe", "queue")
  /\ runner # "send"
  /\ subs' = subs \cup {c}
  /\ filter' = [filter EXCEPT ![c] = "recv"]
  /\ UNCHANGED <<process, pty, suppressed, reader, chan, closed, lost, panicked,
                 hand, out, quit, mu, started, reply, how, total>>

\* queueSuppressedRelayEchoLine
Queue(c) ==
  /\ Move(c, "queue", "write")
  /\ suppressed' = suppressed \cup {c}
  /\ UNCHANGED <<process, pty, reader, channels, filters, mu, started, reply, how, total>>

\* The PTY echoes what is written to it.
Write(c) ==
  /\ Move(c, "write", "collect")
  /\ ptyOpen /\ Len(pty) < PtyCap
  /\ input' = IF alive THEN Append(input, c) ELSE input
  /\ pty' = Append(pty, Line("echo", c, 0))
  /\ UNCHANGED <<load, alive, ptyOpen, spent, job, suppressed, reader, channels, filters, mu,
                 started, reply, how, total>>

WriteFails(c) ==
  /\ Move(c, "write", "cancel")
  /\ ~ptyOpen
  /\ suppressed' = suppressed \ {c}
  /\ how' = [how EXCEPT ![c] = "error"]
  /\ UNCHANGED <<process, pty, reader, channels, filters, mu, started, reply, total>>

Done(c, why) ==
  /\ Move(c, "collect", "cancel")
  /\ how' = [how EXCEPT ![c] = why]

\* collectBetweenSentinels: a line.
Collect(c) ==
  LET l == Head(out[c]) IN
  /\ pc[c] = "collect" /\ out[c] # <<>>
  /\ out' = [out EXCEPT ![c] = Tail(@)]
  /\ CASE c \notin started ->
            /\ started' = IF IsSentinel(c, "begin", l) THEN started \cup {c} ELSE started
            /\ UNCHANGED <<pc, reply, how, total>>
       [] c \in started /\ IsSentinel(c, "end", l) ->
            /\ Done(c, "end")
            /\ total' = [total EXCEPT ![c] = l.n]
            /\ UNCHANGED <<started, reply>>
       [] OTHER ->
            /\ reply' = [reply EXCEPT ![c] = Append(@, l)]
            /\ UNCHANGED <<pc, started, how, total>>
  /\ UNCHANGED <<process, pty, suppressed, reader, channels, filter, hand, quit, mu>>

\* Mutant: without the safety timer.
CollectEnds_noTimer(c) ==
  /\ out[c] = <<>> /\ filter[c] = "done" /\ Done(c, "closed")
  /\ UNCHANGED <<process, pty, suppressed, reader, channels, filters, mu, started, reply,
                 total>>

\* The lines have ended, or the safety timer fires.
CollectEnds(c) ==
  /\ \/ out[c] = <<>> /\ filter[c] = "done" /\ Done(c, "closed")
     \/ Done(c, "timeout")
  /\ UNCHANGED <<process, pty, suppressed, reader, channels, filters, mu, started, reply,
                 total>>

\* cancelFiltered: close(done) ...  The reply is final and is forgotten with
\* what led to it.
Cancel(c) ==
  /\ Move(c, "cancel", "delete")
  /\ quit' = quit \cup {c}
  /\ started' = started \ {c} /\ lost' = lost \ {c}
  /\ reply' = [reply EXCEPT ![c] = <<>>] /\ how' = [how EXCEPT ![c] = ""]
  /\ total' = [total EXCEPT ![c] = 0]
  /\ UNCHANGED <<process, pty, suppressed, reader, subs, chan, closed, panicked,
                 filter, hand, out, mu>>

\* Mutant: the subscriber leaves the map without the lock.
Delete_unlocked(c) ==
  /\ Move(c, "delete", IF c \in subs THEN "close" ELSE "returned")
  /\ subs' = subs \ {c}
  /\ mu' = IF c \in subs THEN mu ELSE Nobody
  /\ UNCHANGED <<process, pty, suppressed, reader, chan, closed, lost, panicked, filters,
                 started, reply, how, total>>

\* ... then the subscriber leaves the map, and, if it was still in it, its
\* channel is closed after the unlock; commandMu is free again.
Delete(c) ==
  /\ Move(c, "delete", IF c \in subs THEN "close" ELSE "returned")
  /\ runner # "send"
  /\ subs' = subs \ {c}
  /\ mu' = IF c \in subs THEN mu ELSE Nobody
  /\ chan' = IF filter[c] = "done" THEN [chan EXCEPT ![c] = <<>>] ELSE chan
  /\ UNCHANGED <<process, pty, suppressed, reader, closed, lost, panicked, filters,
                 started, reply, how, total>>

Close(c) ==
  /\ Move(c, "close", "returned")
  /\ closed' = closed \cup {c}
  /\ panicked' = (panicked \/ c \in closed)
  /\ mu' = Nobody
  /\ UNCHANGED <<process, pty, suppressed, reader, subs, chan, lost, filters, started,
                 reply, how, total>>

-----------------------------------------------------------------------------
Process == Execute \/ Emit
Runner  == ReadLine \/ Sent \/ ReadFails \/ CloseSubscribers \/ \E c \in Reqs : Send(c)
Filter(c) == FilterRecv(c) \/ FilterSend(c) \/ FilterEnds(c)
Capture(c) ==
  \/ Subscribe(c) \/ Queue(c) \/ Write(c) \/ WriteFails(c) \/ Collect(c)
  \/ CollectEnds(c) \/ Cancel(c) \/ Delete(c) \/ Close(c)

Next ==
  \/ Process \/ Die \/ Quit \/ ClosePty \/ Runner
  \/ \E c \in Reqs : Lock(c) \/ Filter(c) \/ Capture(c)

\* The reader and the requests run, the safety timer fires and a dead process is
\* waited for; nothing is owed by the process, or needed of the filters.
Fairness ==
  /\ WF_vars(ClosePty) /\ WF_vars(Runner)
  /\ \A c \in Reqs : WF_vars(Capture(c))

Spec == Init /\ [][Next]_vars /\ Fairness

-----------------------------------------------------------------------------
(* Properties *)

\* What a request is answered (collectBetweenSentinels): its own output in the
\* order it was printed, also after an earlier command timed out and its output
\* came late, and nothing else but the echo of "quit", which nothing suppresses
\* or filters; and all of it, to its last line, without the noise, when END
\* arrived and no line was lost.  What frames a command, its echo and its
\* sentinels, is not in the log and the tail history either, although the PTY
\* echoes while the request still writes.
ReplyIsOwn ==
  /\ \A c \in Reqs :
       /\ \A i \in DOMAIN reply[c] :
            \/ reply[c][i] = QuitEcho
            \/ /\ reply[c][i].kind = "out" /\ reply[c][i].req = c
               /\ \A j \in 1..(i - 1) : reply[c][j].n < reply[c][i].n
       /\ how[c] = "end" /\ c \notin lost =>
            \A n \in 1..total[c] : \E i \in DOMAIN reply[c] : reply[c][i] = Line("out", c, n)
  /\ \A i \in DOMAIN history : history[i] \in {"audit", "out", "noise", "quit"}

\* A request that holds commandMu (captureCommandBetweenSentinels) gives an answer
\* and frees it for the next, over and over, although the process may hang in the
\* middle of the output, die, be stopped, or print END into a full channel.
CaptureReturns == []<>(mu = Nobody)

\* publishLine, closeSubscribers and a cancelling subscriber run at the same
\* time: a channel is never sent to after it was closed, nor closed twice
\* (either ends the process).
ChannelsSafe == ~panicked
=============================================================================
