------------------------------ MODULE Lifecycle ------------------------------
(***************************************************************************)
(* The life of the Nexus process: main() from the TLS gate to its exit     *)
(* (main.go, cert.go), with what runs beside it while it winds down: the   *)
(* HTTP server's requests, among them the event streams of open browsers   *)
(* (sse.go), the WebTransport listener (wt.go) and the game servers        *)
(* (orch/launcher.go StopAll).                                             *)
(*                                                                         *)
(* pc:    "tls", "bind", "init", "serve", "cert", "start", "poller",       *)
(*        "notify", "wait", "cancel", "shutdown", "closeWT", "stop",       *)
(*        "reap", "gone".                                                  *)
(* exit:  "none", "ok" (main returned), "fatal" (fatalf), "killed" (a      *)
(*        signal nobody had asked for).                                    *)
(***************************************************************************)
EXTENDS Integers, Sequences, FiniteSets, SequencesExt

CONSTANTS
  Games,     \* the servers of servers.ini
  Browsers,  \* browsers that may hold the event stream open
  Backoffs   \* length of the retry schedule of activateTLSCert

ASSUME BackoffsAssumption == Backoffs \in Nat

VARIABLES
  pc, exit,   \* control of main
  tls,        \* EXTERNAL_URL is set: TLS and WebTransport are on
  attempt,    \* failed attempts to resolve the certificate
  cert,       \* rt.wtCert holds a certificate
  http,       \* "off", "serving", "draining" (Shutdown called), "closed"
  wt,         \* the WebTransport listener: "off", "listening", "closed"
  runCtx,     \* the run context is live
  poller,     \* the info poller runs
  stream,     \* browsers with an open event stream
  game,       \* each server: "down", "up", "term" (SIGTERM sent), "exited"
  signalled,  \* a signal waits in sigChan
  deadline,   \* the 15 s context of the shutdown has expired
  todo        \* StopAll: the servers its loop has still to reap

gate  == <<tls, attempt, cert>>
nets  == <<http, wt, stream>>
rest  == <<runCtx, poller, signalled, deadline, todo>>
vars  == <<pc, exit, gate, nets, rest, game>>

Init ==
  /\ pc = "tls" /\ exit = "none"
  /\ tls \in BOOLEAN /\ attempt = 0 /\ cert = FALSE
  /\ http = "off" /\ wt = "off" /\ stream = {}
  /\ runCtx = TRUE /\ poller = FALSE
  /\ game = [g \in Games |-> "down"]
  /\ signalled = FALSE /\ deadline = FALSE /\ todo = <<>>

Alive(g) == game[g] \in {"up", "term"}

\* The process ends: nothing of it runs any more, its children do.
Ends(how) ==
  /\ pc' = "gone" /\ exit' = how
  /\ http' = "closed" /\ stream' = {}
  /\ wt' = (IF wt = "off" THEN "off" ELSE "closed")

Fatal == Ends("fatal") /\ UNCHANGED <<gate, rest, game>>

Goto(from, to) == pc = from /\ pc' = to /\ UNCHANGED exit

-----------------------------------------------------------------------------
(* Starting *)

SetupTLS == Goto("tls", "bind") /\ UNCHANGED <<gate, nets, rest, game>>
Bind     == Goto("bind", "init") /\ UNCHANGED <<gate, nets, rest, game>>

\* OIDC, PATH, the client's files, Quickstart, the mux, the WebTransport set-up.
Prepare  == Goto("init", "serve") /\ UNCHANGED <<gate, nets, rest, game>>

\* Every one of those steps may fail, and is fatal then.
BootFails == pc \in {"tls", "bind", "init"} /\ Fatal

\* The goroutine that serves is started; then the certificate is awaited.
Serve ==
  /\ Goto("serve", IF tls THEN "cert" ELSE "start")
  /\ http' = "serving"
  /\ UNCHANGED <<gate, wt, stream, rest, game>>

\* activateTLSCert: the first resolve that succeeds is stored.
Resolve ==
  /\ Goto("cert", "start")
  /\ cert' = TRUE
  /\ wt' = "listening"
  /\ UNCHANGED <<tls, attempt, http, stream, rest, game>>

\* A failed one is retried after a delay, a bounded number of times.
ResolveRetries ==
  /\ pc = "cert" /\ attempt < Backoffs
  /\ attempt' = attempt + 1
  /\ UNCHANGED <<pc, exit, tls, cert, nets, rest, game>>

ResolveFails == pc = "cert" /\ attempt >= Backoffs /\ Fatal

\* StartAll launches every server; one that fails to start is only logged, and
\* a StartAll that fails before launching is fatal.
StartAll ==
  /\ Goto("start", "poller")
  /\ \E up \in SUBSET Games : game' = [g \in Games |-> IF g \in up THEN "up" ELSE "down"]
  /\ UNCHANGED <<gate, nets, rest>>

StartAllFails == pc = "start" /\ Fatal

StartPoller ==
  /\ Goto("poller", "notify")
  /\ poller' = TRUE
  /\ UNCHANGED <<gate, nets, runCtx, signalled, deadline, todo, game>>

\* signal.Notify; until here a signal has its default effect.
Notify == Goto("notify", "wait") /\ UNCHANGED <<gate, nets, rest, game>>

-----------------------------------------------------------------------------
(* Stopping *)

Wake ==
  /\ signalled /\ Goto("wait", "cancel")
  /\ signalled' = FALSE
  /\ UNCHANGED <<gate, nets, runCtx, poller, deadline, todo, game>>

\* runCancel and stopInfoPoller; then the 15 s context is made.
Cancel ==
  /\ Goto("cancel", "shutdown")
  /\ runCtx' = FALSE /\ poller' = FALSE
  /\ http' = "draining"
  /\ UNCHANGED <<gate, wt, stream, signalled, deadline, todo, game>>

\* server.Shutdown returns when the last request is done ...
Drained ==
  /\ http = "draining" /\ stream = {} /\ Goto("shutdown", "closeWT")
  /\ http' = "closed"
  /\ UNCHANGED <<gate, wt, stream, rest, game>>

\* Mutant: Shutdown is called with a context that has no deadline.
DrainTimesOut_never == FALSE

\* ... or when its context expires with requests open, which is fatal.
DrainTimesOut == pc = "shutdown" /\ deadline /\ stream # {} /\ Fatal

CloseWT ==
  /\ Goto("closeWT", "stop")
  /\ wt' = (IF wt = "listening" THEN "closed" ELSE wt)
  /\ UNCHANGED <<gate, http, stream, rest, game>>

\* StopAll: SIGTERM to every live server first.
SignalAll ==
  /\ Goto("stop", "reap")
  /\ todo' \in SetToSeqs({g \in Games : Alive(g)})
  /\ game' = [g \in Games |-> IF Alive(g) THEN "term" ELSE game[g]]
  /\ UNCHANGED <<gate, nets, runCtx, poller, signalled, deadline>>

\* stopServer for each in turn: its exit is seen ...
Reap ==
  /\ pc = "reap" /\ todo # <<>> /\ game[Head(todo)] = "exited"
  /\ todo' = Tail(todo)
  /\ UNCHANGED <<pc, exit, gate, nets, runCtx, poller, signalled, deadline, game>>

\* ... or two seconds pass and it is killed ...
Kill ==
  /\ pc = "reap" /\ todo # <<>> /\ Alive(Head(todo)) /\ ~deadline
  /\ game' = [game EXCEPT ![Head(todo)] = "exited"]
  /\ UNCHANGED <<pc, exit, gate, nets, rest>>

\* ... or the context of the shutdown expires, or the kill has no effect for
\* a second, and it is left as it is.
LeaveBehind ==
  /\ pc = "reap" /\ todo # <<>> /\ Alive(Head(todo))
  /\ todo' = Tail(todo)
  /\ UNCHANGED <<pc, exit, gate, nets, runCtx, poller, signalled, deadline, game>>

Return ==
  /\ pc = "reap" /\ todo = <<>>
  /\ Ends("ok")
  /\ UNCHANGED <<gate, rest, game>>

-----------------------------------------------------------------------------
(* What happens beside main *)

\* SIGTERM or SIGINT; sigChan holds one.
Signal ==
  /\ pc # "gone"
  /\ IF pc \in {"tls", "bind", "init", "serve", "cert", "start", "poller", "notify"}
       THEN Ends("killed") /\ UNCHANGED <<gate, rest, game>>
       ELSE /\ signalled' = TRUE
            /\ UNCHANGED <<pc, exit, gate, nets, runCtx, poller, deadline, todo, game>>

\* The listener fails: the goroutine that serves is fatal.
ServeFails == http = "serving" /\ Fatal

\* handleEvents returns when its request's context ends: the browser left.
\* Neither runCancel nor Shutdown ends it.
OpenStream(b) ==
  /\ http = "serving" /\ b \notin stream
  /\ stream' = stream \cup {b}
  /\ UNCHANGED <<pc, exit, gate, http, wt, rest, game>>

CloseStream(b) ==
  /\ b \in stream
  /\ stream' = stream \ {b}
  /\ UNCHANGED <<pc, exit, gate, http, wt, rest, game>>

\* A server ends by itself, or of the SIGTERM.
GameExits(g) ==
  /\ Alive(g)
  /\ game' = [game EXCEPT ![g] = "exited"]
  /\ UNCHANGED <<pc, exit, gate, nets, rest>>

DeadlinePasses ==
  /\ pc \in {"shutdown", "closeWT", "stop", "reap"} /\ ~deadline
  /\ deadline' = TRUE
  /\ UNCHANGED <<pc, exit, gate, nets, runCtx, poller, signalled, todo, game>>

-----------------------------------------------------------------------------
Boot ==
  \/ SetupTLS \/ Bind \/ Prepare \/ BootFails \/ Serve
  \/ Resolve \/ ResolveRetries \/ ResolveFails
  \/ StartAll \/ StartAllFails \/ StartPoller \/ Notify

WindDown ==
  \/ Wake \/ Cancel \/ Drained \/ DrainTimesOut \/ CloseWT
  \/ SignalAll \/ Reap \/ Kill \/ LeaveBehind \/ Return

Next ==
  \/ Boot \/ WindDown \/ Signal \/ ServeFails \/ DeadlinePasses
  \/ \E b \in Browsers : OpenStream(b) \/ CloseStream(b)
  \/ \E g \in Games : GameExits(g)

Safety == Init /\ [][Next]_vars

\* main runs and time passes.  Browsers, servers and the operator owe nothing:
\* a stream may stay open and a server may ignore SIGTERM for ever.
Spec == Safety /\ WF_vars(Boot) /\ WF_vars(WindDown) /\ WF_vars(DeadlinePasses)

-----------------------------------------------------------------------------
(* Properties *)

\* Once told to stop Nexus does stop: no open event stream, stubborn server or
\* late signal keeps it (the 15 s context bounds every wait).
SignalEndsNexus == (pc = "cancel") ~> (pc = "gone")

\* "Shutting down gracefully..." (main.go): a Nexus whose shutdown began has told
\* every server it started to stop before it goes.
GracefulStopsServers ==
  pc = "gone" /\ ~runCtx => \A g \in Games : game[g] # "up"
=============================================================================
