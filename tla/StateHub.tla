------------------------------ MODULE StateHub ------------------------------
(***************************************************************************)
(* The state channel of Nexus (GET /events, sse.go): one polling loop      *)
(* (stateHub.run) builds a snapshot, diffs it against the last one and     *)
(* signals the subscribed handlers; a handler (handleEvents) re-reads the  *)
(* hub's snapshot on a signal and writes it to its SSE stream.             *)
(*                                                                         *)
(* A snapshot is abstracted to the versions of its two sources: the server *)
(* list and the client asset tree.  build() is two reads made one after    *)
(* the other, so a snapshot may be torn between two changes.  The second   *)
(* read goes through ManifestGeneration's TTL cache (generation.go).       *)
(*                                                                         *)
(* Threads are the loop and one handler per connection; pc[t] is where t   *)
(* is:                                                                     *)
(*   "idle"     the loop waits for its ticker                              *)
(*   "closed"   no handler runs for this connection                        *)
(*   "snapshot" the handler is about to call snapshot()                    *)
(*   "servers"  build() is about to read the server list                   *)
(*   "gen"      build() is about to call ManifestGeneration                *)
(*   "publish"  the loop holds a built snapshot                            *)
(*   "write"    the handler holds the snapshot it is about to write        *)
(*   "wait"     the handler is in its select                               *)
(*   "stopped"  run has returned                                           *)
(***************************************************************************)
EXTENDS Naturals, Sequences

CONSTANTS
  Conns,      \* HTTP connections a browser can open on /events
  Loop,       \* the goroutine of stateHub.run
  Nil,        \* no snapshot, no cached fingerprint
  MaxChange,  \* bound on the changes of each source
  StreamCap   \* events a stream holds before the write blocks

Snapshots == [servers : Nat, gen : Nat]

ASSUME ConnsAssumption  == Loop \notin Conns
ASSUME NilAssumption    == Nil \notin Snapshots /\ Nil \notin Nat
ASSUME BoundsAssumption == MaxChange \in Nat /\ StreamCap \in Nat \ {0}

VARIABLES
  servers,    \* version of the list SlistEntries returns
  manifest,   \* version of the client asset tree on disk
  genValue,   \* g.genValue
  genFresh,   \* now - g.genAt < manifestGenTTL
  last,       \* h.last
  subs,       \* h.subs, by connection
  signal,     \* the capacity-1 channels: is a signal buffered
  pc, snap,   \* per thread: control and the snapshot it holds
  open,       \* the connection is up (its request context is not done)
  stream,     \* events written and not yet read by the browser
  view,       \* the last snapshot the browser read on the connection
  early,      \* history: connections answered while the hub had no snapshot,
              \* until the browser has read a second event
  cancelled   \* the context of run is cancelled

sources == <<servers, manifest>>
cache   == <<genValue, genFresh>>
net     == <<open, stream, view, early>>
vars    == <<sources, cache, last, subs, signal, pc, snap, net, cancelled>>

Threads == Conns \cup {Loop}

\* What a snapshot built now, with no cache in between, would hold.
Current == [servers |-> servers, gen |-> manifest]

Init ==
  /\ servers = 0 /\ manifest = 0
  /\ genValue = Nil /\ genFresh = FALSE
  /\ last = Nil
  /\ subs = {}
  /\ signal = [c \in Conns |-> FALSE]
  /\ pc = [t \in Threads |-> IF t = Loop THEN "idle" ELSE "closed"]
  /\ snap = [t \in Threads |-> Nil]
  /\ open = [c \in Conns |-> FALSE]
  /\ stream = [c \in Conns |-> << >>]
  /\ view = [c \in Conns |-> Nil]
  /\ early = {}
  /\ cancelled = FALSE

Goto(t, from, to) == pc[t] = from /\ pc' = [pc EXCEPT ![t] = to]

-----------------------------------------------------------------------------
(* The sources and the browser. *)

ServersChange ==
  /\ servers < MaxChange
  /\ servers' = servers + 1
  /\ UNCHANGED <<manifest, cache, last, subs, signal, pc, snap, net, cancelled>>

ManifestChange ==
  /\ manifest < MaxChange
  /\ manifest' = manifest + 1
  /\ UNCHANGED <<servers, cache, last, subs, signal, pc, snap, net, cancelled>>

GenExpires ==
  /\ genFresh
  /\ genFresh' = FALSE
  /\ UNCHANGED <<sources, genValue, last, subs, signal, pc, snap, net, cancelled>>

Cancel ==
  /\ ~cancelled
  /\ cancelled' = TRUE
  /\ UNCHANGED <<sources, cache, last, subs, signal, pc, snap, net>>

\* The browser drops the connection; what was in flight is lost.
Disconnect(c) ==
  /\ open[c]
  /\ open' = [open EXCEPT ![c] = FALSE]
  /\ stream' = [stream EXCEPT ![c] = << >>]
  /\ view' = [view EXCEPT ![c] = Nil]
  /\ UNCHANGED <<sources, cache, last, subs, signal, pc, snap, early, cancelled>>

Receive(c) ==
  /\ stream[c] # << >>
  /\ view' = [view EXCEPT ![c] = Head(stream[c])]
  /\ stream' = [stream EXCEPT ![c] = Tail(@)]
  /\ early' = IF view[c] = Nil THEN early ELSE early \ {c}
  /\ UNCHANGED <<sources, cache, last, subs, signal, pc, snap, open, cancelled>>

-----------------------------------------------------------------------------
(* buildStateSnapshot, run by the loop or by a handler's fallback. *)

SlistEntries(t) ==
  /\ Goto(t, "servers", "gen")
  /\ snap' = [snap EXCEPT ![t] = [servers |-> servers, gen |-> 0]]
  /\ UNCHANGED <<sources, cache, last, subs, signal, net, cancelled>>

\* Mutant: the fallback build is stored as the hub's own snapshot.
ManifestGeneration_stores(t) ==
  LET hit   == genValue # Nil /\ genFresh
      value == IF hit THEN genValue ELSE manifest
      built == [snap EXCEPT ![t].gen = value]
  IN /\ Goto(t, "gen", IF t = Loop THEN "publish" ELSE "write")
     /\ genValue' = value
     /\ genFresh' = TRUE
     /\ snap' = built
     /\ last' = IF t = Loop THEN last ELSE built[t]
     /\ UNCHANGED <<sources, subs, signal, net, cancelled>>

\* ManifestGeneration holds genMu throughout: cached while fresh, else
\* recomputed from the tree.
ManifestGeneration(t) ==
  LET hit   == genValue # Nil /\ genFresh
      value == IF hit THEN genValue ELSE manifest
  IN /\ Goto(t, "gen", IF t = Loop THEN "publish" ELSE "write")
     /\ genValue' = value
     /\ genFresh' = TRUE
     /\ snap' = [snap EXCEPT ![t].gen = value]
     /\ UNCHANGED <<sources, last, subs, signal, net, cancelled>>

-----------------------------------------------------------------------------
(* stateHub.run *)

\* A tick: build only when somebody is subscribed.
Tick ==
  /\ subs # {}
  /\ Goto(Loop, "idle", "servers")
  /\ UNCHANGED <<sources, cache, last, subs, signal, snap, net, cancelled>>

\* Compare, store and signal are one critical section.
Publish ==
  /\ Goto(Loop, "publish", "idle")
  /\ last' = snap[Loop]
  /\ signal' = IF snap[Loop] # last
                 THEN [c \in Conns |-> signal[c] \/ c \in subs]
                 ELSE signal
  /\ UNCHANGED <<sources, cache, subs, snap, net, cancelled>>

Stop ==
  /\ cancelled
  /\ Goto(Loop, "idle", "stopped")
  /\ UNCHANGED <<sources, cache, last, subs, signal, snap, net, cancelled>>

-----------------------------------------------------------------------------
(* handleEvents *)

\* A request arrives and its handler subscribes a fresh channel.
Subscribe(c) ==
  /\ Goto(c, "closed", "snapshot")
  /\ open' = [open EXCEPT ![c] = TRUE]
  /\ subs' = subs \cup {c}
  /\ signal' = [signal EXCEPT ![c] = FALSE]
  /\ early' = early \ {c}
  /\ UNCHANGED <<sources, cache, last, snap, stream, view, cancelled>>

\* Mutant: a connection's first snapshot is always a build of its own.
Snapshot_ownFirst(c) ==
  /\ pc[c] = "snapshot"
  /\ IF last = Nil \/ snap[c] = Nil
       THEN /\ pc' = [pc EXCEPT ![c] = "servers"]
            /\ early' = IF last = Nil THEN early \cup {c} ELSE early
            /\ UNCHANGED snap
       ELSE /\ pc' = [pc EXCEPT ![c] = "write"]
            /\ snap' = [snap EXCEPT ![c] = last]
            /\ UNCHANGED early
  /\ UNCHANGED <<sources, cache, last, subs, signal, open, stream, view, cancelled>>

\* snapshot(): h.last, or a build of its own while the hub has none.
Snapshot(c) ==
  /\ pc[c] = "snapshot"
  /\ IF last = Nil
       THEN /\ pc' = [pc EXCEPT ![c] = "servers"]
            /\ early' = early \cup {c}
            /\ UNCHANGED snap
       ELSE /\ pc' = [pc EXCEPT ![c] = "write"]
            /\ snap' = [snap EXCEPT ![c] = last]
            /\ UNCHANGED early
  /\ UNCHANGED <<sources, cache, last, subs, signal, open, stream, view, cancelled>>

\* Mutant: the signal channel is drained after the write instead of before
\* the read.
WriteEvent_drains(c) ==
  /\ open[c] => Len(stream[c]) < StreamCap
  /\ Goto(c, "write", "wait")
  /\ stream' = IF open[c] THEN [stream EXCEPT ![c] = Append(@, snap[c])]
                          ELSE stream
  /\ signal' = [signal EXCEPT ![c] = FALSE]
  /\ UNCHANGED <<sources, cache, last, subs, snap, open, view, early, cancelled>>

\* writeStateEvent and Flush: blocks while the stream is full, and a write to
\* a dropped connection fails with an error the handler ignores.
WriteEvent(c) ==
  /\ open[c] => Len(stream[c]) < StreamCap
  /\ Goto(c, "write", "wait")
  /\ stream' = IF open[c] THEN [stream EXCEPT ![c] = Append(@, snap[c])]
                          ELSE stream
  /\ UNCHANGED <<sources, cache, last, subs, signal, snap, open, view, early,
                 cancelled>>

Wake(c) ==
  /\ signal[c]
  /\ Goto(c, "wait", "snapshot")
  /\ signal' = [signal EXCEPT ![c] = FALSE]
  /\ UNCHANGED <<sources, cache, last, subs, snap, net, cancelled>>

\* The request context is done: the handler returns, and its channel and its
\* locals go with it.
Unsubscribe(c) ==
  /\ ~open[c]
  /\ Goto(c, "wait", "closed")
  /\ subs' = subs \ {c}
  /\ signal' = [signal EXCEPT ![c] = FALSE]
  /\ snap' = [snap EXCEPT ![c] = Nil]
  /\ UNCHANGED <<sources, cache, last, net, cancelled>>

-----------------------------------------------------------------------------
LoopStep == SlistEntries(Loop) \/ ManifestGeneration(Loop) \/ Publish

HandlerStep(c) ==
  \/ SlistEntries(c) \/ ManifestGeneration(c)
  \/ Snapshot(c) \/ WriteEvent(c) \/ Wake(c) \/ Unsubscribe(c)

Environment ==
  \/ ServersChange \/ ManifestChange \/ GenExpires \/ Cancel
  \/ \E c \in Conns : Subscribe(c) \/ Disconnect(c) \/ Receive(c)

Next ==
  \/ Tick \/ LoopStep \/ Stop
  \/ \E c \in Conns : HandlerStep(c)
  \/ Environment

Safety == Init /\ [][Next]_vars

\* The runtime schedules every runnable goroutine and the ticker keeps
\* ticking; the TTL runs out; the browser reads its stream.
Fairness ==
  /\ WF_vars(Tick) /\ WF_vars(LoopStep) /\ WF_vars(Stop)
  /\ WF_vars(GenExpires)
  /\ \A c \in Conns : WF_vars(HandlerStep(c)) /\ WF_vars(Receive(c))

Spec == Safety /\ Fairness

-----------------------------------------------------------------------------
(* Properties *)

TypeOK ==
  /\ servers \in Nat /\ manifest \in Nat
  /\ genValue \in Nat \cup {Nil} /\ genFresh \in BOOLEAN
  /\ last \in Snapshots \cup {Nil}
  /\ subs \in SUBSET Conns
  /\ signal \in [Conns -> BOOLEAN]
  /\ pc \in [Threads -> {"idle", "closed", "snapshot", "servers", "gen",
                         "publish", "write", "wait", "stopped"}]
  /\ snap \in [Threads -> Snapshots \cup {Nil}]
  /\ open \in [Conns -> BOOLEAN]
  /\ stream \in [Conns -> Seq(Snapshots)]
  /\ view \in [Conns -> Snapshots \cup {Nil}]
  /\ early \in SUBSET Conns
  /\ cancelled \in BOOLEAN

\* No lost wakeup (run and handleEvents): a handler that sleeps in its select
\* although the hub's snapshot is not the one it wrote has a signal buffered.
NoLostWakeup ==
  \A c \in Conns :
    pc[c] = "wait" /\ last # Nil /\ snap[c] # last => signal[c]

\* s is nowhere older than r.
NotOlder(r, s) == r.servers <= s.servers /\ r.gen <= s.gen

\* The hub's snapshot never goes back in time (run stores what it built
\* outside the lock; only one thread may store).
LastNeverRegresses ==
  [][last # Nil => last' # Nil /\ NotOlder(last, last')]_vars

\* Nothing an open connection shows goes back in time in either part (the
\* handler re-reads h.last outside the loop's critical section and writes to a
\* stream that may be full), with the one exception the code has: a handler
\* that finds no snapshot in the hub builds its own, and the loop, whose build
\* had begun before it, may then publish an older one.
ViewNeverRegresses ==
  [][\A c \in Conns : view[c] # Nil /\ view'[c] # Nil /\ c \notin early
                        => NotOlder(view[c], view'[c])]_vars

\* Every connection that stays up converges on the current state, unless Nexus
\* is shutting down ("a slow reader converges on the latest", sse.go).
Converges ==
  [](~cancelled) =>
    \A c \in Conns : <>[](open[c]) => <>[](view[c] = Current)
=============================================================================
