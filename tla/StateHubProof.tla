---------------------------- MODULE StateHubProof ----------------------------
(***************************************************************************)
(* Proofs about the state hub, for any set of connections, any number of   *)
(* changes and any stream capacity; and about the server list it carries:  *)
(* which instance it names and what figures, for any number of instances,  *)
(* players and seats.                                                      *)
(***************************************************************************)
EXTENDS StateHub, Routing, TLAPS, FiniteSetTheorems, WellFoundedInduction

USE ConnsAssumption, NilAssumption, BoundsAssumption

\* The thread-local half of the type invariant: which program points a thread
\* can be at, and that a thread at a later point of build() holds a snapshot.
Control ==
  /\ pc[Loop] \in {"idle", "servers", "gen", "publish", "stopped"}
  /\ \A c \in Conns : pc[c] \in {"closed", "snapshot", "servers", "gen",
                                 "write", "wait"}
  /\ \A t \in Threads : pc[t] \in {"gen", "publish", "write", "wait"}
                          => snap[t] \in Snapshots

TInv == TypeOK /\ Control

\* What makes NoLostWakeup inductive: a handler is subscribed from before it
\* reads the hub's snapshot until it returns, and from the moment it has read,
\* the hub cannot move on without leaving a signal in its channel.
WakeInv ==
  /\ \A c \in Conns : pc[c] # "closed" => c \in subs
  /\ \A c \in Conns : pc[c] \in {"servers", "gen"} /\ last # Nil => signal[c]
  /\ \A c \in Conns : pc[c] \in {"write", "wait"} /\ last # Nil /\ snap[c] # last
                        => signal[c]

-----------------------------------------------------------------------------
\* The hub and its handlers stay within their types and program points.
THEOREM TypeCorrect == Safety => []TInv
<1>1. Init => TInv
  <2> SUFFICES ASSUME Init PROVE TInv
    OBVIOUS
  <2>1. stream \in [Conns -> Seq(Snapshots)]
    <3>1. << >> \in Seq(Snapshots)
      OBVIOUS
    <3>2. QED BY <3>1, Zenon DEF Init
  <2>2. QED
    BY <2>1 DEF Init, TInv, TypeOK, Control, Threads
<1>2. TInv /\ [Next]_vars => TInv'
  <2> SUFFICES ASSUME TInv, [Next]_vars PROVE TInv'
    OBVIOUS
  <2> USE DEF TInv, TypeOK, Control, Threads, Goto, net, sources, cache
  <2>1. CASE ServersChange BY <2>1 DEF ServersChange
  <2>2. CASE ManifestChange BY <2>2 DEF ManifestChange
  <2>3. CASE GenExpires BY <2>3 DEF GenExpires
  <2>4. CASE Cancel BY <2>4 DEF Cancel
  <2>5. ASSUME NEW c \in Conns, Disconnect(c) PROVE TInv'
    BY <2>5 DEF Disconnect
  <2>6. ASSUME NEW c \in Conns, Receive(c) PROVE TInv'
    BY <2>6 DEF Receive
  <2>7. ASSUME NEW t \in Threads, SlistEntries(t) PROVE TInv'
    BY <2>7 DEF SlistEntries, Snapshots
  <2>8. ASSUME NEW t \in Threads, ManifestGeneration(t) PROVE TInv'
    <3>1. PICK v \in Nat : /\ snap' = [snap EXCEPT ![t].gen = v]
                           /\ genValue' = v /\ genFresh' = TRUE
      BY <2>8 DEF ManifestGeneration
    <3>2. /\ pc[t] = "gen" /\ pc' = [pc EXCEPT ![t] = IF t = Loop THEN "publish" ELSE "write"]
          /\ UNCHANGED <<servers, manifest, last, subs, signal, open, stream, view, early, cancelled>>
      BY <2>8 DEF ManifestGeneration
    <3>3. snap[t] \in Snapshots
      BY <3>2
    <3>4. snap' \in [Threads -> Snapshots \cup {Nil}] /\ snap'[t] \in Snapshots
      <4>1. [snap[t] EXCEPT !.gen = v] \in Snapshots
        BY <3>1, <3>3 DEF Snapshots
      <4>2. snap' = [snap EXCEPT ![t] = [snap[t] EXCEPT !.gen = v]]
        BY <3>1
      <4>3. PICK x \in Snapshots : snap' = [snap EXCEPT ![t] = x]
        BY <4>1, <4>2
      <4> DEFINE S == Snapshots
      <4> HIDE DEF S, Threads
      <4>4. snap \in [Threads -> S \cup {Nil}] /\ x \in S
        BY DEF S
      <4>5. snap' \in [Threads -> S \cup {Nil}] /\ snap'[t] \in S
        BY <4>3, <4>4
      <4>6. QED BY <4>5 DEF S
    <3>5. TypeOK'
      BY <3>1, <3>2, <3>4
    <3>6. Control'
      BY <3>1, <3>2, <3>4
    <3>7. QED BY <3>5, <3>6
  <2>9. CASE Tick BY <2>9 DEF Tick
  <2>10. CASE Publish BY <2>10 DEF Publish
  <2>11. CASE Stop BY <2>11 DEF Stop
  <2>12. ASSUME NEW c \in Conns, Subscribe(c) PROVE TInv'
    BY <2>12 DEF Subscribe
  <2>13. ASSUME NEW c \in Conns, Snapshot(c) PROVE TInv'
    <3>1. CASE last = Nil
      <4>1. /\ pc' = [pc EXCEPT ![c] = "servers"] /\ early' = early \cup {c}
            /\ UNCHANGED <<servers, manifest, genValue, genFresh, last, subs, signal, open, stream, view,
                           cancelled, snap>>
        BY <2>13, <3>1 DEF Snapshot
      <4>2. TypeOK'
        BY <4>1
      <4>3. Control'
        BY <4>1
      <4>4. QED BY <4>2, <4>3
    <3>2. CASE last # Nil
      <4>1. last \in Snapshots
        BY <3>2
      <4>2. snap' \in [Threads -> Snapshots \cup {Nil}] /\ snap'[c] \in Snapshots
        <5> DEFINE S == Snapshots
        <5>1. snap' = [snap EXCEPT ![c] = last] /\ snap \in [Threads -> S \cup {Nil}]
          BY <2>13, <3>2 DEF Snapshot
        <5>2. c \in Threads /\ last \in S
          BY <4>1
        <5> HIDE DEF S, Threads
        <5>3. snap' \in [Threads -> S \cup {Nil}] /\ snap'[c] \in S
          BY <5>1, <5>2
        <5>4. QED BY <5>3 DEF S
      <4>3. TypeOK'
        BY <2>13, <3>2, <4>2 DEF Snapshot
      <4>4. Control'
        BY <2>13, <3>2, <4>2 DEF Snapshot
      <4>5. QED BY <4>3, <4>4
    <3>3. QED BY <3>1, <3>2
  <2>14. ASSUME NEW c \in Conns, WriteEvent(c) PROVE TInv'
    <3>1. snap[c] \in Snapshots /\ stream[c] \in Seq(Snapshots)
      BY <2>14 DEF WriteEvent
    <3>2. Append(stream[c], snap[c]) \in Seq(Snapshots)
      BY <3>1
    <3>3. stream' \in [Conns -> Seq(Snapshots)]
      BY <2>14, <3>2 DEF WriteEvent
    <3>4. QED BY <2>14, <3>3 DEF WriteEvent
  <2>15. ASSUME NEW c \in Conns, Wake(c) PROVE TInv'
    BY <2>15 DEF Wake
  <2>16. ASSUME NEW c \in Conns, Unsubscribe(c) PROVE TInv'
    BY <2>16 DEF Unsubscribe
  <2>17. CASE UNCHANGED vars BY <2>17 DEF vars
  <2>18. QED
    BY <2>1, <2>2, <2>3, <2>4, <2>5, <2>6, <2>7, <2>8, <2>9, <2>10, <2>11,
       <2>12, <2>13, <2>14, <2>15, <2>16, <2>17
    DEF Next, LoopStep, HandlerStep, Environment
<1>3. QED
  BY <1>1, <1>2, PTL DEF Safety

-----------------------------------------------------------------------------
\* No step of any thread, in any interleaving, leaves a handler asleep on a
\* snapshot the hub has moved past without a signal.
THEOREM WakeupIsNeverLost == Safety => []NoLostWakeup
<1>1. Init => WakeInv
  BY DEF Init, WakeInv, Threads
<1>2. TInv /\ WakeInv /\ [Next]_vars => WakeInv'
  <2> SUFFICES ASSUME TInv, WakeInv, [Next]_vars PROVE WakeInv'
    OBVIOUS
  <2> USE DEF TInv, TypeOK, Control, WakeInv, Threads, Goto, net, sources, cache
  <2>1. CASE ServersChange BY <2>1 DEF ServersChange
  <2>2. CASE ManifestChange BY <2>2 DEF ManifestChange
  <2>3. CASE GenExpires BY <2>3 DEF GenExpires
  <2>4. CASE Cancel BY <2>4 DEF Cancel
  <2>5. ASSUME NEW c \in Conns, Disconnect(c) PROVE WakeInv'
    BY <2>5 DEF Disconnect
  <2>6. ASSUME NEW c \in Conns, Receive(c) PROVE WakeInv'
    BY <2>6 DEF Receive
  <2>7. ASSUME NEW t \in Threads, SlistEntries(t) PROVE WakeInv'
    BY <2>7 DEF SlistEntries
  <2>8. ASSUME NEW t \in Threads, ManifestGeneration(t) PROVE WakeInv'
    BY <2>8 DEF ManifestGeneration
  <2>9. CASE Tick BY <2>9 DEF Tick
  <2>10. CASE Publish BY <2>10 DEF Publish
  <2>11. CASE Stop BY <2>11 DEF Stop
  <2>12. ASSUME NEW c \in Conns, Subscribe(c) PROVE WakeInv'
    BY <2>12 DEF Subscribe
  <2>13. ASSUME NEW c \in Conns, Snapshot(c) PROVE WakeInv'
    <3>1. /\ pc[c] = "snapshot" /\ UNCHANGED <<last, subs, signal>>
          /\ \/ last = Nil /\ pc' = [pc EXCEPT ![c] = "servers"] /\ snap' = snap
             \/ /\ last # Nil /\ pc' = [pc EXCEPT ![c] = "write"]
                /\ snap' = [snap EXCEPT ![c] = last]
      BY <2>13 DEF Snapshot
    <3>2. /\ \A d \in Conns \ {c} : pc'[d] = pc[d] /\ snap'[d] = snap[d]
          /\ \/ pc'[c] = "servers" /\ last = Nil
             \/ pc'[c] = "write" /\ snap'[c] = last
      BY <3>1
    <3>3. QED BY <3>1, <3>2
  <2>14. ASSUME NEW c \in Conns, WriteEvent(c) PROVE WakeInv'
    BY <2>14 DEF WriteEvent
  <2>15. ASSUME NEW c \in Conns, Wake(c) PROVE WakeInv'
    BY <2>15 DEF Wake
  <2>16. ASSUME NEW c \in Conns, Unsubscribe(c) PROVE WakeInv'
    BY <2>16 DEF Unsubscribe
  <2>17. CASE UNCHANGED vars BY <2>17 DEF vars
  <2>18. QED
    BY <2>1, <2>2, <2>3, <2>4, <2>5, <2>6, <2>7, <2>8, <2>9, <2>10, <2>11,
       <2>12, <2>13, <2>14, <2>15, <2>16, <2>17
    DEF Next, LoopStep, HandlerStep, Environment
<1>3. WakeInv => NoLostWakeup
  BY DEF WakeInv, NoLostWakeup
<1>4. QED
  BY <1>1, <1>2, <1>3, TypeCorrect, PTL DEF Safety

-----------------------------------------------------------------------------
\* What makes LastNeverRegresses inductive: the cached fingerprint only grows
\* and is never ahead of the tree, so whatever the loop has read since its tick
\* is at least as new as the snapshot it will replace, although the handlers
\* refill the same cache between the loop's two reads.
AgeInv ==
  /\ genValue # Nil => genValue <= manifest
  /\ last # Nil => /\ genValue # Nil
                   /\ last.gen <= genValue
                   /\ last.servers <= servers
  /\ pc[Loop] \in {"gen", "publish"} =>
       /\ snap[Loop].servers <= servers
       /\ last # Nil => last.servers <= snap[Loop].servers
  /\ pc[Loop] = "publish" =>
       /\ genValue # Nil
       /\ snap[Loop].gen <= genValue
       /\ last # Nil => last.gen <= snap[Loop].gen

\* The age of the hub's snapshot and of the one the loop is building.
LEMMA AgeNext == TInv /\ AgeInv /\ [Next]_vars => AgeInv'
<1> SUFFICES ASSUME TInv, AgeInv, [Next]_vars PROVE AgeInv'
  OBVIOUS
<1> USE DEF TInv, TypeOK, Control, AgeInv, Threads, Goto, net, sources, cache
<1>1. CASE ServersChange BY <1>1 DEF ServersChange, Snapshots
<1>2. CASE ManifestChange BY <1>2 DEF ManifestChange
<1>3. CASE GenExpires BY <1>3 DEF GenExpires
<1>4. CASE Cancel BY <1>4 DEF Cancel
<1>5. ASSUME NEW c \in Conns, Disconnect(c) PROVE AgeInv'
  BY <1>5 DEF Disconnect
<1>6. ASSUME NEW c \in Conns, Receive(c) PROVE AgeInv'
  BY <1>6 DEF Receive
<1>7. ASSUME NEW t \in Threads, SlistEntries(t) PROVE AgeInv'
  BY <1>7 DEF SlistEntries, Snapshots
<1>8. ASSUME NEW t \in Threads, ManifestGeneration(t) PROVE AgeInv'
  BY <1>8 DEF ManifestGeneration, Snapshots
<1>9. CASE Tick BY <1>9 DEF Tick
<1>10. CASE Publish BY <1>10 DEF Publish
<1>11. CASE Stop BY <1>11 DEF Stop
<1>12. ASSUME NEW c \in Conns, Subscribe(c) PROVE AgeInv'
  BY <1>12 DEF Subscribe
<1>13. ASSUME NEW c \in Conns, Snapshot(c) PROVE AgeInv'
  BY <1>13 DEF Snapshot
<1>14. ASSUME NEW c \in Conns, WriteEvent(c) PROVE AgeInv'
  BY <1>14 DEF WriteEvent
<1>15. ASSUME NEW c \in Conns, Wake(c) PROVE AgeInv'
  BY <1>15 DEF Wake
<1>16. ASSUME NEW c \in Conns, Unsubscribe(c) PROVE AgeInv'
  BY <1>16 DEF Unsubscribe
<1>17. CASE UNCHANGED vars BY <1>17 DEF vars
<1>18. QED
  BY <1>1, <1>2, <1>3, <1>4, <1>5, <1>6, <1>7, <1>8, <1>9, <1>10, <1>11,
     <1>12, <1>13, <1>14, <1>15, <1>16, <1>17
  DEF Next, LoopStep, HandlerStep, Environment

\* The snapshot the hub hands out never goes back in time in either of its
\* parts, whatever the handlers' own builds do to the shared cache meanwhile.
THEOREM HubNeverRegresses == Safety => LastNeverRegresses
<1>1. Init => AgeInv
  BY DEF Init, AgeInv, Threads
<1>2. TInv /\ AgeInv /\ [Next]_vars
        => [last # Nil => last' # Nil /\ NotOlder(last, last')]_vars
  <2> SUFFICES ASSUME TInv, AgeInv, Next, last # Nil
               PROVE  last' # Nil /\ NotOlder(last, last')
    OBVIOUS
  <2>1. CASE Publish
    BY <2>1 DEF Publish, Goto, TInv, TypeOK, Control, AgeInv, Threads, NotOlder
  <2>2. CASE ~Publish
    <3>1. last' = last
      BY <2>2 DEF Next, LoopStep, HandlerStep, Environment, ServersChange,
         ManifestChange, GenExpires, Cancel, Disconnect, Receive, SlistEntries,
         ManifestGeneration, Tick, Stop, Subscribe, Snapshot, WriteEvent, Wake,
         Unsubscribe
    <3>2. NotOlder(last, last)
      BY DEF NotOlder, TInv, TypeOK, Snapshots
    <3>3. QED BY <3>1, <3>2
  <2>3. QED BY <2>1, <2>2
<1>3. QED
  BY <1>1, <1>2, AgeNext, TypeCorrect, PTL DEF Safety, LastNeverRegresses

-----------------------------------------------------------------------------
\* The first event of c's stream that comes from the hub: a handler's own
\* build, when there is one, is the first event of its connection.
First(c) == IF c \in early /\ view[c] = Nil THEN 2 ELSE 1

\* Something has been written on the connection.
Written(c) == stream[c] # << >> \/ view[c] # Nil

\* What makes ViewNeverRegresses inductive: the hub's snapshots on their way to
\* a browser (read, in the stream, held by the handler, and the hub's own) are
\* in order of age, and a handler builds its own only before it has written
\* anything.
Held(c) == pc[c] = "write" /\ open[c] /\ (c \in early => Written(c))

StreamInv(c) ==
  /\ \A i \in 1..Len(stream[c]) : i >= First(c) =>
       /\ last # Nil /\ NotOlder(stream[c][i], last)
       /\ \A j \in 1..Len(stream[c]) : i < j => NotOlder(stream[c][i], stream[c][j])
  /\ view[c] # Nil /\ c \notin early =>
       /\ last # Nil /\ NotOlder(view[c], last)
       /\ \A i \in 1..Len(stream[c]) : NotOlder(view[c], stream[c][i])

HeldInv(c) ==
  Held(c) => /\ last # Nil /\ NotOlder(snap[c], last)
             /\ \A i \in 1..Len(stream[c]) :
                  i >= First(c) => NotOlder(stream[c][i], snap[c])
             /\ view[c] # Nil /\ c \notin early => NotOlder(view[c], snap[c])

QuietInv(c) ==
  /\ signal[c] => last # Nil
  /\ pc[c] = "closed" => ~open[c]
  /\ ~open[c] => ~Written(c)
  /\ pc[c] \in {"servers", "gen"} => c \in early /\ ~Written(c)
  /\ pc[c] = "snapshot" /\ last = Nil => ~Written(c)

ViewInv == \A c \in Conns : StreamInv(c) /\ HeldInv(c) /\ QuietInv(c)

\* Age is an order.
LEMMA AgeOrder ==
  ASSUME NEW r \in Snapshots, NEW s \in Snapshots, NEW t \in Snapshots
  PROVE  /\ NotOlder(r, r)
         /\ NotOlder(r, s) /\ NotOlder(s, t) => NotOlder(r, t)
BY DEF NotOlder, Snapshots

\* A connection the step leaves alone keeps its order.
LEMMA ViewSame ==
  ASSUME NEW c \in Conns, StreamInv(c), HeldInv(c), QuietInv(c),
         stream'[c] = stream[c], view'[c] = view[c], open'[c] = open[c],
         (c \in early') = (c \in early), pc'[c] = pc[c], snap'[c] = snap[c],
         signal'[c] = signal[c], last' = last
  PROVE  StreamInv(c)' /\ HeldInv(c)' /\ QuietInv(c)'
<1> USE DEF First, Written, Held
<1>1. StreamInv(c)' BY DEF StreamInv
<1>2. HeldInv(c)' BY DEF HeldInv
<1>3. QuietInv(c)' BY DEF QuietInv
<1>4. QED BY <1>1, <1>2, <1>3

\* No step of any thread puts an older snapshot behind a newer one.
LEMMA ViewNext == TInv /\ AgeInv /\ ViewInv /\ [Next]_vars => ViewInv'
<1> SUFFICES ASSUME TInv, AgeInv, ViewInv, [Next]_vars, NEW c \in Conns
             PROVE  StreamInv(c)' /\ HeldInv(c)' /\ QuietInv(c)'
  BY DEF ViewInv
<1>a. /\ StreamInv(c) /\ HeldInv(c) /\ QuietInv(c)
      /\ c \in Threads /\ c # Loop /\ Loop \in Threads
  BY DEF ViewInv, Threads
<1>b. /\ stream \in [Conns -> Seq(Snapshots)] /\ view \in [Conns -> Snapshots \cup {Nil}]
      /\ snap \in [Threads -> Snapshots \cup {Nil}] /\ last \in Snapshots \cup {Nil}
      /\ open \in [Conns -> BOOLEAN] /\ signal \in [Conns -> BOOLEAN]
      /\ early \in SUBSET Conns /\ DOMAIN pc = Threads
  BY DEF TInv, TypeOK
<1>c. /\ stream[c] \in Seq(Snapshots) /\ view[c] \in Snapshots \cup {Nil}
      /\ \A i \in 1..Len(stream[c]) : stream[c][i] \in Snapshots
  BY <1>b
<1>d. Nil \notin Snapshots
  OBVIOUS
<1>1. CASE ServersChange \/ ManifestChange \/ GenExpires \/ Cancel \/ Tick \/ Stop
           \/ UNCHANGED vars
  <2>1. UNCHANGED <<stream, view, open, early, snap, signal, last>> /\ pc'[c] = pc[c]
    BY <1>1, <1>a, <1>b DEF ServersChange, ManifestChange, GenExpires, Cancel, Tick, Stop,
       Goto, vars, net
  <2>2. QED BY <2>1, <1>a, ViewSame
<1>2. CASE Publish
  <2>1. /\ last' = snap[Loop] /\ last' \in Snapshots
        /\ UNCHANGED <<stream, view, open, early, snap>> /\ pc'[c] = pc[c]
    BY <1>2, <1>a, <1>b DEF Publish, Goto, net, TInv, Control
  <2>2. last # Nil => NotOlder(last, last')
    BY <1>2, <2>1 DEF Publish, Goto, AgeInv, NotOlder
  <2>3. ASSUME NEW r \in Snapshots, last # Nil, NotOlder(r, last) PROVE NotOlder(r, last')
    BY <2>1, <2>2, <2>3, <1>b, AgeOrder
  <2>4. StreamInv(c)'
    BY <1>a, <1>c, <1>d, <2>1, <2>3 DEF StreamInv, First
  <2>5. pc[c] = "write" => snap[c] \in Snapshots
    BY <1>a DEF TInv, Control
  <2>6. HeldInv(c)'
    BY <1>a, <1>c, <1>d, <2>1, <2>3, <2>5 DEF HeldInv, Held, Written, First
  <2>7. QuietInv(c)'
    BY <1>a, <1>d, <2>1 DEF QuietInv, Written
  <2>8. QED BY <2>4, <2>6, <2>7
<1>3. ASSUME NEW t \in Threads, SlistEntries(t) \/ ManifestGeneration(t)
      PROVE  StreamInv(c)' /\ HeldInv(c)' /\ QuietInv(c)'
  <2>1. UNCHANGED <<stream, view, open, early, signal, last>>
    BY <1>3 DEF SlistEntries, ManifestGeneration, net
  <2>2. CASE t # c
    <3>1. pc'[c] = pc[c] /\ snap'[c] = snap[c]
      BY <1>3, <1>a, <1>b, <2>2 DEF SlistEntries, ManifestGeneration, Goto
    <3>2. QED BY <2>1, <3>1, <1>a, ViewSame
  <2>3. CASE t = c
    <3>1. pc[c] \in {"servers", "gen"} /\ pc'[c] \in {"gen", "write"}
      BY <1>3, <1>a, <1>b, <2>3 DEF SlistEntries, ManifestGeneration, Goto
    <3>2. c \in early /\ ~Written(c)
      BY <3>1, <1>a DEF QuietInv
    <3>3. StreamInv(c)'
      BY <1>a, <2>1 DEF StreamInv, First
    <3>4. HeldInv(c)'
      BY <3>2, <2>1 DEF HeldInv, Held, Written
    <3>5. QuietInv(c)'
      BY <1>a, <2>1, <3>1, <3>2 DEF QuietInv, Written
    <3>6. QED BY <3>3, <3>4, <3>5
  <2>4. QED BY <2>2, <2>3
<1>4. ASSUME NEW d \in Conns, d # c,
             \/ Disconnect(d) \/ Receive(d) \/ Subscribe(d) \/ Snapshot(d)
             \/ WriteEvent(d) \/ Wake(d) \/ Unsubscribe(d)
      PROVE  StreamInv(c)' /\ HeldInv(c)' /\ QuietInv(c)'
  <2>1. /\ stream'[c] = stream[c] /\ view'[c] = view[c] /\ open'[c] = open[c]
        /\ (c \in early') = (c \in early) /\ pc'[c] = pc[c] /\ snap'[c] = snap[c]
        /\ signal'[c] = signal[c] /\ last' = last
    BY <1>4, <1>a, <1>b DEF Disconnect, Receive, Subscribe, Snapshot, WriteEvent,
       Wake, Unsubscribe, Goto, net, Threads
  <2>2. QED BY <2>1, <1>a, ViewSame
<1>5. CASE Disconnect(c)
  <2>1. /\ stream'[c] = << >> /\ view'[c] = Nil /\ ~open'[c]
        /\ UNCHANGED <<early, pc, snap, signal, last>>
    BY <1>5, <1>b DEF Disconnect
  <2>2. StreamInv(c)'
    BY <2>1 DEF StreamInv
  <2>3. HeldInv(c)' /\ QuietInv(c)'
    BY <2>1, <1>a DEF HeldInv, Held, QuietInv, Written
  <2>4. QED BY <2>2, <2>3
<1>6. CASE Receive(c)
  <2> DEFINE q == stream[c]
  <2>1. /\ q # << >> /\ view'[c] = Head(q) /\ stream'[c] = Tail(q)
        /\ (c \in early') = (c \in early /\ view[c] = Nil)
        /\ UNCHANGED <<open, pc, snap, signal, last>>
    BY <1>6, <1>b DEF Receive
  <2>2. /\ Len(q) \in Nat /\ Len(q) > 0 /\ Len(Tail(q)) = Len(q) - 1
        /\ Head(q) = q[1] /\ Head(q) \in Snapshots
        /\ \A i \in 1..Len(Tail(q)) : i + 1 \in 1..Len(q) /\ Tail(q)[i] = q[i + 1]
    BY <2>1, <1>c
  <2>3. open[c] /\ Written(c) /\ Written(c)'
    BY <2>1, <2>2, <1>a, <1>d DEF QuietInv, Written
  <2>4. First(c)' = 1 /\ view'[c] # Nil
    BY <2>1, <2>2, <1>d DEF First
  <2>5. /\ c \notin early' => First(c) = 1
        /\ First(c) \in 1..2
    BY <2>1 DEF First
  <2>6. StreamInv(c)'
    <3>1. ASSUME NEW i \in 1..Len(Tail(q))
          PROVE  /\ last # Nil /\ NotOlder(Tail(q)[i], last)
                 /\ \A j \in 1..Len(Tail(q)) : i < j => NotOlder(Tail(q)[i], Tail(q)[j])
      <4>1. i + 1 \in 1..Len(q) /\ i + 1 >= First(c)
        BY <2>2, <2>5
      <4>2. /\ last # Nil /\ NotOlder(q[i + 1], last)
            /\ \A j \in 1..Len(q) : i + 1 < j => NotOlder(q[i + 1], q[j])
        BY <4>1, <1>a DEF StreamInv
      <4>3. ASSUME NEW j \in 1..Len(Tail(q)), i < j PROVE NotOlder(q[i + 1], q[j + 1])
        BY <4>2, <4>3, <2>2
      <4>4. QED BY <4>2, <4>3, <2>2
    <3>2. ASSUME c \notin early'
          PROVE  /\ last # Nil /\ NotOlder(Head(q), last)
                 /\ \A i \in 1..Len(Tail(q)) : NotOlder(Head(q), Tail(q)[i])
      <4>1. 1 \in 1..Len(q) /\ 1 >= First(c)
        BY <2>2, <2>5, <3>2
      <4>2. /\ last # Nil /\ NotOlder(q[1], last)
            /\ \A j \in 1..Len(q) : 1 < j => NotOlder(q[1], q[j])
        BY <4>1, <1>a DEF StreamInv
      <4>3. ASSUME NEW i \in 1..Len(Tail(q)) PROVE NotOlder(q[1], q[i + 1])
        BY <4>2, <2>2
      <4>4. QED BY <4>2, <4>3, <2>2
    <3>3. QED BY <3>1, <3>2, <2>1 DEF StreamInv
  <2>7. HeldInv(c)'
    <3> SUFFICES ASSUME pc[c] = "write"
                 PROVE  /\ last # Nil /\ NotOlder(snap[c], last)
                        /\ \A i \in 1..Len(Tail(q)) : NotOlder(Tail(q)[i], snap[c])
                        /\ c \notin early' => NotOlder(Head(q), snap[c])
      BY <2>1 DEF HeldInv, Held
    <3>1. /\ last # Nil /\ NotOlder(snap[c], last)
          /\ \A i \in 1..Len(q) : i >= First(c) => NotOlder(q[i], snap[c])
      BY <2>3, <1>a DEF HeldInv, Held
    <3>2. ASSUME NEW i \in 1..Len(Tail(q)) PROVE NotOlder(Tail(q)[i], snap[c])
      <4>1. i + 1 \in 1..Len(q) /\ i + 1 >= First(c) /\ Tail(q)[i] = q[i + 1]
        BY <2>2, <2>5
      <4>2. QED BY <4>1, <3>1
    <3>3. ASSUME c \notin early' PROVE NotOlder(q[1], snap[c])
      BY <3>1, <3>3, <2>2, <2>5
    <3>4. QED BY <3>1, <3>2, <3>3, <2>2
  <2>8. QuietInv(c)'
    BY <2>1, <2>3, <1>a DEF QuietInv
  <2>9. QED BY <2>6, <2>7, <2>8
<1>7. CASE Subscribe(c)
  <2>1. /\ ~Written(c) /\ c \notin early' /\ pc'[c] = "snapshot" /\ ~signal'[c] /\ open'[c]
        /\ UNCHANGED <<stream, view, last>>
    BY <1>7, <1>a, <1>b DEF Subscribe, Goto, QuietInv
  <2>2. stream'[c] = << >> /\ view'[c] = Nil /\ ~Written(c)'
    BY <2>1 DEF Written
  <2>3. StreamInv(c)'
    BY <2>2 DEF StreamInv
  <2>4. HeldInv(c)' /\ QuietInv(c)'
    BY <2>1, <2>2 DEF HeldInv, Held, QuietInv
  <2>5. QED BY <2>3, <2>4
<1>8. CASE Snapshot(c)
  <2>1. pc[c] = "snapshot" /\ UNCHANGED <<stream, view, open, signal, last>>
    BY <1>8 DEF Snapshot
  <2>2. CASE last = Nil
    <3>1. pc'[c] = "servers" /\ c \in early'
      BY <1>8, <1>a, <1>b, <2>2 DEF Snapshot
    <3>2. stream'[c] = << >> /\ view'[c] = Nil /\ ~Written(c)'
      BY <1>a, <2>1, <2>2 DEF QuietInv, Written
    <3>3. StreamInv(c)'
      BY <3>2 DEF StreamInv
    <3>4. HeldInv(c)' /\ QuietInv(c)'
      BY <2>1, <3>1, <3>2, <1>a DEF HeldInv, Held, QuietInv
    <3>5. QED BY <3>3, <3>4
  <2>3. CASE last # Nil
    <3>1. pc'[c] = "write" /\ snap'[c] = last /\ early' = early
      BY <1>8, <1>a, <1>b, <2>3 DEF Snapshot
    <3>2. StreamInv(c)'
      BY <1>a, <2>1, <3>1 DEF StreamInv, First
    <3>3. NotOlder(last, last)
      BY <2>3, <1>b, AgeOrder
    <3>4. HeldInv(c)'
      BY <1>a, <2>1, <2>3, <3>1, <3>3 DEF HeldInv, Held, StreamInv, First
    <3>5. QuietInv(c)'
      BY <1>a, <2>1, <3>1 DEF QuietInv, Written
    <3>6. QED BY <3>2, <3>4, <3>5
  <2>4. QED BY <2>2, <2>3
<1>9. CASE WriteEvent(c)
  <2>1. /\ pc[c] = "write" /\ pc'[c] = "wait"
        /\ UNCHANGED <<open, view, early, snap, signal, last>>
    BY <1>9, <1>a, <1>b DEF WriteEvent, Goto
  <2>2. HeldInv(c)'
    BY <2>1 DEF HeldInv, Held
  <2>3. CASE ~open[c]
    <3>1. stream' = stream
      BY <1>9, <2>3 DEF WriteEvent
    <3>2. QED BY <1>a, <2>1, <2>2, <3>1 DEF StreamInv, QuietInv, First, Written
  <2>4. CASE open[c]
    <3> DEFINE q == stream[c]
    <3> DEFINE n == Len(stream[c]) + 1
    <3>1. stream'[c] = Append(q, snap[c])
      BY <1>9, <1>b, <2>4 DEF WriteEvent
    <3>2. /\ Len(Append(q, snap[c])) = n /\ n \in Nat /\ n > 0
          /\ Append(q, snap[c])[n] = snap[c]
          /\ \A i \in 1..Len(q) : Append(q, snap[c])[i] = q[i]
      BY <1>c
    <3>3. First(c)' = First(c) /\ First(c) \in 1..2
      BY <2>1 DEF First
    <3>4. ASSUME n >= First(c) PROVE Held(c)
      <4>1. CASE c \in early /\ view[c] = Nil
        <5>1. q # << >>
          BY <3>4, <4>1, <1>c DEF First
        <5>2. QED BY <5>1, <2>1, <2>4 DEF Held, Written
      <4>2. CASE ~(c \in early /\ view[c] = Nil)
        BY <4>2, <2>1, <2>4 DEF Held, Written
      <4>3. QED BY <4>1, <4>2
    <3>5. ASSUME NEW i \in 1..n, i >= First(c)
          PROVE  /\ last # Nil /\ NotOlder(Append(q, snap[c])[i], last)
                 /\ \A j \in 1..n : i < j => NotOlder(Append(q, snap[c])[i], Append(q, snap[c])[j])
      <4>1. Held(c)
        BY <3>4, <3>5, <3>3
      <4>2. /\ last # Nil /\ NotOlder(snap[c], last)
            /\ \A k \in 1..Len(q) : k >= First(c) => NotOlder(q[k], snap[c])
        BY <4>1, <1>a DEF HeldInv
      <4>3. CASE i = n
        BY <4>2, <4>3, <3>2
      <4>4. CASE i # n
        <5>1. i \in 1..Len(q) /\ Append(q, snap[c])[i] = q[i]
          BY <4>4, <3>2
        <5>2. /\ NotOlder(q[i], last)
              /\ \A j \in 1..Len(q) : i < j => NotOlder(q[i], q[j])
          BY <5>1, <3>5, <1>a DEF StreamInv
        <5>3. ASSUME NEW j \in 1..n, i < j PROVE NotOlder(q[i], Append(q, snap[c])[j])
          <6>1. CASE j = n BY <6>1, <3>2, <4>2, <5>1, <3>5
          <6>2. CASE j # n BY <6>2, <5>3, <3>2, <5>2
          <6>3. QED BY <6>1, <6>2
        <5>4. QED BY <5>1, <5>2, <5>3, <4>2
      <4>5. QED BY <4>3, <4>4
    <3>6. ASSUME view[c] # Nil, c \notin early
          PROVE  /\ last # Nil /\ NotOlder(view[c], last)
                 /\ \A i \in 1..n : NotOlder(view[c], Append(q, snap[c])[i])
      <4>1. Held(c)
        BY <3>6, <2>1, <2>4 DEF Held
      <4>2. NotOlder(view[c], snap[c])
        BY <4>1, <3>6, <1>a DEF HeldInv
      <4>3. last # Nil /\ NotOlder(view[c], last) /\ \A i \in 1..Len(q) : NotOlder(view[c], q[i])
        BY <3>6, <1>a DEF StreamInv
      <4>4. ASSUME NEW i \in 1..n PROVE NotOlder(view[c], Append(q, snap[c])[i])
        <5>1. CASE i = n BY <5>1, <3>2, <4>2
        <5>2. CASE i # n BY <5>2, <3>2, <4>3
        <5>3. QED BY <5>1, <5>2
      <4>5. QED BY <4>3, <4>4
    <3>7. StreamInv(c)'
      BY <3>1, <3>2, <3>3, <3>5, <3>6, <2>1 DEF StreamInv
    <3>8. QuietInv(c)'
      BY <1>a, <2>1, <2>4 DEF QuietInv
    <3>9. QED BY <2>2, <3>7, <3>8
  <2>5. QED BY <2>3, <2>4
<1>10. CASE Wake(c) \/ Unsubscribe(c)
  <2>1. /\ pc'[c] \in {"snapshot", "closed"} /\ ~signal'[c]
        /\ pc'[c] = "snapshot" => last # Nil
        /\ pc'[c] = "closed" => ~open[c]
        /\ UNCHANGED <<stream, view, open, early, last>>
    BY <1>10, <1>a, <1>b DEF Wake, Unsubscribe, Goto, net, QuietInv
  <2>2. StreamInv(c)'
    BY <1>a, <2>1 DEF StreamInv, First
  <2>3. HeldInv(c)' /\ QuietInv(c)'
    BY <1>a, <2>1 DEF HeldInv, Held, QuietInv, Written
  <2>4. QED BY <2>2, <2>3
<1>11. QED
  <2>1. CASE \E d \in Conns : \/ Disconnect(d) \/ Receive(d) \/ Subscribe(d) \/ Snapshot(d)
                              \/ WriteEvent(d) \/ Wake(d) \/ Unsubscribe(d)
    BY <2>1, <1>4, <1>5, <1>6, <1>7, <1>8, <1>9, <1>10
  <2>2. CASE \E t \in Threads : SlistEntries(t) \/ ManifestGeneration(t)
    BY <2>2, <1>3
  <2>3. QED
    BY <1>1, <1>2, <2>1, <2>2 DEF Next, LoopStep, HandlerStep, Environment, Threads

\* What a browser shows of an open connection never goes back in time, except
\* from a handler's own build to the hub's first snapshot; coalesced signals,
\* a full stream and the handlers' use of the shared cache included.
THEOREM ViewsNeverRegress == Safety => ViewNeverRegresses
<1>1. Init => AgeInv /\ ViewInv
  <2> SUFFICES ASSUME Init, NEW c \in Conns
               PROVE  AgeInv /\ StreamInv(c) /\ HeldInv(c) /\ QuietInv(c)
    BY DEF ViewInv, Init, AgeInv, Threads
  <2>1. /\ stream[c] = << >> /\ view[c] = Nil /\ pc[c] = "closed" /\ ~open[c] /\ ~signal[c]
        /\ AgeInv
    BY DEF Init, AgeInv, Threads
  <2>2. QED BY <2>1 DEF StreamInv, HeldInv, Held, QuietInv, Written
<1>2. TInv /\ ViewInv /\ [Next]_vars
        => [\A c \in Conns : view[c] # Nil /\ view'[c] # Nil /\ c \notin early
                               => NotOlder(view[c], view'[c])]_vars
  <2> SUFFICES ASSUME TInv, ViewInv, Next, NEW c \in Conns,
                      view[c] # Nil, view'[c] # Nil, c \notin early
               PROVE  NotOlder(view[c], view'[c])
    OBVIOUS
  <2>1. view \in [Conns -> Snapshots \cup {Nil}] /\ stream[c] \in Seq(Snapshots)
    BY DEF TInv, TypeOK
  <2>2. CASE Receive(c)
    <3>1. view'[c] = Head(stream[c]) /\ stream[c] # << >>
      BY <2>1, <2>2 DEF Receive
    <3>2. 1 \in 1..Len(stream[c]) /\ Head(stream[c]) = stream[c][1]
      BY <2>1, <3>1
    <3>3. QED BY <3>1, <3>2 DEF ViewInv, StreamInv
  <2>3. CASE ~Receive(c)
    <3>1. view'[c] = view[c] \/ view'[c] = Nil
      BY <2>1, <2>3 DEF Next, LoopStep, HandlerStep, Environment, ServersChange,
         ManifestChange, GenExpires, Cancel, Disconnect, Receive, SlistEntries,
         ManifestGeneration, Tick, Publish, Stop, Subscribe, Snapshot, WriteEvent,
         Wake, Unsubscribe, net
    <3>2. QED BY <3>1, <2>1, AgeOrder
  <2>4. QED BY <2>2, <2>3
<1>3. QED
  BY <1>1, <1>2, AgeNext, ViewNext, TypeCorrect, PTL DEF Safety, ViewNeverRegresses

-----------------------------------------------------------------------------
\* Every nonempty set of numbers has a least member.
LEMMA Least ==
  ASSUME NEW T, T \subseteq Nat, T # {}
  PROVE  \E x \in T : \A y \in T : x <= y
<1> DEFINE R == {ss \in Nat \X Nat : ss[1] < ss[2]}
<1>1. IsWellFoundedOn(R, Nat)
  <2>1. OpToRel(<, Nat) = R
        BY Zenon DEF OpToRel
  <2>. QED BY <2>1, NatLessThanWellFounded, Zenon
<1>2. \A x, y \in Nat : y < x => <<y, x>> \in R
  <2> TAKE x, y \in Nat
  <2> HAVE y < x
  <2>1. <<y, x>> \in Nat \X Nat /\ <<y, x>>[1] < <<y, x>>[2]
        OBVIOUS
  <2>. QED BY <2>1, Zenon
<1> HIDE DEF R
<1>3. \E x \in T : \A y \in T : ~(<<y, x>> \in R)
      BY <1>1, WFMin
<1>4. \E x \in T : \A y \in T : ~(y < x)
      BY <1>2, <1>3, Zenon
<1>. QED BY <1>4

LEMMA AppendedElements ==
  ASSUME NEW R, NEW s \in Seq(R), NEW x \in R
  PROVE  Append(s, x) \in Seq(R) /\ ToSet(Append(s, x)) = ToSet(s) \cup {x}
<1>1. /\ Append(s, x) \in Seq(R) /\ Len(s) \in Nat /\ DOMAIN s = 1..Len(s)
      /\ DOMAIN Append(s, x) = 1..(Len(s) + 1)
      /\ \A i \in 1..Len(s) : Append(s, x)[i] = s[i]
      /\ Append(s, x)[Len(s) + 1] = x
      OBVIOUS
<1>2. \A i \in DOMAIN Append(s, x) : i = Len(s) + 1 \/ i \in DOMAIN s
      BY <1>1
<1>3. Len(s) + 1 \in DOMAIN Append(s, x) /\ \A i \in DOMAIN s : i \in DOMAIN Append(s, x)
      BY <1>1
<1>4. \A y \in ToSet(Append(s, x)) : y = x \/ y \in ToSet(s)
  <2>1. \A i \in DOMAIN Append(s, x) : Append(s, x)[i] = x \/ \E j \in DOMAIN s : Append(s, x)[i] = s[j]
        BY <1>1, <1>2
  <2>. QED BY <2>1, Zenon DEF ToSet
<1>5. x \in ToSet(Append(s, x)) /\ \A y \in ToSet(s) : y \in ToSet(Append(s, x))
  <2>1. \A i \in DOMAIN s : \E j \in DOMAIN Append(s, x) : s[i] = Append(s, x)[j]
        BY <1>1, <1>3
  <2>2. \E j \in DOMAIN Append(s, x) : x = Append(s, x)[j]
        BY <1>1, <1>3
  <2>. QED BY <2>1, <2>2, Zenon DEF ToSet
<1>. QED BY <1>1, <1>4, <1>5

LEMMA AppendedIsInjective ==
  ASSUME NEW R, NEW s \in Seq(R), NEW x \in R, IsInjective(s), x \notin ToSet(s)
  PROVE  IsInjective(Append(s, x))
<1> DEFINE u == Append(s, x)
           n == Len(s)
<1>1. /\ n \in Nat /\ DOMAIN s = 1..n /\ DOMAIN u = 1..(n + 1)
      /\ \A i \in 1..n : u[i] = s[i]
      /\ u[n + 1] = x
      OBVIOUS
<1>2. \A i \in 1..n : s[i] # x
      BY <1>1 DEF ToSet
<1> HIDE DEF u, n
<1>3. \A i \in DOMAIN u : i = n + 1 \/ i \in 1..n
      BY <1>1
<1>4. \A i, j \in DOMAIN u : u[i] = u[j] => i = j
      BY <1>1, <1>2, <1>3 DEF IsInjective
<1>. QED BY <1>4 DEF IsInjective, u

-----------------------------------------------------------------------------
(* Loops *)

\* What a property of numbers needs to hold up to n.
LEMMA UpTo ==
  ASSUME NEW n \in Nat, NEW T, 0 \in T, \A i \in 1..n : i - 1 \in T => i \in T
  PROVE  \A i \in 0..n : i \in T
<1> DEFINE B == {i \in 0..n : i \notin T}
<1>1. SUFFICES ASSUME B # {} PROVE FALSE
      OBVIOUS
<1>2. PICK m \in B : \A y \in B : m <= y
  <2>1. B \subseteq Nat
        OBVIOUS
  <2> HIDE DEF B
  <2>. QED BY <1>1, <2>1, Least
<1>3. m \in 1..n /\ m - 1 \in 0..n /\ m - 1 \notin B
      BY <1>2
<1>. QED BY <1>2, <1>3

\* f is the course of a loop of n turns over values in D, from a.
Laps(n, D, a, step, f) ==
  f \in [0..n -> D] /\ f[0] = a /\ \A i \in 1..n : f[i] = step[<<i, f[i - 1]>>]

LEMMA LoopRuns ==
  ASSUME NEW n \in Nat, NEW D, NEW a \in D, NEW step \in [(1..n) \X D -> D]
  PROVE  \E f : Laps(n, D, a, step, f)
<1> DEFINE Runs(f, m) == f[0] = a /\ \A i \in 1..m : f[i] = step[<<i, f[i - 1]>>]
           T == {m \in 0..n : \E f \in [0..m -> D] : Runs(f, m)}
<1>1. 0 \in T
  <2> DEFINE f == [i \in 0..0 |-> a]
  <2>1. f \in [0..0 -> D] /\ Runs(f, 0)
        OBVIOUS
  <2> HIDE DEF f, Runs
  <2>2. \E g \in [0..0 -> D] : Runs(g, 0)
        BY <2>1
  <2>3. 0 \in 0..n
        OBVIOUS
  <2>. QED BY <2>2, <2>3
<1>2. ASSUME NEW m \in 1..n, m - 1 \in T PROVE m \in T
  <2>1. PICK g \in [0..(m - 1) -> D] : Runs(g, m - 1)
        BY <1>2
  <2> DEFINE h == [i \in 0..m |-> IF i = m THEN step[<<m, g[m - 1]>>] ELSE g[i]]
  <2>2. h \in [0..m -> D]
    <3>1. m - 1 \in 0..(m - 1) /\ \A i \in 0..m : i # m => i \in 0..(m - 1)
          OBVIOUS
    <3>2. <<m, g[m - 1]>> \in (1..n) \X D
          BY <3>1
    <3>3. step[<<m, g[m - 1]>>] \in D
          BY <3>2
    <3>. QED BY <3>1, <3>3
  <2>3. h[0] = a
        BY <2>1
  <2>4. ASSUME NEW i \in 1..m PROVE h[i] = step[<<i, h[i - 1]>>]
    <3>1. i - 1 \in 0..m /\ i - 1 # m /\ h[i - 1] = g[i - 1] /\ i \in 0..m
          OBVIOUS
    <3>2. CASE i = m
          BY <3>1, <3>2
    <3>3. CASE i # m
      <4>1. i \in 1..(m - 1) /\ h[i] = g[i]
            BY <3>1, <3>3
      <4>. QED BY <2>1, <3>1, <4>1
    <3>. QED BY <3>2, <3>3
  <2> HIDE DEF h
  <2>. QED BY <2>2, <2>3, <2>4
<1>3. n \in T
  <2> HIDE DEF T
  <2>1. \A i \in 1..n : i - 1 \in T => i \in T
        BY <1>2
  <2>2. \A i \in 0..n : i \in T
        BY <1>1, <2>1, UpTo
  <2>. QED BY <2>2
<1>. QED BY <1>3 DEF Laps

\* Filter keeps what is in S, and keeps distinct what was.
LEMMA FilterFacts ==
  ASSUME NEW R, NEW s \in Seq(R), NEW S
  PROVE  /\ Filter(s, S) \in Seq(R) /\ ToSet(Filter(s, S)) = ToSet(s) \cap S
         /\ IsInjective(s) => IsInjective(Filter(s, S))
<1> DEFINE N == Len(s)
           turn(f, n) == IF s[n] \in S THEN Append(f[n - 1], s[n]) ELSE f[n - 1]
           Keeps(f) == f = [n \in 0..N |-> IF n = 0 THEN <<>> ELSE turn(f, n)]
<1>1. N \in Nat /\ DOMAIN s = 1..N /\ \A i \in 1..N : s[i] \in R
      OBVIOUS
<1>2. PICK f : Keeps(f) /\ Filter(s, S) = f[N]
  <2>1. \E f : Keeps(f)
    <3> DEFINE D == Seq(R)
               step == [z \in (1..N) \X D |-> IF s[z[1]] \in S THEN Append(z[2], s[z[1]]) ELSE z[2]]
    <3>1. step \in [(1..N) \X D -> D]
      <4>1. \A n \in 1..N, q \in D : (IF s[n] \in S THEN Append(q, s[n]) ELSE q) \in D
            BY <1>1
      <4> HIDE DEF D
      <4>. QED BY <4>1
    <3> DEFINE a == <<>>
    <3>2. a \in D
          OBVIOUS
    <3>3. PICK f : f \in [0..N -> D] /\ f[0] = a /\ \A i \in 1..N : f[i] = step[<<i, f[i - 1]>>]
      <4> HIDE DEF D, step, N, a
      <4>1. N \in Nat
            BY <1>1
      <4>2. \E f : Laps(N, D, a, step, f)
            BY <3>1, <3>2, <4>1, LoopRuns
      <4>. QED BY <4>2 DEF Laps
    <3>4. \A n \in 0..N : f[n] = IF n = 0 THEN <<>> ELSE turn(f, n)
      <4> TAKE n \in 0..N
      <4>1. CASE n = 0
            BY <3>3, <4>1
      <4>2. CASE n # 0
        <5>1. n \in 1..N /\ n - 1 \in 0..N
              BY <1>1, <4>2
        <5>2. f[n - 1] \in D
              BY <3>3, <5>1
        <5>3. f[n] = step[<<n, f[n - 1]>>]
              BY <3>3, <5>1
        <5> HIDE DEF D
        <5>. QED BY <4>2, <5>1, <5>2, <5>3
      <4>. QED BY <4>1, <4>2
    <3>5. f = [n \in 0..N |-> f[n]]
          BY <3>3
    <3> HIDE DEF turn
    <3>. QED BY <3>4, <3>5
  <2>2. Keeps(CHOOSE f : Keeps(f))
        BY <2>1
  <2>3. Filter(s, S) = (CHOOSE f : Keeps(f))[N]
        BY Zenon DEF Filter
  <2>. QED BY <2>2, <2>3
<1>3. f[0] = <<>> /\ \A n \in 1..N : f[n] = turn(f, n)
  <2> DEFINE e(n) == IF n = 0 THEN <<>> ELSE turn(f, n)
  <2>1. f = [n \in 0..N |-> e(n)]
        BY <1>2
  <2> HIDE DEF e
  <2>2. \A n \in 0..N : f[n] = e(n)
        BY <2>1
  <2>. QED BY <1>1, <2>2 DEF e
<1> DEFINE Upto(n) == {s[k] : k \in 1..n}
           Good(n) == /\ f[n] \in Seq(R) /\ ToSet(f[n]) = Upto(n) \cap S
                      /\ IsInjective(s) => IsInjective(f[n])
           T == {n \in 0..N : Good(n)}
<1> HIDE DEF N
<1>4. 0 \in T
  <2>1. Upto(0) = {}
        OBVIOUS
  <2>2. f[0] \in Seq(R) /\ ToSet(f[0]) = {} /\ IsInjective(f[0])
        BY <1>3 DEF ToSet, IsInjective
  <2> HIDE DEF Upto
  <2>3. Good(0)
        BY <2>1, <2>2
  <2>. QED BY <1>1, <2>3
<1>5. ASSUME NEW n \in 1..N, n - 1 \in T PROVE n \in T
  <2> DEFINE q == f[n - 1]
             x == s[n]
  <2>1. /\ q \in Seq(R) /\ ToSet(q) = Upto(n - 1) \cap S
        /\ IsInjective(s) => IsInjective(q)
        BY <1>5
  <2>2. x \in R /\ f[n] = IF x \in S THEN Append(q, x) ELSE q
        BY <1>1, <1>3
  <2>3. Upto(n) = Upto(n - 1) \cup {x}
    <3>1. \A k \in 1..n : k = n \/ k \in 1..(n - 1)
          BY <1>1
    <3>2. n \in 1..n /\ \A k \in 1..(n - 1) : k \in 1..n
          BY <1>1
    <3>. QED BY <3>1, <3>2
  <2>4. IsInjective(s) => x \notin Upto(n - 1)
    <3>1. \A k \in 1..(n - 1) : k \in 1..N /\ k # n
          BY <1>1
    <3>. QED BY <1>1, <3>1 DEF IsInjective
  <2> HIDE DEF Upto, q, x
  <2>5. CASE x \notin S
    <3>1. f[n] = q
          BY <2>2, <2>5
    <3>2. Good(n)
          BY <2>1, <2>3, <2>5, <3>1
    <3>. QED BY <1>1, <3>2
  <2>6. CASE x \in S
    <3>1. Append(q, x) \in Seq(R) /\ ToSet(Append(q, x)) = ToSet(q) \cup {x}
          BY <2>1, <2>2, AppendedElements
    <3>2. IsInjective(s) => IsInjective(Append(q, x))
          BY <2>1, <2>2, <2>4, AppendedIsInjective
    <3>3. f[n] = Append(q, x)
          BY <2>2, <2>6
    <3>4. Good(n)
      <4> DEFINE u == Append(q, x)
      <4> HIDE DEF u
      <4>1. u \in Seq(R) /\ ToSet(u) = ToSet(q) \cup {x} /\ (IsInjective(s) => IsInjective(u)) /\ f[n] = u
            BY <3>1, <3>2, <3>3 DEF u
      <4>. QED BY <2>1, <2>3, <2>6, <4>1
    <3>. QED BY <1>1, <3>4
  <2>. QED BY <2>5, <2>6
<1>6. Good(N)
  <2> HIDE DEF Good
  <2>1. \A i \in 1..N : i - 1 \in T => i \in T
        BY <1>5
  <2>2. N \in T
    <3> HIDE DEF T
    <3>. QED BY <1>1, <1>4, <2>1, UpTo
  <2>. QED BY <2>2
<1>7. Upto(N) = ToSet(s)
      BY <1>1 DEF ToSet
<1>. QED BY <1>2, <1>6, <1>7

\* What the loop of Sum has added up.
LEMMA SumRuns ==
  ASSUME NEW g \in [Instances -> Nat], NEW S
  PROVE  \E f : /\ Sum(g, S) = f[Insts] /\ f[0] = 0
                /\ \A n \in 1..Insts : f[n] = f[n - 1] + (IF n \in S THEN g[n] ELSE 0)
<1> DEFINE turn(f, n) == f[n - 1] + (IF n \in S THEN g[n] ELSE 0)
           Adds(f) == f = [n \in 0..Insts |-> IF n = 0 THEN 0 ELSE turn(f, n)]
           step == [z \in (1..Insts) \X Nat |-> z[2] + (IF z[1] \in S THEN g[z[1]] ELSE 0)]
<1>1. Insts \in Nat
      BY SizeAssumption
<1>2. step \in [(1..Insts) \X Nat -> Nat]
  <2>1. \A n \in 1..Insts : g[n] \in Nat
        BY DEF Instances
  <2>. QED BY <2>1
<1>3. PICK h : Laps(Insts, Nat, 0, step, h)
  <2> HIDE DEF step
  <2>1. 0 \in Nat
        OBVIOUS
  <2>. QED BY <1>1, <1>2, <2>1, LoopRuns
<1>4. h \in [0..Insts -> Nat] /\ h[0] = 0 /\ \A i \in 1..Insts : h[i] = step[<<i, h[i - 1]>>]
      BY <1>3 DEF Laps
<1>5. \A n \in 0..Insts : h[n] = IF n = 0 THEN 0 ELSE turn(h, n)
  <2> TAKE n \in 0..Insts
  <2>1. CASE n = 0
        BY <1>4, <2>1
  <2>2. CASE n # 0
    <3>1. n \in 1..Insts /\ n - 1 \in 0..Insts
          BY <1>1, <2>2
    <3>2. h[n - 1] \in Nat
          BY <1>4, <3>1
    <3>3. step[<<n, h[n - 1]>>] = turn(h, n)
          BY <3>1, <3>2
    <3> HIDE DEF turn, step
    <3>. QED BY <1>4, <2>2, <3>1, <3>3
  <2>. QED BY <2>1, <2>2
<1>6. Adds(h)
  <2>1. h = [n \in 0..Insts |-> h[n]]
        BY <1>4
  <2> HIDE DEF turn
  <2>. QED BY <1>5, <2>1
<1>7. Adds(CHOOSE f : Adds(f))
      BY <1>6
<1>8. Sum(g, S) = (CHOOSE f : Adds(f))[Insts]
      BY Zenon DEF Sum
<1> DEFINE f == CHOOSE f : Adds(f)
<1> HIDE DEF f
<1>9. f[0] = 0 /\ \A n \in 1..Insts : f[n] = turn(f, n)
  <2> DEFINE e(n) == IF n = 0 THEN 0 ELSE turn(f, n)
  <2>1. f = [n \in 0..Insts |-> e(n)]
        BY <1>7 DEF f
  <2> HIDE DEF e
  <2>2. \A n \in 0..Insts : f[n] = e(n)
        BY <2>1
  <2>. QED BY <1>1, <2>2 DEF e
<1>10. Sum(g, S) = f[Insts]
      BY <1>8 DEF f
<1>. QED BY <1>9, <1>10

\* A sum of smaller figures is smaller, and a sum over nothing is 0.
LEMMA SumFacts ==
  ASSUME NEW g \in [Instances -> Nat], NEW h \in [Instances -> Nat], NEW S,
         \A i \in Instances : g[i] <= h[i]
  PROVE  /\ Sum(g, S) \in Nat /\ Sum(h, S) \in Nat /\ Sum(g, S) <= Sum(h, S)
         /\ S = {} => Sum(g, S) = 0
<1>1. PICK p : /\ Sum(g, S) = p[Insts] /\ p[0] = 0
               /\ \A n \in 1..Insts : p[n] = p[n - 1] + (IF n \in S THEN g[n] ELSE 0)
      BY SumRuns
<1>2. PICK q : /\ Sum(h, S) = q[Insts] /\ q[0] = 0
               /\ \A n \in 1..Insts : q[n] = q[n - 1] + (IF n \in S THEN h[n] ELSE 0)
      BY SumRuns
<1>3. Insts \in Nat /\ \A n \in 1..Insts : g[n] \in Nat /\ h[n] \in Nat /\ g[n] <= h[n]
      BY SizeAssumption DEF Instances
<1> DEFINE T == {n \in 0..Insts : p[n] \in Nat /\ q[n] \in Nat /\ p[n] <= q[n] /\ (S = {} => p[n] = 0)}
<1>4. 0 \in T
      BY <1>1, <1>2, <1>3
<1>5. ASSUME NEW n \in 1..Insts, n - 1 \in T PROVE n \in T
  <2>1. p[n - 1] \in Nat /\ q[n - 1] \in Nat /\ p[n - 1] <= q[n - 1] /\ (S = {} => p[n - 1] = 0)
        BY <1>5
  <2>2. n \in 0..Insts
        BY <1>3
  <2>3. CASE n \in S
    <3>1. p[n] = p[n - 1] + g[n] /\ q[n] = q[n - 1] + h[n] /\ S # {}
          BY <1>1, <1>2, <2>3
    <3>2. p[n] \in Nat /\ q[n] \in Nat /\ p[n] <= q[n]
          BY <1>3, <2>1, <3>1
    <3>. QED BY <2>2, <3>1, <3>2
  <2>4. CASE n \notin S
    <3>1. p[n] = p[n - 1] + 0 /\ q[n] = q[n - 1] + 0
          BY <1>1, <1>2, <2>4
    <3>. QED BY <2>1, <2>2, <3>1
  <2>. QED BY <2>3, <2>4
<1>6. Insts \in T
  <2> HIDE DEF T
  <2>1. \A n \in 1..Insts : n - 1 \in T => n \in T
        BY <1>5
  <2>2. \A n \in 0..Insts : n \in T
        BY <1>3, <1>4, <2>1, UpTo
  <2>. QED BY <1>3, <2>2
<1>. QED BY <1>1, <1>2, <1>6

-----------------------------------------------------------------------------
(* The order of the loads *)

Seats(i) == AtLeastOne(capacity[i])

\* i is less loaded than j: by fill ratio, then by players.
Lower(i, j) ==
  \/ players[i] * Seats(j) < players[j] * Seats(i)
  \/ players[i] * Seats(j) = players[j] * Seats(i) /\ players[i] < players[j]

Tied(i, j) == players[i] * Seats(j) = players[j] * Seats(i) /\ players[i] = players[j]

\* The ratios a/x, b/y, c/z are ordered by their cross products.
LEMMA Multiply ==
  ASSUME NEW a \in Nat, NEW b \in Nat, NEW c \in Nat \ {0}
  PROVE  (a < b <=> a * c < b * c) /\ (a = b <=> a * c = b * c)
<1>1. ASSUME a < b PROVE a * c < b * c
  <2>1. PICK d \in Nat \ {0} : b = a + d
    <3>1. b - a \in Nat \ {0} /\ b = a + (b - a)
          BY <1>1
    <3>. QED BY <3>1
  <2>2. b * c = a * c + d * c
        BY <2>1
  <2>3. d * c \in Nat /\ d * c > 0 /\ a * c \in Nat
        OBVIOUS
  <2>. QED BY <2>2, <2>3
<1>2. ASSUME b < a PROVE b * c < a * c
  <2>1. PICK d \in Nat \ {0} : a = b + d
    <3>1. a - b \in Nat \ {0} /\ a = b + (a - b)
          BY <1>2
    <3>. QED BY <3>1
  <2>2. a * c = b * c + d * c
        BY <2>1
  <2>3. d * c \in Nat /\ d * c > 0 /\ b * c \in Nat
        OBVIOUS
  <2>. QED BY <2>2, <2>3
<1>3. a * c \in Nat /\ b * c \in Nat /\ (a = b => a * c = b * c)
      OBVIOUS
<1>. QED BY <1>1, <1>2, <1>3

LEMMA Ratios ==
  ASSUME NEW a \in Nat, NEW b \in Nat, NEW c \in Nat,
         NEW x \in Nat \ {0}, NEW y \in Nat \ {0}, NEW z \in Nat \ {0}
  PROVE  /\ a * y < b * x /\ b * z <= c * y => a * z < c * x
         /\ a * y <= b * x /\ b * z < c * y => a * z < c * x
         /\ a * y = b * x /\ b * z = c * y => a * z = c * x
<1> DEFINE u == a * y
           v == b * x
           w == b * z
           t == c * y
           p == a * z
           q == c * x
<1>1. u \in Nat /\ v \in Nat /\ w \in Nat /\ t \in Nat /\ p \in Nat /\ q \in Nat
      OBVIOUS
<1>2. u * z = p * y /\ v * z = w * x /\ t * x = q * y
      OBVIOUS
<1>3. u * z \in Nat /\ v * z \in Nat /\ w * x \in Nat /\ t * x \in Nat
      BY <1>1
<1> HIDE DEF u, v, w, t, p, q
<1>4. (u < v <=> u * z < v * z) /\ (u = v <=> u * z = v * z)
      BY <1>1, Multiply
<1>5. (w < t <=> w * x < t * x) /\ (w = t <=> w * x = t * x)
      BY <1>1, Multiply
<1>6. (p < q <=> p * y < q * y) /\ (p = q <=> p * y = q * y)
      BY <1>1, Multiply
<1> DEFINE A == u * z
           B == v * z
           C == t * x
<1>7. A \in Nat /\ B \in Nat /\ C \in Nat
      BY <1>3
<1>8. (u < v <=> A < B) /\ (u = v <=> A = B) /\ (w < t <=> B < C) /\ (w = t <=> B = C)
      /\ (p < q <=> A < C) /\ (p = q <=> A = C)
      BY <1>2, <1>4, <1>5, <1>6
<1> HIDE DEF A, B, C
<1>9. /\ u < v /\ w <= t => p < q
      /\ u <= v /\ w < t => p < q
      /\ u = v /\ w = t => p = q
      BY <1>1, <1>7, <1>8
<1>. QED BY <1>9 DEF u, v, w, t, p, q

LoadsKnown == \A i \in Instances : players[i] \in Nat /\ capacity[i] \in Nat

LEMMA LoadOrder ==
  ASSUME LoadsKnown
  PROVE  /\ \A i, j \in Instances : Lower(i, j) \/ Tied(i, j) \/ Lower(j, i)
         /\ \A i, j \in Instances : ~(Lower(i, j) /\ Lower(j, i)) /\ ~(Lower(i, j) /\ Tied(i, j))
         /\ \A i, j \in Instances : Tied(i, j) => Tied(j, i)
         /\ \A i, j, k \in Instances : Lower(i, j) /\ Lower(j, k) => Lower(i, k)
         /\ \A i, j, k \in Instances : Lower(i, j) /\ Tied(j, k) => Lower(i, k)
         /\ \A i, j, k \in Instances : Tied(i, j) /\ Lower(j, k) => Lower(i, k)
<1>1. \A i \in Instances : players[i] \in Nat /\ Seats(i) \in Nat \ {0}
      BY DEF LoadsKnown, Seats, AtLeastOne
<1>2. \A i, j \in Instances : players[i] * Seats(j) \in Nat
      BY <1>1
<1>3. ASSUME NEW i \in Instances, NEW j \in Instances
      PROVE  /\ Lower(i, j) \/ Tied(i, j) \/ Lower(j, i)
             /\ ~(Lower(i, j) /\ Lower(j, i)) /\ ~(Lower(i, j) /\ Tied(i, j))
             /\ Tied(i, j) => Tied(j, i)
  <2> DEFINE A == players[i] * Seats(j)
             B == players[j] * Seats(i)
  <2>1. A \in Nat /\ B \in Nat /\ players[i] \in Nat /\ players[j] \in Nat
        BY <1>1, <1>2
  <2>2. /\ Lower(i, j) <=> A < B \/ (A = B /\ players[i] < players[j])
        /\ Lower(j, i) <=> B < A \/ (B = A /\ players[j] < players[i])
        /\ Tied(i, j) <=> A = B /\ players[i] = players[j]
        /\ Tied(j, i) <=> B = A /\ players[j] = players[i]
        BY DEF Lower, Tied
  <2> HIDE DEF A, B
  <2>. QED BY <2>1, <2>2
<1>4. ASSUME NEW i \in Instances, NEW j \in Instances, NEW k \in Instances
      PROVE  /\ Lower(i, j) /\ Lower(j, k) => Lower(i, k)
             /\ Lower(i, j) /\ Tied(j, k) => Lower(i, k)
             /\ Tied(i, j) /\ Lower(j, k) => Lower(i, k)
  <2> DEFINE a == players[i]
             b == players[j]
             c == players[k]
             x == Seats(i)
             y == Seats(j)
             z == Seats(k)
  <2>1. /\ a \in Nat /\ b \in Nat /\ c \in Nat
        /\ x \in Nat \ {0} /\ y \in Nat \ {0} /\ z \in Nat \ {0}
        BY <1>1
  <2>2. /\ Lower(i, j) <=> a * y < b * x \/ (a * y = b * x /\ a < b)
        /\ Lower(j, k) <=> b * z < c * y \/ (b * z = c * y /\ b < c)
        /\ Lower(i, k) <=> a * z < c * x \/ (a * z = c * x /\ a < c)
        /\ Tied(i, j) <=> a * y = b * x /\ a = b
        /\ Tied(j, k) <=> b * z = c * y /\ b = c
        BY DEF Lower, Tied
  <2> HIDE DEF a, b, c, x, y, z
  <2>3. /\ a * y < b * x /\ b * z <= c * y => a * z < c * x
        /\ a * y <= b * x /\ b * z < c * y => a * z < c * x
        /\ a * y = b * x /\ b * z = c * y => a * z = c * x
        BY <2>1, Ratios
  <2> DEFINE P == a * y
             Q == b * x
             U == b * z
             V == c * y
  <2>4. P \in Nat /\ Q \in Nat /\ U \in Nat /\ V \in Nat
        BY <2>1
  <2>5. (P = Q => P <= Q) /\ (U = V => U <= V) /\ (P < Q => P <= Q) /\ (U < V => U <= V)
    <3> HIDE DEF P, Q, U, V
    <3>. QED BY <2>4
  <2>6. (a < b /\ b < c => a < c) /\ (a < b /\ b = c => a < c) /\ (a = b /\ b < c => a < c)
        BY <2>1
  <2>. QED BY <2>2, <2>3, <2>5, <2>6
<1>. QED BY <1>3, <1>4

-----------------------------------------------------------------------------
(* The pool and the scan *)

LEMMA MembersFacts ==
  /\ Members \subseteq Instances /\ Members \subseteq Nat
  /\ \E n \in Nat : Members = 1..n
<1>1. Insts \in Nat /\ 1 <= Insts /\ {1} = 1..1
      BY SizeAssumption
<1>2. CASE autoscales
      BY <1>1, <1>2 DEF Members, Instances
<1>3. CASE ~autoscales
  <2>1. Members = 1..1
        BY <1>1, <1>3 DEF Members
  <2>. QED BY <1>1, <2>1 DEF Instances
<1>. QED BY <1>2, <1>3

LEMMA CandidateFacts ==
  ASSUME NEW drains \in BOOLEAN
  PROVE  /\ Candidates(drains) \in Seq(Members) /\ IsInjective(Candidates(drains))
         /\ ToSet(Candidates(drains)) =
              {i \in Members : Routable(i, IF drains THEN {"active", "draining"} ELSE {"active"})}
<1> DEFINE s == [i \in Members |-> i]
           lives == {"active"} \cup (IF drains THEN {"draining"} ELSE {})
           S == {i \in Members : Routable(i, lives)}
<1>1. PICK n \in Nat : Members = 1..n
      BY MembersFacts
<1>2. s \in Seq(Members) /\ IsInjective(s) /\ ToSet(s) = Members
      BY <1>1 DEF IsInjective, ToSet
<1>3. Candidates(drains) = Filter(s, S)
      BY DEF Candidates
<1>4. lives = IF drains THEN {"active", "draining"} ELSE {"active"}
      OBVIOUS
<1> HIDE DEF s, lives
<1>5. Filter(s, S) \in Seq(Members) /\ ToSet(Filter(s, S)) = Members \cap S /\ IsInjective(Filter(s, S))
  <2> HIDE DEF S
  <2>. QED BY <1>2, FilterFacts
<1>6. Members \cap S = S
      OBVIOUS
<1>. QED BY <1>3, <1>4, <1>5, <1>6

LEMMA EmptyOrNot ==
  ASSUME NEW R, NEW s \in Seq(R)
  PROVE  s = <<>> <=> ToSet(s) = {}
<1>1. Len(s) \in Nat /\ DOMAIN s = 1..Len(s) /\ (s = <<>> <=> Len(s) = 0)
      OBVIOUS
<1>2. Len(s) # 0 => 1 \in DOMAIN s
      BY <1>1
<1>3. Len(s) = 0 => DOMAIN s = {}
      BY <1>1
<1>. QED BY <1>1, <1>2, <1>3 DEF ToSet

\* The tier a pick is made from.
BestTier == IF Tier(1) # {} THEN Tier(1) ELSE IF Tier(2) # {} THEN Tier(2) ELSE Tier(3)

LEMMA PoolFacts ==
  /\ Pool \in Seq(Members) /\ IsInjective(Pool) /\ ToSet(Pool) = BestTier
<1> DEFINE act  == Candidates(FALSE)
           all  == Candidates(TRUE)
           room == {i \in Instances : HasRoom(i)}
           free == WithFreeSlots(act)
           more == WithFreeSlots(all)
<1>1. /\ act \in Seq(Members) /\ IsInjective(act) /\ ToSet(act) = {i \in Members : Routable(i, {"active"})}
      /\ all \in Seq(Members) /\ IsInjective(all)
      /\ ToSet(all) = {i \in Members : Routable(i, {"active", "draining"})}
  <2>1. FALSE \in BOOLEAN /\ TRUE \in BOOLEAN
        OBVIOUS
  <2>. QED BY <2>1, CandidateFacts
<1> HIDE DEF act, all
<1>2. free \in Seq(Members) /\ IsInjective(free) /\ ToSet(free) = ToSet(act) \cap room
      BY <1>1, FilterFacts DEF WithFreeSlots
<1>3. more \in Seq(Members) /\ IsInjective(more) /\ ToSet(more) = ToSet(all) \cap room
      BY <1>1, FilterFacts DEF WithFreeSlots
<1>4. /\ Tier(1) = {i \in Members : Routable(i, {"active"}) /\ HasRoom(i)}
      /\ Tier(2) = {i \in Members : Routable(i, {"active", "draining"}) /\ HasRoom(i)}
      /\ Tier(3) = {i \in Members : Routable(i, {"active", "draining"})}
      BY DEF Tier
<1>5. ToSet(free) = Tier(1) /\ ToSet(more) = Tier(2) /\ ToSet(all) = Tier(3)
      BY <1>1, <1>2, <1>3, <1>4, MembersFacts
<1>6. (free = <<>> <=> Tier(1) = {}) /\ (more = <<>> <=> Tier(2) = {})
      BY <1>2, <1>3, <1>5, EmptyOrNot
<1>7. Pool = IF free # <<>> THEN free ELSE IF more # <<>> THEN more ELSE all
  <2>1. Pool = CASE free # <<>> -> free
                 [] free = <<>> /\ more # <<>> -> more
                 [] OTHER -> all
        BY DEF Pool, act, all
  <2> HIDE DEF free, more
  <2>. QED BY <2>1
<1> HIDE DEF free, more
<1>. QED BY <1>1, <1>2, <1>3, <1>5, <1>6, <1>7 DEF BestTier

LEMMA LeastLoadedIs ==
  LeastLoaded = {i \in BestTier : \A j \in BestTier : ~Lower(j, i)}
<1> DEFINE S == CASE Tier(1) # {} -> Tier(1)
                  [] Tier(1) = {} /\ Tier(2) # {} -> Tier(2)
                  [] OTHER -> Tier(3)
           load(i) == <<players[i], AtLeastOne(capacity[i])>>
           below(i, j) == \/ load(i)[1] * load(j)[2] < load(j)[1] * load(i)[2]
                          \/ /\ load(i)[1] * load(j)[2] = load(j)[1] * load(i)[2]
                             /\ players[i] < players[j]
<1>1. LeastLoaded = {i \in S : \A j \in S : ~below(j, i)}
      BY DEF LeastLoaded
<1>2. S = BestTier
      BY DEF BestTier
<1>3. \A i, j : below(i, j) <=> Lower(i, j)
      BY DEF Lower, Seats
<1> HIDE DEF S, below
<1>. QED BY <1>1, <1>2, <1>3

\* One turn of the scan.
LEMMA BetterIsOne ==
  ASSUME NEW q, NEW i
  PROVE  Better(q, i) \in {<<i>>, Append(q, i), q}
BY DEF Better

LEMMA BetterIs ==
  ASSUME LoadsKnown, NEW q, NEW i \in Instances, Head(q) \in Instances
  PROVE  Better(q, i) = IF Lower(i, Head(q)) THEN <<i>>
                        ELSE IF Tied(i, Head(q)) THEN Append(q, i) ELSE q
<1> DEFINE r == Head(q)
           A == players[i] * AtLeastOne(capacity[r])
           B == players[r] * AtLeastOne(capacity[i])
           new == <<i>>
           more == Append(q, i)
<1>1. Better(q, i) = CASE A < B \/ (A = B /\ players[i] < players[r]) -> new
                       [] A = B /\ players[i] = players[r] -> more
                       [] OTHER -> q
      BY DEF Better
<1>2. /\ Lower(i, r) <=> A < B \/ (A = B /\ players[i] < players[r])
      /\ Tied(i, r) <=> A = B /\ players[i] = players[r]
      BY DEF Lower, Tied, Seats
<1>3. A \in Nat /\ B \in Nat /\ players[i] \in Nat /\ players[r] \in Nat
  <2> HIDE DEF r
  <2>1. r \in Instances
        BY DEF r
  <2>2. players[i] \in Nat /\ players[r] \in Nat /\ AtLeastOne(capacity[r]) \in Nat /\ AtLeastOne(capacity[i]) \in Nat
        BY <2>1 DEF LoadsKnown, AtLeastOne
  <2>. QED BY <2>2
<1> HIDE DEF A, B, new, more, r
<1>4. ~((A < B \/ (A = B /\ players[i] < players[r])) /\ (A = B /\ players[i] = players[r]))
      BY <1>3
<1>5. Better(q, i) = IF Lower(i, r) THEN new ELSE IF Tied(i, r) THEN more ELSE q
      BY <1>1, <1>2, <1>4
<1>. QED BY <1>5 DEF r, new, more

LEMMA ScanRuns ==
  ASSUME Pool # <<>>
  PROVE  \E f : /\ Best = f[Len(Pool)] /\ f[1] = <<Pool[1]>>
                /\ \A n \in 2..Len(Pool) : f[n] = Better(f[n - 1], Pool[n])
<1> DEFINE s == Pool
           K == Len(s)
           turn(f, n) == Better(f[n - 1], s[n])
           Scans(f) == f = [n \in 1..K |-> IF n = 1 THEN <<s[1]>> ELSE turn(f, n)]
           D == Seq(Members)
           step == [z \in (1..(K - 1)) \X D |-> Better(z[2], s[z[1] + 1])]
           a == <<s[1]>>
<1>1. s \in Seq(Members)
      BY PoolFacts
<1>2. K \in Nat \ {0} /\ \A n \in 1..K : s[n] \in Members
      BY <1>1
<1> HIDE DEF s
<1>3. step \in [(1..(K - 1)) \X D -> D]
  <2>1. ASSUME NEW z \in (1..(K - 1)) \X D PROVE Better(z[2], s[z[1] + 1]) \in D
    <3>1. z[2] \in D /\ s[z[1] + 1] \in Members
          BY <1>2
    <3>2. <<s[z[1] + 1]>> \in D /\ Append(z[2], s[z[1] + 1]) \in D
          BY <3>1
    <3> HIDE DEF D
    <3>. QED BY <3>1, <3>2, BetterIsOne
  <2> HIDE DEF D
  <2>. QED BY <2>1
<1>4. a \in D
  <2>1. s[1] \in Members
        BY <1>2
  <2>. QED BY <2>1
<1>5. PICK h : Laps(K - 1, D, a, step, h)
  <2>1. K - 1 \in Nat
        BY <1>2
  <2> HIDE DEF K, D, a, step
  <2>. QED BY <1>3, <1>4, <2>1, LoopRuns
<1>6. h \in [0..(K - 1) -> D] /\ h[0] = a /\ \A i \in 1..(K - 1) : h[i] = step[<<i, h[i - 1]>>]
      BY <1>5 DEF Laps
<1> DEFINE g == [n \in 1..K |-> h[n - 1]]
<1>7. \A n \in 1..K : g[n] = IF n = 1 THEN <<s[1]>> ELSE turn(g, n)
  <2> TAKE n \in 1..K
  <2>1. CASE n = 1
        BY <1>2, <1>6, <2>1
  <2>2. CASE n # 1
    <3>1. n - 1 \in 1..(K - 1) /\ (n - 1) - 1 \in 0..(K - 1) /\ n - 1 \in 1..K /\ (n - 1) + 1 = n
          BY <1>2, <2>2
    <3>2. h[(n - 1) - 1] \in D
          BY <1>6, <3>1
    <3>3. step[<<n - 1, h[(n - 1) - 1]>>] = Better(h[(n - 1) - 1], s[n])
      <4> HIDE DEF D
      <4>1. <<n - 1, h[(n - 1) - 1]>> \in (1..(K - 1)) \X D
            BY <3>1, <3>2
      <4>. QED BY <3>1, <4>1
    <3>4. h[n - 1] = step[<<n - 1, h[(n - 1) - 1]>>]
      <4> HIDE DEF step
      <4>. QED BY <1>6, <3>1
    <3>5. g[n] = h[n - 1] /\ g[n - 1] = h[(n - 1) - 1]
          BY <3>1
    <3> HIDE DEF g, step
    <3>. QED BY <2>2, <3>3, <3>4, <3>5
  <2>. QED BY <2>1, <2>2
<1>8. Scans(g)
  <2>1. g = [n \in 1..K |-> g[n]]
        OBVIOUS
  <2> HIDE DEF turn, g
  <2>. QED BY <1>7, <2>1
<1>9. Scans(CHOOSE f : Scans(f))
  <2> HIDE DEF g
  <2>. QED BY <1>8
<1>10. Best = (CHOOSE f : Scans(f))[K]
      BY Zenon DEF Best, s
<1> DEFINE f == CHOOSE f : Scans(f)
<1> HIDE DEF f
<1>11. f[1] = <<s[1]>> /\ \A n \in 2..K : f[n] = turn(f, n)
  <2> DEFINE e(n) == IF n = 1 THEN <<s[1]>> ELSE turn(f, n)
  <2>1. f = [n \in 1..K |-> e(n)]
        BY <1>9 DEF f
  <2> HIDE DEF e
  <2>2. \A n \in 1..K : f[n] = e(n)
        BY <2>1
  <2>. QED BY <1>2, <2>2 DEF e
<1>12. Best = f[K]
      BY <1>10 DEF f
<1>. QED BY <1>11, <1>12 DEF s

\* The scan is left with the candidates that no other beats, each once.
LEMMA ScanFacts ==
  ASSUME LoadsKnown, Pool # <<>>
  PROVE  /\ Best \in Seq(Members) /\ Best # <<>> /\ IsInjective(Best)
         /\ ToSet(Best) = LeastLoaded
<1> DEFINE s == Pool
           K == Len(s)
<1>1. s \in Seq(Members) /\ IsInjective(s) /\ ToSet(s) = BestTier
      BY PoolFacts
<1>2. K \in Nat \ {0} /\ DOMAIN s = 1..K /\ \A n \in 1..K : s[n] \in Members
      BY <1>1
<1>3. PICK f : /\ Best = f[K] /\ f[1] = <<s[1]>>
               /\ \A n \in 2..K : f[n] = Better(f[n - 1], s[n])
      BY ScanRuns
<1> HIDE DEF s, K
<1> DEFINE Upto(n) == {s[k] : k \in 1..n}
           Least1(U) == {x \in U : \A y \in U : ~Lower(y, x)}
           Good(n) == /\ f[n] \in Seq(Members) /\ f[n] # <<>> /\ IsInjective(f[n])
                      /\ ToSet(f[n]) = Least1(Upto(n))
           T == {n \in 0..(K - 1) : Good(n + 1)}
<1>4. 0 \in T
  <2> DEFINE x == s[1]
  <2>1. x \in Members /\ f[1] = <<x>>
        BY <1>2, <1>3
  <2>2. Upto(1) = {x}
    <3>1. 1..1 = {1}
          OBVIOUS
    <3>. QED BY <3>1
  <2> HIDE DEF x, Upto
  <2>3. <<x>> \in Seq(Members) /\ <<x>> # <<>> /\ IsInjective(<<x>>) /\ ToSet(<<x>>) = {x}
        BY <2>1 DEF IsInjective, ToSet
  <2>4. ~Lower(x, x)
        BY <2>1, LoadOrder, MembersFacts
  <2>5. Least1(Upto(1)) = {x}
        BY <2>2, <2>4
  <2>6. Good(1)
        BY <2>1, <2>3, <2>5
  <2>. QED BY <1>2, <2>6
<1>5. ASSUME NEW m \in 1..(K - 1), m - 1 \in T PROVE m \in T
  <2> DEFINE q == f[m]
             x == s[m + 1]
             r == Head(q)
             U == Upto(m)
  <2>1. (m - 1) + 1 = m /\ m + 1 \in 2..K /\ (m + 1) - 1 = m
        BY <1>2
  <2>2. q \in Seq(Members) /\ q # <<>> /\ IsInjective(q) /\ ToSet(q) = Least1(U)
        BY <1>5, <2>1
  <2>3. x \in Members /\ f[m + 1] = Better(q, x)
        BY <1>2, <1>3, <2>1
  <2>4. Upto(m + 1) = U \cup {x}
    <3>1. \A k \in 1..(m + 1) : k = m + 1 \/ k \in 1..m
          BY <1>2
    <3>2. m + 1 \in 1..(m + 1) /\ \A k \in 1..m : k \in 1..(m + 1)
          BY <1>2
    <3>. QED BY <3>1, <3>2
  <2>5. U \subseteq Members /\ x \notin U
    <3>1. \A k \in 1..m : k \in 1..K /\ k # m + 1
          BY <1>2
    <3>2. m + 1 \in 1..K
          BY <1>2
    <3>. QED BY <1>1, <1>2, <3>1, <3>2 DEF IsInjective
  <2>6. r \in ToSet(q) /\ r \in Members
    <3>1. r = q[1] /\ 1 \in DOMAIN q
          BY <2>2
    <3>. QED BY <2>2, <3>1 DEF ToSet
  <2> HIDE DEF q, x, r, U, Upto
  <2>7. r \in U /\ \A y \in U : ~Lower(y, r)
        BY <2>2, <2>6
  <2>8. r \in Instances /\ x \in Instances /\ \A y \in U : y \in Instances
        BY <2>3, <2>5, <2>6, MembersFacts
  <2>9. f[m + 1] = IF Lower(x, r) THEN <<x>> ELSE IF Tied(x, r) THEN Append(q, x) ELSE q
        BY <2>3, <2>8, BetterIs DEF r
  <2>10. CASE Lower(x, r)
    <3>1. f[m + 1] = <<x>> /\ ~Lower(x, x)
          BY <2>8, <2>9, <2>10, LoadOrder
    <3>2. \A y \in U : Lower(x, y)
          BY <2>7, <2>8, <2>10, LoadOrder
    <3>3. \A y \in U : ~Lower(y, x)
          BY <2>8, <3>2, LoadOrder
    <3>4. Least1(U \cup {x}) = {x}
          BY <3>1, <3>2, <3>3
    <3>5. <<x>> \in Seq(Members) /\ <<x>> # <<>> /\ IsInjective(<<x>>) /\ ToSet(<<x>>) = {x}
          BY <2>3 DEF IsInjective, ToSet
    <3>6. Good(m + 1)
          BY <2>4, <3>1, <3>4, <3>5
    <3>. QED BY <1>2, <3>6
  <2>11. CASE Tied(x, r)
    <3>1. ~Lower(x, r)
          BY <2>8, <2>11, LoadOrder
    <3>2. f[m + 1] = Append(q, x)
          BY <2>9, <2>11, <3>1
    <3>3. ~Lower(x, x) /\ \A y \in U : ~Lower(y, x)
          BY <2>7, <2>8, <2>11, LoadOrder
    <3>4. \A y \in Least1(U) : ~Lower(x, y)
      <4> TAKE y \in Least1(U)
      <4>1. Tied(r, x) /\ y \in U /\ ~Lower(r, y)
            BY <2>7, <2>8, <2>11, LoadOrder
      <4>. QED BY <2>8, <4>1, LoadOrder
    <3>5. Least1(U \cup {x}) = Least1(U) \cup {x}
          BY <3>3, <3>4
    <3>6. Append(q, x) \in Seq(Members) /\ ToSet(Append(q, x)) = ToSet(q) \cup {x} /\ Append(q, x) # <<>>
          BY <2>2, <2>3, AppendedElements
    <3>7. x \notin ToSet(q)
          BY <2>2, <2>5
    <3>8. IsInjective(Append(q, x))
          BY <2>2, <2>3, <3>7, AppendedIsInjective
    <3>9. Good(m + 1)
      <4> DEFINE u == Append(q, x)
      <4> HIDE DEF u
      <4>1. u \in Seq(Members) /\ u # <<>> /\ IsInjective(u) /\ ToSet(u) = ToSet(q) \cup {x} /\ f[m + 1] = u
            BY <3>2, <3>6, <3>8 DEF u
      <4> HIDE DEF Least1
      <4>. QED BY <2>2, <2>4, <3>5, <4>1
    <3>. QED BY <1>2, <3>9
  <2>12. CASE ~Lower(x, r) /\ ~Tied(x, r)
    <3>1. f[m + 1] = q
          BY <2>9, <2>12
    <3>2. Lower(r, x)
          BY <2>8, <2>12, LoadOrder
    <3>3. \A y \in Least1(U) : ~Lower(x, y)
      <4> TAKE y \in Least1(U)
      <4>1. y \in U /\ ~Lower(r, y)
            BY <2>7
      <4>. QED BY <2>8, <3>2, <4>1, LoadOrder
    <3>4. Least1(U \cup {x}) = Least1(U)
          BY <2>7, <3>2, <3>3
    <3>5. Good(m + 1)
      <4> HIDE DEF Least1
      <4>. QED BY <2>2, <2>4, <3>1, <3>4
    <3>. QED BY <1>2, <3>5
  <2>. QED BY <2>10, <2>11, <2>12
<1>6. Good(K)
  <2> HIDE DEF Good
  <2>1. \A i \in 1..(K - 1) : i - 1 \in T => i \in T
        BY <1>5
  <2>2. K - 1 \in Nat /\ (K - 1) + 1 = K /\ K - 1 \in 0..(K - 1)
        BY <1>2
  <2>3. K - 1 \in T
    <3> HIDE DEF T
    <3>1. \A i \in 0..(K - 1) : i \in T
          BY <1>4, <2>1, <2>2, UpTo
    <3>. QED BY <2>2, <3>1
  <2>. QED BY <2>2, <2>3
<1>7. Upto(K) = ToSet(s)
      BY <1>2 DEF ToSet
<1>8. Least1(BestTier) = LeastLoaded
      BY LeastLoadedIs
<1>. QED BY <1>1, <1>3, <1>6, <1>7, <1>8

-----------------------------------------------------------------------------
(* Taking turns *)

LEMMA Division ==
  ASSUME NEW c \in Nat, NEW n \in Nat \ {0}
  PROVE  \E q \in Nat, r \in 0..(n - 1) : c = n * q + r
<1> DEFINE P(d) == \E q \in Nat, r \in 0..(n - 1) : d = n * q + r
           T == {d \in 0..c : P(d)}
<1>1. 0 \in T
  <2>1. 0 \in Nat /\ 0 \in 0..(n - 1) /\ 0 = n * 0 + 0
        OBVIOUS
  <2>. QED BY <2>1
<1>2. ASSUME NEW d \in 1..c, d - 1 \in T PROVE d \in T
  <2>1. PICK q \in Nat, r \in 0..(n - 1) : d - 1 = n * q + r
        BY <1>2
  <2>2. d \in 0..c
        OBVIOUS
  <2>3. CASE r + 1 = n
    <3>1. d = n * (q + 1) + 0 /\ q + 1 \in Nat /\ 0 \in 0..(n - 1)
          BY <2>1, <2>3
    <3>. QED BY <2>2, <3>1, Zenon
  <2>4. CASE r + 1 # n
    <3>1. d = n * q + (r + 1) /\ r + 1 \in 0..(n - 1)
          BY <2>1, <2>4
    <3>. QED BY <2>2, <3>1, Zenon
  <2>. QED BY <2>3, <2>4
<1>3. c \in T
  <2> HIDE DEF T
  <2>1. \A d \in 1..c : d - 1 \in T => d \in T
        BY <1>2
  <2>2. \A d \in 0..c : d \in T
        BY <1>1, <2>1, UpTo
  <2>. QED BY <2>2
<1>. QED BY <1>3

LEMMA Remainder ==
  ASSUME NEW c \in Nat, NEW n \in Nat \ {0}, NEW q \in Nat, NEW r \in 0..(n - 1), c = n * q + r
  PROVE  c % n = r
OBVIOUS

LEMMA NextTurn ==
  ASSUME NEW c \in Nat, NEW n \in Nat \ {0}
  PROVE  /\ c % n \in 0..(n - 1)
         /\ (c + 1) % n = IF (c % n) + 1 = n THEN 0 ELSE (c % n) + 1
<1>1. PICK q \in Nat, r \in 0..(n - 1) : c = n * q + r
      BY Division
<1>2. c % n = r
      BY <1>1, Remainder
<1>3. CASE r + 1 = n
  <2>1. c + 1 = n * (q + 1) + 0 /\ 0 \in 0..(n - 1) /\ q + 1 \in Nat /\ c + 1 \in Nat
        BY <1>1, <1>3
  <2>2. (c + 1) % n = 0
        BY <2>1, Remainder
  <2>. QED BY <1>2, <1>3, <2>2
<1>4. CASE r + 1 # n
  <2>1. c + 1 = n * q + (r + 1) /\ r + 1 \in 0..(n - 1) /\ c + 1 \in Nat
        BY <1>1, <1>4
  <2>2. (c + 1) % n = r + 1
        BY <1>1, <2>1, Remainder
  <2>. QED BY <1>2, <1>4, <2>2
<1>. QED BY <1>3, <1>4

\* Of n places in a ring, those from s that have had one turn more than the
\* others: r of them; and the place whose turn it is.
Ahead(j, s, r, n) == (s <= j /\ j < s + r) \/ j < s + r - n
Turn(s, r, n) == IF s + r < n THEN s + r ELSE s + r - n

LEMMA TurnMoves ==
  ASSUME NEW n \in Nat \ {0}, NEW s \in 0..(n - 1), NEW r \in 0..(n - 1), NEW c \in Nat,
         c % n = Turn(s, r, n)
  PROVE  /\ \A j \in 0..(n - 1) : j = c % n => ~Ahead(j, s, r, n)
         /\ r + 1 < n => /\ (c + 1) % n = Turn(s, r + 1, n)
                         /\ \A j \in 0..(n - 1) : Ahead(j, s, r + 1, n) <=> Ahead(j, s, r, n) \/ j = c % n
         /\ r + 1 = n => /\ (c + 1) % n = Turn(s, 0, n)
                         /\ \A j \in 0..(n - 1) : Ahead(j, s, r, n) \/ j = c % n
                         /\ \A j \in 0..(n - 1) : ~Ahead(j, s, 0, n)
<1> DEFINE p == c % n
           p1 == (c + 1) % n
<1>1. p \in 0..(n - 1) /\ p1 = (IF p + 1 = n THEN 0 ELSE p + 1) /\ p = Turn(s, r, n)
      BY NextTurn
<1> HIDE DEF p, p1
<1>2. \A j \in 0..(n - 1) : j = p => ~Ahead(j, s, r, n)
      BY <1>1 DEF Ahead, Turn
<1>3. ASSUME r + 1 < n
      PROVE  /\ p1 = Turn(s, r + 1, n)
             /\ \A j \in 0..(n - 1) : Ahead(j, s, r + 1, n) <=> Ahead(j, s, r, n) \/ j = p
      BY <1>1, <1>3 DEF Ahead, Turn
<1>4. ASSUME r + 1 = n
      PROVE  /\ p1 = Turn(s, 0, n)
             /\ \A j \in 0..(n - 1) : Ahead(j, s, r, n) \/ j = p
             /\ \A j \in 0..(n - 1) : ~Ahead(j, s, 0, n)
      BY <1>1, <1>4 DEF Ahead, Turn
<1>. QED BY <1>2, <1>3, <1>4 DEF p, p1

\* Every place has been named q times, or q + 1 times.
Even(n, c, N, s, r, q) ==
  /\ c % n = Turn(s, r, n)
  /\ \A j \in 0..(n - 1) : N[j] = IF Ahead(j, s, r, n) THEN q + 1 ELSE q

LEMMA EvenStays ==
  ASSUME NEW n \in Nat \ {0}, NEW c \in Nat, NEW N, NEW M,
         NEW s \in 0..(n - 1), NEW r \in 0..(n - 1), NEW q \in Nat, Even(n, c, N, s, r, q),
         \A j \in 0..(n - 1) : M[j] = IF j = c % n THEN N[j] + 1 ELSE N[j]
  PROVE  \E s1, r1 \in 0..(n - 1), q1 \in Nat : Even(n, c + 1, M, s1, r1, q1)
<1>1. c % n = Turn(s, r, n) /\ \A j \in 0..(n - 1) : N[j] = IF Ahead(j, s, r, n) THEN q + 1 ELSE q
      BY DEF Even
<1>2. /\ \A j \in 0..(n - 1) : j = c % n => ~Ahead(j, s, r, n)
      /\ r + 1 < n => /\ (c + 1) % n = Turn(s, r + 1, n)
                      /\ \A j \in 0..(n - 1) : Ahead(j, s, r + 1, n) <=> Ahead(j, s, r, n) \/ j = c % n
      /\ r + 1 = n => /\ (c + 1) % n = Turn(s, 0, n)
                      /\ \A j \in 0..(n - 1) : Ahead(j, s, r, n) \/ j = c % n
                      /\ \A j \in 0..(n - 1) : ~Ahead(j, s, 0, n)
      BY <1>1, TurnMoves
<1> DEFINE p == c % n
           p1 == (c + 1) % n
<1> HIDE DEF p, p1
<1>3. \A j \in 0..(n - 1) : M[j] = IF j = p THEN N[j] + 1 ELSE N[j]
      BY DEF p
<1>4. CASE r + 1 < n
  <2>1. r + 1 \in 0..(n - 1)
        BY <1>4
  <2>2. \A j \in 0..(n - 1) : M[j] = IF Ahead(j, s, r + 1, n) THEN q + 1 ELSE q
        BY <1>1, <1>2, <1>3, <1>4 DEF p
  <2>3. Even(n, c + 1, M, s, r + 1, q)
        BY <1>2, <1>4, <2>2 DEF Even
  <2>. QED BY <2>1, <2>3
<1>5. CASE r + 1 = n
  <2>1. 0 \in 0..(n - 1) /\ q + 1 \in Nat
        OBVIOUS
  <2>2. \A j \in 0..(n - 1) : M[j] = IF Ahead(j, s, 0, n) THEN (q + 1) + 1 ELSE q + 1
        BY <1>1, <1>2, <1>3, <1>5 DEF p
  <2>3. Even(n, c + 1, M, s, 0, q + 1)
        BY <1>2, <1>5, <2>2 DEF Even
  <2>. QED BY <2>1, <2>3
<1>. QED BY <1>4, <1>5

\* How often p was listed.
Named(pk, p) == Cardinality({k \in DOMAIN pk : pk[k] = p})

LEMMA NamedFacts ==
  ASSUME NEW s \in Seq(Nat), NEW x \in Nat, NEW p
  PROVE  /\ Named(s, p) \in Nat /\ Named(<<>>, p) = 0
         /\ Named(Append(s, x), p) = IF p = x THEN Named(s, p) + 1 ELSE Named(s, p)
<1> DEFINE n == Len(s)
           u == Append(s, x)
           S == {k \in DOMAIN s : s[k] = p}
           U == {k \in DOMAIN u : u[k] = p}
<1>1. /\ n \in Nat /\ DOMAIN s = 1..n /\ DOMAIN u = 1..(n + 1) /\ u[n + 1] = x
      /\ \A k \in 1..n : u[k] = s[k]
      OBVIOUS
<1>2. IsFiniteSet(S)
  <2>1. IsFiniteSet(1..n)
        BY <1>1, FS_Interval
  <2>. QED BY <1>1, <2>1, FS_Subset
<1> HIDE DEF n, u
<1>3. \A k \in 1..(n + 1) : k = n + 1 \/ k \in 1..n
      BY <1>1
<1>4. n + 1 \notin 1..n /\ n + 1 \in 1..(n + 1) /\ \A k \in 1..n : k \in 1..(n + 1)
      BY <1>1
<1>5. U = IF p = x THEN S \cup {n + 1} ELSE S
      BY <1>1, <1>3, <1>4
<1>6. n + 1 \notin S
      BY <1>1, <1>4
<1> HIDE DEF S, U
<1>7. Cardinality(S \cup {n + 1}) = Cardinality(S) + 1
      BY <1>2, <1>6, FS_AddElement
<1>8. Cardinality(S) \in Nat
      BY <1>2, FS_CardinalityType
<1>9. Named(s, p) = Cardinality(S) /\ Named(u, p) = Cardinality(U)
      BY DEF Named, S, U
<1>10. Named(<<>>, p) = 0
  <2>1. {k \in DOMAIN <<>> : <<>>[k] = p} = {}
        OBVIOUS
  <2>. QED BY <2>1, FS_EmptySet DEF Named
<1>. QED BY <1>5, <1>7, <1>8, <1>9, <1>10 DEF u

-----------------------------------------------------------------------------
(* The invariant of the listings *)

RouteType ==
  /\ autoscales \in BOOLEAN /\ cursor \in Nat /\ picks \in Seq(Nat)
  /\ port \in [Instances -> Nat] /\ \A i \in Instances : port[i] \in {NoPort, i}
  /\ players \in [Instances -> Nat] /\ capacity \in [Instances -> Nat]
  /\ \A i \in Instances : players[i] <= capacity[i]

\* The figures were taken together.
Taken(c) ==
  /\ c.users \in Nat /\ c.max \in Nat /\ c.users <= c.max
  /\ c.joinable = 0 => c.users = 0 /\ c.max = 0

\* How often each of the tied instances was listed since the last change.
NamedTies == [j \in 0..(Len(Best) - 1) |-> Named(picks, port[Best[j + 1]])]

InTurn ==
  \E s, r \in 0..(Len(Best) - 1), q \in Nat : Even(Len(Best), cursor, NamedTies, s, r, q)

RouteInv ==
  /\ RouteType /\ Taken(cached) /\ FiguresBelongTogether
  /\ picks # <<>> => Pool # <<>> /\ InTurn

LEMMA FiguresFacts ==
  ASSUME NEW pl \in [Instances -> Nat], NEW ca \in [Instances -> Nat],
         \A i \in Instances : pl[i] <= ca[i], NEW J \in SUBSET Instances, NEW c,
         c.joinable = Cardinality(J), c.users = Sum(pl, J), c.max = Sum(ca, J)
  PROVE  Taken(c)
<1>1. /\ Sum(pl, J) \in Nat /\ Sum(ca, J) \in Nat /\ Sum(pl, J) <= Sum(ca, J)
      /\ J = {} => Sum(pl, J) = 0
      BY SumFacts
<1>2. J = {} => Sum(ca, J) = 0
  <2>1. \A i \in Instances : ca[i] <= ca[i]
        OBVIOUS
  <2>. QED BY <2>1, SumFacts
<1>3. Cardinality(J) = 0 => J = {}
  <2>1. IsFiniteSet(Instances)
        BY SizeAssumption, FS_Interval DEF Instances
  <2>2. IsFiniteSet(J)
        BY <2>1, FS_Subset
  <2>. QED BY <2>2, FS_EmptySet
<1>. QED BY <1>1, <1>2, <1>3 DEF Taken

LEMMA JoinableFacts == Joinable \subseteq Instances
BY MembersFacts DEF Joinable

LEMMA FiguresTaken ==
  ASSUME RouteType
  PROVE  Taken(Figures)
<1>1. /\ Figures.joinable = Cardinality(Joinable) /\ Figures.users = Sum(players, Joinable)
      /\ Figures.max = Sum(capacity, Joinable)
      BY DEF Figures
<1>. QED BY <1>1, JoinableFacts, FiguresFacts DEF RouteType

LEMMA PlayersFacts == Players \subseteq Nat
BY DEF Players

LEMMA RouteInvInit ==
  ASSUME RouteInit
  PROVE  RouteInv
<1>1. RouteType
  <2>1. \A p \in Players : p \in Nat
        BY PlayersFacts
  <2>2. \A c \in Capacities \cup {0} : c \in Nat
        BY SizeAssumption
  <2>3. players \in [Instances -> Nat] /\ capacity \in [Instances -> Nat]
        BY <2>1, <2>2 DEF RouteInit
  <2>4. \A i \in Instances : players[i] <= capacity[i]
        BY DEF RouteInit, Booted
  <2>5. port \in [Instances -> Nat] /\ \A i \in Instances : port[i] \in {NoPort, i}
    <3>1. PICK known \in SUBSET Members : port = [i \in Instances |-> IF i \in known THEN i ELSE NoPort]
          BY DEF RouteInit
    <3>2. Instances \subseteq Nat /\ NoPort \in Nat
          BY DEF Instances, NoPort
    <3>. QED BY <3>1, <3>2
  <2>6. picks \in Seq(Nat) /\ cursor \in Nat /\ autoscales \in BOOLEAN
        BY DEF RouteInit
  <2>. QED BY <2>3, <2>4, <2>5, <2>6 DEF RouteType
<1>2. Taken(cached)
      BY <1>1, FiguresTaken DEF RouteInit
<1>3. FiguresBelongTogether
      BY DEF FiguresBelongTogether, RouteInit, NoEntry
<1>. QED BY <1>1, <1>2, <1>3 DEF RouteInv, RouteInit

\* What Best is depends on the instances alone.
LEMMA SameBest ==
  ASSUME UNCHANGED <<autoscales, insts>>
  PROVE  Best' = Best /\ Pool' = Pool
<1>1. UNCHANGED <<autoscales, alive, port, life, players, capacity>>
      BY DEF insts
<1>2. Members' = Members
      BY <1>1 DEF Members
<1>3. \A d : Candidates(d)' = Candidates(d)
      BY <1>1, <1>2 DEF Candidates, Routable
<1>4. \A c : WithFreeSlots(c)' = WithFreeSlots(c)
      BY <1>1 DEF WithFreeSlots, HasRoom
<1>5. Pool' = Pool
      BY <1>3, <1>4 DEF Pool
<1>6. \A q, i : Better(q, i)' = Better(q, i)
      BY <1>1 DEF Better
<1>7. Best' = Best
      BY <1>5, <1>6 DEF Best
<1>. QED BY <1>5, <1>7

LEMMA LoadsAreKnown ==
  ASSUME RouteType
  PROVE  LoadsKnown
BY DEF RouteType, LoadsKnown

\* The instances of the pool listen on ports of their own.
LEMMA TiesListen ==
  ASSUME RouteType, Pool # <<>>
  PROVE  /\ Len(Best) \in Nat \ {0} /\ \A j \in 1..Len(Best) : Best[j] \in Instances /\ port[Best[j]] = Best[j]
         /\ \A i, j \in 1..Len(Best) : Best[i] = Best[j] => i = j
<1>1. Best \in Seq(Members) /\ Best # <<>> /\ IsInjective(Best) /\ ToSet(Best) = LeastLoaded
      BY LoadsAreKnown, ScanFacts
<1>2. Len(Best) \in Nat \ {0} /\ DOMAIN Best = 1..Len(Best)
      BY <1>1
<1>3. \A i \in LeastLoaded : i \in BestTier
      BY LeastLoadedIs
<1>4. \A i \in BestTier : i \in Instances /\ port[i] # NoPort
  <2>1. \A n \in {1, 2, 3} : \A i \in Tier(n) : i \in Members /\ port[i] # NoPort
        BY DEF Tier, Routable
  <2>2. \A i \in BestTier : i \in Tier(1) \/ i \in Tier(2) \/ i \in Tier(3)
        BY DEF BestTier
  <2>. QED BY <2>1, <2>2, MembersFacts
<1>5. ASSUME NEW j \in 1..Len(Best) PROVE Best[j] \in Instances /\ port[Best[j]] = Best[j]
  <2>1. Best[j] \in ToSet(Best)
        BY <1>2 DEF ToSet
  <2>2. Best[j] \in Instances /\ port[Best[j]] # NoPort
        BY <1>1, <1>3, <1>4, <2>1
  <2>. QED BY <2>2 DEF RouteType
<1>. QED BY <1>1, <1>2, <1>5 DEF IsInjective

\* When nothing was listed yet, nobody is ahead.
LEMMA FirstTurn ==
  ASSUME RouteType, Pool # <<>>, picks = <<>>
  PROVE  InTurn
<1> DEFINE n == Len(Best)
           s == cursor % n
<1>1. n \in Nat \ {0}
      BY TiesListen
<1>2. cursor \in Nat /\ s \in 0..(n - 1)
  <2>1. cursor \in Nat
        BY DEF RouteType
  <2> HIDE DEF n
  <2>. QED BY <1>1, <2>1, NextTurn
<1>3. \A j \in 0..(n - 1) : NamedTies[j] = 0
  <2>1. \A p : Named(picks, p) = 0
    <3>1. 0 \in Nat /\ <<>> \in Seq(Nat)
          OBVIOUS
    <3>. QED BY <3>1, NamedFacts
  <2>. QED BY <2>1 DEF NamedTies
<1>4. cursor % n = Turn(s, 0, n) /\ \A j \in 0..(n - 1) : ~Ahead(j, s, 0, n)
  <2>1. cursor % n = s
        OBVIOUS
  <2> HIDE DEF n, s
  <2>2. Turn(s, 0, n) = s /\ \A j \in 0..(n - 1) : ~Ahead(j, s, 0, n)
        BY <1>1, <1>2 DEF Turn, Ahead
  <2>. QED BY <2>1, <2>2
<1>5. Even(n, cursor, NamedTies, s, 0, 0)
  <2> HIDE DEF n, s
  <2>. QED BY <1>3, <1>4 DEF Even
<1>6. 0 \in 0..(n - 1)
      BY <1>1
<1> HIDE DEF s
<1>. QED BY <1>2, <1>5, <1>6 DEF InTurn

LEMMA ListKeeps ==
  ASSUME RouteInv, List
  PROVE  RouteInv'
<1>1. UNCHANGED <<autoscales, insts, cached>>
      BY DEF List
<1>2. UNCHANGED <<autoscales, alive, port, life, players, capacity, cached>>
      BY <1>1 DEF insts
<1>3. Best' = Best /\ Pool' = Pool
      BY <1>1, SameBest
<1>4. Taken(cached)'
      BY <1>1 DEF RouteInv, Taken
<1>5. CASE ~Listed
  <2>1. entry' = NoEntry /\ UNCHANGED <<picks, cursor>>
        BY <1>5 DEF List
  <2>2. RouteType'
        BY <1>2, <2>1 DEF RouteInv, RouteType
  <2>3. FiguresBelongTogether'
        BY <2>1 DEF FiguresBelongTogether, NoEntry
  <2>4. picks' # <<>> => Pool' # <<>> /\ InTurn'
    <3>1. NamedTies' = NamedTies
          BY <1>2, <1>3, <2>1 DEF NamedTies
    <3>2. InTurn' <=> InTurn
          BY <1>3, <2>1, <3>1 DEF InTurn
    <3>. QED BY <1>3, <2>1, <3>2 DEF RouteInv
  <2>. QED BY <1>4, <2>2, <2>3, <2>4 DEF RouteInv
<1>6. CASE Listed
  <2> DEFINE n == Len(Best)
             c == cursor
  <2>1. /\ entry' = [port |-> Pick, instances |-> IF autoscales THEN cached.joinable ELSE 0,
                     users |-> cached.users, max |-> cached.max]
        /\ picks' = Append(picks, Pick) /\ cursor' = cursor + 1
        BY <1>6 DEF List, Advance
  <2>2. Pool # <<>> /\ RouteType
        BY <1>6 DEF Listed, RouteInv
  <2>3. /\ n \in Nat \ {0} /\ \A j \in 1..n : Best[j] \in Instances /\ port[Best[j]] = Best[j]
        /\ \A i, j \in 1..n : Best[i] = Best[j] => i = j
        BY <2>2, TiesListen
  <2>4. c \in Nat /\ picks \in Seq(Nat) /\ Instances \subseteq Nat
        BY <2>2 DEF RouteType, Instances
  <2>5. c % n \in 0..(n - 1)
    <3> HIDE DEF n, c
    <3>. QED BY <2>3, <2>4, NextTurn
  <2> DEFINE p == c % n
  <2>6. Pick = Best[p + 1] /\ Pick \in Nat
    <3>1. Pick = port[Best[p + 1]]
          BY DEF Pick
    <3> HIDE DEF n, c, p
    <3>2. p + 1 \in 1..n
          BY <2>3, <2>5 DEF p
    <3>. QED BY <2>3, <2>4, <3>1, <3>2
  <2>7. RouteType'
    <3>1. picks' \in Seq(Nat) /\ cursor' \in Nat
          BY <2>1, <2>4, <2>6
    <3>. QED BY <1>2, <3>1 DEF RouteInv, RouteType
  <2>8. FiguresBelongTogether'
    <3>1. /\ entry'.users = cached.users /\ entry'.max = cached.max
          /\ entry'.instances = IF autoscales THEN cached.joinable ELSE 0
          BY <2>1
    <3>. QED BY <1>2, <3>1 DEF RouteInv, Taken, FiguresBelongTogether
  <2>9. InTurn
        BY <2>2, FirstTurn DEF RouteInv
  <2>10. PICK s \in 0..(n - 1), r \in 0..(n - 1), q \in Nat : Even(n, c, NamedTies, s, r, q)
        BY <2>9 DEF InTurn
  <2>11. \A j \in 0..(n - 1) : NamedTies'[j] = IF j = p THEN NamedTies[j] + 1 ELSE NamedTies[j]
    <3> TAKE j \in 0..(n - 1)
    <3>1. j + 1 \in 1..n /\ p + 1 \in 1..n
      <4> HIDE DEF n, c, p
      <4>. QED BY <2>3, <2>5 DEF p
    <3>2. NamedTies[j] = Named(picks, Best[j + 1]) /\ NamedTies'[j] = Named(picks', Best[j + 1])
      <4>1. NamedTies[j] = Named(picks, port[Best[j + 1]])
            BY DEF NamedTies
      <4>2. NamedTies'[j] = Named(picks', port[Best[j + 1]])
            BY <1>2, <1>3 DEF NamedTies
      <4>. QED BY <2>3, <3>1, <4>1, <4>2
    <3>3. Best[j + 1] = Pick <=> j = p
      <4> HIDE DEF n, p
      <4>1. p \in 0..(n - 1)
            BY <2>5 DEF p
      <4>2. Best[j + 1] = Best[p + 1] => j + 1 = p + 1
            BY <2>3, <3>1
      <4>3. n \in Nat
            BY <2>3
      <4>4. j + 1 = p + 1 => j = p
            BY <4>1, <4>3
      <4>. QED BY <2>6, <4>2, <4>4
    <3>4. Named(picks', Best[j + 1]) = IF Best[j + 1] = Pick THEN Named(picks, Best[j + 1]) + 1
                                       ELSE Named(picks, Best[j + 1])
          BY <2>1, <2>4, <2>6, NamedFacts
    <3> HIDE DEF n, p
    <3>. QED BY <3>2, <3>3, <3>4
  <2>12. \E s1, r1 \in 0..(n - 1), q1 \in Nat : Even(n, c + 1, NamedTies', s1, r1, q1)
    <3> HIDE DEF n, c
    <3>. QED BY <2>3, <2>4, <2>10, <2>11, EvenStays
  <2>13. InTurn'
        BY <1>3, <2>1, <2>12 DEF InTurn
  <2>. QED BY <1>3, <1>4, <2>2, <2>7, <2>8, <2>13 DEF RouteInv
<1>. QED BY <1>5, <1>6

\* Show and Refresh, and a step that changes nothing.
LEMMA LooksKeep ==
  ASSUME RouteInv, UNCHANGED <<autoscales, insts, entry, picks, cursor>>, cached' \in {cached, Figures}
  PROVE  RouteInv'
<1>1. UNCHANGED <<autoscales, alive, port, life, players, capacity>>
      BY DEF insts
<1>2. Best' = Best /\ Pool' = Pool
      BY SameBest
<1>3. RouteType'
      BY <1>1 DEF RouteInv, RouteType
<1>4. Taken(cached)'
  <2>1. Taken(cached) /\ Taken(Figures)
        BY FiguresTaken DEF RouteInv
  <2>. QED BY <2>1 DEF Taken
<1>5. FiguresBelongTogether'
      BY DEF RouteInv, FiguresBelongTogether
<1>6. NamedTies' = NamedTies
      BY <1>1, <1>2 DEF NamedTies
<1>7. InTurn' <=> InTurn
      BY <1>2, <1>6 DEF InTurn
<1>. QED BY <1>2, <1>3, <1>4, <1>5, <1>7 DEF RouteInv

LEMMA ChangesKeep ==
  ASSUME RouteInv, NEW i \in Members,
         \/ Start(i) \/ UpdatePort(i) \/ Crash(i)
         \/ \E p \in Players, m \in Capacities : UpdateGameState(i, p, m)
         \/ \E l \in {"active", "draining", "terminating"} : SetLifecycle(i, l)
  PROVE  RouteInv'
<1>1. picks' = <<>> /\ UNCHANGED <<autoscales, cursor, entry>>
      BY DEF Start, UpdatePort, Crash, UpdateGameState, SetLifecycle, Change
<1>2. i \in Instances /\ i \in Nat
      BY MembersFacts
<1>3. PICK a, b \in Nat : /\ a <= b
                          /\ \/ UNCHANGED <<players, capacity>>
                             \/ players' = [players EXCEPT ![i] = a] /\ capacity' = [capacity EXCEPT ![i] = b]
  <2>1. CASE Start(i)
    <3>1. 0 \in Nat /\ 0 <= 0
          OBVIOUS
    <3>. QED BY <2>1, <3>1 DEF Start
  <2>2. CASE UpdatePort(i) \/ Crash(i) \/ \E l \in {"active", "draining", "terminating"} : SetLifecycle(i, l)
    <3>1. 0 \in Nat /\ 0 <= 0
          OBVIOUS
    <3>. QED BY <2>2, <3>1 DEF UpdatePort, Crash, SetLifecycle
  <2>3. ASSUME NEW p \in Players, NEW m \in Capacities, UpdateGameState(i, p, m)
        PROVE  \E a, b \in Nat : /\ a <= b
                                 /\ \/ UNCHANGED <<players, capacity>>
                                    \/ players' = [players EXCEPT ![i] = a] /\ capacity' = [capacity EXCEPT ![i] = b]
    <3>1. p \in Nat /\ m \in Nat /\ p <= m
          BY <2>3, PlayersFacts, SizeAssumption DEF UpdateGameState
    <3>. QED BY <2>3, <3>1 DEF UpdateGameState
  <2>. QED BY <2>1, <2>2, <2>3
<1>4. /\ players' \in [Instances -> Nat] /\ capacity' \in [Instances -> Nat]
      /\ \A j \in Instances : players'[j] <= capacity'[j]
  <2>1. /\ players \in [Instances -> Nat] /\ capacity \in [Instances -> Nat]
        /\ \A j \in Instances : players[j] <= capacity[j]
        BY DEF RouteInv, RouteType
  <2>2. CASE UNCHANGED <<players, capacity>>
        BY <2>1, <2>2
  <2>3. CASE players' = [players EXCEPT ![i] = a] /\ capacity' = [capacity EXCEPT ![i] = b]
    <3>1. players' \in [Instances -> Nat] /\ capacity' \in [Instances -> Nat]
          BY <1>2, <1>3, <2>1, <2>3
    <3>2. players'[i] = a /\ capacity'[i] = b
          BY <1>2, <2>1, <2>3
    <3>3. \A j \in Instances \ {i} : players'[j] = players[j] /\ capacity'[j] = capacity[j]
          BY <2>1, <2>3
    <3>. QED BY <1>3, <2>1, <3>1, <3>2, <3>3
  <2>. QED BY <1>3, <2>2, <2>3
<1>5. port' \in [Instances -> Nat] /\ \A j \in Instances : port'[j] \in {NoPort, j}
  <2>1. \/ port' = port \/ port' = [port EXCEPT ![i] = NoPort] \/ port' = [port EXCEPT ![i] = i]
        BY DEF Start, UpdatePort, Crash, UpdateGameState, SetLifecycle
  <2>. QED BY <1>2, <2>1 DEF RouteInv, RouteType, NoPort
<1>6. RouteType'
      BY <1>1, <1>4, <1>5 DEF RouteInv, RouteType
<1>7. Taken(cached')
  <2>1. cached' = cached \/ cached' = Figures \/ cached' = Figures'
        BY DEF Start, UpdatePort, Crash, UpdateGameState, SetLifecycle
  <2>2. Taken(cached) /\ Taken(Figures)
        BY FiguresTaken DEF RouteInv
  <2>3. Taken(Figures')
    <3>1. /\ Figures'.joinable = Cardinality(Joinable') /\ Figures'.users = Sum(players', Joinable')
          /\ Figures'.max = Sum(capacity', Joinable')
          BY DEF Figures, Sum
    <3>2. Joinable' \subseteq Instances
      <4>1. Members' \subseteq Instances
            BY <1>1, MembersFacts DEF Members
      <4>. QED BY <4>1 DEF Joinable
    <3>. QED BY <1>4, <3>1, <3>2, FiguresFacts
  <2>. QED BY <2>1, <2>2, <2>3
<1>8. FiguresBelongTogether'
      BY <1>1 DEF RouteInv, FiguresBelongTogether
<1>. QED BY <1>1, <1>6, <1>7, <1>8 DEF RouteInv, Taken

LEMMA RouteInvNext ==
  ASSUME RouteInv, [RouteNext]_routeVars
  PROVE  RouteInv'
<1>1. CASE List
      BY <1>1, ListKeeps
<1>2. CASE Show \/ Refresh \/ UNCHANGED routeVars
      BY <1>2, LooksKeep DEF Show, Refresh, routeVars, Advance
<1>3. ASSUME NEW i \in Members,
             \/ Start(i) \/ UpdatePort(i) \/ Crash(i)
             \/ \E p \in Players, m \in Capacities : UpdateGameState(i, p, m)
             \/ \E l \in {"active", "draining", "terminating"} : SetLifecycle(i, l)
      PROVE  RouteInv'
      BY <1>3, ChangesKeep
<1>. QED BY <1>1, <1>2, <1>3 DEF RouteNext

LEMMA RouteInvHolds == RouteSpec => []RouteInv
<1>1. RouteInit => RouteInv
      BY RouteInvInit
<1>2. RouteInv /\ [RouteNext]_routeVars => RouteInv'
      BY RouteInvNext
<1>. QED BY <1>1, <1>2, PTL DEF RouteSpec

\* pickServerInstanceLocked finds the least-loaded routable instances: comparing
\* each candidate with the first of the ties found so far loses none and keeps
\* no other, for any number of instances, in any order, any players, any seats.
THEOREM ScanIsExact == RouteSpec => []ScanFindsLeastLoaded
<1>1. RouteInv => ScanFindsLeastLoaded
      BY LoadsAreKnown, ScanFacts DEF RouteInv, ScanFindsLeastLoaded
<1>. QED BY <1>1, RouteInvHolds, PTL

\* The cursor shares ties out: as long as the instances stay as they are, no
\* tied instance is listed twice more than another, whatever the cursor was when
\* they came to be tied, and although listings for admins are in between.
THEOREM TiesAreShared == RouteSpec => []TiesTakeTurns
<1>1. RouteInv => TiesTakeTurns
  <2> SUFFICES ASSUME RouteInv, picks # <<>>,
                      NEW a \in LeastLoaded, NEW b \in LeastLoaded
               PROVE  Named(picks, port[a]) - Named(picks, port[b]) \in -1..1
      BY DEF TiesTakeTurns, Named
  <2>1. Pool # <<>> /\ InTurn /\ RouteType
        BY DEF RouteInv
  <2>2. Best \in Seq(Members) /\ ToSet(Best) = LeastLoaded
        BY <2>1, LoadsAreKnown, ScanFacts
  <2>3. Len(Best) \in Nat \ {0} /\ DOMAIN Best = 1..Len(Best)
        BY <2>1, <2>2, TiesListen
  <2> DEFINE n == Len(Best)
  <2>4. PICK s \in 0..(n - 1), r \in 0..(n - 1), q \in Nat : Even(n, cursor, NamedTies, s, r, q)
        BY <2>1 DEF InTurn
  <2>5. ASSUME NEW d \in LeastLoaded PROVE Named(picks, port[d]) \in {q, q + 1}
    <3>1. PICK k \in 1..n : d = Best[k]
          BY <2>2, <2>3 DEF ToSet
    <3>2. k - 1 \in 0..(n - 1) /\ (k - 1) + 1 = k
          BY <2>3
    <3>3. NamedTies[k - 1] = Named(picks, port[d])
          BY <3>1, <3>2 DEF NamedTies
    <3>4. NamedTies[k - 1] = q \/ NamedTies[k - 1] = q + 1
      <4> HIDE DEF n
      <4>. QED BY <2>4, <3>2 DEF Even
    <3>. QED BY <3>3, <3>4
  <2>6. Named(picks, port[a]) \in {q, q + 1} /\ Named(picks, port[b]) \in {q, q + 1}
        BY <2>5
  <2>. QED BY <2>6
<1>. QED BY <1>1, RouteInvHolds, PTL

\* serverListEntriesLocked lists figures that belong together: never more users
\* than seats and none on no instance, however old they are and whatever has
\* happened to the instances since refreshServerSnapshotLocked took them.
THEOREM FiguresAreTakenTogether == RouteSpec => []FiguresBelongTogether
<1>1. RouteInv => FiguresBelongTogether
      BY DEF RouteInv
<1>. QED BY <1>1, RouteInvHolds, PTL
=============================================================================
