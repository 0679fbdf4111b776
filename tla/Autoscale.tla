------------------------------ MODULE Autoscale ------------------------------
(***************************************************************************)
(* Autoscaling of one "-port 0" server (orch/autoscale.go): the decision   *)
(* taken under the manager's lock (decideServerActionsLocked) and the work *)
(* done after unlocking it (launchServerReplica, despawnServerInstance) by *)
(* the two goroutines that reconcile: the poll loop, on every tick, and    *)
(* the read loop, on every server-info reply (updateGameState).            *)
(*                                                                         *)
(* An instance id stands for its record.  Ids are never reused by the      *)
(* code; here an id nobody refers to any more may come back, which no step *)
(* can tell from a new one.                                                *)
(*                                                                         *)
(* proc:  "none" Running is nil, "up" the process lives, "dead" it has     *)
(*        exited and nobody has noticed.                                   *)
(* pc:    "idle", "decide", "launch", "start", "finish", "fail",           *)
(*        "despawn", "stop".                                               *)
(***************************************************************************)
EXTENDS Integers, Sequences, FiniteSets, SequencesExt

CONSTANTS
  Ids,           \* instance ids, a set of naturals
  MaxInstances,  \* serverMaxInstances (SV_MAX_INSTANCES)
  Cap,           \* maxplayers of every instance
  Headroom,      \* demandMinFreeSlots
  DespawnPolls,  \* despawnZeroPolls
  MaxCrashes     \* bound on process crashes

ASSUME IdsAssumption == Ids \subseteq Nat /\ Ids # {}
ASSUME SizeAssumption ==
  /\ MaxInstances \in Nat \ {0} /\ Cap \in Nat \ {0} /\ Headroom \in Nat
  /\ DespawnPolls \in Nat \ {0} /\ MaxCrashes \in Nat

Reconcilers == {"poll", "read"}

None == -1

VARIABLES
  order,     \* s.InstanceIDs
  proc,      \* the process behind rec.Running
  life,      \* instanceState.Lifecycle
  streak,    \* instanceState.ZeroPollStreak
  seen,      \* rec.LastSeen is set (Players and MaxPlayers are known)
  players,   \* rec.Players
  present,   \* players really on the instance
  reply,     \* a server-info reply in flight: its player count, or None
  inFlight,  \* s.ScaleUpInFlight
  cooling,   \* now - s.LastScaleUpAt < scaleUpCooldown
  pc,        \* control of each reconciler
  up, down,  \* what its decision left it to do: scale up; despawn an id
  crashes    \* crashes so far

records == <<order, proc, life, streak, seen, players>>
game    == <<present, reply, crashes>>
scale   == <<inFlight, cooling>>
work    == <<pc, up, down>>
vars    == <<records, game, scale, work>>

First == CHOOSE i \in Ids : \A j \in Ids : i <= j

Init ==
  /\ order = <<First>>
  /\ proc = [i \in Ids |-> IF i = First THEN "up" ELSE "none"]
  /\ life = [i \in Ids |-> "warming"]
  /\ streak = [i \in Ids |-> 0]
  /\ seen = [i \in Ids |-> FALSE]
  /\ players = [i \in Ids |-> 0]
  /\ present = [i \in Ids |-> 0]
  /\ reply = [i \in Ids |-> None]
  /\ inFlight = FALSE /\ cooling = FALSE
  /\ pc = [r \in Reconcilers |-> "idle"]
  /\ up = [r \in Reconcilers |-> FALSE]
  /\ down = [r \in Reconcilers |-> None]
  /\ crashes = 0

Listed  == ToSet(order)
Running == {i \in Listed : proc[i] = "up"}
Sum(f, S) == FoldSet(LAMBDA i, n : f[i] + n, 0, S)

\* The aggregates of refreshServerSnapshotLocked that the decision reads.
AggregateUsers    == Sum(players, Running)
AggregateMaxUsers == Cap * Cardinality({i \in Running : seen[i]})
FreeSlots == IF AggregateMaxUsers > AggregateUsers
               THEN AggregateMaxUsers - AggregateUsers ELSE 0
Joinable  == {i \in Running : life[i] = "active"}

-----------------------------------------------------------------------------
(* Players, processes and server-info replies *)

Join(i) ==
  /\ proc[i] = "up" /\ present[i] < Cap
  /\ present' = [present EXCEPT ![i] = @ + 1]
  /\ UNCHANGED <<records, reply, crashes, scale, work>>

Leave(i) ==
  /\ present[i] > 0
  /\ present' = [present EXCEPT ![i] = @ - 1]
  /\ UNCHANGED <<records, reply, crashes, scale, work>>

Crash(i) ==
  /\ proc[i] = "up" /\ crashes < MaxCrashes
  /\ crashes' = crashes + 1
  /\ proc' = [proc EXCEPT ![i] = "dead"]
  /\ present' = [present EXCEPT ![i] = 0]
  /\ UNCHANGED <<order, life, streak, seen, players, reply, scale, pc, up, down>>

\* A process answers a poll; the answer waits in the poller's socket.
Reply(i) ==
  /\ proc[i] = "up" /\ reply[i] = None
  /\ reply' = [reply EXCEPT ![i] = present[i]]
  /\ UNCHANGED <<records, present, crashes, scale, work>>

\* updateGameState applies it; the same goroutine then reconciles.
UpdateGameState(i) ==
  /\ pc["read"] = "idle" /\ reply[i] # None
  /\ reply' = [reply EXCEPT ![i] = None]
  /\ IF i \in Listed
       THEN /\ players' = [players EXCEPT ![i] = reply[i]]
            /\ seen' = [seen EXCEPT ![i] = TRUE]
            /\ pc' = [pc EXCEPT !["read"] = "decide"]
       ELSE UNCHANGED <<players, seen, pc>>
  /\ UNCHANGED <<order, proc, life, streak, present, crashes, scale, up, down>>

\* pollLoop: reconcileAllServers.
Tick ==
  /\ pc["poll"] = "idle"
  /\ pc' = [pc EXCEPT !["poll"] = "decide"]
  /\ UNCHANGED <<records, game, scale, up, down>>

CooldownEnds ==
  /\ cooling
  /\ cooling' = FALSE
  /\ UNCHANGED <<records, game, inFlight, work>>

-----------------------------------------------------------------------------
(* decideServerActionsLocked *)

\* The loop's accumulator: lifecycles, streaks, the running count of active
\* routable instances and the instance chosen for despawn.
SetLife(acc, i, next) ==
  [acc EXCEPT
     !.life[i] = next,
     !.active = @ + (IF next = "active" THEN 1 ELSE 0)
                  - (IF acc.life[i] = "active" THEN 1 ELSE 0)]

Settle(acc, i, next) == [SetLife(acc, i, next) EXCEPT !.streak[i] = 0]

\* Mutant: the last joinable instance may drain too.
CanDrain_last(acc, i) ==
  /\ FreeSlots - Cap >= Headroom
  /\ inFlight => acc.life[i] = "draining"

CanDrain(acc, i) ==
  /\ acc.active > 1
  /\ FreeSlots - Cap >= Headroom
  /\ inFlight => acc.life[i] = "draining"

Drain(acc, i) ==
  LET d == [SetLife(acc, i, "draining") EXCEPT !.streak[i] = @ + 1]
  IN IF d.streak[i] >= DespawnPolls /\ acc.down = None
       THEN [Settle(d, i, "terminating") EXCEPT !.down = i]
       ELSE d

\* One instance of the loop.
Visit(acc, i) ==
  IF i \notin Running \/ acc.life[i] = "terminating" THEN acc
  ELSE IF ~seen[i] THEN Settle(acc, i, "warming")
  ELSE IF players[i] = 0 /\ CanDrain(acc, i) THEN Drain(acc, i)
  ELSE Settle(acc, i, "active")

\* The loop, after k instances.
SweepTo[k \in 0..Len(order)] ==
  IF k = 0 THEN [life |-> life, streak |-> streak,
                 active |-> Cardinality(Joinable), down |-> None]
           ELSE Visit(SweepTo[k - 1], order[k])

Sweep == SweepTo[Len(order)]

\* Mutant: an off-by-one in the instance cap.
NeedsReplica_offByOne ==
  /\ AggregateMaxUsers > 0 /\ FreeSlots < Headroom
  /\ ~inFlight /\ ~cooling
  /\ Cardinality(Running) <= MaxInstances

NeedsReplica ==
  /\ AggregateMaxUsers > 0 /\ FreeSlots < Headroom
  /\ ~inFlight /\ ~cooling
  /\ Cardinality(Running) < MaxInstances

Decide(r) ==
  /\ pc[r] = "decide"
  /\ life' = Sweep.life /\ streak' = Sweep.streak
  /\ up' = [up EXCEPT ![r] = NeedsReplica]
  /\ down' = [down EXCEPT ![r] = Sweep.down]
  /\ inFlight' = (inFlight \/ NeedsReplica)
  /\ pc' = [pc EXCEPT ![r] = IF NeedsReplica THEN "launch"
                             ELSE IF Sweep.down # None THEN "despawn" ELSE "idle"]
  /\ UNCHANGED <<order, proc, seen, players, game, cooling>>

-----------------------------------------------------------------------------
(* launchServerReplica *)

\* After the launches come the despawns of the same reconcile.
Afterwards(r) == IF down[r] # None THEN "despawn" ELSE "idle"

Fresh == Ids \ (Listed \cup {down[r] : r \in Reconcilers}
                       \cup {i \in Ids : reply[i] # None})

\* registerServerReplicaInstance: append a warming record.
Register(r) ==
  /\ pc[r] = "launch" /\ inFlight
  /\ \E i \in Fresh :
       /\ \A j \in Fresh : i <= j
       /\ order' = Append(order, i)
  /\ pc' = [pc EXCEPT ![r] = "start"]
  /\ UNCHANGED <<proc, life, streak, seen, players, game, scale, up, down>>

\* removeServerRecordLocked: the record goes, and its id, which is listed once,
\* is as good as new.
RemoveRecord(i) ==
  /\ order' = RemoveFirst(order, i)
  /\ life' = [life EXCEPT ![i] = "warming"]
  /\ streak' = [streak EXCEPT ![i] = 0]
  /\ seen' = [seen EXCEPT ![i] = FALSE]
  /\ players' = [players EXCEPT ![i] = 0]

\* The record r is launching: the last one, as nobody else appends meanwhile.
Launched == Last(order)

\* startRecord: the process is up and recorded, or did not start.
Start(r) ==
  /\ pc[r] = "start"
  /\ \/ /\ proc' = [proc EXCEPT ![Launched] = "up"]
        /\ pc' = [pc EXCEPT ![r] = "finish"]
     \/ /\ pc' = [pc EXCEPT ![r] = "fail"]
        /\ UNCHANGED proc
  /\ UNCHANGED <<order, life, streak, seen, players, game, scale, up, down>>

Finish(r) ==
  /\ pc[r] = "finish"
  /\ inFlight' = FALSE /\ cooling' = TRUE
  /\ up' = [up EXCEPT ![r] = FALSE]
  /\ pc' = [pc EXCEPT ![r] = Afterwards(r)]
  /\ UNCHANGED <<records, game, down>>

\* The start failed: the mark is cleared and the record removed, with no
\* cooldown.
StartFailed(r) ==
  /\ pc[r] = "fail"
  /\ inFlight' = FALSE
  /\ RemoveRecord(Launched)
  /\ up' = [up EXCEPT ![r] = FALSE]
  /\ pc' = [pc EXCEPT ![r] = Afterwards(r)]
  /\ UNCHANGED <<proc, game, cooling, down>>

-----------------------------------------------------------------------------
(* despawnServerInstance *)

SetInstanceLife(i, next) ==
  IF i \in Listed
    THEN life' = [life EXCEPT ![i] = next] /\ streak' = [streak EXCEPT ![i] = 0]
    ELSE UNCHANGED <<life, streak>>

Idle(r) == pc' = [pc EXCEPT ![r] = "idle"] /\ down' = [down EXCEPT ![r] = None]

\* The checks, under the lock: still running, and not the last one running.
Despawn(r) ==
  LET i == down[r] IN
  /\ pc[r] = "despawn"
  /\ CASE i \notin Running ->
            SetInstanceLife(i, "warming") /\ Idle(r)
       [] i \in Running /\ Cardinality(Running) <= 1 ->
            SetInstanceLife(i, "active") /\ Idle(r)
       [] OTHER ->
            /\ pc' = [pc EXCEPT ![r] = "stop"]
            /\ UNCHANGED <<life, streak, down>>
  /\ UNCHANGED <<order, proc, seen, players, game, scale, up>>

\* Mutant: an instance that would not stop stays marked as terminating.
Stop_staysTerminating(r) ==
  LET i == down[r] IN
  /\ pc[r] = "stop"
  /\ Idle(r)
  /\ \/ /\ proc' = [proc EXCEPT ![i] = "none"]
        /\ present' = [present EXCEPT ![i] = 0]
        /\ RemoveRecord(i)
     \/ UNCHANGED <<records, present>>
  /\ UNCHANGED <<reply, crashes, scale, up>>

\* stopServer, outside the lock, and what follows it: the record is removed,
\* or, when the process would not go in time, goes back to active.
Stop(r) ==
  LET i == down[r] IN
  /\ pc[r] = "stop"
  /\ Idle(r)
  /\ \/ /\ proc' = [proc EXCEPT ![i] = "none"]
        /\ present' = [present EXCEPT ![i] = 0]
        /\ RemoveRecord(i)
     \/ /\ SetInstanceLife(i, "active")
        /\ UNCHANGED <<proc, present, order, seen, players>>
  /\ UNCHANGED <<reply, crashes, scale, up>>

-----------------------------------------------------------------------------
Launch(r) == Register(r) \/ Start(r) \/ Finish(r) \/ StartFailed(r)
Step(r)   == Decide(r) \/ Launch(r) \/ Despawn(r) \/ Stop(r)

Next ==
  \/ \E i \in Ids : Join(i) \/ Leave(i) \/ Crash(i) \/ Reply(i) \/ UpdateGameState(i)
  \/ Tick \/ CooldownEnds
  \/ \E r \in Reconcilers : Step(r)

Spec == Init /\ [][Next]_vars

-----------------------------------------------------------------------------
(* Properties *)

\* SV_MAX_INSTANCES holds although the count is read before the replica is
\* started and two goroutines decide: in-flight launches are one at a time.
CapRespected == Cardinality(Running) <= MaxInstances

\* The marks of autoscaling have owners: ScaleUpInFlight is set exactly while one
\* reconciler is launching, so it cannot be left set (no replica would ever start
\* again) and two launches cannot overlap; and an instance marked terminating is
\* one a reconciler is about to stop, never left in limbo, where no player is
\* routed to it and no reconcile looks at it again, whatever fails or races.
MarksOwned ==
  /\ Cardinality({r \in Reconcilers : pc[r] \in {"launch", "start", "finish", "fail"}})
       = (IF inFlight THEN 1 ELSE 0)
  /\ \A i \in Running :
       life[i] = "terminating" => \E r \in Reconcilers : down[r] = i /\ pc[r] # "idle"

\* "The last running instance of a server is never despawned" (the guard of
\* despawnServerInstance, evaluated before the stop): an instance that
\* autoscaling is stopping is not the last one running, whatever the other
\* reconciler does in between, as long as no process has crashed.
LastNeverDespawned ==
  \A r \in Reconcilers :
    pc[r] = "stop" /\ down[r] \in Running /\ crashes = 0
      => Running \ {down[r]} # {}
=============================================================================
