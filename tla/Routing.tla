------------------------------- MODULE Routing -------------------------------
(***************************************************************************)
(* Which instance of a server a browsing player is sent to.  There is no   *)
(* proxy: the server list carries the port of one instance, chosen by      *)
(* pickServerInstanceLocked (orch/autoscale.go) each time a list is built  *)
(* (orch/slist.go), next to figures cached by refreshServerSnapshotLocked  *)
(* (orch/registry.go).                                                     *)
(*                                                                         *)
(* One server.  What starts, polls, drains and kills its instances is in   *)
(* Autoscale; here each of those events may happen to an instance at any   *)
(* time it is possible.  An instance listens on the port that is its name. *)
(***************************************************************************)
EXTENDS Integers, Sequences, FiniteSets, SequencesExt

CONSTANTS
  Insts,       \* the number of instances of a server that autoscales
  Capacities,  \* the values of maxplayers a reply may carry
  MaxPicks,    \* bound on the listings between two changes
  MaxChanges   \* bound on the changes

ASSUME SizeAssumption ==
  /\ Insts \in Nat \ {0} /\ MaxPicks \in Nat /\ MaxChanges \in Nat
  /\ Capacities \subseteq Nat \ {0} /\ Capacities # {}

Instances == 1..Insts
Players   == 0..(CHOOSE c \in Capacities : \A d \in Capacities : d <= c)

\* The sum of f over S, instance by instance.
Sum(f, S) ==
  LET sum[n \in 0..Insts] ==
        IF n = 0 THEN 0 ELSE sum[n - 1] + (IF n \in S THEN f[n] ELSE 0)
  IN sum[Insts]

\* Those of s that are in S, in the order of s.
Filter(s, S) ==
  LET kept[n \in 0..Len(s)] ==
        IF n = 0 THEN <<>>
        ELSE IF s[n] \in S THEN Append(kept[n - 1], s[n]) ELSE kept[n - 1]
  IN kept[Len(s)]


NoPort == 0

VARIABLES
  autoscales,  \* s.Autoscales
  alive,       \* instanceRunningLocked(rec)
  port,        \* recordListenPort(rec): NoPort until the banner is read
  life,        \* instanceState.Lifecycle
  players,     \* rec.Players
  capacity,    \* rec.MaxPlayers: 0 until the first reply
  cached,      \* s.aggregateInstances and the joinable* figures
  cursor,      \* s.RoundRobinCursor
  entry,       \* the last server-list entry built, or NoEntry
  picks,       \* the ports listed since the instances last changed
  changes      \* changes so far

insts == <<alive, port, life, players, capacity>>
routeVars == <<autoscales, insts, cached, cursor, entry, picks, changes>>

NoEntry == [port |-> NoPort, instances |-> 0, users |-> 0, max |-> 0]

\* s.InstanceIDs: a server that does not autoscale has one instance.
Members == IF autoscales THEN Instances ELSE {1}

-----------------------------------------------------------------------------
(* Candidates *)

\* serverRoutableCandidatesLocked, in the order of s.InstanceIDs.
Routable(i, lives) ==
  alive[i] /\ port[i] # NoPort /\ (autoscales => life[i] \in lives)

Candidates(allowDraining) ==
  LET lives == {"active"} \cup (IF allowDraining THEN {"draining"} ELSE {})
  IN Filter([i \in Members |-> i], {i \in Members : Routable(i, lives)})

HasRoom(i) == capacity[i] = 0 \/ players[i] < capacity[i]

WithFreeSlots(cands) == Filter(cands, {i \in Instances : HasRoom(i)})

\* Active instances with room; else draining ones are considered too.
Pool ==
  LET free == WithFreeSlots(Candidates(FALSE))
      all  == Candidates(TRUE)
  IN CASE free # <<>>                               -> free
       [] free = <<>> /\ WithFreeSlots(all) # <<>>  -> WithFreeSlots(all)
       [] OTHER                                     -> all

-----------------------------------------------------------------------------
(* pickServerInstanceLocked *)

AtLeastOne(n) == IF n > 1 THEN n ELSE 1

\* One turn of the scan: best is the list of candidates tied so far.
Better(best, i) ==
  LET ref   == Head(best)
      left  == players[i] * AtLeastOne(capacity[ref])
      right == players[ref] * AtLeastOne(capacity[i])
  IN CASE left < right \/ (left = right /\ players[i] < players[ref]) -> <<i>>
       [] left = right /\ players[i] = players[ref]                   -> Append(best, i)
       [] OTHER                                                       -> best

\* Mutant: the raw player count decides, whatever the capacities.
Best_byCount ==
  FoldLeft(LAMBDA best, i : CASE players[i] < players[Head(best)] -> <<i>>
                              [] players[i] = players[Head(best)] -> Append(best, i)
                              [] OTHER -> best,
           <<Head(Pool)>>, Tail(Pool))

Best ==
  LET pool == Pool
      scan[n \in 1..Len(pool)] ==
        IF n = 1 THEN <<pool[1]>> ELSE Better(scan[n - 1], pool[n])
  IN scan[Len(pool)]

Pick == port[Best[(cursor % Len(Best)) + 1]]

\* Mutant: the cursor stops at the last of the ties instead of wrapping.
Advance_stuck(advance) ==
  cursor' = IF advance /\ Len(Best) > 1 /\ cursor < Len(Best) - 1 THEN cursor + 1 ELSE cursor

Advance(advance) == cursor' = IF advance THEN cursor + 1 ELSE cursor

\* serverListEntriesLocked, for this server: no entry while nothing is known
\* to run or nothing can be picked.
Listed == cached.running # 0 /\ Pool # <<>>

List ==
  /\ Len(picks) < MaxPicks
  /\ IF Listed
       THEN /\ entry' = [port |-> Pick,
                         instances |-> IF autoscales THEN cached.joinable ELSE 0,
                         users |-> cached.users, max |-> cached.max]
            /\ picks' = Append(picks, Pick)
            /\ Advance(TRUE)
       ELSE entry' = NoEntry /\ UNCHANGED <<picks, cursor>>
  /\ UNCHANGED <<autoscales, insts, cached, changes>>

\* buildServerSnapshotLocked, for an admin's "server list": the pick is shown
\* and the cursor stays.
Show ==
  /\ Pool # <<>>
  /\ Advance(FALSE)
  /\ UNCHANGED <<autoscales, insts, cached, entry, picks, changes>>

-----------------------------------------------------------------------------
(* refreshServerSnapshotLocked *)

Joinable == {i \in Members : Routable(i, {"active"})}

\* Mutant: the users of every running instance next to the capacity of the
\* joinable ones.
Figures_mixed ==
  [running  |-> Cardinality({i \in Members : alive[i]}),
   joinable |-> Cardinality(Joinable),
   users    |-> Sum(players, {i \in Members : alive[i]}),
   max      |-> Sum(capacity, Joinable)]

Figures ==
  [running  |-> Cardinality({i \in Members : alive[i]}),
   joinable |-> Cardinality(Joinable),
   users    |-> Sum(players, Joinable),
   max      |-> Sum(capacity, Joinable)]

\* Every instance is up; some have shown their banner, of those some have
\* answered a poll, and autoscaling has moved these on.
Booted(i) ==
  /\ port[i] = NoPort => capacity[i] = 0
  /\ players[i] <= capacity[i]
  /\ capacity[i] = 0 => life[i] = "warming"
  /\ life[i] \in {"draining", "terminating"} => players[i] = 0

RouteInit ==
  /\ autoscales \in BOOLEAN
  /\ alive = [i \in Instances |-> i \in Members]
  /\ \E known \in SUBSET Members :
       port = [i \in Instances |-> IF i \in known THEN i ELSE NoPort]
  /\ life \in [Instances -> {"warming", "active", "draining", "terminating"}]
  /\ players \in [Instances -> Players]
  /\ capacity \in [Instances -> Capacities \cup {0}]
  /\ \A i \in Instances : Booted(i)
  /\ cached = Figures
  /\ cursor = 0 /\ entry = NoEntry /\ picks = <<>> /\ changes = 0

\* At every reconcile, and when a lifecycle is set or a record goes.
Refresh ==
  /\ cached' = Figures
  /\ UNCHANGED <<autoscales, insts, cursor, entry, picks, changes>>

-----------------------------------------------------------------------------
(* What happens to the instances *)

Change ==
  /\ changes < MaxChanges
  /\ changes' = changes + 1
  /\ picks' = <<>>
  /\ UNCHANGED <<autoscales, cursor, entry>>

\* startRecord: a process is recorded; its port comes from its banner.  The
\* figures are refreshed (resetServerInstanceState).
Start(i) ==
  /\ ~alive[i] /\ Change
  /\ alive' = [alive EXCEPT ![i] = TRUE]
  /\ port' = [port EXCEPT ![i] = NoPort]
  /\ life' = [life EXCEPT ![i] = "warming"]
  /\ players' = [players EXCEPT ![i] = 0]
  /\ capacity' = [capacity EXCEPT ![i] = 0]
  /\ cached' = Figures'

UpdatePort(i) ==
  /\ alive[i] /\ port[i] = NoPort /\ Change
  /\ port' = [port EXCEPT ![i] = i]
  /\ UNCHANGED <<alive, life, players, capacity, cached>>

\* updateGameState: a reply from the port.
UpdateGameState(i, p, m) ==
  /\ port[i] # NoPort /\ p <= m /\ Change
  /\ players' = [players EXCEPT ![i] = p]
  /\ capacity' = [capacity EXCEPT ![i] = m]
  /\ UNCHANGED <<alive, port, life, cached>>

\* decideServerActionsLocked refreshes the figures, then moves an instance
\* that has answered.
SetLifecycle(i, l) ==
  /\ autoscales /\ alive[i] /\ capacity[i] # 0 /\ life[i] # l /\ Change
  /\ l \in {"draining", "terminating"} => players[i] = 0
  /\ cached' = Figures
  /\ life' = [life EXCEPT ![i] = l]
  /\ UNCHANGED <<alive, port, players, capacity>>

Crash(i) ==
  /\ alive[i] /\ Change
  /\ alive' = [alive EXCEPT ![i] = FALSE]
  /\ UNCHANGED <<port, life, players, capacity, cached>>

RouteNext ==
  \/ List \/ Show \/ Refresh
  \/ \E i \in Members :
       \/ Start(i) \/ UpdatePort(i) \/ Crash(i)
       \/ \E p \in Players, m \in Capacities : UpdateGameState(i, p, m)
       \/ \E l \in {"active", "draining", "terminating"} : SetLifecycle(i, l)

RouteSpec == RouteInit /\ [][RouteNext]_routeVars

-----------------------------------------------------------------------------
(* Properties *)

\* The reference for a pick, stated without a scan: the instances of the best
\* tier that is not empty, and of those the ones no other beats by fill ratio
\* players / max(maxplayers, 1), then by player count.
Tier(n) ==
  {i \in Members :
     CASE n = 1 -> Routable(i, {"active"}) /\ HasRoom(i)
       [] n = 2 -> Routable(i, {"active", "draining"}) /\ HasRoom(i)
       [] n = 3 -> Routable(i, {"active", "draining"})}

LeastLoaded ==
  LET S == CASE Tier(1) # {} -> Tier(1)
             [] Tier(1) = {} /\ Tier(2) # {} -> Tier(2)
             [] OTHER -> Tier(3)
      load(i) == <<players[i], AtLeastOne(capacity[i])>>
      below(i, j) == \/ load(i)[1] * load(j)[2] < load(j)[1] * load(i)[2]
                     \/ /\ load(i)[1] * load(j)[2] = load(j)[1] * load(i)[2]
                        /\ players[i] < players[j]
  IN {i \in S : \A j \in S : ~below(j, i)}

\* The scan finds exactly the least-loaded routable instances (ARCHITECTURE.md:
\* "selects the least-loaded routable instance (fill ratio players/maxplayers,
\* round-robin tie-break)"): comparing each candidate with the first of the ties
\* found so far loses none, whatever the order of the instances.
ScanFindsLeastLoaded == Pool # <<>> => ToSet(Best) = LeastLoaded

\* Ties are shared out: while nothing changes, successive lists name the tied
\* instances in turn, and an admin looking at the list takes nobody's turn.
TiesTakeTurns ==
  \A i, j \in {port[k] : k \in LeastLoaded} :
    LET named(p) == Cardinality({k \in DOMAIN picks : picks[k] = p})
    IN picks # <<>> => named(i) - named(j) \in -1..1

\* "Advertise the joinable set so users/max/instances are consistent"
\* (serverListEntriesLocked): the figures of one entry belong together, however
\* stale they are: never more users than seats, and no users on no instance.
FiguresBelongTogether ==
  /\ entry.users <= entry.max
  /\ autoscales /\ entry.instances = 0 => entry.users = 0 /\ entry.max = 0
=============================================================================
