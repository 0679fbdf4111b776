-------------------------------- MODULE Orch --------------------------------
(***************************************************************************)
(* The server manager (orch/ops.go, launcher.go, registry.go, state.go):   *)
(* servers, their instance records and the processes behind them, under    *)
(* the goroutines that operate on them at the same time: main (StartAll at *)
(* boot, StopAll at shutdown), the admin requests, which the HTTP server   *)
(* accepts from before StartAll, and the autoscaler.  Every step below is  *)
(* one critical section of m.mu, or one call made between two of them.     *)
(*                                                                         *)
(* A server object is a *server; the registry maps a config line to the    *)
(* object registered last under it (ServerID is the line plus one).  Ids   *)
(* of objects, records and processes are allotted in order.                *)
(*                                                                         *)
(* A server's lifecycle states, counters and players are in Autoscale; the *)
(* slices of records that a start or a stop works through are sets here:   *)
(* they are ordered by listen port, which the system hands out in no       *)
(* particular order.                                                       *)
(***************************************************************************)
EXTENDS Integers, Sequences, FiniteSets, SequencesExt

CONSTANTS
  Admins,       \* admin requests in progress at the same time
  Scaler,       \* the autoscaling goroutine, a set of at most one thread
  ConfigLines,  \* number of servers planned by servers.ini
  MaxObjs, MaxRecs, MaxProcs,  \* bounds on servers, records and processes
  Ports,        \* UDP ports the processes listen on
  Ops,          \* the admin operations that are tried
  MaxOps        \* bound on operations begun

ASSUME OrchAssumption ==
  /\ {ConfigLines, MaxObjs, MaxRecs, MaxProcs, MaxOps} \subseteq Nat
  /\ Ports \subseteq Nat \ {0}
  /\ Ops \subseteq {"launch", "start", "stop", "restart", "remove"}
  /\ IsFiniteSet(Admins) /\ IsFiniteSet(Scaler)
  /\ "main" \notin Admins \cup Scaler /\ Admins \cap Scaler = {}

Main == "main"
Threads == {Main} \cup Admins \cup Scaler
Objs  == 1..MaxObjs
Recs  == 1..MaxRecs
Procs == 1..MaxProcs
Lines == 0..(MaxObjs + ConfigLines)
None  == 0

VARIABLES
  basedir,   \* runtimeBasedir is set
  table,     \* serversByID, by line: an object or None
  insts,     \* the objects' InstanceIDs
  owner,     \* serverByInstanceID
  known,     \* the keys of instancesByID
  running,   \* rec.Running: a process or None
  port,      \* rec.resolvedPort, None when unknown
  byPort,    \* instanceIDsByPort
  alive,     \* processes that run
  done,      \* processes whose exit waits in srv.done
  proc,      \* per process: what it is, NoProc when it was never started
  objs, recs, \* objects and records created so far
  pc, job,   \* the threads
  ops,       \* operations begun so far
  overlapped \* history: two operations were in progress at the same time

registry == <<table, insts, owner, known, objs, recs>>
ports    == <<port, byPort>>
os       == <<alive, done, proc>>
threads  == <<pc, job>>
vars     == <<basedir, registry, running, ports, os, threads, ops, overlapped>>

NoProc == [port |-> None, rec |-> None, told |-> TRUE]
NoJob  == [op |-> "none", target |-> 0, last |-> 0, line |-> 0, obj |-> None,
           rec |-> None, srv |-> None, todo |-> {}, failed |-> FALSE]

Init ==
  /\ basedir = TRUE
  /\ table = [l \in Lines |-> None]
  /\ insts = [o \in Objs |-> <<>>]
  /\ owner = [r \in Recs |-> None]
  /\ known = {}
  /\ running = [r \in Recs |-> None]
  /\ port = [r \in Recs |-> None] /\ byPort = [p \in Ports |-> {}]
  /\ alive = {} /\ done = {} /\ proc = [p \in Procs |-> NoProc]
  /\ objs = 0 /\ recs = 0
  /\ pc = [t \in Threads |-> IF t = Main THEN "boot" ELSE "idle"]
  /\ job = [t \in Threads |-> NoJob]
  /\ ops = 0 /\ overlapped = FALSE

-----------------------------------------------------------------------------
(* The registry *)

Used == {l \in Lines : table[l] # None}

\* serversLocked and findServerByIndexLocked: the servers by line, the target
\* a 1-based index into them.
At(target) ==
  CHOOSE l \in Used : Cardinality({k \in Used : k <= l}) = target
Found(target) == target \in 1..Cardinality(Used)

InstanceRunning(r) == running[r] \in alive

\* appendServerInstanceLocked, on the registry tbl.
AppendInstance(o, tbl) ==
  LET r == recs + 1 IN
  /\ recs < MaxRecs
  /\ table' = tbl
  /\ recs' = r
  /\ known' = known \cup {r}
  /\ owner' = [owner EXCEPT ![r] = o]
  /\ insts' = [insts EXCEPT ![o] = Append(@, r)]

Drop(idx, p, r) == IF p = None THEN idx ELSE [idx EXCEPT ![p] = @ \ {r}]

Without(seq, S) ==
  LET rest[n \in 0..Len(seq)] ==
        IF n = 0 THEN <<>>
        ELSE IF seq[n] \in S THEN rest[n - 1] ELSE Append(rest[n - 1], seq[n])
  IN rest[Len(seq)]

\* Mutant: the record stays in its server's list.
RemoveRecords_keepsList(S, tbl) ==
  LET gone == S \cap known IN
  /\ table' = tbl
  /\ known' = known \ gone
  /\ owner' = [r \in Recs |-> IF r \in gone THEN None ELSE owner[r]]
  /\ byPort' = [p \in Ports |-> byPort[p] \ {r \in gone : port[r] = p}]
  /\ UNCHANGED <<insts, objs, recs, port>>

\* removeServerRecordLocked for every record of S, the registry becoming tbl.
RemoveRecords(S, tbl) ==
  LET gone == S \cap known IN
  /\ table' = tbl
  /\ known' = known \ gone
  /\ owner' = [r \in Recs |-> IF r \in gone THEN None ELSE owner[r]]
  /\ insts' = [o \in Objs |-> Without(insts[o], {r \in gone : owner[r] = o})]
  /\ byPort' = [p \in Ports |-> byPort[p] \ {r \in gone : port[r] = p}]
  /\ UNCHANGED <<objs, recs, port>>

-----------------------------------------------------------------------------
(* Threads *)

Goto(t, at, j) == pc' = [pc EXCEPT ![t] = at] /\ job' = [job EXCEPT ![t] = j]

\* Where a thread goes when its operation on one target returns, with or
\* without an error: runServersAll goes on to the next target.
Return(t) ==
  LET j == job[t] IN
  IF j.target < j.last
    THEN Goto(t, IF j.op = "start" THEN "find" ELSE "capture",
              [j EXCEPT !.target = @ + 1, !.todo = {}])
    ELSE Goto(t, "idle", NoJob)

\* StopAll runs at shutdown, and when StartAll has failed.
StopsAll(t) == job[t].op \in {"stopall", "bootfail"}

\* The shutdown closes the listener: no request starts after it.
Serving == pc[Main] \notin {"shutdown", "closed"} /\ job[Main].op # "stopall"

\* A request arrives: for one target, or for all the servers listed now.
Begin(t) ==
  /\ t \in Admins /\ pc[t] = "idle" /\ Serving /\ ops < MaxOps
  /\ ops' = ops + 1
  /\ \E op \in Ops, target \in 1..Cardinality(Used), last \in {0, Cardinality(Used)} :
       /\ op \notin {"launch"}
       /\ last # 0 => target = 1 /\ op # "remove"
       /\ Goto(t, CASE op = "start"               -> "find"
                    [] op \in {"stop", "restart"} -> "capture"
                    [] op = "remove"              -> "remove",
               [NoJob EXCEPT !.op = op, !.target = target, !.last = last])
  /\ UNCHANGED <<basedir, registry, running, ports, os>>

\* LaunchServer: the runtime must be initialised.
BeginLaunch(t) ==
  /\ t \in Admins /\ pc[t] = "idle" /\ Serving /\ ops < MaxOps /\ "launch" \in Ops
  /\ basedir
  /\ ops' = ops + 1
  /\ Goto(t, "line", [NoJob EXCEPT !.op = "launch"])
  /\ UNCHANGED <<basedir, registry, running, ports, os>>

\* The autoscaler has decided to scale a server up, or to despawn an instance.
BeginScale(t) ==
  /\ t \in Scaler /\ pc[t] = "idle" /\ ops < MaxOps
  /\ pc[Main] = "serve"
  /\ ops' = ops + 1
  /\ \/ \E l \in Used : Goto(t, "append", [NoJob EXCEPT !.op = "replica", !.line = l])
     \/ \E r \in known : Goto(t, "despawn", [NoJob EXCEPT !.op = "despawn", !.rec = r])
  /\ UNCHANGED <<basedir, registry, running, ports, os>>

-----------------------------------------------------------------------------
(* LaunchServer, StartServer, launchServerReplica: getting a record to start *)

\* Mutant: the highest line in use is taken, not the one above it.
PickLine_max(t) ==
  /\ pc[t] = "line"
  /\ Goto(t, "register",
          [job[t] EXCEPT !.line = CHOOSE l \in Used \cup {0} : \A u \in Used : u <= l])
  /\ UNCHANGED <<basedir, registry, running, ports, os, ops>>

\* LaunchServer picks the line above the current maximum and unlocks.
PickLine(t) ==
  /\ pc[t] = "line"
  /\ Goto(t, "register",
          [job[t] EXCEPT !.line = CHOOSE l \in Lines :
             /\ \A u \in Used : u < l
             /\ l = 0 \/ l - 1 \in Used])
  /\ UNCHANGED <<basedir, registry, running, ports, os, ops>>

\* registerServerLaunch: a new server takes the line over.
RegisterLaunch(t) ==
  LET o == objs + 1 IN
  /\ pc[t] = "register" /\ objs < MaxObjs
  /\ objs' = o
  /\ AppendInstance(o, [table EXCEPT ![job[t].line] = o])
  /\ Goto(t, "start", [job[t] EXCEPT !.obj = o, !.todo = {recs + 1}])
  /\ UNCHANGED <<basedir, running, ports, os, ops>>

\* StartServer finds its server and the records of it.
Find(t) ==
  /\ pc[t] = "find"
  /\ IF ~Found(job[t].target)
       THEN Return(t)
       ELSE LET l == At(job[t].target) IN
            LET todo == ToSet(insts[table[l]]) \cap known IN
            Goto(t, IF todo = {} THEN "append" ELSE "start",
                 [job[t] EXCEPT !.line = l, !.obj = table[l], !.todo = todo])
  /\ UNCHANGED <<basedir, registry, running, ports, os, ops>>

\* A record is appended to the server that now has the line: StartServer of a
\* server without records, and registerServerReplicaInstance.
AppendRecord(t) ==
  /\ pc[t] = "append"
  /\ IF table[job[t].line] = None
       THEN Return(t) /\ UNCHANGED registry
       ELSE /\ AppendInstance(table[job[t].line], table)
            /\ Goto(t, "start", [job[t] EXCEPT !.todo = {recs + 1}])
            /\ UNCHANGED objs
  /\ UNCHANGED <<basedir, running, ports, os, ops>>

-----------------------------------------------------------------------------
(* startRecord *)

\* What a thread does when startRecord of r returns an error.
StartError(t, r) ==
  CASE job[t].op = "boot"    -> /\ Goto(t, "capture", [NoJob EXCEPT !.op = "bootfail"])
                                /\ UNCHANGED <<registry, byPort, port>>
    [] job[t].op = "replica" -> RemoveRecords({r}, table) /\ Return(t)
    [] OTHER                 -> Return(t) /\ UNCHANGED <<registry, byPort, port>>

\* errAlreadyRunning: StartServer goes on with its next record, the others
\* take it for an error.
AlreadyRunning(t, r) ==
  IF job[t].op \in {"start", "restart"}
    THEN /\ Goto(t, "start", [job[t] EXCEPT !.todo = @ \ {r}])
         /\ UNCHANGED <<registry, byPort, port>>
    ELSE StartError(t, r)

\* Mutant: the check that the record is not running is left out.
CheckRecord_unchecked(t) ==
  /\ pc[t] = "start"
  /\ \E r \in job[t].todo :
       IF ~basedir THEN StartError(t, r)
       ELSE /\ byPort' = Drop(byPort, port[r], r)
            /\ port' = [port EXCEPT ![r] = None]
            /\ Goto(t, "spawn", [job[t] EXCEPT !.rec = r, !.todo = @ \ {r}])
            /\ UNCHANGED registry
  /\ UNCHANGED <<basedir, running, os, ops>>

\* The checks, and the reset of what the last run resolved; then unlock.
CheckRecord(t) ==
  /\ pc[t] = "start"
  /\ \E r \in job[t].todo :
       IF ~basedir THEN StartError(t, r)
       ELSE IF InstanceRunning(r) THEN AlreadyRunning(t, r)
       ELSE /\ byPort' = Drop(byPort, port[r], r)
            /\ port' = [port EXCEPT ![r] = None]
            /\ Goto(t, "spawn", [job[t] EXCEPT !.rec = r, !.todo = @ \ {r}])
            /\ UNCHANGED registry
  /\ UNCHANGED <<basedir, running, os, ops>>

Free == Ports \ {proc[p].port : p \in alive}

\* startServer: the process runs, or did not start or exited at once.
Spawn(t) ==
  LET r == job[t].rec IN
  /\ pc[t] = "spawn"
  /\ \/ \E p \in Procs, n \in Free :
          /\ proc[p] = NoProc /\ \A q \in 1..(p - 1) : proc[q] # NoProc
          /\ proc' = [proc EXCEPT ![p] = [port |-> n, rec |-> r, told |-> FALSE]]
          /\ alive' = alive \cup {p}
          /\ Goto(t, "commit", [job[t] EXCEPT !.srv = p])
          /\ UNCHANGED <<done, running, registry, ports>>
     \/ /\ running' = [running EXCEPT ![r] = None]
        /\ StartError(t, r)
        /\ UNCHANGED <<alive, done, proc>>
  /\ UNCHANGED <<basedir, ops>>

\* The lock is taken again and the process recorded.
Commit(t) ==
  /\ pc[t] = "commit"
  /\ running' = [running EXCEPT ![job[t].rec] = job[t].srv]
  /\ Goto(t, "start", [job[t] EXCEPT !.rec = None, !.srv = None])
  /\ UNCHANGED <<basedir, registry, ports, os, ops>>

\* No record is left to start.
Started(t) ==
  /\ pc[t] = "start" /\ job[t].todo = {}
  /\ IF job[t].op = "boot"
       THEN Goto(t, "boot", [NoJob EXCEPT !.line = job[t].line + 1])
       ELSE Return(t)
  /\ UNCHANGED <<basedir, registry, running, ports, os, ops>>

-----------------------------------------------------------------------------
(* Processes *)

\* A process ends: it was told to, or on its own.
Exit(p) ==
  /\ p \in alive
  /\ alive' = alive \ {p} /\ done' = done \cup {p}
  /\ UNCHANGED <<basedir, registry, running, ports, proc, threads, ops>>

\* onPort: the console of a process has shown its port (assignPortLocked).
UpdatePort(p) ==
  LET r == proc[p].rec IN
  /\ ~proc[p].told
  /\ proc' = [proc EXCEPT ![p].told = TRUE]
  /\ IF port[r] # None THEN UNCHANGED ports
     ELSE /\ port' = [port EXCEPT ![r] = proc[p].port]
          /\ byPort' = [byPort EXCEPT ![proc[p].port] = @ \cup {r}]
  /\ UNCHANGED <<basedir, registry, running, alive, done, threads, ops>>

-----------------------------------------------------------------------------
(* StopServer, despawnServerInstance, StopAll *)

\* The entries to stop: each record with its process at this moment.
Entries(S) == {<<r, running[r]>> : r \in S}

\* StopServer finds its server; StopAll takes every recorded process.
Capture(t) ==
  LET j == job[t] IN
  /\ pc[t] = "capture"
  /\ CASE StopsAll(t) ->
            Goto(t, "stop", [j EXCEPT !.todo = Entries({r \in known : running[r] # None})])
       [] ~StopsAll(t) /\ ~Found(j.target) -> Return(t)
       [] OTHER ->
            LET o == table[At(j.target)] IN
            Goto(t, "stop", [j EXCEPT !.obj = o, !.todo = Entries(ToSet(insts[o]) \cap known)])
  /\ UNCHANGED <<basedir, registry, running, ports, os, ops>>

\* despawnServerInstance: not the last running one of its server.
Despawn(t) ==
  LET r == job[t].rec IN
  /\ pc[t] = "despawn"
  /\ IF /\ r \in known /\ InstanceRunning(r)
        /\ owner[r] # None
        /\ Cardinality({q \in ToSet(insts[owner[r]]) : InstanceRunning(q)}) > 1
       THEN Goto(t, "await", [job[t] EXCEPT !.srv = running[r]])
       ELSE Return(t)
  /\ UNCHANGED <<basedir, registry, running, ports, os, ops>>

\* The next entry: StopServer removes the record of a dead one at once.
NextEntry(t) ==
  LET j == job[t] IN
  /\ pc[t] = "stop"
  /\ \E e \in j.todo :
       LET k == [j EXCEPT !.rec = e[1], !.srv = e[2], !.todo = @ \ {e}] IN
       IF ~StopsAll(t) /\ e[2] \notin alive
         THEN RemoveRecords({e[1]}, table) /\ Goto(t, "stop", k)
         ELSE Goto(t, "await", k) /\ UNCHANGED <<registry, ports>>
  /\ UNCHANGED <<basedir, running, os, ops>>

\* stopServer returns: the exit was awaited and the record cleared, unless it
\* has another process by now; or the wait gave up.
AwaitExit(t) ==
  LET j == job[t] IN
  /\ pc[t] = "await"
  /\ j.srv \in done
  /\ done' = done \ {j.srv}
  /\ running' = [running EXCEPT ![j.rec] = IF @ = j.srv THEN None ELSE @]
  /\ Goto(t, IF StopsAll(t) THEN "stop" ELSE "forget", j)
  /\ UNCHANGED <<basedir, registry, ports, alive, proc, ops>>

GiveUp(t) ==
  /\ pc[t] = "await"
  /\ IF StopsAll(t)
       THEN Goto(t, "stop", [job[t] EXCEPT !.failed = TRUE])
       ELSE Return(t)
  /\ UNCHANGED <<basedir, registry, running, ports, os, ops>>

\* Mutant: a server goes from the registry with its last record.
Forget_dropsServer(t) ==
  LET j == job[t] IN
  /\ pc[t] = "forget"
  /\ RemoveRecords({j.rec}, [l \in Lines |->
        IF table[l] # None /\ ToSet(insts[table[l]]) = {j.rec} THEN None ELSE table[l]])
  /\ IF j.op = "despawn" THEN Return(t) ELSE Goto(t, "stop", j)
  /\ UNCHANGED <<basedir, running, os, ops>>

\* The record of a stopped process is removed.
Forget(t) ==
  LET j == job[t] IN
  /\ pc[t] = "forget"
  /\ IF j.op = "despawn" /\ owner[j.rec] = None
       THEN UNCHANGED <<registry, ports>>
       ELSE RemoveRecords({j.rec}, table)
  /\ IF j.op = "despawn" THEN Return(t) ELSE Goto(t, "stop", j)
  /\ UNCHANGED <<basedir, running, os, ops>>

\* Mutant: entries that are left are not waited for.
Stopped_early(t) ==
  /\ pc[t] = "stop"
  /\ CASE StopsAll(t)             -> Goto(t, "close", job[t])
       [] job[t].op = "restart" -> Goto(t, "find", job[t])
       [] OTHER                 -> Return(t)
  /\ UNCHANGED <<basedir, registry, running, ports, os, ops>>

\* No entry is left.  RestartServer now calls StartServer with the target it
\* was given.
Stopped(t) ==
  /\ pc[t] = "stop" /\ job[t].todo = {}
  /\ CASE StopsAll(t)             -> Goto(t, "close", job[t])
       [] job[t].op = "restart" -> Goto(t, "find", job[t])
       [] OTHER                 -> Return(t)
  /\ UNCHANGED <<basedir, registry, running, ports, os, ops>>

-----------------------------------------------------------------------------
(* RemoveServer *)

\* The records it gets to before one that runs.
Cleared(o) ==
  {r \in ToSet(insts[o]) :
     \A i, k \in DOMAIN insts[o] :
       insts[o][i] = r /\ k <= i => ~InstanceRunning(insts[o][k])}

RemoveServer(t) ==
  /\ pc[t] = "remove"
  /\ IF ~Found(job[t].target)
       THEN UNCHANGED <<registry, running, ports>>
       ELSE LET l == At(job[t].target) IN
            LET o == table[l] IN
            LET all == ToSet(insts[o]) IN
            /\ running' = [r \in Recs |-> IF r \in Cleared(o) THEN None ELSE running[r]]
            /\ RemoveRecords(Cleared(o),
                             IF Cleared(o) = all THEN [table EXCEPT ![l] = None] ELSE table)
  /\ Return(t)
  /\ UNCHANGED <<basedir, os, ops>>

-----------------------------------------------------------------------------
(* main *)

\* StartAll: the next planned server is registered; after the last, serve.
Boot ==
  LET l == job[Main].line IN
  /\ pc[Main] = "boot"
  /\ IF l < ConfigLines
       THEN Goto(Main, "register", [NoJob EXCEPT !.op = "boot", !.line = l])
       ELSE Goto(Main, "serve", NoJob)
  /\ UNCHANGED <<basedir, registry, running, ports, os, ops>>

\* A signal: the poller's context is cancelled and its socket closed.
Shutdown ==
  /\ pc[Main] = "serve"
  /\ Goto(Main, "shutdown", NoJob)
  /\ UNCHANGED <<basedir, registry, running, ports, os, ops>>

\* server.Shutdown has waited for the requests in progress; nothing waits for
\* the autoscaler.
Drained ==
  /\ pc[Main] = "shutdown"
  /\ \A t \in Admins : pc[t] = "idle"
  /\ Goto(Main, "capture", [NoJob EXCEPT !.op = "stopall"])
  /\ UNCHANGED <<basedir, registry, running, ports, os, ops>>

\* The end of StopAll: the runtime directory goes and closeServerRegistry
\* empties the registry.
Close ==
  /\ pc[Main] = "close"
  /\ basedir' = FALSE
  /\ table' = [l \in Lines |-> None] /\ owner' = [r \in Recs |-> None]
  /\ pc' = [pc EXCEPT ![Main] = "closed"]
  /\ UNCHANGED <<insts, known, objs, recs, running, ports, os, job, ops>>

-----------------------------------------------------------------------------
Step(t) ==
  \/ Begin(t) \/ BeginLaunch(t) \/ BeginScale(t)
  \/ PickLine(t) \/ RegisterLaunch(t) \/ Find(t) \/ AppendRecord(t)
  \/ CheckRecord(t) \/ Spawn(t) \/ Commit(t) \/ Started(t)
  \/ Capture(t) \/ Despawn(t) \/ NextEntry(t) \/ AwaitExit(t) \/ GiveUp(t)
  \/ Forget(t) \/ Stopped(t) \/ RemoveServer(t)

\* In the middle of something; main, once it serves, only waits for a signal
\* and then for the requests.
Busy == {t \in Threads : pc[t] \notin {"idle", "serve", "shutdown", "closed"}}

Next ==
  /\ \/ \E t \in Threads : Step(t)
     \/ \E p \in Procs : Exit(p) \/ UpdatePort(p)
     \/ Boot \/ Shutdown \/ Drained \/ Close
  /\ overlapped' = (overlapped \/ Cardinality(Busy') > 1)

Spec == Init /\ [][Next]_vars

-----------------------------------------------------------------------------
(* Properties *)

\* The three maps of the registry agree whatever operations interleave: the
\* instances of a registered server are known and belong to it, once each, and
\* an instance that has a server is in that server's list; and instanceIDsByPort,
\* which routes server-info replies and console commands to records, never names
\* a record under a port that is not its own, although a process may report its
\* port late, to a record that was restarted or removed.
IndexesAgree ==
  /\ \A l \in Used :
       LET s == insts[table[l]] IN
       IsInjective(s) /\ \A r \in ToSet(s) : r \in known /\ owner[r] = table[l]
  /\ \A r \in Recs :
       owner[r] # None => r \in known /\ r \in ToSet(insts[owner[r]])
  /\ \A n \in Ports : \A r \in byPort[n] : port[r] = n

\* The process a thread has started and not recorded yet.
Starting == {job[t].srv : t \in {u \in Threads : pc[u] = "commit"}}

\* Every process that runs can be found and stopped: it is recorded by a known
\* record, or about to be (startRecord, StopServer, RemoveServer), as long as no
\* two operations have overlapped.
NoOrphan ==
  ~overlapped =>
    \A p \in alive : p \in Starting \/ \E r \in known : running[r] = p

\* An instance record belongs to a server of the registry as long as it is
\* known: StopServer, RemoveServer and the server list reach every instance,
\* as long as no two operations have overlapped.  "Unique per server: each
\* config line registers one server, and a runtime-launched server takes the
\* next line number above the current max."
Reachable ==
  ~overlapped =>
    \A r \in known : owner[r] # None => \E l \in Used : table[l] = owner[r]

\* "StopAll gracefully stops all running servers": when it has returned, and
\* no wait of its own gave up, no server process runs and none can appear,
\* as long as nothing else was under way meanwhile.
NothingLeftRunning ==
  pc[Main] = "closed" /\ ~job[Main].failed /\ ~overlapped => alive = {}

\* RestartServer starts the server it has stopped, although it looks its index
\* up twice, as long as nothing else is under way ("the registry index is the
\* only stable identifier").
RestartsTheSame ==
  [][\A t \in Threads :
       (/\ pc[t] = "find" /\ pc'[t] \in {"append", "start"}
        /\ job[t].op = "restart" /\ ~overlapped)
         => job'[t].obj = job[t].obj]_vars
=============================================================================
