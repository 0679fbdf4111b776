------------------------------- MODULE Startup -------------------------------
(***************************************************************************)
(* How one instance record comes up (orch/launcher.go, console.go,         *)
(* state.go, manager.go): startRecord clears what the last run resolved,   *)
(* starts the process and records it; beside it run the goroutines of the  *)
(* new process: the reader of its console, the startup monitor, which asks *)
(* for the search path and the port when it sees the banner, the relay of  *)
(* the console, the startup timer; and the poller, whose first answer      *)
(* makes the record known as online.                                       *)
(*                                                                         *)
(* A run is one process of the record, and the state below is that of the  *)
(* last one.  Of an earlier run, which is dead, only what can still touch  *)
(* the record is kept: the callbacks its monitor will make, and its timer. *)
(* The PTY and the reader's own steps are in Console: here a line is read  *)
(* and published as it is printed, and the suppressed echo is swallowed.   *)
(* Of the lines for the relay only the marker is kept, and a full channel  *)
(* may lose it; a line counts as relayed when the relay's filter keeps it. *)
(*                                                                         *)
(* A line is <<kind, number>>: "banner", "echo" (of what was written),     *)
(* "head" (Current search path:), "dir" n, "port" p, "online" (the marker).*)
(*                                                                         *)
(* op, who starts and stops the record: "idle", "spawn", "check",          *)
(* "commit", "stop" (Orch has several such threads; one is enough here).   *)
(* mon.pc: "off", "new" (not yet subscribed), "recv", "path", "port"       *)
(* (about to write the command), "call" (a callback is due), "done".       *)
(***************************************************************************)
EXTENDS Naturals, Sequences, FiniteSets, SequencesExt

CONSTANTS
  Loads   \* the cases to consider: the ports that the processes of the record are
          \* given, in order (how many is the bound on the runs), the length of
          \* the search path they print, the capacity of the monitor's channel
          \* (256), and whether the relay gets to listen

ASSUME StartupAssumption ==
  \A l \in Loads : /\ l.ports \in Seq(Nat \ {0}) /\ {l.dirs, l.cap} \subseteq Nat \ {0}
                  /\ l.relay \in BOOLEAN

Runs  == UNION {DOMAIN l.ports : l \in Loads}
Ports == UNION {{l.ports[r] : r \in DOMAIN l.ports} : l \in Loads}
None  == 0

VARIABLES
  load,     \* the case, which no step changes
  op,
  gen,      \* processes started so far: the last run
  rec,      \* the record
  indexed,  \* the ports under which instanceIDsByPort has the record
  alive, port,  \* the process, and the port it listens on
  says,     \* lines it is about to print
  input,    \* commands written to it
  reader,   \* console.run: "off", "read", "done"
  subs,     \* the console's subscribers, "mon" and "rel"
  chan,     \* the monitor's channel
  owed,     \* the marker is in the relay's channel
  mon, rel, \* the monitor and the relay
  armed,    \* runs whose startup timer has not fired
  late,     \* the callbacks to come of the monitors of earlier runs
  replies,  \* ports of which an answer to the poller is under way
  mark,     \* the run that updateGameState is about to write the marker to
  online, warned, announced,  \* of this run: heard of; warned about; marker relayed
  marked,   \* its marker was written with the relay listening
  lost,     \* a full channel refused one of its lines
  stale     \* a callback of an earlier run has changed the record

record  == <<op, gen, rec, indexed>>
process == <<alive, port, says, input>>
console == <<reader, subs, chan, owed>>
tasks   == <<mon, rel, armed, late>>
polling == <<replies, mark>>
history == <<online, warned, announced, marked, lost, stale>>
startRun == <<record, process, console, tasks, polling, history>>
startVars == <<startRun, load>>

Banner == <<<<"banner", 0>>>>
Path == [i \in 1..load.dirs |-> i]

NoMon == [pc |-> "off", path |-> FALSE, port |-> FALSE, gotPath |-> FALSE,
          gotPort |-> FALSE, collecting |-> FALSE, entries |-> <<>>, calls |-> <<>>]

StartInit ==
  /\ load \in Loads
  /\ op = "idle" /\ gen = 0 /\ indexed = {}
  /\ rec = [running |-> None, port |-> None, path |-> <<>>, awaiting |-> FALSE,
            ready |-> FALSE, timedOut |-> FALSE]
  /\ alive = FALSE /\ port = None /\ says = <<>> /\ input = <<>>
  /\ reader = "off" /\ subs = {} /\ chan = <<>> /\ owed = FALSE
  /\ mon = NoMon /\ rel = "off" /\ armed = {} /\ late = [r \in Runs |-> <<>>]
  /\ replies = {} /\ mark = None
  /\ online = FALSE /\ warned = FALSE /\ announced = FALSE /\ marked = FALSE
  /\ lost = FALSE /\ stale = FALSE

InstanceRunning == rec.running = gen /\ alive

-----------------------------------------------------------------------------
(* The process and its console *)

\* What a command prints.
Output(cmd) ==
  CASE cmd = "path" -> <<<<"head", 0>>>> \o [i \in 1..load.dirs |-> <<"dir", i>>]
    [] cmd = "port" -> <<<<"port", port>>>>
    [] OTHER        -> <<<<"online", 0>>>>

\* run, publishLine: every subscriber gets the line; a full channel loses it.
Publish(l) ==
  \E full \in SUBSET subs :
    /\ "rel" \in full => l[1] = "online"
    /\ "mon" \in subs => ("mon" \in full <=> Len(chan) = load.cap)
    /\ chan' = IF "mon" \in subs \ full THEN Append(chan, l) ELSE chan
    /\ owed' = (owed \/ ("rel" \in subs \ full /\ l[1] = "online"))
    /\ lost' = (lost \/ full # {})

\* The process prints a line, or takes the next command.
Emit ==
  /\ alive /\ says # <<>>
  /\ says' = Tail(says)
  /\ Publish(Head(says))
  /\ UNCHANGED <<record, alive, port, input, reader, subs, tasks, polling, online, warned,
                 announced, marked, stale>>

Execute ==
  /\ alive /\ says = <<>> /\ input # <<>>
  /\ says' = Output(Head(input)) /\ input' = Tail(input)
  /\ UNCHANGED <<record, alive, port, console, tasks, polling, history>>

Die ==
  /\ alive
  /\ alive' = FALSE /\ says' = <<>> /\ input' = <<>>
  /\ UNCHANGED <<record, port, console, tasks, polling, history>>

\* Mutant: the channels stay open.
ReaderEnds_open ==
  /\ reader = "read" /\ ~alive
  /\ reader' = "done"
  /\ UNCHANGED <<record, process, subs, chan, owed, tasks, polling, history>>

\* The process is gone and the PTY closed; run returns and closeSubscribers
\* closes the channels.
ReaderEnds ==
  /\ reader = "read" /\ ~alive
  /\ reader' = "done"
  /\ subs' = {}
  /\ UNCHANGED <<record, process, chan, owed, tasks, polling, history>>

\* writeCommand: the PTY takes the command, which a dead process ignores; it
\* is closed once the reader is done.
Write(cmd) ==
  /\ reader = "read"
  /\ input' = IF alive THEN Append(input, cmd) ELSE input

-----------------------------------------------------------------------------
(* monitorServerStartup *)

\* Also when the reader has already ended: nobody closes the channel then.
MonSubscribe ==
  /\ mon.pc = "new"
  /\ mon' = [mon EXCEPT !.pc = "recv"]
  /\ subs' = subs \cup {"mon"}
  /\ UNCHANGED <<record, process, reader, chan, owed, rel, armed, late, polling, history>>

\* What the monitor makes of a line l: the port first, then the path, which
\* ends at the first line that is not of it.
Parsed(m, l) ==
  LET port1 == m.port /\ ~m.gotPort /\ l[1] = "port"
      path1 == m.path /\ ~m.gotPath
      ends  == path1 /\ m.collecting /\ l[1] # "dir" /\ m.entries # <<>>
  IN [m EXCEPT
        !.calls = @ \o (IF port1 THEN <<<<"port", l[2]>>>> ELSE <<>>)
                    \o (IF ends THEN <<<<"path", m.entries>>>> ELSE <<>>),
        !.gotPort = @ \/ port1,
        !.gotPath = @ \/ ends,
        !.collecting = IF ~path1 THEN @ ELSE IF @ THEN l[1] = "dir" ELSE l[1] = "head",
        !.entries = IF ends \/ ~path1 THEN <<>>
                    ELSE IF m.collecting /\ l[1] = "dir" THEN Append(@, l[2]) ELSE @]

\* The channel is closed: the directories it has are the path.
Closing(m) ==
  IF m.collecting /\ ~m.gotPath /\ m.entries # <<>>
    THEN [m EXCEPT !.gotPath = TRUE, !.calls = Append(@, <<"path", m.entries>>)]
    ELSE m

HasBoth == mon.gotPort /\ mon.gotPath

At(m) == [m EXCEPT !.pc = IF m.calls # <<>> THEN "call" ELSE "recv"]

\* One line; the banner makes it write "path" and "port", each once.
MonReceive ==
  /\ mon.pc = "recv" /\ ~HasBoth /\ chan # <<>>
  /\ chan' = Tail(chan)
  /\ mon' = IF Head(chan)[1] = "banner" THEN [mon EXCEPT !.pc = "path"]
                                        ELSE At(Parsed(mon, Head(chan)))
  /\ UNCHANGED <<record, process, reader, subs, owed, rel, armed, late, polling, history>>

\* The echo of the command comes back at once, in the middle of whatever the
\* process is printing.  A command that cannot be written is not requested.
MonWrite ==
  /\ mon.pc \in {"path", "port"}
  /\ \/ /\ Write(mon.pc)
        /\ Publish(<<"echo", 0>>)
        /\ mon' = IF mon.pc = "path" THEN [mon EXCEPT !.pc = "port", !.path = TRUE]
                                     ELSE [mon EXCEPT !.pc = "recv", !.port = TRUE]
     \/ /\ reader = "done"
        /\ mon' = [mon EXCEPT !.pc = IF @ = "path" THEN "port" ELSE "recv"]
        /\ UNCHANGED <<input, chan, owed, lost>>
  /\ UNCHANGED <<record, alive, port, says, reader, subs, rel, armed, late, polling,
                 online, warned, announced, marked, stale>>

\* updatePort and updateSearchPathNormalized write to the record, whatever run
\* it is in by now; a port that is known stays (assignPortLocked).
Callback(c) ==
  IF c[1] = "port"
    THEN /\ rec' = IF rec.port = None THEN [rec EXCEPT !.port = c[2]] ELSE rec
         /\ indexed' = IF rec.port = None THEN indexed \cup {c[2]} ELSE indexed
    ELSE rec' = [rec EXCEPT !.path = c[2]] /\ UNCHANGED indexed

MonCall ==
  /\ mon.pc = "call"
  /\ Callback(Head(mon.calls))
  /\ mon' = At([mon EXCEPT !.calls = Tail(@)])
  /\ stale' = (stale \/ (op = "spawn" /\ rec' # rec))
  /\ UNCHANGED <<op, gen, process, console, rel, armed, late, polling, online, warned,
                 announced, marked, lost>>

\* The monitor of run r, an earlier one.
LateCall(r) ==
  /\ late[r] # <<>>
  /\ Callback(Head(late[r]))
  /\ late' = [late EXCEPT ![r] = Tail(@)]
  /\ stale' = (stale \/ rec' # rec)
  /\ UNCHANGED <<op, gen, process, console, mon, rel, armed, polling, online, warned,
                 announced, marked, lost>>

\* Mutant: either answer is enough.
MonReturns_either ==
  /\ mon.pc = "recv" /\ (mon.gotPort \/ mon.gotPath)
  /\ mon' = [NoMon EXCEPT !.pc = "done"]
  /\ subs' = subs \ {"mon"} /\ chan' = <<>>
  /\ UNCHANGED <<record, process, reader, owed, rel, armed, late, polling, history>>

\* It has both answers, and cancels its subscription ...
MonReturns ==
  /\ mon.pc = "recv" /\ HasBoth
  /\ mon' = [NoMon EXCEPT !.pc = "done"]
  /\ subs' = subs \ {"mon"} /\ chan' = <<>>
  /\ UNCHANGED <<record, process, reader, owed, rel, armed, late, polling, history>>

\* ... or the channel is closed.
MonClosed ==
  /\ mon.pc = "recv" /\ ~HasBoth /\ "mon" \notin subs /\ chan = <<>>
  /\ mon' = IF Closing(mon) # mon THEN At(Closing(mon)) ELSE [NoMon EXCEPT !.pc = "done"]
  /\ UNCHANGED <<record, process, console, rel, armed, late, polling, history>>

-----------------------------------------------------------------------------
(* startRecord, startServer, stopServer *)

\* Mutant: the port of the last run is not cleared.
Clear_keepsPort ==
  /\ op = "idle" /\ gen < Len(load.ports) /\ ~InstanceRunning
  /\ rec' = [rec EXCEPT !.path = <<>>]
  /\ op' = "spawn" /\ stale' = FALSE
  /\ UNCHANGED <<gen, indexed, process, console, tasks, polling, online, warned, announced,
                 marked, lost>>

\* Under the lock: not running, and what the last run resolved is forgotten.
Clear ==
  /\ op = "idle" /\ gen < Len(load.ports) /\ ~InstanceRunning
  /\ indexed' = indexed \ {rec.port}
  /\ rec' = [rec EXCEPT !.port = None, !.path = <<>>]
  /\ op' = "spawn" /\ stale' = FALSE
  /\ UNCHANGED <<gen, process, console, tasks, polling, online, warned, announced, marked,
                 lost>>

\* What the monitor of a dead run will still call.
Remaining ==
  LET read[i \in 0..Len(chan)] == IF i = 0 THEN mon ELSE Parsed(read[i - 1], chan[i])
  IN Closing(read[Len(chan)]).calls

\* The process is started, with the goroutines of its console.
Spawn ==
  /\ op = "spawn"
  /\ gen' = gen + 1 /\ op' = "check"
  /\ late' = IF gen = 0 THEN late ELSE [late EXCEPT ![gen] = Remaining]
  /\ alive' = TRUE /\ port' = load.ports[gen'] /\ says' = Banner /\ input' = <<>>
  /\ reader' = "read" /\ subs' = {} /\ chan' = <<>> /\ owed' = FALSE
  /\ mon' = [NoMon EXCEPT !.pc = "new"] /\ rel' = "off"
  /\ online' = FALSE /\ warned' = FALSE /\ announced' = FALSE /\ marked' = FALSE
  /\ lost' = FALSE
  /\ UNCHANGED <<rec, indexed, armed, polling, stale>>

\* resetRecordStartupState
NotRunning(r) ==
  [r EXCEPT !.running = None, !.awaiting = FALSE, !.ready = FALSE, !.timedOut = FALSE]

\* 50 ms later it runs, or startServer waits for its end and returns an error.
Check ==
  /\ op = "check"
  /\ \/ alive /\ op' = "commit" /\ UNCHANGED rec
     \/ ~alive /\ reader = "done" /\ op' = "idle" /\ rec' = NotRunning(rec)
  /\ UNCHANGED <<gen, indexed, process, console, tasks, polling, history>>

\* Mutant: the mark of an earlier warning is kept.
Commit_keepsMark ==
  /\ op = "commit" /\ op' = "idle"
  /\ rec' = [rec EXCEPT !.running = gen, !.awaiting = TRUE, !.ready = FALSE]
  /\ rel' = "new" /\ armed' = armed \cup {gen}
  /\ UNCHANGED <<gen, indexed, process, console, mon, late, polling, history>>

\* Under the lock again: the process is the record's, and awaits an answer;
\* then the relay and the timer start.
Commit ==
  /\ op = "commit" /\ op' = "idle"
  /\ rec' = [rec EXCEPT !.running = gen, !.awaiting = TRUE, !.ready = FALSE,
                        !.timedOut = FALSE]
  /\ rel' = "new" /\ armed' = armed \cup {gen}
  /\ UNCHANGED <<gen, indexed, process, console, mon, late, polling, history>>

\* stopServer tells the process and waits for it to be gone (srv.done) ...
Stop ==
  /\ op = "idle" /\ InstanceRunning
  /\ op' = "stop"
  /\ UNCHANGED <<gen, rec, indexed, process, console, tasks, polling, history>>

\* ... then the record is not running (clearRunning).
ClearRunning ==
  /\ op = "stop" /\ reader = "done"
  /\ op' = "idle" /\ rec' = NotRunning(rec)
  /\ UNCHANGED <<gen, indexed, process, console, tasks, polling, history>>

-----------------------------------------------------------------------------
(* relayServerConsoleToNexus, monitorServerStartupTimeout *)

RelSubscribe ==
  /\ rel = "new" /\ load.relay
  /\ rel' = "recv"
  /\ subs' = subs \cup {"rel"}
  /\ UNCHANGED <<record, process, reader, chan, owed, mon, armed, late, polling, history>>

\* The marker, if serverConsoleRelayEnabled says so.
RelReceive ==
  /\ rel = "recv" /\ owed
  /\ owed' = FALSE
  /\ announced' = (announced \/ (rec.running = gen /\ rec.ready))
  /\ UNCHANGED <<record, process, reader, subs, chan, tasks, polling, online, warned,
                 marked, lost, stale>>

RelClosed ==
  /\ rel = "recv" /\ "rel" \notin subs /\ ~owed
  /\ rel' = "done"
  /\ UNCHANGED <<record, process, console, mon, armed, late, polling, history>>

Timeout(r) ==
  /\ r \in armed
  /\ armed' = armed \ {r}
  /\ IF rec.running = r /\ rec.awaiting /\ ~rec.timedOut
       THEN rec' = [rec EXCEPT !.timedOut = TRUE] /\ warned' = (warned \/ r = gen)
       ELSE UNCHANGED <<rec, warned>>
  /\ UNCHANGED <<op, gen, indexed, process, console, mon, rel, late, polling, online,
                 announced, marked, lost, stale>>

-----------------------------------------------------------------------------
(* The poller and updateGameState *)

\* pollLoop asks a port of a running record; who listens there answers once it
\* is past its start.
Poll ==
  /\ InstanceRunning /\ port \in indexed \ replies /\ says # Banner
  /\ replies' = replies \cup {port}
  /\ UNCHANGED <<record, process, console, tasks, mark, history>>

\* Under the lock: the record is online and its console is relayed; the marker
\* is written after the unlock.
UpdateGameState(p) ==
  /\ p \in replies /\ mark = None
  /\ replies' = replies \ {p}
  /\ IF p \in indexed /\ rec.running # None /\ rec.awaiting
       THEN /\ rec' = [rec EXCEPT !.awaiting = FALSE, !.ready = TRUE]
            /\ mark' = rec.running /\ online' = (online \/ rec.running = gen)
       ELSE UNCHANGED <<rec, mark, online>>
  /\ UNCHANGED <<op, gen, indexed, process, console, tasks, warned, announced, marked,
                 lost, stale>>

\* writeCommandWithOptions, with its echo suppressed; the console of an earlier
\* run is closed.
WriteMarker ==
  /\ mark # None
  /\ mark' = None
  /\ \/ mark = gen /\ Write("online") /\ marked' = (marked \/ "rel" \in subs)
     \/ (mark # gen \/ reader = "done") /\ UNCHANGED <<input, marked>>
  /\ UNCHANGED <<record, alive, port, says, console, tasks, replies, online, warned,
                 announced, lost, stale>>

-----------------------------------------------------------------------------
Operator == Clear \/ Spawn \/ Check \/ Commit \/ Stop \/ ClearRunning
Process == Emit \/ Execute
Monitor == \/ MonSubscribe \/ MonReceive \/ MonWrite \/ MonCall \/ MonReturns \/ MonClosed
Relay   == RelSubscribe \/ RelReceive \/ RelClosed
Poller  == Poll \/ WriteMarker \/ \E p \in Ports : UpdateGameState(p)

StartNext ==
  /\ \/ Operator \/ Process \/ Die \/ ReaderEnds \/ Monitor \/ Relay \/ Poller
     \/ \E r \in Runs : LateCall(r) \/ Timeout(r)
  /\ UNCHANGED load

\* The goroutines are scheduled, the timer fires, the poller ticks, and a
\* process that lives serves its console.  Nobody has to start, stop or crash,
\* but a start that has begun is carried through.
Fairness ==
  /\ WF_startRun(Process \/ ReaderEnds) /\ WF_startRun(Monitor) /\ WF_startRun(Relay)
  /\ WF_startRun(Poller) /\ WF_startRun(Spawn \/ Check \/ Commit)
  /\ WF_startRun(\E r \in Runs : Timeout(r))

StartSpec == StartInit /\ [][StartNext]_startVars /\ Fairness

-----------------------------------------------------------------------------
(* Properties *)

\* startRecord clears the old port "so that assignPortLocked will accept the new
\* port": unless a callback of the run before came in after that, the record has
\* no port or the one its process listens on, is found under it alone, and its
\* search path starts as the process printed it, also when the echo of the
\* second command cut the listing short.
ResolvedIsOwn ==
  op # "spawn" /\ ~stale =>
    /\ rec.port \in {None, port}
    /\ indexed = {rec.port} \ {None}
    /\ ~lost => IsPrefix(rec.path, Path)

\* Coming online takes the monitor, the process, the record and the poller: a
\* record whose monitor saw the banner is heard of, unless the process ends, a
\* line is lost or the port of an earlier run got in the way; and the marker of
\* it reaches the operators' console, if the relay listened when it was written.
ComesOnline ==
  /\ (rec.running = gen /\ mon.path) ~> (online \/ ~alive \/ rec.running # gen \/ lost \/ stale)
  /\ marked ~> (announced \/ ~alive \/ rec.running # gen \/ lost)

\* Nobody waits for a start without a word (monitorServerStartupTimeout): it
\* goes online or is stopped, or the operator is warned, in every run.
StartSettles ==
  (rec.running = gen /\ rec.awaiting) ~> (online \/ warned \/ rec.running # gen)

\* closeSubscribers ends the goroutines that read a console: a monitor or a
\* relay that subscribed before the reader ended does not wait for ever (it is
\* replaced when the next process is alive).
ListenersEnd ==
  /\ (reader = "read" /\ "mon" \in subs /\ ~alive) ~> (alive \/ mon.pc = "done")
  /\ (reader = "read" /\ "rel" \in subs /\ ~alive) ~> (alive \/ rel = "done")
=============================================================================
