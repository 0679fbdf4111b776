-------------------------------- MODULE Trunk --------------------------------
(***************************************************************************)
(* Tunnel sessions (trunk/): the VirtualIP allocator, the session registry *)
(* and, per session, the goroutines of Run (readLoop, writeLoop,           *)
(* udpReadLoop), the bounded tx queue and the teardown End, which any of   *)
(* the goroutines or an administrator may call and which runs once.        *)
(*                                                                         *)
(* A Session value is one *Session, used once.  Frames are counted, not    *)
(* named: tx is a FIFO channel and nothing looks inside a queued frame.    *)
(*                                                                         *)
(* reader: "none" not created, "bind" VIP allocated, "made" newSession     *)
(* returned, "read" in Run's readLoop, "end" in its call of End, "done"    *)
(* Run returned, "failed" newSession returned an error.                    *)
(* writer: "off", "loop", "drain", "done".                                 *)
(* udp: "off", "top", "recv", "send", "drop", "end", "done".               *)
(* end (the body of endOnce): "idle", "begun", "cancelled", "drain",       *)
(* "close", "release", "clear", "done".                                    *)
(***************************************************************************)
EXTENDS Naturals, Sequences, FiniteSets

CONSTANTS
  Sessions,   \* *Session values
  Sources,    \* source keys (client IPs)
  Source,     \* session -> its source key
  VIPs,       \* candidate 127.x.x.x addresses
  ServerIP,   \* the dedicated server's address, never handed out
  NoVIP,      \* [4]byte{}
  Probe,      \* source -> the candidates its probe hashes give, in order
  TxCap,      \* capacity of tx (1024)
  Loads       \* the loads to consider: the sessions that clients ask for, and
              \* the bound on the frames that servers and Nexus send each

ASSUME SourceAssumption == Source \in [Sessions -> Sources]
ASSUME ProbeAssumption == Probe \in [Sources -> Seq(VIPs \cup {ServerIP})]
ASSUME VIPAssumption   == ServerIP \notin VIPs /\ NoVIP \notin VIPs \cup {ServerIP}
ASSUME TxAssumption    == TxCap \in Nat \ {0}
ASSUME LoadAssumption  == Loads \subseteq [sessions : SUBSET Sessions, frames : Nat]

VARIABLES
  used,       \* allocator.used
  registry,   \* registry.sessions
  vip,        \* s.virtualIP
  reader, writer, udp,  \* the goroutines
  end,        \* the body of End
  evict,      \* an administrator holds s and is in s.End()
  cancelled,  \* s.ctx is cancelled
  sockOpen,   \* s.udpConn is open
  xportOpen,  \* the transport is open
  tx,         \* frames in s.tx
  owed,       \* of those, the ones queued before the context was cancelled
  sending,    \* a SendControl has passed its context check
  dropped,    \* s.txDropped
  frames,     \* datagrams received and control frames sent so far
  excused,    \* why queued frames may be lost: a write error, the drain
              \* deadline, End before Run; else "no"
  load        \* the load of this behaviour, which no step changes

threads == <<reader, writer, udp>>
queue   == <<tx, owed, sending, dropped, frames>>
conn    == <<cancelled, sockOpen, xportOpen, excused>>
alloc   == <<used, vip>>
sessionVars == <<alloc, registry, threads, end, evict, conn, queue>>
vars == <<sessionVars, load>>

Init ==
  /\ load \in Loads
  /\ used = {} /\ registry = {}
  /\ vip = [s \in Sessions |-> NoVIP]
  /\ reader = [s \in Sessions |-> "none"]
  /\ writer = [s \in Sessions |-> "off"]
  /\ udp = [s \in Sessions |-> "off"]
  /\ end = [s \in Sessions |-> "idle"]
  /\ evict = [s \in Sessions |-> FALSE]
  /\ cancelled = [s \in Sessions |-> FALSE]
  /\ sockOpen = [s \in Sessions |-> FALSE]
  /\ xportOpen = [s \in Sessions |-> TRUE]
  /\ excused = [s \in Sessions |-> "no"]
  /\ tx = [s \in Sessions |-> 0] /\ owed = [s \in Sessions |-> 0]
  /\ sending = [s \in Sessions |-> FALSE]
  /\ dropped = [s \in Sessions |-> 0] /\ frames = [s \in Sessions |-> 0]

Set(f, s, v) == [f EXCEPT ![s] = v]

-----------------------------------------------------------------------------
(* newSession *)

\* The probes of a source that alloc would accept now.
Free(src) ==
  {i \in 1..Len(Probe[src]) :
     Probe[src][i] # ServerIP /\ Probe[src][i] \notin used}

\* alloc: the first acceptable candidate, under the allocator's lock.
Alloc(s) ==
  /\ reader[s] = "none" /\ s \in load.sessions
  /\ \E first \in Free(Source[s]) :
       /\ \A i \in Free(Source[s]) : first <= i
       /\ used' = used \cup {Probe[Source[s]][first]}
       /\ vip' = Set(vip, s, Probe[Source[s]][first])
  /\ reader' = Set(reader, s, "bind")
  /\ UNCHANGED <<registry, writer, udp, end, evict, conn, queue>>

AllocFails(s) ==
  /\ reader[s] = "none" /\ s \in load.sessions
  /\ Free(Source[s]) = {}
  /\ reader' = Set(reader, s, "failed")
  /\ UNCHANGED <<alloc, registry, writer, udp, end, evict, conn, queue>>

Listen(s) ==
  /\ reader[s] = "bind"
  /\ sockOpen' = Set(sockOpen, s, TRUE)
  /\ registry' = registry \cup {s}
  /\ reader' = Set(reader, s, "made")
  /\ UNCHANGED <<alloc, writer, udp, end, evict, cancelled, xportOpen,
                 excused, queue>>

ListenFails(s) ==
  /\ reader[s] = "bind"
  /\ used' = used \ {vip[s]}
  /\ vip' = Set(vip, s, NoVIP)
  /\ reader' = Set(reader, s, "failed")
  /\ UNCHANGED <<registry, writer, udp, end, evict, conn, queue>>

-----------------------------------------------------------------------------
(* Run and the goroutines it starts *)

Run(s) ==
  /\ reader[s] = "made"
  /\ reader' = Set(reader, s, "read")
  /\ writer' = Set(writer, s, "loop")
  /\ udp' = Set(udp, s, "top")
  /\ UNCHANGED <<alloc, registry, end, evict, conn, queue>>

\* readLoop: ReadFrame fails (the client left, or the transport was closed).
ReadError(s) ==
  /\ reader[s] = "read"
  /\ reader' = Set(reader, s, "end")
  /\ UNCHANGED <<alloc, registry, writer, udp, end, evict, conn, queue>>

\* End returned; Run returns.
RunReturns(s) ==
  /\ reader[s] = "end" /\ end[s] = "done"
  /\ reader' = Set(reader, s, "done")
  /\ UNCHANGED <<alloc, registry, writer, udp, end, evict, conn, queue>>

Dequeue(s) ==
  /\ tx[s] > 0
  /\ tx' = Set(tx, s, tx[s] - 1)
  /\ owed' = Set(owed, s, IF owed[s] > 0 THEN owed[s] - 1 ELSE 0)

\* writeLoop or drainTx: one frame out.
WriteFrame(s) ==
  /\ writer[s] \in {"loop", "drain"} /\ xportOpen[s]
  /\ Dequeue(s)
  /\ UNCHANGED <<alloc, registry, threads, end, evict, conn, sending,
                 dropped, frames>>

\* Mutant: the failed write leaves the transport open, so readLoop stays
\* blocked in ReadFrame.
WriteError_keepsTransport(s) ==
  /\ writer[s] = "loop"
  /\ \/ Dequeue(s)
     \/ UNCHANGED <<tx, owed>>
  /\ cancelled' = Set(cancelled, s, TRUE)
  /\ excused' = Set(excused, s, "write")
  /\ writer' = Set(writer, s, "done")
  /\ UNCHANGED <<alloc, registry, reader, udp, end, evict, sockOpen,
                 xportOpen, sending, dropped, frames>>

\* writeLoop: a failed write or ping cancels, closes the transport and leaves.
WriteError(s) ==
  /\ writer[s] = "loop"
  /\ \/ Dequeue(s)
     \/ UNCHANGED <<tx, owed>>
  /\ cancelled' = Set(cancelled, s, TRUE)
  /\ xportOpen' = Set(xportOpen, s, FALSE)
  /\ excused' = Set(excused, s, "write")
  /\ writer' = Set(writer, s, "done")
  /\ UNCHANGED <<alloc, registry, reader, udp, end, evict, sockOpen,
                 sending, dropped, frames>>

SeesCancel(s) ==
  /\ writer[s] = "loop" /\ cancelled[s]
  /\ writer' = Set(writer, s, "drain")
  /\ UNCHANGED <<alloc, registry, reader, udp, end, evict, conn, queue>>

\* drainTx gives up on the first write error.
DrainError(s) ==
  /\ writer[s] = "drain"
  /\ Dequeue(s)
  /\ excused' = Set(excused, s, "write")
  /\ writer' = Set(writer, s, "done")
  /\ UNCHANGED <<alloc, registry, reader, udp, end, evict, cancelled,
                 sockOpen, xportOpen, sending, dropped, frames>>

\* Mutant: the drain stops without emptying the queue.
DrainDone_early(s) ==
  /\ writer[s] = "drain"
  /\ writer' = Set(writer, s, "done")
  /\ UNCHANGED <<alloc, registry, reader, udp, end, evict, conn, queue>>

\* drainTx: the queue is empty.
DrainDone(s) ==
  /\ writer[s] = "drain" /\ tx[s] = 0
  /\ writer' = Set(writer, s, "done")
  /\ UNCHANGED <<alloc, registry, reader, udp, end, evict, conn, queue>>

\* drainTx: sessionDrainDeadline has passed.
DrainExpires(s) ==
  /\ writer[s] = "drain"
  /\ excused' = Set(excused, s, "deadline")
  /\ writer' = Set(writer, s, "done")
  /\ UNCHANGED <<alloc, registry, reader, udp, end, evict, cancelled,
                 sockOpen, xportOpen, queue>>

\* Mutant: the queue has no capacity.
Enqueue_unbounded(s) ==
  /\ tx' = Set(tx, s, tx[s] + 1)
  /\ owed' = IF cancelled[s] THEN owed ELSE Set(owed, s, owed[s] + 1)

\* A select that can put a frame in tx.
Enqueue(s) ==
  /\ tx[s] < TxCap
  /\ tx' = Set(tx, s, tx[s] + 1)
  /\ owed' = IF cancelled[s] THEN owed ELSE Set(owed, s, owed[s] + 1)

\* udpReadLoop: the context check at the top of the loop.
UdpTop(s) ==
  /\ udp[s] = "top"
  /\ udp' = Set(udp, s, IF cancelled[s] THEN "done" ELSE "recv")
  /\ UNCHANGED <<alloc, registry, reader, writer, end, evict, conn, queue>>

\* A datagram, and sendFrame's context check.
UdpRecv(s) ==
  /\ udp[s] = "recv" /\ sockOpen[s] /\ frames[s] < load.frames
  /\ frames' = Set(frames, s, frames[s] + 1)
  /\ udp' = Set(udp, s, IF cancelled[s] THEN "top" ELSE "send")
  /\ UNCHANGED <<alloc, registry, reader, writer, end, evict, conn, tx,
                 owed, sending, dropped>>

\* ReadFrom fails: closed socket or a socket error other than ECONNREFUSED.
UdpError(s) ==
  /\ udp[s] = "recv"
  /\ udp' = Set(udp, s, "end")
  /\ UNCHANGED <<alloc, registry, reader, writer, end, evict, conn, queue>>

\* sendFrame's select: queue the frame, or see the cancelled context, or, only
\* when neither is possible, drop.
UdpSend(s) ==
  /\ udp[s] = "send"
  /\ \/ Enqueue(s) /\ udp' = Set(udp, s, "top")
     \/ cancelled[s] /\ udp' = Set(udp, s, "top") /\ UNCHANGED <<tx, owed>>
     \/ /\ tx[s] = TxCap /\ ~cancelled[s]
        /\ udp' = Set(udp, s, "drop") /\ UNCHANGED <<tx, owed>>
  /\ UNCHANGED <<alloc, registry, reader, writer, end, evict, conn, sending,
                 dropped, frames>>

\* The default branch counts the drop.
UdpDrop(s) ==
  /\ udp[s] = "drop"
  /\ dropped' = Set(dropped, s, dropped[s] + 1)
  /\ udp' = Set(udp, s, "top")
  /\ UNCHANGED <<alloc, registry, reader, writer, end, evict, conn, tx,
                 owed, sending, frames>>

UdpReturns(s) ==
  /\ udp[s] = "end" /\ end[s] = "done"
  /\ udp' = Set(udp, s, "done")
  /\ UNCHANGED <<alloc, registry, reader, writer, end, evict, conn, queue>>

-----------------------------------------------------------------------------
(* SendControl and TrySendControl *)

SendControl(s) ==
  /\ reader[s] \in {"made", "read"} /\ ~cancelled[s] /\ ~sending[s]
  /\ frames[s] < load.frames
  /\ frames' = Set(frames, s, frames[s] + 1)
  /\ sending' = Set(sending, s, TRUE)
  /\ UNCHANGED <<alloc, registry, threads, end, evict, conn, tx, owed,
                 dropped>>

\* The select: queued, or given up (full queue or ended session).
SendFinishes(s) ==
  /\ sending[s]
  /\ sending' = Set(sending, s, FALSE)
  /\ \/ Enqueue(s)
     \/ (tx[s] = TxCap \/ cancelled[s]) /\ UNCHANGED <<tx, owed>>
  /\ UNCHANGED <<alloc, registry, threads, end, evict, conn, dropped, frames>>

-----------------------------------------------------------------------------
(* End, in the order of its body *)

\* registry.endSession(v): the session registered under v, if any; its caller
\* then runs End on it.
EndSession(v) ==
  \E s \in registry :
    /\ vip[s] = v /\ ~evict[s]
    /\ evict' = Set(evict, s, TRUE)
    /\ UNCHANGED <<alloc, registry, threads, end, conn, queue>>

EvictReturns(s) ==
  /\ evict[s] /\ end[s] = "done"
  /\ evict' = Set(evict, s, FALSE)
  /\ UNCHANGED <<alloc, registry, threads, end, conn, queue>>

Calling(s) == reader[s] = "end" \/ udp[s] = "end" \/ evict[s]

EndBegin(s) ==
  /\ end[s] = "idle" /\ Calling(s)
  /\ end' = Set(end, s, "begun")
  /\ registry' = registry \ {s}
  /\ UNCHANGED <<alloc, threads, evict, conn, queue>>

EndCancel(s) ==
  /\ end[s] = "begun"
  /\ end' = Set(end, s, "cancelled")
  /\ cancelled' = Set(cancelled, s, TRUE)
  /\ UNCHANGED <<alloc, registry, threads, evict, sockOpen, xportOpen,
                 excused, queue>>

\* runStarted decides whether there is a drain to wait for.
EndAwait(s) ==
  /\ end[s] = "cancelled"
  /\ IF reader[s] = "made"
       THEN end' = Set(end, s, "close") /\ excused' = Set(excused, s, "unrun")
       ELSE end' = Set(end, s, "drain") /\ UNCHANGED excused
  /\ UNCHANGED <<alloc, registry, threads, evict, cancelled, sockOpen,
                 xportOpen, queue>>

\* writeLoopDone is closed, or the wait times out.
EndDrained(s) ==
  /\ end[s] = "drain"
  /\ \/ writer[s] = "done" /\ UNCHANGED excused
     \/ writer[s] # "done" /\ excused' = Set(excused, s, "deadline")
  /\ end' = Set(end, s, "close")
  /\ UNCHANGED <<alloc, registry, threads, evict, cancelled, sockOpen,
                 xportOpen, queue>>

\* Mutant: the address goes back to the pool before the socket is closed.
EndClose_releasesFirst(s) ==
  /\ end[s] = "close"
  /\ end' = Set(end, s, "release")
  /\ used' = used \ {vip[s]}
  /\ xportOpen' = Set(xportOpen, s, FALSE)
  /\ UNCHANGED <<vip, registry, threads, evict, cancelled, sockOpen,
                 excused, queue>>

EndClose(s) ==
  /\ end[s] = "close"
  /\ end' = Set(end, s, "release")
  /\ sockOpen' = Set(sockOpen, s, FALSE)
  /\ xportOpen' = Set(xportOpen, s, FALSE)
  /\ UNCHANGED <<alloc, registry, threads, evict, cancelled, excused, queue>>

\* Mutant: the slot is cleared on the session but stays in the pool.
EndRelease_leaks(s) ==
  /\ end[s] = "release"
  /\ end' = Set(end, s, "clear")
  /\ UNCHANGED <<alloc, registry, threads, evict, conn, queue>>

EndRelease(s) ==
  /\ end[s] = "release"
  /\ end' = Set(end, s, "clear")
  /\ used' = used \ {vip[s]}
  /\ UNCHANGED <<vip, registry, threads, evict, conn, queue>>

\* Mutant: the session keeps reporting the address it has released.
EndClear_keepsVIP(s) ==
  /\ end[s] = "clear"
  /\ end' = Set(end, s, "done")
  /\ UNCHANGED <<alloc, registry, threads, evict, conn, queue>>

\* s.virtualIP = [4]byte{}, and the drop count is read for the log.
EndClear(s) ==
  /\ end[s] = "clear"
  /\ end' = Set(end, s, "done")
  /\ vip' = Set(vip, s, NoVIP)
  /\ UNCHANGED <<used, registry, threads, evict, conn, queue>>

-----------------------------------------------------------------------------
NewSession(s) == Alloc(s) \/ AllocFails(s) \/ Listen(s) \/ ListenFails(s)

WriteLoop(s) ==
  \/ WriteFrame(s) \/ SeesCancel(s) \/ DrainDone(s)
  \/ WriteError(s) \/ DrainError(s) \/ DrainExpires(s)

UdpReadLoop(s) ==
  UdpTop(s) \/ UdpRecv(s) \/ UdpError(s) \/ UdpSend(s) \/ UdpDrop(s) \/ UdpReturns(s)

End(s) ==
  \/ EndBegin(s) \/ EndCancel(s) \/ EndAwait(s) \/ EndDrained(s)
  \/ EndClose(s) \/ EndRelease(s) \/ EndClear(s)

Control(s) == SendControl(s) \/ SendFinishes(s) \/ EvictReturns(s)

Next ==
  /\ \/ \E s \in Sessions :
          \/ NewSession(s) \/ Run(s) \/ ReadError(s) \/ RunReturns(s)
          \/ WriteLoop(s) \/ UdpReadLoop(s) \/ End(s) \/ Control(s)
     \/ \E v \in VIPs : EndSession(v)
  /\ UNCHANGED load

Safety == Init /\ [][Next]_vars

\* Goroutines that can run are scheduled; a blocked ReadFrame or ReadFrom
\* returns once its connection is closed; timers fire.
Fairness ==
  \A s \in Sessions :
    /\ WF_sessionVars(\/ NewSession(s) \/ Run(s) \/ RunReturns(s)
                      \/ ReadError(s) /\ ~xportOpen[s])
    /\ WF_sessionVars(\/ UdpTop(s) \/ UdpSend(s) \/ UdpDrop(s) \/ UdpReturns(s)
                      \/ UdpError(s) /\ ~sockOpen[s])
    /\ WF_sessionVars(WriteLoop(s)) /\ WF_sessionVars(End(s))
    /\ WF_sessionVars(Control(s))

Spec == Safety /\ Fairness

-----------------------------------------------------------------------------
(* Properties *)

TypeOK ==
  /\ used \in SUBSET VIPs /\ registry \in SUBSET Sessions
  /\ vip \in [Sessions -> VIPs \cup {NoVIP}]
  /\ reader \in [Sessions -> {"none", "bind", "made", "read", "end", "done",
                              "failed"}]
  /\ writer \in [Sessions -> {"off", "loop", "drain", "done"}]
  /\ udp \in [Sessions -> {"off", "top", "recv", "send", "drop", "end", "done"}]
  /\ end \in [Sessions -> {"idle", "begun", "cancelled", "drain", "close",
                           "release", "clear", "done"}]
  /\ evict \in [Sessions -> BOOLEAN] /\ cancelled \in [Sessions -> BOOLEAN]
  /\ sockOpen \in [Sessions -> BOOLEAN] /\ xportOpen \in [Sessions -> BOOLEAN]
  /\ sending \in [Sessions -> BOOLEAN]
  /\ excused \in [Sessions -> {"no", "write", "deadline", "unrun"}]
  /\ tx \in [Sessions -> 0..TxCap] /\ owed \in [Sessions -> 0..TxCap]
  /\ dropped \in [Sessions -> Nat] /\ frames \in [Sessions -> Nat]

\* A VirtualIP has one owner: no two open sockets are bound to it, and a lookup
\* of it in the registry (SessionByVirtualIP, EndSession) can find one session
\* only.
ExclusiveVIP ==
  \A s, t \in Sessions :
    s # t /\ ((sockOpen[s] /\ sockOpen[t]) \/ {s, t} \subseteq registry)
      => vip[s] # vip[t]

\* s has allocated its address and has not released it.
Holding(s) ==
  /\ reader[s] \notin {"none", "failed"}
  /\ end[s] \notin {"clear", "done"}

\* The pool holds exactly the addresses of the sessions that hold one, over
\* every path of newSession and End: nothing leaks and no release takes away
\* the address of another session.
PoolExact == used = {vip[s] : s \in {x \in Sessions : Holding(x)}}

\* "frames pushed via SendControl just before eviction are still delivered"
\* (End): when End closes the transport, a frame queued before the context was
\* cancelled is still in the queue only after a write error, a passed deadline
\* or an End before Run.
DrainDelivers ==
  \A s \in Sessions :
    end[s] \in {"close", "release", "clear", "done"} /\ excused[s] = "no"
      => owed[s] = 0

\* Where a session is, as its users see it.
State(s) ==
  CASE reader[s] \in {"none", "failed"} -> reader[s]
    [] reader[s] = "bind" -> "held"
    [] OTHER -> CASE end[s] = "idle"  -> "live"
                  [] end[s] = "clear" -> "released"
                  [] end[s] = "done"  -> "ended"
                  [] OTHER            -> "ending"

\* The trunk implements the table of sessions it promises its users.
Table == INSTANCE SessionTable
           WITH state <- [s \in Sessions |-> State(s)], addr <- vip
RefinesTable == Table!TableSpec

\* A cancelled session is torn down completely: Run returns, the goroutines
\* exit, the socket is closed and the address is back in the pool.
TeardownCompletes ==
  \A s \in Sessions :
    cancelled[s] ~> /\ reader[s] = "done" /\ writer[s] = "done"
                    /\ udp[s] = "done"
                    /\ ~sockOpen[s] /\ ~Holding(s)
=============================================================================
