------------------------------ MODULE TrunkProof ------------------------------
(***************************************************************************)
(* Proofs about Trunk: its types, and the ownership of VirtualIPs, for any *)
(* number of sessions, addresses and sources, any probe order and any      *)
(* queue capacity.                                                         *)
(***************************************************************************)
EXTENDS Trunk, TLAPS

\* A probe that alloc accepts is an address of the pool that nobody uses.
LEMMA FreeIsUnused ==
  ASSUME NEW src \in Sources, NEW i \in Free(src)
  PROVE  Probe[src][i] \in VIPs /\ Probe[src][i] \notin used
BY ProbeAssumption, VIPAssumption DEF Free

\* The queued frames that were queued before the cancellation are queued.
Owed == \A s \in Sessions : owed[s] <= tx[s]
TInv == TypeOK /\ Owed

LEMMA TypeInit == Init => TInv
BY VIPAssumption, TxAssumption DEF Init, TInv, TypeOK, Owed

LEMMA TypeNext == TInv /\ [Next]_vars => TInv'
<1> SUFFICES ASSUME TInv, [Next]_vars PROVE TInv'
    OBVIOUS
<1> USE DEF Set
<1>1. ASSUME NEW s \in Sessions, NewSession(s) PROVE TInv'
  <2>1. CASE Alloc(s)
    <3>1. PICK first \in Free(Source[s]) :
             used' = used \cup {Probe[Source[s]][first]}
          /\ vip' = Set(vip, s, Probe[Source[s]][first])
          BY <2>1 DEF Alloc
    <3>2. Probe[Source[s]][first] \in VIPs
          BY FreeIsUnused, SourceAssumption
    <3>. QED BY <2>1, <3>1, <3>2 DEF Alloc, TInv, TypeOK, Owed, conn, queue
  <2>2. CASE AllocFails(s)
        BY <2>2 DEF AllocFails, TInv, TypeOK, Owed, alloc, conn, queue
  <2>3. CASE Listen(s)
        BY <2>3 DEF Listen, TInv, TypeOK, Owed, alloc, conn, queue
  <2>4. CASE ListenFails(s)
        BY <2>4 DEF ListenFails, TInv, TypeOK, Owed, alloc, conn, queue
  <2>. QED BY <1>1, <2>1, <2>2, <2>3, <2>4 DEF NewSession
<1>2. ASSUME NEW s \in Sessions, Run(s) \/ ReadError(s) \/ RunReturns(s)
      PROVE TInv'
      BY <1>2 DEF Run, ReadError, RunReturns, TInv, TypeOK, Owed, alloc, conn, queue
<1>3. ASSUME NEW s \in Sessions, WriteLoop(s) PROVE TInv'
  <2>1. CASE WriteFrame(s)
        BY <2>1, TxAssumption DEF WriteFrame, Dequeue, TInv, TypeOK, Owed, alloc, threads, conn
  <2>2. CASE WriteError(s)
        BY <2>2, TxAssumption DEF WriteError, Dequeue, TInv, TypeOK, Owed, alloc
  <2>3. CASE SeesCancel(s) \/ DrainDone(s) \/ DrainExpires(s)
        BY <2>3 DEF SeesCancel, DrainDone, DrainExpires, TInv, TypeOK, Owed, alloc, conn, queue
  <2>4. CASE DrainError(s)
        BY <2>4, TxAssumption DEF DrainError, Dequeue, TInv, TypeOK, Owed, alloc
  <2>. QED BY <1>3, <2>1, <2>2, <2>3, <2>4 DEF WriteLoop
<1>4. ASSUME NEW s \in Sessions, UdpReadLoop(s) PROVE TInv'
  <2>1. CASE UdpTop(s)
        BY <2>1 DEF UdpTop, TInv, TypeOK, Owed, alloc, conn, queue
  <2>2. CASE UdpRecv(s)
        BY <2>2 DEF UdpRecv, TInv, TypeOK, Owed, alloc, conn
  <2>3. CASE UdpError(s) \/ UdpReturns(s)
        BY <2>3 DEF UdpError, UdpReturns, TInv, TypeOK, Owed, alloc, conn, queue
  <2>4. CASE UdpDrop(s)
        BY <2>4 DEF UdpDrop, TInv, TypeOK, Owed, alloc, conn
  <2>5. CASE UdpSend(s)
        BY <2>5, TxAssumption DEF UdpSend, Enqueue, TInv, TypeOK, Owed, alloc, conn
  <2>. QED BY <1>4, <2>1, <2>2, <2>3, <2>4, <2>5 DEF UdpReadLoop
<1>5. ASSUME NEW s \in Sessions, End(s) PROVE TInv'
  <2>1. CASE EndBegin(s)
        BY <2>1 DEF EndBegin, TInv, TypeOK, Owed, alloc, threads, conn, queue
  <2>2. CASE EndCancel(s)
        BY <2>2 DEF EndCancel, TInv, TypeOK, Owed, alloc, threads, queue
  <2>3. CASE EndAwait(s) \/ EndDrained(s)
        BY <2>3 DEF EndAwait, EndDrained, TInv, TypeOK, Owed, alloc, threads, queue
  <2>4. CASE EndClose(s)
        BY <2>4 DEF EndClose, TInv, TypeOK, Owed, alloc, threads, queue
  <2>5. CASE EndRelease(s) \/ EndClear(s)
        BY <2>5 DEF EndRelease, EndClear, TInv, TypeOK, Owed, threads, conn, queue
  <2>. QED BY <1>5, <2>1, <2>2, <2>3, <2>4, <2>5 DEF End
<1>6. ASSUME NEW s \in Sessions, Control(s) PROVE TInv'
  <2>1. CASE SendControl(s)
        BY <2>1 DEF SendControl, TInv, TypeOK, Owed, alloc, threads, conn
  <2>2. CASE SendFinishes(s)
        BY <2>2, TxAssumption DEF SendFinishes, Enqueue, TInv, TypeOK, Owed, alloc, threads, conn
  <2>3. CASE EvictReturns(s)
        BY <2>3 DEF EvictReturns, TInv, TypeOK, Owed, alloc, threads, conn, queue
  <2>. QED BY <1>6, <2>1, <2>2, <2>3 DEF Control
<1>7. ASSUME NEW v \in VIPs, EndSession(v) PROVE TInv'
      BY <1>7 DEF EndSession, TInv, TypeOK, Owed, alloc, threads, conn, queue
<1>8. ASSUME UNCHANGED vars PROVE TInv'
      BY <1>8 DEF vars, sessionVars, TInv, TypeOK, Owed, alloc, threads, conn, queue
<1>. QED BY <1>1, <1>2, <1>3, <1>4, <1>5, <1>6, <1>7, <1>8 DEF Next

\* Every reachable state of the trunk is well typed; in particular the tx queue
\* never exceeds its capacity and only pool addresses are ever handed out.
THEOREM TypeCorrect == Safety => []TypeOK
<1>1. TInv => TypeOK
      BY DEF TInv
<1>. QED BY <1>1, TypeInit, TypeNext, PTL DEF Safety

-----------------------------------------------------------------------------
(* Ownership of addresses *)

\* newSession has returned the session.
Begun(s) == reader[s] \in {"made", "read", "end", "done"}

\* A session with a socket, a registry entry, goroutines, or someone ending it
\* is one that newSession has returned.
Placed ==
  \A s \in Sessions :
    (\/ end[s] # "idle" \/ udp[s] # "off" \/ evict[s] \/ sockOpen[s]
     \/ s \in registry) => Begun(s)

\* End takes the session out of the registry first and closes the socket before
\* it releases the address.
Ordered ==
  \A s \in Sessions :
    /\ s \in registry => end[s] = "idle"
    /\ end[s] \in {"release", "clear", "done"} => ~sockOpen[s]

\* Addresses that are held come from the pool and are all different.
Owned ==
  /\ \A s \in Sessions : Holding(s) => vip[s] \in VIPs
  /\ \A s, t \in Sessions : s # t /\ Holding(s) /\ Holding(t) => vip[s] # vip[t]

\* A session that was never given an address reports none.
Unheld == \A s \in Sessions : reader[s] = "none" => vip[s] = NoVIP

PoolInv == TInv /\ Placed /\ Ordered /\ Owned /\ Unheld /\ PoolExact

LEMMA PoolInit == Init => PoolInv
BY TypeInit DEF Init, PoolInv, Placed, Ordered, Owned, Unheld, PoolExact, Holding

\* Steps that change neither who holds an address nor which.
LEMMA SameHolders ==
  ASSUME Owned, PoolExact, UNCHANGED <<used, vip>>,
         \A s \in Sessions : Holding(s)' <=> Holding(s)
  PROVE  Owned' /\ PoolExact'
BY DEF Owned, PoolExact

LEMMA UnheldNext == TInv /\ Unheld /\ [Next]_vars => Unheld'
<1> SUFFICES ASSUME TInv, Unheld, [Next]_vars PROVE Unheld'
    OBVIOUS
<1> USE DEF Set
<1>1. ASSUME NEW s \in Sessions, NewSession(s) PROVE Unheld'
      BY <1>1 DEF NewSession, Alloc, AllocFails, Listen, ListenFails, alloc, TInv,
           TypeOK, Unheld
<1>2. ASSUME NEW s \in Sessions, End(s) PROVE Unheld'
      BY <1>2 DEF End, EndBegin, EndCancel, EndAwait, EndDrained, EndClose, EndRelease,
           EndClear, alloc, threads, TInv, TypeOK, Unheld
<1>3. ASSUME NEW s \in Sessions,
             \/ Run(s) \/ ReadError(s) \/ RunReturns(s)
             \/ WriteLoop(s) \/ UdpReadLoop(s) \/ Control(s)
      PROVE Unheld'
      BY <1>3 DEF Run, ReadError, RunReturns, WriteLoop, WriteFrame, WriteError,
           SeesCancel, DrainDone, DrainError, DrainExpires, UdpReadLoop, UdpTop,
           UdpRecv, UdpError, UdpSend, UdpDrop, UdpReturns, Control, SendControl,
           SendFinishes, EvictReturns, alloc, threads, TInv, TypeOK, Unheld
<1>4. ASSUME UNCHANGED vars \/ \E v \in VIPs : EndSession(v) PROVE Unheld'
      BY <1>4 DEF vars, sessionVars, EndSession, alloc, threads, Unheld
<1>. QED BY <1>1, <1>2, <1>3, <1>4 DEF Next

LEMMA PoolNext == PoolInv /\ [Next]_vars => PoolInv'
<1> SUFFICES ASSUME PoolInv, [Next]_vars PROVE PoolInv'
    OBVIOUS
<1>0. TInv' /\ Unheld'
      BY TypeNext, UnheldNext DEF PoolInv
<1> USE DEF Set
<1>1. ASSUME NEW s \in Sessions, Alloc(s) PROVE PoolInv'
  <2>1. PICK first \in Free(Source[s]) :
             used' = used \cup {Probe[Source[s]][first]}
          /\ vip' = Set(vip, s, Probe[Source[s]][first])
        BY <1>1 DEF Alloc
  <2> DEFINE v == Probe[Source[s]][first]
  <2>2. v \in VIPs /\ v \notin used
        BY FreeIsUnused, SourceAssumption
  <2>3. ~Holding(s) /\ Holding(s)'
        BY <1>1 DEF Alloc, Holding, PoolInv, TInv, TypeOK, Placed, Begun
  <2>4. \A t \in Sessions \ {s} : (Holding(t)' <=> Holding(t)) /\ vip'[t] = vip[t]
        BY <1>1, <2>1 DEF Alloc, Holding, PoolInv, TInv, TypeOK
  <2>5. vip'[s] = v
        BY <2>1 DEF PoolInv, TInv, TypeOK
  <2>6. \A t \in Sessions : Holding(t) => vip[t] # v
        BY <2>2 DEF PoolInv, PoolExact
  <2> HIDE DEF v
  <2>7. Owned'
        BY <2>2, <2>3, <2>4, <2>5, <2>6 DEF PoolInv, Owned
  <2>8. PoolExact'
        BY <2>1, <2>3, <2>4, <2>5 DEF PoolInv, PoolExact, v
  <2>9. Placed' /\ Ordered'
        BY <1>1 DEF Alloc, conn, PoolInv, TInv, TypeOK, Placed, Ordered, Begun
  <2>. QED BY <1>0, <2>7, <2>8, <2>9 DEF PoolInv
<1>2. ASSUME NEW s \in Sessions, AllocFails(s) \/ Listen(s) PROVE PoolInv'
  <2>1. Placed' /\ Ordered'
        BY <1>2 DEF AllocFails, Listen, conn, PoolInv, TInv, TypeOK, Placed, Ordered, Begun
  <2>2. \A t \in Sessions : Holding(t)' <=> Holding(t)
        BY <1>2 DEF AllocFails, Listen, Holding, PoolInv, TInv, TypeOK
  <2>3. UNCHANGED <<used, vip>>
        BY <1>2 DEF AllocFails, Listen, alloc
  <2>. QED BY <1>0, <2>1, <2>2, <2>3, SameHolders DEF PoolInv
<1>3. ASSUME NEW s \in Sessions, ListenFails(s) PROVE PoolInv'
  <2>1. Placed' /\ Ordered'
        BY <1>3 DEF ListenFails, conn, PoolInv, TInv, TypeOK, Placed, Ordered, Begun
  <2>2. Holding(s) /\ ~Holding(s)'
        BY <1>3 DEF ListenFails, Holding, PoolInv, TInv, TypeOK, Placed, Begun
  <2>3. \A t \in Sessions \ {s} : (Holding(t)' <=> Holding(t)) /\ vip'[t] = vip[t]
        BY <1>3 DEF ListenFails, Holding, PoolInv, TInv, TypeOK
  <2>4. used' = used \ {vip[s]}
        BY <1>3 DEF ListenFails
  <2>5. Owned'
        BY <2>2, <2>3 DEF PoolInv, Owned
  <2>6. PoolExact'
        BY <2>2, <2>3, <2>4 DEF PoolInv, Owned, PoolExact
  <2>. QED BY <1>0, <2>1, <2>5, <2>6 DEF PoolInv
<1>4. ASSUME NEW s \in Sessions,
             \/ Run(s) \/ ReadError(s) \/ RunReturns(s)
             \/ WriteLoop(s) \/ UdpReadLoop(s) \/ Control(s)
      PROVE PoolInv'
  <2>1. /\ UNCHANGED <<used, vip, registry, end, sockOpen>>
        /\ \A t \in Sessions : evict'[t] => evict[t]
        BY <1>4 DEF Run, ReadError, RunReturns, WriteLoop, WriteFrame, WriteError,
             SeesCancel, DrainDone, DrainError, DrainExpires, UdpReadLoop, UdpTop,
             UdpRecv, UdpError, UdpSend, UdpDrop, UdpReturns, Control, SendControl,
             SendFinishes, EvictReturns, alloc, conn, PoolInv, TInv, TypeOK
  <2>2. \A t \in Sessions :
          /\ Begun(t) => Begun(t)'
          /\ reader[t] \in {"none", "failed"} <=> reader'[t] \in {"none", "failed"}
          /\ udp'[t] # "off" => udp[t] # "off" \/ Begun(t)
        BY <1>4 DEF Run, ReadError, RunReturns, WriteLoop, WriteFrame, WriteError,
             SeesCancel, DrainDone, DrainError, DrainExpires, UdpReadLoop, UdpTop,
             UdpRecv, UdpError, UdpSend, UdpDrop, UdpReturns, Control, SendControl,
             SendFinishes, EvictReturns, threads, PoolInv, TInv, TypeOK, Begun
  <2>3. Placed' /\ Ordered'
        BY <2>1, <2>2 DEF PoolInv, Placed, Ordered
  <2>4. \A t \in Sessions : Holding(t)' <=> Holding(t)
        BY <2>1, <2>2 DEF Holding
  <2>. QED BY <1>0, <2>1, <2>3, <2>4, SameHolders DEF PoolInv
<1>5. ASSUME NEW s \in Sessions,
             \/ EndBegin(s) \/ EndCancel(s) \/ EndAwait(s) \/ EndDrained(s) \/ EndClose(s)
      PROVE PoolInv'
  <2>1. Placed'
        BY <1>5 DEF EndBegin, EndCancel, EndAwait, EndDrained, EndClose, Calling,
             threads, conn, PoolInv, TInv, TypeOK, Placed, Begun
  <2>2. Ordered'
        BY <1>5 DEF EndBegin, EndCancel, EndAwait, EndDrained, EndClose, conn,
             PoolInv, TInv, TypeOK, Ordered
  <2>3. UNCHANGED <<used, vip>>
        BY <1>5 DEF EndBegin, EndCancel, EndAwait, EndDrained, EndClose, alloc
  <2>4. \A t \in Sessions : Holding(t)' <=> Holding(t)
        BY <1>5 DEF EndBegin, EndCancel, EndAwait, EndDrained, EndClose, threads,
             Holding, PoolInv, TInv, TypeOK
  <2>. QED BY <1>0, <2>1, <2>2, <2>3, <2>4, SameHolders DEF PoolInv
<1>6. ASSUME NEW s \in Sessions, EndRelease(s) PROVE PoolInv'
  <2>1. Placed' /\ Ordered'
        BY <1>6 DEF EndRelease, threads, conn, PoolInv, TInv, TypeOK, Placed, Ordered, Begun
  <2>2. Holding(s) /\ ~Holding(s)'
        BY <1>6 DEF EndRelease, threads, Holding, PoolInv, TInv, TypeOK, Placed, Begun
  <2>3. \A t \in Sessions \ {s} : Holding(t)' <=> Holding(t)
        BY <1>6 DEF EndRelease, threads, Holding, PoolInv, TInv, TypeOK
  <2>4. used' = used \ {vip[s]} /\ vip' = vip
        BY <1>6 DEF EndRelease
  <2>5. Owned' /\ PoolExact'
        BY <2>2, <2>3, <2>4 DEF PoolInv, Owned, PoolExact
  <2>. QED BY <1>0, <2>1, <2>5 DEF PoolInv
<1>7. ASSUME NEW s \in Sessions, EndClear(s) PROVE PoolInv'
  <2>1. Placed' /\ Ordered'
        BY <1>7 DEF EndClear, threads, conn, PoolInv, TInv, TypeOK, Placed, Ordered, Begun
  <2>2. ~Holding(s) /\ ~Holding(s)'
        BY <1>7 DEF EndClear, threads, Holding, PoolInv, TInv, TypeOK
  <2>3. \A t \in Sessions \ {s} : (Holding(t)' <=> Holding(t)) /\ vip'[t] = vip[t]
        BY <1>7 DEF EndClear, threads, Holding, PoolInv, TInv, TypeOK
  <2>4. used' = used
        BY <1>7 DEF EndClear
  <2>5. Owned' /\ PoolExact'
        BY <2>2, <2>3, <2>4 DEF PoolInv, Owned, PoolExact
  <2>. QED BY <1>0, <2>1, <2>5 DEF PoolInv
<1>8. ASSUME NEW v \in VIPs, EndSession(v) PROVE PoolInv'
  <2>1. Placed' /\ Ordered'
        BY <1>8 DEF EndSession, threads, conn, PoolInv, TInv, TypeOK, Placed, Ordered, Begun
  <2>2. UNCHANGED <<used, vip>> /\ \A t \in Sessions : Holding(t)' <=> Holding(t)
        BY <1>8 DEF EndSession, alloc, threads, Holding
  <2>. QED BY <1>0, <2>1, <2>2, SameHolders DEF PoolInv
<1>9. ASSUME UNCHANGED vars PROVE PoolInv'
      BY <1>0, <1>9 DEF vars, sessionVars, alloc, threads, conn, PoolInv, Placed, Ordered,
           Owned, PoolExact, Holding, Begun
<1>. QED BY <1>1, <1>2, <1>3, <1>4, <1>5, <1>6, <1>7, <1>8, <1>9
         DEF Next, NewSession, End

\* The pool of VirtualIPs holds exactly the addresses of the sessions between
\* alloc and release, on every path of newSession and End.
THEOREM PoolIsExact == Safety => []PoolExact
<1>1. PoolInv => PoolExact
      BY DEF PoolInv
<1>. QED BY <1>1, PoolInit, PoolNext, PTL DEF Safety

\* No two sessions have a socket on the same VirtualIP or are registered under
\* it: an eviction or a lookup by address can only meet one session.
THEOREM VIPIsExclusive == Safety => []ExclusiveVIP
<1>1. PoolInv => ExclusiveVIP
  <2> SUFFICES ASSUME PoolInv, NEW s \in Sessions, NEW t \in Sessions, s # t,
                      (sockOpen[s] /\ sockOpen[t]) \/ {s, t} \subseteq registry
               PROVE  vip[s] # vip[t]
      BY DEF ExclusiveVIP
  <2>1. \A x \in {s, t} : sockOpen[x] \/ x \in registry
        OBVIOUS
  <2>2. \A x \in {s, t} : Holding(x)
        BY <2>1 DEF PoolInv, Placed, Ordered, Begun, Holding, TInv, TypeOK
  <2>. QED BY <2>2 DEF PoolInv, Owned
<1>. QED BY <1>1, PoolInit, PoolNext, PTL DEF Safety

-----------------------------------------------------------------------------
(* The drain *)

\* End has given up waiting for the writer.
Closing(s) == end[s] \in {"close", "release", "clear", "done"}

\* End's cancellation and the writer's drain both come after the cancellation.
Cancelled(s) ==
  \/ end[s] \in {"cancelled", "drain"} \/ Closing(s)
  \/ writer[s] \in {"drain", "done"}
  => cancelled[s]

\* What makes DrainDelivers inductive: a writer that has left saw the context
\* cancelled, after which nothing more is owed, and left the queue empty unless
\* it had an excuse; and End does not go on without a writer that has left or an
\* excuse of its own.  A Run that comes after End began cannot undo this: it
\* finds the writer off, so End had the excuse that Run had not started.
DrainInv ==
  \A s \in Sessions :
    /\ Cancelled(s)
    /\ reader[s] \in {"none", "bind", "made"} => writer[s] = "off"
    /\ writer[s] = "done" /\ excused[s] = "no" => owed[s] = 0
    /\ Closing(s) /\ excused[s] = "no" => writer[s] = "done"

LEMMA DrainNext == TInv /\ DrainInv /\ [Next]_vars => DrainInv'
<1> SUFFICES ASSUME TInv, DrainInv, [Next]_vars PROVE DrainInv'
    OBVIOUS
<1> USE DEF Set, DrainInv, Cancelled, Closing, TInv, TypeOK
<1>1. ASSUME NEW s \in Sessions, NewSession(s) PROVE DrainInv'
      BY <1>1 DEF NewSession, Alloc, AllocFails, Listen, ListenFails, conn, queue
<1>2. ASSUME NEW s \in Sessions, Run(s) \/ ReadError(s) \/ RunReturns(s)
      PROVE DrainInv'
      BY <1>2 DEF Run, ReadError, RunReturns, conn, queue
<1>3. ASSUME NEW s \in Sessions, WriteFrame(s) PROVE DrainInv'
      BY <1>3 DEF WriteFrame, Dequeue, threads, conn
<1>4. ASSUME NEW s \in Sessions, WriteError(s) \/ DrainError(s) \/ DrainExpires(s)
      PROVE DrainInv'
      BY <1>4 DEF WriteError, DrainError, DrainExpires, Dequeue, queue
<1>5. ASSUME NEW s \in Sessions, SeesCancel(s) PROVE DrainInv'
      BY <1>5 DEF SeesCancel, conn, queue
<1>6. ASSUME NEW s \in Sessions, DrainDone(s) PROVE DrainInv'
  <2>1. owed[s] = 0
        BY <1>6 DEF DrainDone, Owed
  <2>. QED BY <1>6, <2>1 DEF DrainDone, conn, queue
<1>7. ASSUME NEW s \in Sessions, UdpReadLoop(s) PROVE DrainInv'
  <2>1. CASE UdpSend(s)
        BY <2>1 DEF UdpSend, Enqueue, conn
  <2>2. CASE ~UdpSend(s)
        BY <1>7, <2>2 DEF UdpReadLoop, UdpTop, UdpRecv, UdpError, UdpDrop, UdpReturns,
             conn, queue
  <2>. QED BY <2>1, <2>2
<1>8. ASSUME NEW s \in Sessions, Control(s) PROVE DrainInv'
  <2>1. CASE SendFinishes(s)
        BY <2>1 DEF SendFinishes, Enqueue, threads, conn
  <2>2. CASE SendControl(s) \/ EvictReturns(s)
        BY <2>2 DEF SendControl, EvictReturns, threads, conn, queue
  <2>. QED BY <1>8, <2>1, <2>2 DEF Control
<1>9. ASSUME NEW s \in Sessions, EndBegin(s) \/ EndCancel(s) PROVE DrainInv'
      BY <1>9 DEF EndBegin, EndCancel, threads, conn, queue
<1>10. ASSUME NEW s \in Sessions, EndAwait(s) \/ EndDrained(s) PROVE DrainInv'
      BY <1>10 DEF EndAwait, EndDrained, threads, queue
<1>11. ASSUME NEW s \in Sessions, EndClose(s) \/ EndRelease(s) \/ EndClear(s)
      PROVE DrainInv'
      BY <1>11 DEF EndClose, EndRelease, EndClear, threads, conn, queue
<1>12. ASSUME UNCHANGED vars \/ \E v \in VIPs : EndSession(v) PROVE DrainInv'
      BY <1>12 DEF vars, sessionVars, EndSession, threads, conn, queue
<1>. QED BY <1>1, <1>2, <1>3, <1>4, <1>5, <1>6, <1>7, <1>8, <1>9, <1>10, <1>11, <1>12
         DEF Next, WriteLoop, End

\* A frame queued before the context was cancelled has been written when End
\* closes the transport, unless a write failed, a deadline passed or Run never
\* started; for any queue length and any race of writer, Run and End.
THEOREM DrainIsComplete == Safety => []DrainDelivers
<1>1. Init => DrainInv
      BY DEF Init, DrainInv, Cancelled, Closing
<1>2. DrainInv => DrainDelivers
      BY DEF DrainInv, DrainDelivers, Closing
<1>. QED BY <1>1, <1>2, TypeInit, TypeNext, DrainNext, PTL DEF Safety

-----------------------------------------------------------------------------
(* Refinement *)

\* The session table as the trunk implements it.
Abs == [s \in Sessions |-> State(s)]

\* A step that moves one session from one state of the table to another.
LEMMA OneMoves ==
  ASSUME NEW s \in Sessions,
         \A t \in Sessions \ {s} : State(t)' = State(t)
  PROVE  Abs' = [Abs EXCEPT ![s] = State(s)']
BY DEF Abs

LEMMA TableStep ==
  PoolInv /\ [Next]_vars => [Table!TableNext]_(Table!tableVars)
<1> SUFFICES ASSUME PoolInv, [Next]_vars
             PROVE  Table!TableNext \/ UNCHANGED <<Abs, vip>>
    BY DEF Table!tableVars, Abs
<1> USE DEF Set
<1> DEFINE Same == \A t \in Sessions : State(t)' = State(t)
<1>0. Same => Abs' = Abs
      BY DEF Abs
<1>1. ASSUME NEW s \in Sessions, Alloc(s) PROVE Table!Take(s)
  <2>1. PICK first \in Free(Source[s]) :
             used' = used \cup {Probe[Source[s]][first]}
          /\ vip' = Set(vip, s, Probe[Source[s]][first])
        BY <1>1 DEF Alloc
  <2>2. Probe[Source[s]][first] \in VIPs \ used
        BY FreeIsUnused, SourceAssumption
  <2>3. \A t \in Sessions : State(t) \in {"held", "live", "ending"} => Holding(t)
        BY DEF State, Holding, PoolInv, TInv, TypeOK, Placed, Begun
  <2>4. {vip[t] : t \in {x \in Sessions : State(x) \in {"held", "live", "ending"}}} \subseteq used
        BY <2>3 DEF PoolInv, PoolExact
  <2>5. State(s) = "none" /\ State(s)' = "held"
        BY <1>1 DEF Alloc, State, PoolInv, TInv, TypeOK
  <2>6. \A t \in Sessions \ {s} : State(t)' = State(t)
        BY <1>1 DEF Alloc, State, PoolInv, TInv, TypeOK
  <2>. QED BY <2>1, <2>2, <2>4, <2>5, <2>6, OneMoves DEF Table!Take, Table!Held, Abs
<1>2. ASSUME NEW s \in Sessions, AllocFails(s) \/ ListenFails(s) PROVE Table!Fail(s)
  <2>1. State(s) \in {"none", "held"} /\ State(s)' = "failed"
        BY <1>2 DEF AllocFails, ListenFails, State, PoolInv, TInv, TypeOK
  <2>2. \A t \in Sessions \ {s} : State(t)' = State(t)
        BY <1>2 DEF AllocFails, ListenFails, State, PoolInv, TInv, TypeOK
  <2>3. vip' = [vip EXCEPT ![s] = NoVIP]
    <3>1. CASE AllocFails(s)
      <4>1. vip' = vip /\ vip[s] = NoVIP
            BY <3>1 DEF AllocFails, alloc, PoolInv, Unheld
      <4>2. vip = [vip EXCEPT ![s] = NoVIP]
            BY <4>1 DEF PoolInv, TInv, TypeOK
      <4>. QED BY <4>1, <4>2
    <3>2. CASE ListenFails(s)
          BY <3>2 DEF ListenFails
    <3>. QED BY <1>2, <3>1, <3>2
  <2>. QED BY <2>1, <2>2, <2>3, OneMoves DEF Table!Fail, Abs
<1>3. ASSUME NEW s \in Sessions, Listen(s) PROVE Table!Register(s)
  <2>1. State(s) = "held" /\ State(s)' = "live"
        BY <1>3 DEF Listen, State, PoolInv, TInv, TypeOK, Placed, Begun
  <2>2. \A t \in Sessions \ {s} : State(t)' = State(t)
        BY <1>3 DEF Listen, State, PoolInv, TInv, TypeOK
  <2>. QED BY <1>3, <2>1, <2>2, OneMoves DEF Listen, alloc, Table!Register, Table!Step, Abs
<1>4. ASSUME NEW s \in Sessions,
             \/ Run(s) \/ ReadError(s) \/ RunReturns(s)
             \/ WriteLoop(s) \/ UdpReadLoop(s) \/ Control(s)
      PROVE  UNCHANGED <<Abs, vip>>
  <2>1. /\ UNCHANGED <<vip, end>>
        /\ \A t \in Sessions : \/ reader'[t] = reader[t]
                               \/ {reader[t], reader'[t]} \subseteq {"made", "read", "end", "done"}
        BY <1>4 DEF Run, ReadError, RunReturns, WriteLoop, WriteFrame, WriteError,
             SeesCancel, DrainDone, DrainError, DrainExpires, UdpReadLoop, UdpTop,
             UdpRecv, UdpError, UdpSend, UdpDrop, UdpReturns, Control, SendControl,
             SendFinishes, EvictReturns, alloc, threads, PoolInv, TInv, TypeOK
  <2>2. Same
        BY <2>1 DEF State
  <2>. QED BY <1>0, <2>1, <2>2
<1>5. ASSUME NEW s \in Sessions, EndBegin(s) PROVE Table!Begin(s)
  <2>1. State(s) = "live" /\ State(s)' = "ending"
        BY <1>5 DEF EndBegin, Calling, threads, State, PoolInv, TInv, TypeOK, Placed, Begun
  <2>2. \A t \in Sessions \ {s} : State(t)' = State(t)
        BY <1>5 DEF EndBegin, threads, State, PoolInv, TInv, TypeOK
  <2>. QED BY <1>5, <2>1, <2>2, OneMoves DEF EndBegin, alloc, Table!Begin, Table!Step, Abs
<1>6. ASSUME NEW s \in Sessions,
             EndCancel(s) \/ EndAwait(s) \/ EndDrained(s) \/ EndClose(s)
      PROVE  UNCHANGED <<Abs, vip>>
  <2>1. Same
        BY <1>6 DEF EndCancel, EndAwait, EndDrained, EndClose, threads, State,
             PoolInv, TInv, TypeOK
  <2>. QED BY <1>0, <1>6, <2>1 DEF EndCancel, EndAwait, EndDrained, EndClose, alloc
<1>7. ASSUME NEW s \in Sessions, EndRelease(s) PROVE Table!Release(s)
  <2>1. State(s) = "ending" /\ State(s)' = "released"
        BY <1>7 DEF EndRelease, threads, State, PoolInv, TInv, TypeOK, Placed, Begun
  <2>2. \A t \in Sessions \ {s} : State(t)' = State(t)
        BY <1>7 DEF EndRelease, threads, State, PoolInv, TInv, TypeOK
  <2>. QED BY <1>7, <2>1, <2>2, OneMoves DEF EndRelease, Table!Release, Table!Step, Abs
<1>8. ASSUME NEW s \in Sessions, EndClear(s) PROVE Table!Clear(s)
  <2>1. State(s) = "released" /\ State(s)' = "ended"
        BY <1>8 DEF EndClear, threads, State, PoolInv, TInv, TypeOK, Placed, Begun
  <2>2. \A t \in Sessions \ {s} : State(t)' = State(t)
        BY <1>8 DEF EndClear, threads, State, PoolInv, TInv, TypeOK
  <2>. QED BY <1>8, <2>1, <2>2, OneMoves DEF EndClear, Table!Clear, Abs
<1>9. ASSUME NEW v \in VIPs, EndSession(v) PROVE UNCHANGED <<Abs, vip>>
      BY <1>9 DEF EndSession, alloc, threads, Abs, State
<1>10. ASSUME UNCHANGED vars PROVE UNCHANGED <<Abs, vip>>
      BY <1>10 DEF vars, sessionVars, alloc, threads, Abs, State
<1>. QED BY <1>1, <1>2, <1>3, <1>4, <1>5, <1>6, <1>7, <1>8, <1>9, <1>10
         DEF Next, NewSession, End, Table!TableNext

\* The trunk implements SessionTable: whatever its goroutines do, its users see
\* a session take a free address, be registered, end, release the address once
\* and only then report none.
THEOREM TrunkImplementsTable == Safety => RefinesTable
<1>1. Init => Table!TableInit
      BY DEF Init, Table!TableInit, State
<1>. QED BY <1>1, PoolInit, PoolNext, TableStep, PTL DEF Safety, RefinesTable, Table!TableSpec
=============================================================================
