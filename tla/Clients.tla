------------------------------- MODULE Clients -------------------------------
(***************************************************************************)
(* Client presence: the /connect handler (trunkSession), the identity      *)
(* registry keyed by VirtualIP (internal/clients), the source blocklist    *)
(* (internal/access) and client.ban (internal/admin), over the sessions    *)
(* the trunk promises (SessionTable).                                      *)
(*                                                                         *)
(* One request makes at most one session, so a request is named by its     *)
(* session, and the identity it records by the request.                    *)
(*                                                                         *)
(* handler: "idle", "passed" the gate, "made" NewSession returned,         *)
(* "attached" (in Run), "detach" Run returned, "done", "refused".          *)
(* ban: "idle", "resolved" the session was found, "hydrated" its identity  *)
(* was read, "blocked", "ending" in End, "returned".                       *)
(***************************************************************************)
EXTENDS SessionTable

CONSTANTS
  Source,   \* request -> its source IP
  Nobody    \* no identity, no session

\* No address of the pool is the zero address.
ASSUME ClientsAssumption == NoVIP \notin VIPs

VARIABLES
  handler,
  clients,   \* Registry.clients: VirtualIP -> the request that attached
  attached,  \* the vip a handler's detach function captured
  blocked,   \* Blocklist.blocked
  ban,       \* control state of the client.ban handler
  target,    \* the session the ban's lookup found
  nqip,      \* its VirtualAddr
  sourceIP,  \* the Connection's SourceIP
  victim     \* the session the ban ends

hvars == <<handler, clients, attached>>
bvars == <<blocked, ban, target, nqip, sourceIP, victim>>
vars  == <<tableVars, hvars, bvars>>

Sources == {Source[s] : s \in Sessions}

Init ==
  /\ TableInit
  /\ handler = [s \in Sessions |-> "idle"]
  /\ clients = [v \in VIPs |-> Nobody]
  /\ attached = [s \in Sessions |-> NoVIP]
  /\ blocked = {}
  /\ ban = "idle" /\ target = Nobody /\ nqip = NoVIP /\ sourceIP = Nobody
  /\ victim = Nobody

Move(s, from, to) == handler[s] = from /\ handler' = [handler EXCEPT ![s] = to]

-----------------------------------------------------------------------------
(* HTTPGate and trunkSession *)

HTTPGate(s) ==
  /\ Move(s, "idle", IF Source[s] \in blocked THEN "refused" ELSE "passed")
  /\ UNCHANGED <<tableVars, clients, attached, bvars>>

\* NewSession: allocate, register; or an error, after which the handler leaves.
NewSession(s) ==
  /\ handler[s] = "passed"
  /\ \/ Take(s) /\ UNCHANGED handler
     \/ Register(s) /\ Move(s, "passed", "made")
     \/ Fail(s) /\ Move(s, "passed", "done")
  /\ UNCHANGED <<clients, attached, bvars>>

\* Attach: read the session's address and record the identity under it; an
\* ended session has none.
Attach(s) ==
  /\ Move(s, "made", "attached")
  /\ attached' = [attached EXCEPT ![s] = addr[s]]
  /\ clients' = IF addr[s] = NoVIP THEN clients
                                   ELSE [clients EXCEPT ![addr[s]] = s]
  /\ UNCHANGED <<tableVars, bvars>>

\* The session ends, for a reason of its own; teardown goes on.
SessionStep(s) ==
  /\ \/ handler[s] = "attached" /\ Begin(s)
     \/ Release(s) \/ Clear(s)
  /\ UNCHANGED <<hvars, bvars>>

\* Run returns once End has.
RunReturns(s) ==
  /\ state[s] = "ended"
  /\ Move(s, "attached", "detach")
  /\ UNCHANGED <<tableVars, clients, attached, bvars>>

\* Mutant: the address is asked for again at detach time, when the session no
\* longer has one.
Detach_late(s) ==
  /\ Move(s, "detach", "done")
  /\ clients' = IF addr[s] = NoVIP THEN clients
                                   ELSE [clients EXCEPT ![addr[s]] = Nobody]
  /\ UNCHANGED <<tableVars, attached, bvars>>

\* detachClient: Remove(vip) with the address captured by Attach.
Detach(s) ==
  /\ Move(s, "detach", "done")
  /\ clients' = IF attached[s] = NoVIP THEN clients
                  ELSE [clients EXCEPT ![attached[s]] = Nobody]
  /\ UNCHANGED <<tableVars, attached, bvars>>

-----------------------------------------------------------------------------
(* clientBanHandler *)

\* ByVirtualAddr: the session in the trunk's snapshot with this address.
BanLookup ==
  /\ ban = "idle"
  /\ \E s \in Sessions :
       /\ state[s] = "live"
       /\ target' = s /\ nqip' = addr[s]
  /\ ban' = "resolved"
  /\ UNCHANGED <<tableVars, hvars, blocked, sourceIP, victim>>

\* hydrateConnection, under the registry's own lock: the recorded identity's
\* source, else the session's source key.
BanHydrate ==
  /\ ban = "resolved"
  /\ sourceIP' = IF clients[nqip] = Nobody THEN Source[target]
                                           ELSE Source[clients[nqip]]
  /\ ban' = "hydrated"
  /\ UNCHANGED <<tableVars, hvars, blocked, target, nqip, victim>>

BanBlock ==
  /\ ban = "hydrated"
  /\ blocked' = blocked \cup {sourceIP}
  /\ ban' = "blocked"
  /\ UNCHANGED <<tableVars, hvars, target, nqip, sourceIP, victim>>

\* Mutant: Disconnect goes by the identity registry instead of the sessions.
BanDisconnect_byIdentity ==
  /\ ban = "blocked"
  /\ IF clients[nqip] # Nobody
       THEN victim' = clients[nqip] /\ ban' = "ending"
       ELSE ban' = "returned" /\ UNCHANGED victim
  /\ UNCHANGED <<tableVars, hvars, blocked, target, nqip, sourceIP>>

\* Disconnect: look the address up again; nothing to end if nobody has it.
BanDisconnect ==
  /\ ban = "blocked"
  /\ LET live == {s \in Sessions : state[s] = "live" /\ addr[s] = nqip}
     IN IF live # {} THEN (\E s \in live : victim' = s) /\ ban' = "ending"
                     ELSE ban' = "returned" /\ UNCHANGED victim
  /\ UNCHANGED <<tableVars, hvars, blocked, target, nqip, sourceIP>>

\* Mutant: End waits for a teardown of its own.
BanEnd_own ==
  /\ ban = "ending"
  /\ Begin(victim)
  /\ ban' = "returned"
  /\ UNCHANGED <<hvars, blocked, target, nqip, sourceIP, victim>>

\* End: begin the teardown unless somebody has, and return when it is done.
BanEnd ==
  /\ ban = "ending"
  /\ \/ Begin(victim) /\ UNCHANGED ban
     \/ state[victim] = "ended" /\ ban' = "returned" /\ UNCHANGED tableVars
  /\ UNCHANGED <<hvars, blocked, target, nqip, sourceIP, victim>>

\* The administrator bans somebody else next.
BanAgain ==
  /\ ban = "returned"
  /\ ban' = "idle"
  /\ target' = Nobody /\ nqip' = NoVIP /\ sourceIP' = Nobody /\ victim' = Nobody
  /\ UNCHANGED <<tableVars, hvars, blocked>>

-----------------------------------------------------------------------------
Handler(s) ==
  HTTPGate(s) \/ NewSession(s) \/ Attach(s) \/ RunReturns(s) \/ Detach(s)

-----------------------------------------------------------------------------
(* Properties *)

\* Attach and its detach function: every recorded identity belongs to a request
\* whose detach is still to come, so an entry cannot outlive its handler.
NoLeakedIdentity ==
  \A v \in VIPs : clients[v] # Nobody =>
    /\ attached[clients[v]] = v
    /\ handler[clients[v]] \in {"attached", "detach"}

\* client.ban: when the handler answers, the client the administrator named is
\* disconnected, whoever ended it and whatever happened to its address.
BanEndsTarget ==
  ban = "returned" => state[target] # "live"

=============================================================================
