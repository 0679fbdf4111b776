---------------------------- MODULE SessionTable ----------------------------
(***************************************************************************)
(* What the trunk promises the rest of Nexus about its sessions: a session *)
(* gets an address nobody else holds, can be looked up by it while it is   *)
(* live, keeps it while it is being torn down, gives it back once, and     *)
(* reports no address afterwards.  How the teardown works, and which of    *)
(* the free addresses is chosen, is left open.                             *)
(***************************************************************************)
CONSTANTS Sessions, VIPs, NoVIP

VARIABLES
  state,  \* "none", "failed", "held" (not yet registered), "live" (in the
          \* registry), "ending", "released" (address given back), "ended"
  addr    \* what VirtualIP() returns

tableVars == <<state, addr>>

Held == {addr[t] : t \in {x \in Sessions : state[x] \in {"held", "live", "ending"}}}

TableInit ==
  /\ state = [s \in Sessions |-> "none"]
  /\ addr = [s \in Sessions |-> NoVIP]

Take(s) ==
  /\ state[s] = "none"
  /\ \E v \in VIPs \ Held : addr' = [addr EXCEPT ![s] = v]
  /\ state' = [state EXCEPT ![s] = "held"]

Fail(s) ==
  /\ state[s] \in {"none", "held"}
  /\ state' = [state EXCEPT ![s] = "failed"]
  /\ addr' = [addr EXCEPT ![s] = NoVIP]

Step(s, from, to) ==
  /\ state[s] = from
  /\ state' = [state EXCEPT ![s] = to]
  /\ UNCHANGED addr

Register(s) == Step(s, "held", "live")
Begin(s)    == Step(s, "live", "ending")
Release(s)  == Step(s, "ending", "released")

Clear(s) ==
  /\ state[s] = "released"
  /\ state' = [state EXCEPT ![s] = "ended"]
  /\ addr' = [addr EXCEPT ![s] = NoVIP]

TableNext ==
  \E s \in Sessions :
    Take(s) \/ Fail(s) \/ Register(s) \/ Begin(s) \/ Release(s) \/ Clear(s)

TableSpec == TableInit /\ [][TableNext]_tableVars
=============================================================================
