------------------------------- MODULE RconProof -------------------------------
(***************************************************************************)
(* Proofs about client presence, bans and logins (Clients, Access, Rcon),  *)
(* for any sessions, addresses, tokens and policies.                       *)
(***************************************************************************)
EXTENDS Rcon, TLAPS

Safety == RconInit /\ [][RconNext]_allVars

States   == {"none", "failed", "held", "live", "ending", "released", "ended"}
Handlers == {"idle", "passed", "made", "attached", "detach", "done", "refused"}
Bans     == {"idle", "resolved", "hydrated", "blocked", "ending", "returned"}

TypeInv ==
  /\ state \in [Sessions -> States]
  /\ addr \in [Sessions -> VIPs \cup {NoVIP}]
  /\ handler \in [Sessions -> Handlers]
  /\ clients \in [VIPs -> Sessions \cup {Nobody}]
  /\ attached \in [Sessions -> VIPs \cup {NoVIP}]
  /\ ban \in Bans
  /\ ban # "idle" => target \in Sessions /\ nqip \in VIPs
  /\ ban = "ending" => victim \in Sessions
  /\ load \in Loads

Holding == {"held", "live", "ending"}

\* No address is held twice.
HoldInv ==
  /\ \A s \in Sessions : state[s] \in Holding => addr[s] \in VIPs
  /\ \A s, t \in Sessions :
       state[s] \in Holding /\ state[t] \in Holding /\ addr[s] = addr[t] => s = t

\* Until the ban has ended somebody, the session it was asked to end is either
\* found under the address it was known by, or no longer in the table; what is
\* ended under that address is then that session.
BanInv ==
  /\ ban # "idle" => state[target] \notin {"none", "held"}
  /\ ban \in {"resolved", "hydrated", "blocked"} /\ state[target] = "live" => addr[target] = nqip
  /\ ban = "ending" /\ state[target] = "live" => victim = target
  /\ ban = "returned" => state[target] # "live"

ClientInv == TypeInv /\ HoldInv /\ NoLeakedIdentity /\ BanInv

USE ClientsAssumption DEF States, Handlers, Bans, Holding
-----------------------------------------------------------------------------
(* The handler of a request *)

\* A step of the handler or of the session that is none of the ban's.
LEMMA HandlerStep ==
  ASSUME ClientInv, NEW s \in Sessions, Handler(s), UNCHANGED load
  PROVE  ClientInv'
<1> USE DEF ClientInv
<1>1. CASE HTTPGate(s)
  <2>1. TypeInv' /\ HoldInv' /\ BanInv'
        BY <1>1 DEF HTTPGate, Move, TypeInv, HoldInv, BanInv, tableVars, bvars
  <2>2. NoLeakedIdentity'
        BY <1>1 DEF HTTPGate, Move, TypeInv, NoLeakedIdentity
  <2>. QED BY <2>1, <2>2
<1>2. CASE NewSession(s)
  <2>1. handler' \in [Sessions -> Handlers] /\ \A t \in Sessions : handler[t] # "passed" => handler'[t] = handler[t]
        BY <1>2 DEF NewSession, Move, TypeInv
  <2>2. NoLeakedIdentity'
        BY <1>2, <2>1 DEF NewSession, TypeInv, NoLeakedIdentity
  <2>3. CASE Take(s)
    <3>1. PICK v \in VIPs \ Held : addr' = [addr EXCEPT ![s] = v]
          BY <2>3 DEF Take
    <3>2. \A t \in Sessions : state[t] \in Holding => addr[t] # v
          BY <3>1 DEF Held
    <3>3. TypeInv' /\ HoldInv' /\ BanInv'
          BY <1>2, <2>1, <2>3, <3>1, <3>2 DEF Take, NewSession, bvars, TypeInv, HoldInv, BanInv
    <3>. QED BY <2>2, <3>3
  <2>4. CASE Register(s)
        BY <1>2, <2>1, <2>2, <2>4 DEF Register, Step, NewSession, bvars, TypeInv, HoldInv, BanInv
  <2>5. CASE Fail(s)
        BY <1>2, <2>1, <2>2, <2>5 DEF Fail, NewSession, bvars, TypeInv, HoldInv, BanInv
  <2>. QED BY <1>2, <2>3, <2>4, <2>5 DEF NewSession
<1>3. CASE Attach(s)
  <2>1. TypeInv' /\ HoldInv' /\ BanInv'
        BY <1>3 DEF Attach, Move, TypeInv, HoldInv, BanInv, tableVars, bvars
  <2>2. NoLeakedIdentity'
        BY <1>3 DEF Attach, Move, TypeInv, NoLeakedIdentity
  <2>. QED BY <2>1, <2>2
<1>4. CASE RunReturns(s)
  <2>1. TypeInv' /\ HoldInv' /\ BanInv'
        BY <1>4 DEF RunReturns, Move, TypeInv, HoldInv, BanInv, tableVars, bvars
  <2>2. NoLeakedIdentity'
        BY <1>4 DEF RunReturns, Move, TypeInv, NoLeakedIdentity
  <2>. QED BY <2>1, <2>2
<1>5. CASE Detach(s)
  <2>1. TypeInv' /\ HoldInv' /\ BanInv'
        BY <1>5 DEF Detach, Move, TypeInv, HoldInv, BanInv, tableVars, bvars
  <2>2. NoLeakedIdentity'
        BY <1>5 DEF Detach, Move, TypeInv, NoLeakedIdentity
  <2>. QED BY <2>1, <2>2
<1>. QED BY <1>1, <1>2, <1>3, <1>4, <1>5 DEF Handler

\* A session moves on towards its end, whoever made it.
LEMMA TableStep ==
  ASSUME ClientInv, NEW s \in Sessions, Begin(s) \/ Release(s) \/ Clear(s),
         UNCHANGED <<hvars, bvars, load>>
  PROVE  ClientInv'
<1>1. TypeInv' /\ NoLeakedIdentity'
      BY DEF ClientInv, TypeInv, NoLeakedIdentity, Begin, Release, Clear, Step, hvars, bvars
<1>2. HoldInv' /\ BanInv'
      BY DEF ClientInv, TypeInv, HoldInv, BanInv, Begin, Release, Clear, Step, hvars, bvars
<1>. QED BY <1>1, <1>2 DEF ClientInv
-----------------------------------------------------------------------------
(* client.ban *)

LEMMA BanSteps ==
  ASSUME ClientInv, BanStep \/ BanAgain, UNCHANGED load
  PROVE  ClientInv'
<1> USE DEF ClientInv, bvars
<1>1. CASE BanLookup
  <2>1. TypeInv' /\ HoldInv' /\ NoLeakedIdentity'
        BY <1>1 DEF BanLookup, tableVars, hvars, TypeInv, HoldInv, NoLeakedIdentity
  <2>2. BanInv'
        BY <1>1 DEF BanLookup, tableVars, hvars, TypeInv, BanInv
  <2>. QED BY <2>1, <2>2
<1>2. CASE BanHydrate
      BY <1>2 DEF BanHydrate, tableVars, hvars, TypeInv, HoldInv, NoLeakedIdentity, BanInv
<1>3. CASE BanBlock
      BY <1>3 DEF BanBlock, tableVars, hvars, TypeInv, HoldInv, NoLeakedIdentity, BanInv
<1>4. CASE BanDisconnect
  <2>1. HoldInv' /\ NoLeakedIdentity'
        BY <1>4 DEF BanDisconnect, tableVars, hvars, HoldInv, NoLeakedIdentity
  <2> DEFINE found == {s \in Sessions : state[s] = "live" /\ addr[s] = nqip}
  <2>2. CASE found # {}
    <3>1. PICK s \in found : victim' = s
          BY <1>4, <2>2 DEF BanDisconnect
    <3>2. ban' = "ending"
          BY <1>4, <2>2 DEF BanDisconnect
    <3>3. state[target] = "live" => s = target
          BY <1>4, <3>1 DEF BanDisconnect, HoldInv, BanInv, TypeInv
    <3>4. TypeInv' /\ BanInv'
          BY <1>4, <3>1, <3>2, <3>3 DEF BanDisconnect, tableVars, hvars, TypeInv, BanInv
    <3>. QED BY <2>1, <3>4
  <2>3. CASE found = {}
    <3>1. ban' = "returned" /\ UNCHANGED victim
          BY <1>4, <2>3 DEF BanDisconnect
    <3>2. state[target] # "live"
          BY <1>4, <2>3 DEF BanDisconnect, BanInv, TypeInv
    <3>3. TypeInv' /\ BanInv'
          BY <1>4, <3>1, <3>2 DEF BanDisconnect, tableVars, hvars, TypeInv, BanInv
    <3>. QED BY <2>1, <3>3
  <2>. QED BY <2>2, <2>3
<1>5. CASE BanEnd
  <2>1. CASE Begin(victim) /\ UNCHANGED ban
        BY <1>5, <2>1, TableStep DEF BanEnd, TypeInv
  <2>2. CASE state[victim] = "ended" /\ ban' = "returned" /\ UNCHANGED tableVars
        BY <1>5, <2>2 DEF BanEnd, tableVars, hvars, TypeInv, HoldInv, NoLeakedIdentity, BanInv
  <2>. QED BY <1>5, <2>1, <2>2 DEF BanEnd
<1>6. CASE BanAgain
      BY <1>6 DEF BanAgain, tableVars, hvars, TypeInv, HoldInv, NoLeakedIdentity, BanInv
<1>. QED BY <1>1, <1>2, <1>3, <1>4, <1>5, <1>6 DEF BanStep

\* A step of the administrator that leaves the clients alone.
LEMMA OtherSteps ==
  ASSUME ClientInv, UNCHANGED <<vars, load>>
  PROVE  ClientInv'
BY DEF ClientInv, vars, tableVars, hvars, bvars, TypeInv, HoldInv, NoLeakedIdentity, BanInv

LEMMA ClientNext == ClientInv /\ [RconNext]_allVars => ClientInv'
<1> SUFFICES ASSUME ClientInv, [RconNext]_allVars PROVE ClientInv'
    OBVIOUS
<1>1. load.sessions \subseteq Sessions
      BY ConfigAssumption DEF ClientInv, TypeInv
<1>2. CASE UNCHANGED allVars
      BY <1>2, OtherSteps DEF allVars, runVars
<1>3. CASE RconNext
  <2>0. UNCHANGED load
        BY <1>3 DEF RconNext
  <2>1. ASSUME NEW s \in load.sessions, Handler(s) PROVE ClientInv'
        BY <1>1, <2>0, <2>1, HandlerStep
  <2>2. ASSUME NEW s \in load.sessions, SessionStep(s) PROVE ClientInv'
    <3>1. s \in Sessions /\ UNCHANGED <<hvars, bvars>> /\ (Begin(s) \/ Release(s) \/ Clear(s))
          BY <1>1, <2>2 DEF SessionStep
    <3>. QED BY <2>0, <3>1, TableStep
  <2>3. ASSUME NEW c \in Sent, NEW m \in Methods, RpcGate(c, m) PROVE ClientInv'
        BY <2>0, <2>3, OtherSteps DEF RpcGate
  <2>4. CASE RpcStep
        BY <2>0, <2>4, OtherSteps, BanSteps
        DEF RpcStep, RpcAuthorize, Dispatch, BanNotFound, BanResult
  <2>5. CASE RpcAgain
        BY <2>0, <2>5, OtherSteps, BanSteps DEF RpcAgain
  <2>6. ASSUME NEW t \in Tokens, HandleRconSession(t) \/ Expire(t) PROVE ClientInv'
        BY <2>0, <2>6, OtherSteps DEF HandleRconSession, Expire
  <2>. QED BY <1>3, <2>1, <2>2, <2>3, <2>4, <2>5, <2>6 DEF RconNext
<1>. QED BY <1>2, <1>3

LEMMA ClientAlways == Safety => []ClientInv
<1>1. RconInit => ClientInv
      BY DEF RconInit, Init, TableInit, ClientInv, TypeInv, HoldInv, NoLeakedIdentity, BanInv
<1>. QED BY <1>1, ClientNext, PTL DEF Safety

\* Attach and its detach function (internal/clients): however requests, teardowns
\* and bans interleave, and whoever gets an address next, no identity stays in the
\* registry after the handler that recorded it.
THEOREM IdentityNeverLeaks == Safety => []NoLeakedIdentity
BY ClientAlways, PTL DEF ClientInv

\* clientBanHandler: a ban that has answered has ended the session it was asked
\* to end, although it finds it twice by an address that changes hands.
THEOREM BanIsEffective == Safety => []BanEndsTarget
<1>1. ClientInv => BanEndsTarget
      BY DEF ClientInv, BanInv, BanEndsTarget
<1>. QED BY <1>1, ClientAlways, PTL
-----------------------------------------------------------------------------
(* Logging in *)

\* The cookie is a token that has not expired, got where logins are offered, and
\* the answer to the login was about this token.
LoginInv ==
  /\ load \in Loads
  /\ cookie # NoToken =>
       /\ cookie \in live
       /\ PkceEnabled(load.config)
       /\ told = IF Authorize(load.config, cookie, FALSE) THEN "yes" ELSE "no"

LEMMA LoginNext == LoginInv /\ [RconNext]_allVars => LoginInv'
<1> SUFFICES ASSUME LoginInv, [RconNext]_allVars PROVE LoginInv'
    OBVIOUS
<1> USE DEF LoginInv
<1>1. UNCHANGED load
      BY DEF RconNext, allVars
<1>2. ASSUME UNCHANGED <<cookie, told, live>> PROVE LoginInv'
      BY <1>1, <1>2
<1>3. ASSUME NEW t \in Tokens, HandleRconSession(t) PROVE LoginInv'
      BY <1>1, <1>3 DEF HandleRconSession
<1>4. ASSUME NEW t \in Tokens, Expire(t) PROVE LoginInv'
      BY <1>1, <1>4 DEF Expire
<1>5. CASE UNCHANGED allVars
      BY <1>2, <1>5 DEF allVars, runVars, rpcVars
<1>6. CASE RconNext
  <2>1. ASSUME UNCHANGED rpcVars PROVE LoginInv'
        BY <1>2, <2>1 DEF rpcVars
  <2>2. ASSUME NEW c \in Sent, NEW m \in Methods, RpcGate(c, m) PROVE LoginInv'
        BY <1>2, <2>2 DEF RpcGate
  <2>3. CASE RpcStep
        BY <1>2, <2>1, <2>3
        DEF RpcStep, RpcAuthorize, Dispatch, BanNotFound, BanStep, BanResult
  <2>4. CASE RpcAgain
        BY <1>2, <2>4 DEF RpcAgain
  <2>. QED BY <1>3, <1>4, <1>6, <2>1, <2>2, <2>3, <2>4 DEF RconNext
<1>. QED BY <1>5, <1>6

\* The policy of a case, read: what its mode is, and that it names something.
LEMMA PolicyModes ==
  ASSUME NEW l \in Loads
  PROVE  LET m == AdminMode(l.config.rules) IN
         /\ m \in {"deny", "any", "match"}
         /\ m = "match" => AdminRules(l.config.rules) # {}
<1> DEFINE rules == l.config.rules
<1>1. rules \in Seq(STRING \X STRING) /\ AdminMode(rules) # "error"
      BY ConfigAssumption
<1>2. AdminMode(rules) \in {"deny", "any", "match"}
      BY <1>1 DEF AdminMode
<1>3. ASSUME AdminMode(rules) = "match" PROVE AdminRules(rules) # {}
  <2>1. rules # <<>>
        BY <1>3 DEF AdminMode
  <2>2. 1 \in DOMAIN rules
        BY <1>1, <2>1
  <2>3. rules[1] \in ToSet(rules)
        BY <2>2 DEF ToSet
  <2>. QED BY <2>3 DEF AdminRules
<1>. QED BY <1>2, <1>3

\* Some token is let in exactly if the policy lets any JWT in.
LEMMA SomeTokenEnters ==
  ASSUME NEW l \in Loads
  PROVE  AllowsJWTAdmin(l.config) <=> \E t \in Tokens : Authorize(l.config, t, FALSE)
<1> DEFINE m == AdminMode(l.config.rules)
<1>1. m \in {"deny", "any", "match"} /\ (m = "match" => AdminRules(l.config.rules) # {})
      BY PolicyModes
<1>2. CASE m = "deny"
      BY <1>2 DEF AllowsJWTAdmin, Authorize
<1>3. CASE m = "any"
      BY <1>3, TokensAssumption DEF AllowsJWTAdmin, Authorize
<1>4. CASE m = "match"
  <2>1. PICK r \in AdminRules(l.config.rules) : TRUE
        BY <1>1, <1>4
  <2>2. PICK t \in Tokens : \E c \in ClaimsOf[t] : c[1] = r[1] /\ Lower[c[2]] = r[2]
        BY <1>4, TokensAssumption
  <2>3. MatchesAdminRules(ClaimsOf[t], l.config.rules)
        BY <2>2 DEF MatchesAdminRules
  <2>4. Authorize(l.config, t, FALSE)
        BY <1>4, <2>3, TokensAssumption DEF Authorize
  <2>. QED BY <1>4, <2>4 DEF AllowsJWTAdmin
<1>. QED BY <1>1, <1>2, <1>3, <1>4

LEMMA LoginIsRight == LoginInv => LoginHolds
<1> SUFFICES ASSUME LoginInv PROVE LoginHolds
    OBVIOUS
<1> DEFINE cfg == load.config
           held(t) == [rcon |-> FALSE, bearer |-> NoToken, front |-> NoToken, cookie |-> t]
           given(t) == [rcon |-> FALSE, bearer |-> t, front |-> t, cookie |-> NoToken]
<1>0. load \in Loads
      BY DEF LoginInv
<1>1. ASSUME told # "none", cookie # NoToken
      PROVE  AuthorizeAdmin(cfg, held(cookie), live) <=> told = "yes"
  <2>1. Parse(cfg, held(cookie), live) = cookie
        BY <1>1 DEF LoginInv, Parse, PkceEnabled
  <2>2. AuthorizeAdmin(cfg, held(cookie), live) <=> Authorize(cfg, cookie, FALSE)
        BY <2>1 DEF AuthorizeAdmin
  <2>. QED BY <1>1, <2>2 DEF LoginInv
<1>2. "login" \in UnauthorizedHint(cfg) <=> \E t \in Tokens : AuthorizeAdmin(cfg, given(t), Tokens)
  <2>1. "login" \in UnauthorizedHint(cfg) <=> cfg.jwt # NoJWT /\ AllowsJWTAdmin(cfg)
        BY DEF UnauthorizedHint
  <2>2. ASSUME NEW t \in Tokens
        PROVE  AuthorizeAdmin(cfg, given(t), Tokens) <=> cfg.jwt # NoJWT /\ Authorize(cfg, t, FALSE)
    <3>1. Parse(cfg, given(t), Tokens) = IF cfg.jwt = NoJWT THEN NoToken ELSE t
          BY TokensAssumption DEF Parse
    <3>2. AuthorizeAdmin(cfg, given(t), Tokens) <=> Authorize(cfg, Parse(cfg, given(t), Tokens), FALSE)
          BY DEF AuthorizeAdmin
    <3>3. ~Authorize(cfg, NoToken, FALSE)
          BY DEF Authorize
    <3>. QED BY <3>1, <3>2, <3>3
  <2>. QED BY <1>0, <2>1, <2>2, SomeTokenEnters
<1>3. "password" \in UnauthorizedHint(cfg) <=> Authorize(cfg, NoToken, TRUE)
      BY <1>0, ConfigAssumption DEF UnauthorizedHint, Authorize
<1>. QED BY <1>1, <1>2, <1>3 DEF LoginHolds

\* handleRconSession, handleRcon and buildUnauthorizedHint: what a login was told
\* stays true of its cookie until the token expires, and the hints of a refusal
\* are the ways in, for every policy InitAuth accepts.
THEOREM LoginAlwaysHolds == Safety => []LoginHolds
<1>1. RconInit => LoginInv
      BY DEF RconInit, LoginInv
<1>. QED BY <1>1, LoginNext, LoginIsRight, PTL DEF Safety
=============================================================================
