-------------------------------- MODULE Rcon --------------------------------
(***************************************************************************)
(* The administrator at the HTTP endpoints: logging in (POST               *)
(* /rcon/session, handleRconSession) and sending commands (POST /rcon,     *)
(* handleRcon and Admin.Dispatch), of which client.ban acts on the         *)
(* sessions and the blocklist (Clients).  The rights of a request are      *)
(* those of the moment it passed the gate (Gate.HTTPGate).                 *)
(*                                                                         *)
(* rpc.pc: "idle", "gated", "dispatch" (authorised), "handler" (the        *)
(* command runs), "answered".                                              *)
(***************************************************************************)
EXTENDS Clients, Access

CONSTANTS
  Loads,        \* the cases: [config, sessions (that clients ask for), logins]
  AdminSource   \* the administrator's source IP

Configs == {l.config : l \in Loads}

\* InitAuth refuses a policy it cannot read, so every case has a good one.
ASSUME ConfigAssumption ==
  \A l \in Loads :
    /\ l.config.rules \in Seq(STRING \X STRING) /\ AdminMode(l.config.rules) # "error"
    /\ l.config.password \in BOOLEAN
    /\ l.sessions \subseteq Sessions

\* A provider may issue a token with any claim: for each that a policy names
\* there is a token that carries it.
ASSUME TokensAssumption ==
  /\ NoToken \notin Tokens /\ Tokens # {}
  /\ \A l \in Loads : AdminMode(l.config.rules) = "match" =>
       \A r \in AdminRules(l.config.rules) :
         \E t \in Tokens : \E c \in ClaimsOf[t] : c[1] = r[1] /\ Lower[c[2]] = r[2]

VARIABLES
  load,     \* the case, which no step changes
  cookie,   \* nq_session in the administrator's browser
  told,     \* what the login answered: "none", "yes", "no"
  live,     \* tokens that have not expired
  rpc       \* the request: [pc, token, rcon, method]

rpcVars == <<cookie, told, live, rpc>>
runVars == <<vars, rpcVars>>
allVars == <<runVars, load>>

NoRpc == [pc |-> "idle", token |-> NoToken, rcon |-> FALSE, method |-> "none"]

RconInit ==
  /\ Init
  /\ load \in Loads
  /\ cookie = NoToken /\ told = "none" /\ live = Tokens
  /\ rpc = NoRpc

-----------------------------------------------------------------------------
(* Logging in *)

\* handleRconSession: the code buys a token; a valid one becomes the cookie
\* whether it is an administrator's or not.  A token too long for a cookie, and
\* a failed exchange, change nothing.
HandleRconSession(t) ==
  /\ AdminSource \notin blocked /\ PkceEnabled(load.config) /\ load.logins /\ t \in live
  /\ cookie' = t
  /\ told' = IF Authorize(load.config, t, FALSE) THEN "yes" ELSE "no"
  /\ UNCHANGED <<vars, live, rpc>>

\* A token expires, and the cookie with it (MaxAge).
Expire(t) ==
  /\ load.logins /\ t \in live
  /\ live' = live \ {t}
  /\ cookie' = IF cookie = t THEN NoToken ELSE cookie
  /\ UNCHANGED <<vars, told, rpc>>

-----------------------------------------------------------------------------
(* handleRcon *)

\* HTTPGate: the caller is resolved once, and dropped if its source is blocked.
RpcGate(cred, method) ==
  /\ rpc.pc = "idle"
  /\ rpc' = [pc |-> IF AdminSource \in blocked THEN "answered" ELSE "gated",
             token |-> Parse(load.config, cred, live), rcon |-> cred.rcon, method |-> method]
  /\ UNCHANGED <<vars, cookie, told, live>>

\* A body that is no request is answered before the rights are looked at.
RpcAuthorize ==
  /\ rpc.pc = "gated"
  /\ rpc' = [rpc EXCEPT !.pc =
               IF rpc.method # "malformed" /\ Authorize(load.config, rpc.token, rpc.rcon)
                 THEN "dispatch" ELSE "answered"]
  /\ UNCHANGED <<vars, cookie, told, live>>

\* Dispatch: an unknown method, or parameters that do not parse, are an error.
Dispatch ==
  /\ rpc.pc = "dispatch"
  /\ rpc' = [rpc EXCEPT !.pc = IF rpc.method = "client.ban" THEN "handler" ELSE "answered"]
  /\ UNCHANGED <<vars, cookie, told, live>>

\* clientBanHandler: no such client ...
BanNotFound ==
  /\ rpc.pc = "handler" /\ ban = "idle"
  /\ rpc' = [rpc EXCEPT !.pc = "answered"]
  /\ UNCHANGED <<vars, cookie, told, live>>

\* ... or the steps of Clients ...
BanStep ==
  /\ rpc.pc = "handler"
  /\ BanLookup \/ BanHydrate \/ BanBlock \/ BanDisconnect \/ BanEnd
  /\ UNCHANGED rpcVars

\* ... and its result.
BanResult ==
  /\ rpc.pc = "handler" /\ ban = "returned"
  /\ rpc' = [rpc EXCEPT !.pc = "answered"]
  /\ UNCHANGED <<vars, cookie, told, live>>

\* The next request; a ban that has returned is over.
RpcAgain ==
  /\ rpc.pc = "answered"
  /\ rpc' = NoRpc
  /\ IF ban = "returned" THEN BanAgain ELSE UNCHANGED vars
  /\ UNCHANGED <<cookie, told, live>>

-----------------------------------------------------------------------------
Credentials ==
  [rcon : BOOLEAN, bearer : {NoToken}, front : Tokens \cup {NoToken}, cookie : {cookie}]
  \cup [rcon : {FALSE}, bearer : Tokens, front : {NoToken}, cookie : {cookie}]

\* Where nobody logs in, the administrator has the password.
Sent == IF load.logins THEN Credentials ELSE {c \in Credentials : c.rcon /\ c.front = NoToken}
Methods == IF load.logins THEN {"client.ban", "unknown", "malformed"} ELSE {"client.ban"}

RpcStep == RpcAuthorize \/ Dispatch \/ BanNotFound \/ BanStep \/ BanResult

RconNext ==
  /\ \/ \E s \in load.sessions : (Handler(s) \/ SessionStep(s)) /\ UNCHANGED rpcVars
     \/ \E c \in Sent, m \in Methods : RpcGate(c, m)
     \/ RpcStep \/ RpcAgain
     \/ \E t \in Tokens : HandleRconSession(t) \/ Expire(t)
  /\ UNCHANGED load

\* Handlers and teardowns run to completion; clients and administrators act when
\* they please.
RconFairness ==
  /\ WF_runVars(RpcStep)
  /\ \A s \in Sessions :
       /\ WF_runVars((NewSession(s) \/ Attach(s) \/ RunReturns(s) \/ Detach(s)) /\ UNCHANGED rpcVars)
       /\ WF_runVars(SessionStep(s) /\ state[s] # "live" /\ UNCHANGED rpcVars)

RconSpec == RconInit /\ [][RconNext]_allVars /\ RconFairness

-----------------------------------------------------------------------------
(* Properties *)

\* A browser that was told it is authorised (handleRconSession) is let in by POST
\* /rcon with its cookie alone, whatever the topology, until the token expires;
\* one that was not is refused.  The hint of a refusal suggests the password or a
\* login just where one can help ("only suggest login when a JWT can actually
\* grant admin", buildUnauthorizedHint).
LoginHolds ==
  LET held(t) == [rcon |-> FALSE, bearer |-> NoToken, front |-> NoToken, cookie |-> t]
      given(t) == [rcon |-> FALSE, bearer |-> t, front |-> t, cookie |-> NoToken]
  IN /\ told # "none" /\ cookie # NoToken =>
          (AuthorizeAdmin(load.config, held(cookie), live) <=> told = "yes")
     /\ "login" \in UnauthorizedHint(load.config) <=>
          \E t \in Tokens : AuthorizeAdmin(load.config, given(t), Tokens)
     /\ "password" \in UnauthorizedHint(load.config) <=>
          Authorize(load.config, NoToken, TRUE)

\* Every request to POST /rcon is answered, also a ban whose target ends, or whose
\* address changes hands, while it runs.
RpcReturns == (rpc.pc # "idle") ~> (rpc.pc = "answered")
=============================================================================
