------------------------------- MODULE Access -------------------------------
(***************************************************************************)
(* Who may use the admin RPCs (access/auth.go, gate.go): the policy that   *)
(* AUTH_ADMIN_ID stands for, the credentials of a request, and what a      *)
(* caller without the right is told.                                       *)
(*                                                                         *)
(* A configuration is [jwt, password, rules]: jwt is NoJWT or [header,     *)
(* direct] (the header that carries the token, "authorization" or          *)
(* "custom"; whether EXTERNAL_URL is set), password whether there is one,  *)
(* rules the entries of AUTH_ADMIN_ID: AnyLogin, a pair <<key, value>> or  *)
(* Malformed.  The claims of a token are a set of pairs; verifying the     *)
(* token itself belongs to the OIDC library.                               *)
(*                                                                         *)
(* The credentials of a request are [rcon, bearer, front, cookie]: an      *)
(* Authorization header with the password or with a token (it has one      *)
(* value, so not both), the custom header, and the session cookie.         *)
(***************************************************************************)
EXTENDS Naturals, Sequences, FiniteSets, SequencesExt

CONSTANTS
  Lower,      \* name -> the name in lower case
  Tokens,     \* tokens that verify
  ClaimsOf    \* token -> its claims

NoJWT     == [header |-> "none", direct |-> FALSE]
NoToken   == "no token"
AnyLogin  == <<"any", "">>
Malformed == <<"", "">>

\* parseAdminPolicy
AdminMode(rules) ==
  CASE rules = <<>>              -> "deny"
    [] rules = <<AnyLogin>>      -> "any"
    [] rules # <<AnyLogin>> /\ ToSet(rules) \cap {AnyLogin, Malformed} # {} -> "error"
    [] OTHER                     -> "match"

AdminRules(rules) == {<<Lower[r[1]], Lower[r[2]]>> : r \in ToSet(rules)}

\* matchesAdminRules: the values regardless of case, the keys of the token as
\* they are spelled.
MatchesAdminRules(claims, rules) ==
  \E r \in AdminRules(rules), c \in claims : c[1] = r[1] /\ Lower[c[2]] = r[2]

\* Authorize: rcon says whether the password was given, and right.
Authorize(cfg, token, rcon) ==
  \/ cfg.password /\ rcon
  \/ /\ token # NoToken
     /\ \/ AdminMode(cfg.rules) = "any"
        \/ AdminMode(cfg.rules) = "match" /\ MatchesAdminRules(ClaimsOf[token], cfg.rules)

\* JWTVerifier.Parse: the token whose claims the request carries.  live are the
\* tokens that still verify.
Parse(cfg, cred, live) ==
  LET raw == IF cfg.jwt = NoJWT THEN NoToken
             ELSE IF cfg.jwt.header = "custom" THEN cred.front
             ELSE IF cred.bearer # NoToken THEN cred.bearer ELSE cred.cookie
  IN IF raw \in live THEN raw ELSE NoToken

AuthorizeAdmin(cfg, cred, live) == Authorize(cfg, Parse(cfg, cred, live), cred.rcon)

\* Mutant: PKCE is offered with whatever header.
PkceEnabled_anyHeader(cfg) == cfg.jwt # NoJWT /\ cfg.jwt.direct
PkceEnabled(cfg) == cfg.jwt # NoJWT /\ cfg.jwt.direct /\ cfg.jwt.header = "authorization"

AllowsJWTAdmin(cfg) == AdminMode(cfg.rules) # "deny"

\* buildUnauthorizedHint: the ways in that are suggested.
UnauthorizedHint(cfg) ==
  (IF cfg.password THEN {"password"} ELSE {})
    \cup (IF cfg.jwt # NoJWT /\ AllowsJWTAdmin(cfg) THEN {"login"} ELSE {})
=============================================================================
