------------------------------- MODULE MCRcon -------------------------------
(* Rcon for TLC: every small policy, with logins and without clients; and     *)
(* three requests of two sources beside an administrator with the password.   *)
EXTENDS Rcon
CONSTANTS s1, s2, s3, ip1, ip2, t1, t2

MCSource == [s \in Sessions |-> IF s = s3 THEN ip2 ELSE ip1]

MCLower == [n \in {"groups", "Groups", "admins", "Admins", "email", "e"} |->
              CASE n = "Groups" -> "groups" [] n = "Admins" -> "admins" [] OTHER -> n]
MCClaimsOf == (t1 :> {<<"groups", "Admins">>, <<"groups", "e">>}) @@ (t2 :> {<<"email", "e">>})

Rules == {AnyLogin, Malformed, <<"Groups", "admins">>, <<"email", "e">>}
JWTs  == {NoJWT} \cup [header : {"authorization", "custom"}, direct : BOOLEAN]

Policies == {c \in [jwt : JWTs, password : BOOLEAN, rules : BoundedSeq(Rules, 2)] :
               AdminMode(c.rules) # "error"}

MCLoads ==
  {[config |-> c, sessions |-> {}, logins |-> TRUE] : c \in Policies}
  \cup {[config |-> [jwt |-> NoJWT, password |-> TRUE, rules |-> <<>>],
         sessions |-> Sessions, logins |-> FALSE]}
=============================================================================
