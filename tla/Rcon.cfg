CONSTANTS
  s1 = s1
  s2 = s2
  s3 = s3
  ip1 = ip1
  ip2 = ip2
  t1 = t1
  t2 = t2
  Sessions = {s1, s2, s3}
  Source <- MCSource
  VIPs = {v1, v2}
  NoVIP = zero
  Nobody = nobody
  Tokens = {t1, t2}
  Lower <- MCLower
  ClaimsOf <- MCClaimsOf
  AdminSource = ip2
  Loads <- MCLoads
SPECIFICATION RconSpec
CHECK_DEADLOCK FALSE
INVARIANTS NoLeakedIdentity BanEndsTarget LoginHolds
PROPERTIES RpcReturns
