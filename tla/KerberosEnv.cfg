SPECIFICATION KerberosSpec
CONSTANTS
  a1 = a1  a2 = a2  b1 = b1
  ka = ka  kb = kb
  Conn = {a1, a2, b1}
  Cred = {ka, kb}
  CredOf <- MCCredOf
  Threads = 2
  Free = Free
  Outside = Outside
  CancelAt = {"ensuring", "connecting"}
  MaxCancels = 1
  MaxExpiries = 1
  Principal = {p}
  Caller = {x, y}
  Renew = TRUE
  MaxCaptures = 2
  MaxAsks = 4
  MaxEnds = 2
CONSTRAINT Apart
INVARIANT OwnEnvironment
 
 
CHECK_DEADLOCK FALSE
