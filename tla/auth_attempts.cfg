\* A wrong code.
SPECIFICATION Spec
CONSTANTS
  Email = {e1}
  Uid = {}
  User = {u1}
  Req = {r1}
  e1 = e1
  u1 = u1
  Known <- NoneOrOne
  JwtTtl = 1
  Ttl = 2
  Cooldown = 0
  MaxAttempts = 2
  MaxNow = 0
  MaxCalls = 2
  MaxWrong = 1
  None = None
CHECK_DEADLOCK FALSE
INVARIANT AttemptsCounted
