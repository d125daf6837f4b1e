\* Two addresses, two Firebase accounts, two requests at a time, four in all; codes that
\* expire.  Wrong ones, which leave nothing behind, are in auth_attempts.
SPECIFICATION Spec
CONSTANTS
  Email = {e1, e2}
  Uid = {f1, f2}
  User = {u1, u2, u3}
  Req = {r1, r2}
  e1 = e1
  u1 = u1
  Known <- NoneOrOne
  JwtTtl = 1
  Ttl = 2
  Cooldown = 1
  MaxAttempts = 2
  MaxNow = 2
  MaxCalls = 4
  MaxWrong = 0
  None = None
SYMMETRY Symmetry
CHECK_DEADLOCK FALSE
INVARIANTS
  LinkReplacedOnlyTogether
  CodeReusedOnlyTogether
  CodesApartUnlessTogether
  TokenOfLinkedAccount
