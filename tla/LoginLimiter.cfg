SPECIFICATION Spec
CONSTANTS
  Account = {u1, u2}
  Ip = {i1, i2}
  Attempt = {t1, t2, t3}
  Window = 2
  AccountLimit = 2
  IpLimit = 3
  MaxEntries = 3
  MaxTime = 4
SYMMETRY Symmetry
INVARIANTS TypeOK GuessesAreBounded RetryAfterIsExact
PROPERTIES OnlyTimeOrSuccessForgives WindowIsFixed ReservationsAreReturned
