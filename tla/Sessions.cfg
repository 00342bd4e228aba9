SPECIFICATION Spec
CONSTANTS
  Tab = {t1, t2}
  IdleTimeout = 2
  AbsoluteTimeout = 3
  MaxSession = 3
  MaxLogin = 1
  MaxTime = 4
SYMMETRY Symmetry
INVARIANT RotationIsUnique
PROPERTIES EndedIsOver TimeoutsAreEnforced
