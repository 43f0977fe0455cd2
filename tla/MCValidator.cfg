SPECIFICATION FairSpec
CONSTANTS
  Worker = {w1, w2}
  Server = Server
  w1 = w1
  w2 = w2
  MaxDepth = 3
  Sessions <- MCSessions
  Key <- MCKey
  Approx <- MCApprox
INVARIANTS Accounted VerdictsTrue
PROPERTY Validated
CHECK_DEADLOCK FALSE
