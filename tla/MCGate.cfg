CONSTANTS
  t1 = t1
  t2 = t2
  Nobody = Nobody
  Threads = {t1, t2}
  Window = 2
  MaxFailures = 2
  MaxAttempts = 2
  Keys = {"k"}
  Sessions = {"s"}
  Addresses = {"a"}
  KeyLimit = 2
  AnonLimit = 0
  WindowSeconds = 2
  Rate = 2

SPECIFICATION MCSpec

INVARIANT
  RefusalsAreJustified

PROPERTIES
  SlidesOverTheWindow
  NobodyStaysOut
