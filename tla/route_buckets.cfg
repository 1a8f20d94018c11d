SPECIFICATION RouteSpec
CONSTANTS
  Callers = {t1, t2}
  TokenPairs = {p1}
  Routes = {r1, r2}
  NoRoute = NoRoute
  SwapAmounts = {600, 6600}
  MaxOut = 2
  Ttl = 2
INVARIANT BucketsAreNarrow
CHECK_DEADLOCK FALSE
