SPECIFICATION LifeSpec
CONSTANTS
  Worker = {w1, w2}
  Client = {c1, c2}
  Freshness = 2
INVARIANTS ListenerClosesFirst
CHECK_DEADLOCK FALSE
