SPECIFICATION Spec
CONSTANTS
  p1 = p1
  p2 = p2
  direct = direct
  proxied = proxied
  t1 = t1
  t2 = t2
  nginx = nginx
  redis = redis
  Procs <- TwoProcs
  Conns <- TwoConns
  Tokens <- TwoTokens
  Accepted <- ThreePairs
  Intervals = {"5m", "1h"}
  Services <- TwoServices
  MaxCommands = 3
INVARIANTS
  SavedWasTested
  TimerFindsSettings
  PairWasTested
  NoChangeLost
  TimerFollowsConfig
SYMMETRY Symmetry
CHECK_DEADLOCK FALSE
