----------------------------- MODULE MCConfigStore -----------------------------
(* Two processes, of two connections and two tokens one pair that fails. *)
EXTENDS ConfigStore, TLC

CONSTANTS p1, p2, direct, proxied, t1, t2, nginx, redis

TwoProcs == {p1, p2}
TwoConns == {direct, proxied}
TwoTokens == {t1, t2}
ThreePairs == (TwoConns \X TwoTokens) \ {<<proxied, t1>>}
TwoServices == {nginx, redis}
Symmetry == Permutations(TwoProcs) \cup Permutations(TwoServices)
================================================================================
