------------------------- MODULE MCLoadBalancerTies -------------------------
(* An instance of LoadBalancerTies for TLC: two backends.                  *)
EXTENDS LoadBalancerTies

CONSTANTS b1, b2

TwoBackends == {<<b1, b2>>}
=============================================================================
