--------------------------- MODULE MCLoadBalancer ---------------------------
(* Instances of LoadBalancer for TLC.                                      *)
EXTENDS LoadBalancer

CONSTANTS b1, b2, b3

(* No backend, three, and two with one of them listed twice.               *)
MCConfigs == {<<>>, <<b1, b2, b3>>, <<b1, b2, b2>>}
=============================================================================
