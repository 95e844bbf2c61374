-------------------------- MODULE LoadBalancerTies --------------------------
(***************************************************************************)
(* The round robin of selectBackend, watched: LoadBalancer with a history  *)
(* of which backend won the last tie between the same candidates.          *)
(***************************************************************************)
EXTENDS LoadBalancer

VARIABLE lastWinner  \* set of positions -> the address chosen the last time

TiesInit == Init /\ lastWinner = [T \in SUBSET (DOMAIN backends) |-> NoBackend]

TiesNext ==
  \/ \E c \in Clients :
       Select(c) /\ lastWinner' = [lastWinner EXCEPT ![Tied] = target'[c]]
  \/ /\ Next /\ UNCHANGED lastWinner
     /\ \A c \in Clients : ~(pc[c] = "select" /\ pc'[c] = "dial")

TiesSpec == TiesInit /\ [][TiesNext]_<<vars, lastWinner>>

(* "If multiple backends are tied, it uses round robin among the tied      *)
(* candidates": when the same backends tie again, another one is chosen.   *)
TiesRotate ==
  [][\A c \in Clients :
       pc[c] = "select" /\ pc'[c] = "dial" /\ Cardinality(Tied) > 1
         => target'[c] # lastWinner[Tied]]_<<vars, lastWinner>>
=============================================================================
