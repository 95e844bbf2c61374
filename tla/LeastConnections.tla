-------------------------- MODULE LeastConnections --------------------------
(***************************************************************************)
(* What the balancer promises, with no sockets, goroutines or cursor: each *)
(* client that is assigned gets a backend of the pool that carries no more *)
(* sessions than any other, keeps it until it is released, and is always   *)
(* released in the end.  LoadBalancer implements this specification.       *)
(***************************************************************************)
EXTENDS FiniteSets, Naturals

CONSTANTS Clients,   \* client connections
          Addr,      \* backend addresses
          NoBackend  \* the assignment of a client that has none, not an address

VARIABLES pool,      \* the addresses the balancer may choose from
          assigned   \* client -> the address it was given

vars == <<pool, assigned>>

Load(a) == Cardinality({c \in Clients : assigned[c] = a})

LeastLoaded == {a \in pool : \A b \in pool : Load(a) <= Load(b)}

Init == /\ pool \in SUBSET Addr
        /\ assigned = [c \in Clients |-> NoBackend]

Assign(c) == /\ assigned[c] = NoBackend
             /\ \E a \in LeastLoaded : assigned' = [assigned EXCEPT ![c] = a]
             /\ UNCHANGED pool

Release(c) == /\ assigned[c] # NoBackend
              /\ assigned' = [assigned EXCEPT ![c] = NoBackend]
              /\ UNCHANGED pool

Next == \E c \in Clients : Assign(c) \/ Release(c)

Safety == Init /\ [][Next]_vars

Spec == Safety /\ \A c \in Clients : WF_vars(Release(c))
=============================================================================
