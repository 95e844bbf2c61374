-------------------------- MODULE SessionLifecycle --------------------------
(***************************************************************************)
(* What the backend promises of a connection, with no server, no locks and *)
(* no shutdown: `hello -> telemetry* -> done`, each connection ends in one *)
(* outcome, and the sessions the status API lists are the active ones,     *)
(* plus for a moment those that a protocol error has just ended.  Backend  *)
(* implements this specification.                                          *)
(***************************************************************************)
CONSTANT Conns

VARIABLE phase  \* connection -> where it is in its life

Init == phase = [c \in Conns |-> "fresh"]

Move(c, from, to) == phase[c] = from /\ phase' = [phase EXCEPT ![c] = to]

Open(c) == Move(c, "fresh", "open")
Begin(c) == Move(c, "open", "active")
Complete(c) == Move(c, "active", "completed")
Reject(c) == Move(c, "open", "rejected") \/ Move(c, "active", "failed")
Clear(c) == Move(c, "failed", "rejected")
Drop(c) == Move(c, "open", "dropped") \/ Move(c, "active", "dropped")

Next == \E c \in Conns : \/ Open(c) \/ Begin(c) \/ Complete(c)
                         \/ Reject(c) \/ Clear(c) \/ Drop(c)

Safety == Init /\ [][Next]_phase

Spec == Safety /\ \A c \in Conns : WF_phase(Clear(c))
=============================================================================
