----------------------------- MODULE Controller -----------------------------
(***************************************************************************)
(* simulator/controller.py: the maintain loop that keeps the sustained     *)
(* load, the calls of the HTTP master, and shutdown, on one asyncio loop.  *)
(* self._lock is never held across an await that suspends, so a step is    *)
(* what a coroutine does between two sleeps.                               *)
(*                                                                         *)
(* _active keeps the machines in the order they were spawned, so it is a   *)
(* sequence.  What a machine does with its requests is in module Machine,  *)
(* and so is break_machine, which changes nothing but the runtime: here a  *)
(* task runs for the first time, and at some time ends.                    *)
(***************************************************************************)
EXTENDS Naturals, Sequences, FiniteSets, SequencesExt

CONSTANTS MaxTarget,  \* bound on target_active
          MaxManual   \* bound on one-shot machines, active and still to spawn

ASSUME BoundsAssumption == MaxTarget \in Nat /\ MaxManual \in Nat

VARIABLES
  active,   \* _active, with the flags of each runtime and its task
  target,   \* _settings.target_active
  loop,     \* where _maintain_loop is
  left,     \* iterations left of its spawning loop
  manual,   \* machines that the spawn_manual calls in flight have yet to spawn
  closing   \* where shutdown is

vars == <<active, target, loop, left, manual, closing>>

Init == /\ active = <<>> /\ target = 0
        /\ loop = "top" /\ left = 0 /\ manual = 0
        /\ closing = "no"

Listed(P(_)) == {i \in DOMAIN active : P(active[i])}

ActiveManaged == Listed(LAMBDA r : r.managed)
OneShots == Listed(LAMBDA r : ~r.managed)

-----------------------------------------------------------------------------
(* _spawn_one                                                              *)
Spawned(managed) ==
  Append(active, [managed |-> managed, task |-> "created", stop |-> FALSE,
                  drain |-> FALSE, cancel |-> "no"])

(* Wrong: one machine too many is tolerated.                               *)
ExcessByTwo(t) ==
  LET candidates == Listed(LAMBDA r : r.managed /\ ~r.drain)
  IN {i \in candidates : Cardinality({j \in candidates : j >= i}) > t + 1}

(* _trim_excess_locked: all but the t youngest machines of the load.       *)
Excess(t) ==
  LET candidates == Listed(LAMBDA r : r.managed /\ ~r.drain)
  IN {i \in candidates : Cardinality({j \in candidates : j >= i}) > t}

Trimmed(t) == [i \in DOMAIN active |->
                 [active[i] EXCEPT !.stop = @ \/ i \in Excess(t)]]

-----------------------------------------------------------------------------
(* _maintain_loop, from one sleep to the next.                             *)

Lack(listed) == IF target > Cardinality(listed) THEN target - Cardinality(listed) ELSE 0

(* Wrong: machines asked to stop or drain no longer count.                 *)
NeededBesideStopping == Lack(Listed(LAMBDA r : r.managed /\ ~r.stop /\ ~r.drain))

(* Wrong: one-shot machines count towards the target.                      *)
NeededAfterOneShots == Lack(DOMAIN active)

Needed == Lack(ActiveManaged)

RoundBegins == /\ loop = "top" /\ closing = "no"
               /\ Needed > 0
               /\ active' = Spawned(TRUE)
               /\ left' = Needed - 1
               /\ loop' = "spawning"
               /\ UNCHANGED <<target, manual, closing>>

(* The settings have weights without a finite total, and nothing can be    *)
(* drawn, or a NaN for a rate, and there is no time to sleep: the          *)
(* exception ends the loop.                                                *)
RoundFails == /\ loop = "top" /\ closing = "no"
              /\ Needed > 0
              /\ active' \in {active, Spawned(TRUE)}
              /\ loop' = "over"
              /\ UNCHANGED <<target, left, manual, closing>>

RoundIdle == /\ loop = "top" /\ closing = "no"
             /\ Needed = 0
             /\ active' = Trimmed(target)
             /\ UNCHANGED <<target, loop, left, manual, closing>>

(* The number to spawn is the one found when the round began.              *)
RoundGoesOn == /\ loop = "spawning" /\ left > 0
               /\ active' = Spawned(TRUE)
               /\ left' = left - 1
               /\ UNCHANGED <<target, loop, manual, closing>>

RoundEnds == /\ loop = "spawning" /\ left = 0
             /\ active' = Trimmed(target)
             /\ loop' = "top"
             /\ UNCHANGED <<target, left, manual, closing>>

LoopCancelled == /\ loop = "cancelling"
                 /\ loop' = "over" /\ left' = 0
                 /\ UNCHANGED <<active, target, manual, closing>>

-----------------------------------------------------------------------------
(* The calls.  A handler's call that is under way when the HTTP server is  *)
(* closed may still come while the controller shuts down.                  *)

Called == closing # "done"

SetLoad(t) == /\ Called
              /\ target' = t
              /\ active' = Trimmed(t)
              /\ UNCHANGED <<loop, left, manual, closing>>

(* spawn_manual spawns the first of its machines at once.                  *)
SpawnManual(count) == /\ Called
                      /\ Cardinality(OneShots) + manual + count <= MaxManual
                      /\ active' = Spawned(FALSE)
                      /\ manual' = manual + count - 1
                      /\ UNCHANGED <<target, loop, left, closing>>

(* The rest come one sleep apart, whatever has happened in between.        *)
SpawnManualGoesOn == /\ manual > 0
                     /\ active' = Spawned(FALSE)
                     /\ manual' = manual - 1
                     /\ UNCHANGED <<target, loop, left, closing>>

(* A call that can spawn no more raises, or is cancelled when all is over. *)
SpawnManualFails == /\ manual > 0
                    /\ manual' \in 0 .. manual - 1
                    /\ UNCHANGED <<active, target, loop, left, closing>>

StopAll == /\ Called
           /\ target' = 0
           /\ active' = [i \in DOMAIN active |-> [active[i] EXCEPT !.drain = TRUE]]
           /\ UNCHANGED <<loop, left, manual, closing>>

-----------------------------------------------------------------------------
(* shutdown                                                                *)

(* Wrong: the loop is only told by _closed, which it reads once a round.   *)
ShutdownLeavesLoop == /\ closing = "no"
                      /\ closing' = "loop"
                      /\ UNCHANGED <<active, target, loop, left, manual>>

Shutdown == /\ closing = "no"
            /\ closing' = "loop"
            /\ loop' = "cancelling"
            /\ UNCHANGED <<active, target, left, manual>>

(* The loop has been waited for.  Every machine listed now is stopped and  *)
(* cancelled, and the tasks of these are waited for.                       *)
CancelTasks == /\ closing = "loop" /\ loop # "cancelling"
               /\ active' = [i \in DOMAIN active |->
                               [active[i] EXCEPT !.stop = TRUE, !.cancel = "pending"]]
               /\ closing' = "tasks"
               /\ UNCHANGED <<target, loop, left, manual>>

(* Wrong: shutdown waits for the list to become empty.                     *)
ShutdownAwaitsList == /\ closing = "tasks" /\ active = <<>>
                      /\ closing' = "done"
                      /\ UNCHANGED <<active, target, loop, left, manual>>

ShutdownReturns == /\ closing = "tasks"
                   /\ \A i \in DOMAIN active : active[i].cancel = "no" \/ active[i].task = "ended"
                   /\ closing' = "done"
                   /\ UNCHANGED <<active, target, loop, left, manual>>

-----------------------------------------------------------------------------
(* _run_machine                                                            *)

MachineStarts(i) == /\ active[i].task = "created" /\ active[i].cancel # "pending"
                    /\ active' = [active EXCEPT ![i].task = "live"]
                    /\ UNCHANGED <<target, loop, left, manual, closing>>

(* The run is over, in whatever state: the machine leaves the list.        *)
MachineEnds(i) == /\ active[i].task = "live" /\ active[i].cancel # "pending"
                  /\ active' = RemoveAt(active, i)
                  /\ UNCHANGED <<target, loop, left, manual, closing>>

(* The cancellation arrives.  A task that has never run ends without       *)
(* running its finally clause: the machine stays in the list.  A live one  *)
(* closes its connection, or ends at once.                                 *)
MachineCancelled(i) ==
  /\ active[i].cancel = "pending"
  /\ \/ /\ active[i].task = "created"
        /\ active' = [active EXCEPT ![i].task = "ended", ![i].cancel = "delivered"]
     \/ /\ active[i].task = "live"
        /\ \/ active' = [active EXCEPT ![i].cancel = "delivered"]
           \/ active' = RemoveAt(active, i)
  /\ UNCHANGED <<target, loop, left, manual, closing>>

Task(i) == MachineStarts(i) \/ MachineEnds(i) \/ MachineCancelled(i)

-----------------------------------------------------------------------------
Loop == RoundBegins \/ RoundIdle \/ RoundGoesOn \/ RoundEnds \/ LoopCancelled
Closer == CancelTasks \/ ShutdownReturns
Tasks == \E i \in DOMAIN active : Task(i)

Terminating == /\ closing = "done" /\ manual = 0
               /\ \A i \in DOMAIN active : active[i].task = "ended"
               /\ UNCHANGED vars

Next == \/ Loop
        \/ \E t \in 0 .. MaxTarget : SetLoad(t)
        \/ \E count \in 1 .. MaxManual : SpawnManual(count)
        \/ RoundFails
        \/ SpawnManualGoesOn \/ SpawnManualFails
        \/ StopAll
        \/ Shutdown \/ Closer
        \/ Tasks
        \/ Terminating

(* Sleeps end, and a cancelled task is scheduled.  That machines end is    *)
(* assumed only by the properties that need it.                            *)
Spec == Init /\ [][Next]_vars /\ WF_vars(Loop) /\ WF_vars(Closer)
-----------------------------------------------------------------------------
(* The load never overshoots, however its target changes while the loop    *)
(* sleeps between two spawns: with those a round has yet to spawn, there   *)
(* are never more machines than the largest target asked for.              *)
ManagedBounded == Cardinality(ActiveManaged) + left <= MaxTarget

(* When shutdown returns, the task of every machine of the load has ended; *)
(* the loop has spawned none behind its back.                              *)
ShutdownEndsLoad == closing = "done" => \A i \in ActiveManaged : active[i].task = "ended"

(* Machines above the target are asked to stop again and again, so that    *)
(* those a stale round has spawned do not stay, even if no machine ever    *)
(* ends by itself.                                                         *)
Unasked == Listed(LAMBDA r : r.managed /\ ~r.drain /\ ~r.stop)
ExcessStopped == []<>(Cardinality(Unasked) <= target \/ closing # "no")

(* As long as no machine ends, the load reaches its target, whatever runs  *)
(* beside it; only a round that fails is the end of it.                    *)
LoadSustained ==
  <>[](closing = "no" /\ loop # "over") /\ <>[][Len(active') >= Len(active)]_active
    => []<>(Cardinality(ActiveManaged) >= target)

(* shutdown returns if every task it has cancelled goes on until it ends,  *)
(* whatever other machines a spawn_manual call still in flight adds.       *)
TasksCancelled == \E i \in DOMAIN active : active[i].cancel # "no" /\ Task(i)
ShutdownCompletes == WF_vars(TasksCancelled) => (closing # "no" ~> closing = "done")

(* simulator/README.md:106 says that POST /api/stop stops the sustained    *)
(* load and lets the active machines finish.  Once it has set the target   *)
(* to 0 and drained the machines of the load, no other should be spawned.  *)
Stopped == /\ target = 0 /\ ActiveManaged # {}
           /\ \A i \in ActiveManaged : active[i].drain
StoppedLoadStaysStopped ==
  [][Stopped => Cardinality(ActiveManaged') <= Cardinality(ActiveManaged)]_vars
=============================================================================
