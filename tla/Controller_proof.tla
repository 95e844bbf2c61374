-------------------------- MODULE Controller_proof --------------------------
(***************************************************************************)
(* Proofs about Controller for any bounds on the target and on the number  *)
(* of one-shot machines.                                                   *)
(***************************************************************************)
EXTENDS Controller, FiniteSetTheorems, SequenceTheorems, WellFoundedInduction, TLAPS

Runtime == [managed : BOOLEAN, task : {"created", "live", "ended"},
            stop : BOOLEAN, drain : BOOLEAN,
            cancel : {"no", "pending", "delivered"}]

(* The state of every variable has its type.                               *)
TypeOK == /\ active \in Seq(Runtime)
          /\ target \in 0 .. MaxTarget
          /\ loop \in {"top", "spawning", "cancelling", "over"}
          /\ left \in Nat /\ manual \in Nat
          /\ closing \in {"no", "loop", "tasks", "done"}

(* The loop is over before the tasks are cancelled, and then every machine *)
(* of the load has been cancelled.                                         *)
CancelledAll ==
  /\ closing \in {"tasks", "done"} => loop = "over"
  /\ closing # "no" => loop \in {"cancelling", "over"}
  /\ closing \in {"tasks", "done"} => \A i \in ActiveManaged : active[i].cancel # "no"

(* A round has nothing left to spawn when it is over.                      *)
NothingLeft == loop = "top" => left = 0

IInv == TypeOK /\ ManagedBounded /\ CancelledAll /\ NothingLeft /\ ShutdownEndsLoad

-----------------------------------------------------------------------------
(* The machines of the load are finitely many.                             *)
LEMMA ManagedFinite ==
  ASSUME TypeOK
  PROVE  /\ ActiveManaged = {i \in 1 .. Len(active) : active[i].managed}
         /\ IsFiniteSet(ActiveManaged) /\ Cardinality(ActiveManaged) \in Nat
<1>1. ActiveManaged = {i \in 1 .. Len(active) : active[i].managed}
  BY DEF TypeOK, ActiveManaged, Listed
<1>2. Len(active) \in Nat BY DEF TypeOK
<1>3. IsFiniteSet(1 .. Len(active)) BY <1>2, FS_Interval
<1> QED BY <1>1, <1>3, FS_Subset, FS_CardinalityType

LEMMA ManagedAfter ==
  ASSUME active' \in Seq(Runtime)
  PROVE  ActiveManaged' = {i \in 1 .. Len(active') : active'[i].managed}
BY DEF ActiveManaged, Listed

(* A machine is added at the end.                                          *)
LEMMA SpawnedOne ==
  ASSUME TypeOK, NEW managed \in BOOLEAN, active' = Spawned(managed)
  PROVE  /\ active' \in Seq(Runtime)
         /\ ActiveManaged' = ActiveManaged \union
                               {i \in {Len(active) + 1} : managed}
         /\ Len(active) + 1 \notin ActiveManaged
         /\ \A i \in ActiveManaged : active'[i] = active[i]
<1>1. /\ active' \in Seq(Runtime) /\ Len(active') = Len(active) + 1
      /\ \A i \in 1 .. Len(active) : active'[i] = active[i]
      /\ active'[Len(active) + 1].managed = managed
  BY AppendProperties DEF Spawned, TypeOK, Runtime
<1>2. Len(active) \in Nat BY DEF TypeOK
<1>3. ActiveManaged' = {i \in 1 .. Len(active) + 1 : active'[i].managed}
  BY <1>1, ManagedAfter
<1> QED BY <1>1, <1>2, <1>3, ManagedFinite

LEMMA SpawnedManaged ==
  ASSUME TypeOK, active' = Spawned(TRUE)
  PROVE  /\ active' \in Seq(Runtime)
         /\ Cardinality(ActiveManaged') = Cardinality(ActiveManaged) + 1
<1>1. /\ active' \in Seq(Runtime)
      /\ ActiveManaged' = ActiveManaged \union {Len(active) + 1}
      /\ Len(active) + 1 \notin ActiveManaged
  BY SpawnedOne
<1> QED BY <1>1, ManagedFinite, FS_AddElement

-----------------------------------------------------------------------------
(* What every step does to the load that spawns no machine of it: it loses *)
(* none but one that leaves the list, and nothing that has been cancelled  *)
(* or has ended is undone.                                                 *)
Carried(old, new) == /\ old.cancel # "no" => new.cancel # "no"
                     /\ old.task = "ended" => new.task = "ended"

Kept == /\ active' \in Seq(Runtime)
        /\ Cardinality(ActiveManaged') <= Cardinality(ActiveManaged)
        /\ \/ Cardinality(ActiveManaged') = Cardinality(ActiveManaged)
           \/ \E i \in ActiveManaged : active' = RemoveAt(active, i)
        /\ \A j \in ActiveManaged' : \E k \in ActiveManaged : Carried(active[k], active'[j])

LEMMA SameLoad ==
  ASSUME TypeOK, active' \in Seq(Runtime), ActiveManaged' = ActiveManaged,
         \A i \in ActiveManaged : Carried(active[i], active'[i])
  PROVE  Kept
<1>1. /\ Cardinality(ActiveManaged') <= Cardinality(ActiveManaged)
      /\ Cardinality(ActiveManaged') = Cardinality(ActiveManaged)
  BY ManagedFinite
<1> QED BY <1>1 DEF Kept

LEMMA SpawnedOneShot == ASSUME TypeOK, active' = Spawned(FALSE) PROVE Kept
<1>1. /\ active' \in Seq(Runtime) /\ ActiveManaged' = ActiveManaged
      /\ \A i \in ActiveManaged : active'[i] = active[i]
  BY SpawnedOne
<1>2. \A i \in ActiveManaged : Carried(active[i], active'[i]) BY <1>1 DEF Carried
<1> QED BY <1>1, <1>2, SameLoad

LEMMA Untouched == ASSUME TypeOK, active' = active PROVE Kept
<1>1. ActiveManaged' = ActiveManaged BY DEF ActiveManaged, Listed
<1>2. active' \in Seq(Runtime) BY DEF TypeOK
<1>3. \A i \in ActiveManaged : Carried(active[i], active'[i]) BY DEF Carried
<1> QED BY <1>1, <1>2, <1>3, SameLoad

(* The runtimes change in place.                                           *)
ChangedTo(old, new) == /\ new \in Runtime /\ new.managed = old.managed
                       /\ Carried(old, new)

LEMMA InPlace ==
  ASSUME TypeOK, active' = [i \in DOMAIN active |-> active'[i]],
         \A i \in DOMAIN active : ChangedTo(active[i], active'[i])
  PROVE  Kept
<1>1. DOMAIN active = 1 .. Len(active) /\ Len(active) \in Nat BY DEF TypeOK
<1>2. \A i \in DOMAIN active : ChangedTo(active[i], active'[i]) OBVIOUS
<1>3. active' \in Seq(Runtime) /\ DOMAIN active' = DOMAIN active
  <2>1. \A i \in DOMAIN active : active'[i] \in Runtime BY DEF ChangedTo
  <2>2. active' \in [DOMAIN active -> Runtime] BY <2>1
  <2> QED BY <1>1, <2>2, SeqDef
<1>4. ActiveManaged' = ActiveManaged /\ ActiveManaged \in SUBSET DOMAIN active
  BY <1>2, <1>3 DEF ActiveManaged, Listed, ChangedTo
<1>5. \A i \in ActiveManaged : Carried(active[i], active'[i])
  BY <1>2, <1>4 DEF ChangedTo
<1> QED BY <1>3, <1>4, <1>5, SameLoad

(* A machine leaves the list and those behind it move up.                  *)
LEMMA RemovedOne ==
  ASSUME TypeOK, NEW i \in DOMAIN active, active' = RemoveAt(active, i)
  PROVE  /\ active' \in Seq(Runtime) /\ Len(active') = Len(active) - 1
         /\ \A j \in 1 .. Len(active) - 1 :
              active'[j] = IF j < i THEN active[j] ELSE active[j + 1]
<1> DEFINE front == SubSeq(active, 1, i - 1)
           back == SubSeq(active, i + 1, Len(active))
<1>1. Len(active) \in Nat /\ i \in 1 .. Len(active)
      /\ \A j \in 1 .. Len(active) : active[j] \in Runtime
  BY DEF TypeOK
<1>2. front \in Seq(Runtime) /\ Len(front) = i - 1
      /\ \A j \in 1 .. i - 1 : front[j] = active[j]
  <2>1. \A j \in 1 .. i - 1 : active[j] \in Runtime BY <1>1
  <2>2. 1 \in Int /\ i - 1 \in Int BY <1>1
  <2> HIDE DEF front
  <2>3. /\ front \in Seq(Runtime) /\ Len(front) = IF 1 <= i - 1 THEN (i - 1) - 1 + 1 ELSE 0
        /\ \A j \in 1 .. (i - 1) - 1 + 1 : front[j] = active[1 + j - 1]
    BY <2>1, <2>2, SubSeqProperties DEF front
  <2> QED BY <1>1, <2>3
<1>3. back \in Seq(Runtime) /\ Len(back) = Len(active) - i
      /\ \A j \in 1 .. Len(active) - i : back[j] = active[i + j]
  <2>1. \A j \in i + 1 .. Len(active) : active[j] \in Runtime BY <1>1
  <2>2. i + 1 \in Int /\ Len(active) \in Int BY <1>1
  <2> HIDE DEF back
  <2>3. /\ back \in Seq(Runtime)
        /\ Len(back) = IF i + 1 <= Len(active) THEN Len(active) - (i + 1) + 1 ELSE 0
        /\ \A j \in 1 .. Len(active) - (i + 1) + 1 : back[j] = active[(i + 1) + j - 1]
    BY <2>1, <2>2, SubSeqProperties DEF back
  <2> QED BY <1>1, <2>3
<1>4. active' = front \o back BY DEF RemoveAt
<1> HIDE DEF front, back
<1>5. /\ active' \in Seq(Runtime) /\ Len(active') = Len(front) + Len(back)
      /\ \A j \in 1 .. Len(front) + Len(back) :
           active'[j] = IF j <= Len(front) THEN front[j] ELSE back[j - Len(front)]
  BY <1>2, <1>3, <1>4, ConcatProperties
<1>6. Len(active') = Len(active) - 1 BY <1>1, <1>2, <1>3, <1>5
<1>7. ASSUME NEW j \in 1 .. Len(active) - 1
      PROVE  active'[j] = IF j < i THEN active[j] ELSE active[j + 1]
  <2>1. active'[j] = IF j <= i - 1 THEN front[j] ELSE back[j - (i - 1)]
    <3>1. Len(front) = i - 1 /\ Len(back) = Len(active) - i BY <1>2, <1>3
    <3>2. j \in 1 .. Len(front) + Len(back) BY <1>1, <3>1
    <3>3. active'[j] = IF j <= Len(front) THEN front[j] ELSE back[j - Len(front)]
      BY <1>5, <3>2
    <3> QED BY <3>1, <3>3
  <2>2. CASE j < i BY <1>1, <1>2, <1>7, <2>1, <2>2
  <2>3. CASE ~(j < i)
    <3>1. j - (i - 1) \in 1 .. Len(active) - i /\ i + (j - (i - 1)) = j + 1
      BY <1>1, <1>7, <2>3
    <3> QED BY <1>1, <1>3, <1>7, <2>1, <2>3, <3>1
  <2> QED BY <2>2, <2>3
<1> QED BY <1>5, <1>6, <1>7

LEMMA RemovedKeeps ==
  ASSUME TypeOK, NEW i \in DOMAIN active, active' = RemoveAt(active, i)
  PROVE  Kept
<1> DEFINE before(j) == IF j < i THEN j ELSE j + 1
           f == [j \in ActiveManaged' |-> before(j)]
<1>1. /\ Len(active) \in Nat /\ i \in 1 .. Len(active)
      /\ ActiveManaged = {j \in 1 .. Len(active) : active[j].managed}
  BY ManagedFinite DEF TypeOK
<1>2. active' \in Seq(Runtime) BY RemovedOne
<1>3. ActiveManaged' = {j \in 1 .. Len(active) - 1 : active'[j].managed}
  BY <1>2, RemovedOne, ManagedAfter
<1>4. ASSUME NEW j \in ActiveManaged'
      PROVE  active'[j] = active[before(j)] /\ before(j) \in ActiveManaged
  <2>1. j \in 1 .. Len(active) - 1 /\ active'[j].managed BY <1>3
  <2>2. active'[j] = active[before(j)] BY <2>1, RemovedOne
  <2>3. before(j) \in 1 .. Len(active) BY <1>1, <2>1
  <2> QED BY <1>1, <2>1, <2>2, <2>3
<1>5. f \in Injection(ActiveManaged', ActiveManaged)
  <2>1. f \in [ActiveManaged' -> ActiveManaged] BY <1>4
  <2>2. \A j, k \in ActiveManaged' : f[j] = f[k] => j = k BY <1>1, <1>3
  <2> QED BY <2>1, <2>2 DEF Injection, IsInjective
<1>6. Cardinality(ActiveManaged') <= Cardinality(ActiveManaged)
  BY <1>5, ManagedFinite, FS_Injection
<1>7. \A j \in ActiveManaged' : \E k \in ActiveManaged : Carried(active[k], active'[j])
  BY <1>4 DEF Carried
<1>8. ASSUME i \notin ActiveManaged
      PROVE  Cardinality(ActiveManaged') = Cardinality(ActiveManaged)
  <2>1. ASSUME NEW k \in ActiveManaged PROVE \E j \in ActiveManaged' : f[j] = k
    <3> DEFINE j == IF k < i THEN k ELSE k - 1
    <3>1. k \in 1 .. Len(active) /\ active[k].managed /\ k # i BY <1>1, <1>8
    <3>2. j \in 1 .. Len(active) - 1 /\ before(j) = k BY <1>1, <3>1
    <3> HIDE DEF j
    <3>3. active'[j] = active[before(j)] BY <3>2, RemovedOne
    <3>4. j \in ActiveManaged' BY <1>3, <3>1, <3>2, <3>3
    <3> QED BY <3>2, <3>4
  <2>2. f \in Surjection(ActiveManaged', ActiveManaged) BY <1>4, <2>1 DEF Surjection
  <2>3. IsFiniteSet(ActiveManaged') BY <1>5, ManagedFinite, FS_Injection
  <2>4. Cardinality(ActiveManaged) <= Cardinality(ActiveManaged') BY <2>2, <2>3, FS_Surjection
  <2>5. Cardinality(ActiveManaged') \in Nat BY <2>3, FS_CardinalityType
  <2> QED BY <1>6, <2>4, <2>5, ManagedFinite
<1> QED BY <1>2, <1>6, <1>7, <1>8 DEF Kept

(* One runtime changes.                                                    *)
LEMMA OneChanged ==
  ASSUME TypeOK, NEW i \in DOMAIN active, NEW r, ChangedTo(active[i], r),
         active' = [active EXCEPT ![i] = r]
  PROVE  Kept
<1>1. \A j \in DOMAIN active : active[j] \in Runtime BY DEF TypeOK
<1>2. \A j \in DOMAIN active : ChangedTo(active[j], IF j = i THEN r ELSE active[j])
  BY <1>1 DEF ChangedTo, Carried
<1>3. active' = [j \in DOMAIN active |-> IF j = i THEN r ELSE active[j]]
  BY DEF TypeOK
<1>4. \A j \in DOMAIN active : ChangedTo(active[j], active'[j]) BY <1>2, <1>3
<1>5. active' = [j \in DOMAIN active |-> active'[j]] BY <1>3
<1> QED BY <1>4, <1>5, InPlace

LEMMA RuntimeFields ==
  ASSUME NEW r \in Runtime
  PROVE  /\ \A stop \in BOOLEAN : ChangedTo(r, [r EXCEPT !.stop = stop])
         /\ ChangedTo(r, [r EXCEPT !.drain = TRUE])
         /\ ChangedTo(r, [r EXCEPT !.stop = TRUE, !.cancel = "pending"])
         /\ r.task = "created" => ChangedTo(r, [r EXCEPT !.task = "live"])
         /\ ChangedTo(r, [r EXCEPT !.task = "ended", !.cancel = "delivered"])
         /\ ChangedTo(r, [r EXCEPT !.cancel = "delivered"])
BY DEF Runtime, ChangedTo, Carried

(* A step of a machine's task.                                             *)
LEMMA TaskKeeps == ASSUME TypeOK, NEW i \in DOMAIN active, Task(i) PROVE Kept
<1>1. active[i] \in Runtime BY DEF TypeOK
<1>2. CASE active' = RemoveAt(active, i) BY <1>2, RemovedKeeps
<1>3. CASE MachineStarts(i)
  BY <1>1, <1>3, RuntimeFields, OneChanged DEF MachineStarts
<1>4. CASE active' = [active EXCEPT ![i].task = "ended", ![i].cancel = "delivered"]
  <2> DEFINE r == [active[i] EXCEPT !.task = "ended", !.cancel = "delivered"]
  <2>1. ChangedTo(active[i], r) BY <1>1, RuntimeFields
  <2>2. active' = [active EXCEPT ![i] = r] BY <1>4 DEF TypeOK
  <2> HIDE DEF r
  <2> QED BY <2>1, <2>2, OneChanged
<1>5. CASE active' = [active EXCEPT ![i].cancel = "delivered"]
  BY <1>1, <1>5, RuntimeFields, OneChanged
<1> QED BY <1>2, <1>3, <1>4, <1>5 DEF Task, MachineEnds, MachineCancelled

(* Trimming, draining and cancelling set flags.                            *)
LEMMA TrimmedKeeps == ASSUME TypeOK, NEW t, active' = Trimmed(t) PROVE Kept
<1>1. \A j \in DOMAIN active : active[j] \in Runtime BY DEF TypeOK
<1> DEFINE Changed(j) == [active[j] EXCEPT !.stop = @ \/ j \in Excess(t)]
<1>2. \A j \in DOMAIN active : ChangedTo(active[j], Changed(j)) BY <1>1, RuntimeFields
<1>3. active' = [j \in DOMAIN active |-> Changed(j)] BY DEF Trimmed
<1> HIDE DEF Changed
<1>4. \A j \in DOMAIN active : ChangedTo(active[j], active'[j]) BY <1>2, <1>3
<1>5. active' = [j \in DOMAIN active |-> active'[j]] BY <1>3
<1> QED BY <1>4, <1>5, InPlace

LEMMA StopAllKeeps == ASSUME TypeOK, StopAll PROVE Kept
<1>1. \A j \in DOMAIN active : active[j] \in Runtime BY DEF TypeOK
<1> DEFINE Changed(j) == [active[j] EXCEPT !.drain = TRUE]
<1>2. \A j \in DOMAIN active : ChangedTo(active[j], Changed(j)) BY <1>1, RuntimeFields
<1>3. active' = [j \in DOMAIN active |-> Changed(j)] BY DEF StopAll
<1> HIDE DEF Changed
<1>4. \A j \in DOMAIN active : ChangedTo(active[j], active'[j]) BY <1>2, <1>3
<1>5. active' = [j \in DOMAIN active |-> active'[j]] BY <1>3
<1> QED BY <1>4, <1>5, InPlace

LEMMA CancelTasksKeeps == ASSUME TypeOK, CancelTasks PROVE Kept
<1>1. \A j \in DOMAIN active : active[j] \in Runtime BY DEF TypeOK
<1> DEFINE Changed(j) == [active[j] EXCEPT !.stop = TRUE, !.cancel = "pending"]
<1>2. \A j \in DOMAIN active : ChangedTo(active[j], Changed(j)) BY <1>1, RuntimeFields
<1>3. active' = [j \in DOMAIN active |-> Changed(j)] BY DEF CancelTasks
<1> HIDE DEF Changed
<1>4. \A j \in DOMAIN active : ChangedTo(active[j], active'[j]) BY <1>2, <1>3
<1>5. active' = [j \in DOMAIN active |-> active'[j]] BY <1>3
<1> QED BY <1>4, <1>5, InPlace
-----------------------------------------------------------------------------
(* A load that does not grow stays within its bound.                       *)
LEMMA BoundKept ==
  ASSUME TypeOK, ManagedBounded, Kept, left' \in Nat, left' <= left
  PROVE  ManagedBounded'
<1>1. Cardinality(ActiveManaged) \in Nat BY ManagedFinite
<1>2. active' \in Seq(Runtime) BY DEF Kept
<1>3. Len(active') \in Nat BY <1>2
<1>4. ActiveManaged' \subseteq 1 .. Len(active') BY <1>2, ManagedAfter
<1>5. IsFiniteSet(1 .. Len(active')) BY <1>3, FS_Interval
<1>6. IsFiniteSet(ActiveManaged') BY <1>4, <1>5, FS_Subset
<1>7. Cardinality(ActiveManaged') \in Nat BY <1>6, FS_CardinalityType
<1> QED BY <1>1, <1>7, BoundsAssumption DEF TypeOK, ManagedBounded, Kept

(* A step that spawns no machine of the load and does not take shutdown    *)
(* further keeps the invariant.                                            *)
LEMMA QuietStep ==
  ASSUME IInv, Kept, closing' = closing,
         loop' \in {"top", "spawning", "cancelling", "over"},
         closing # "no" => loop' \in {loop, "over"},
         left' \in Nat, left' <= left, loop' = "top" => left' = 0,
         target' \in 0 .. MaxTarget, manual' \in Nat
  PROVE  IInv'
<1>1. TypeOK' BY DEF IInv, TypeOK, Kept
<1>2. ManagedBounded' BY BoundKept DEF IInv
<1>3. CancelledAll' BY DEF IInv, TypeOK, CancelledAll, Kept, Carried
<1>4. ShutdownEndsLoad' BY DEF IInv, ShutdownEndsLoad, Kept, Carried
<1> QED BY <1>1, <1>2, <1>3, <1>4 DEF IInv, NothingLeft

(* A round that fails has spawned one machine of those it needs, or none.  *)
LEMMA FailStep == ASSUME IInv, RoundFails PROVE IInv'
<1>1. TypeOK BY DEF IInv
<1>2. CASE active' = active
  <2>1. Kept BY <1>1, <1>2, Untouched
  <2> QED BY <1>1, <2>1, QuietStep DEF RoundFails, TypeOK
<1>3. CASE active' = Spawned(TRUE)
  <2>1. /\ active' \in Seq(Runtime)
        /\ Cardinality(ActiveManaged') = Cardinality(ActiveManaged) + 1
    BY <1>1, <1>3, SpawnedManaged
  <2>2. Cardinality(ActiveManaged) \in Nat BY <1>1, ManagedFinite
  <2>3. target > Cardinality(ActiveManaged)
    BY <1>1, <2>2, BoundsAssumption DEF RoundFails, TypeOK, Needed, Lack
  <2>4. left = 0 => Cardinality(ActiveManaged) + 1 + left <= MaxTarget
    BY <1>1, <2>2, <2>3, BoundsAssumption DEF TypeOK
  <2>5. left = 0 BY DEF IInv, NothingLeft, RoundFails
  <2> QED BY <1>1, <2>1, <2>4, <2>5
          DEF RoundFails, IInv, TypeOK, ManagedBounded, CancelledAll, NothingLeft, ShutdownEndsLoad
<1> QED BY <1>2, <1>3 DEF RoundFails

(* A spawned machine of the load is one that was still to spawn.           *)
LEMMA SpawnStep == ASSUME IInv, RoundBegins \/ RoundGoesOn PROVE IInv'
<1>1. /\ active' = Spawned(TRUE) /\ closing' = closing /\ closing = "no"
      /\ target' = target /\ manual' = manual
  BY DEF IInv, TypeOK, CancelledAll, RoundBegins, RoundGoesOn
<1>2. /\ active' \in Seq(Runtime)
      /\ Cardinality(ActiveManaged') = Cardinality(ActiveManaged) + 1
  BY <1>1, SpawnedManaged DEF IInv
<1>3. Cardinality(ActiveManaged) \in Nat BY ManagedFinite DEF IInv
<1>4. /\ left' \in Nat /\ loop' = "spawning"
      /\ Cardinality(ActiveManaged) + 1 + left' <= MaxTarget
  <2>1. CASE RoundBegins
    <3>1. Needed > 0 => Needed = target - Cardinality(ActiveManaged)
      BY <1>3, BoundsAssumption DEF IInv, TypeOK, Needed, Lack
    <3>2. left' = Needed - 1 /\ Needed > 0 /\ loop' = "spawning"
      BY <2>1 DEF RoundBegins
    <3>3. target \in Nat /\ target <= MaxTarget
      BY BoundsAssumption DEF IInv, TypeOK
    <3> QED BY <1>3, <3>1, <3>2, <3>3, BoundsAssumption
  <2>2. CASE RoundGoesOn
    <3>1. left' = left - 1 /\ left > 0 /\ loop' = "spawning"
      BY <2>2 DEF RoundGoesOn
    <3> QED BY <1>3, <3>1, BoundsAssumption DEF IInv, TypeOK, ManagedBounded
  <2> QED BY <2>1, <2>2
<1> QED BY <1>1, <1>2, <1>4
        DEF IInv, TypeOK, ManagedBounded, CancelledAll, NothingLeft, ShutdownEndsLoad

(* The steps of shutdown.                                                  *)
LEMMA ShutdownStep == ASSUME IInv, Shutdown \/ CancelTasks \/ ShutdownReturns PROVE IInv'
<1> USE DEF IInv
<1>1. CASE Shutdown
  <2>1. ActiveManaged' = ActiveManaged BY <1>1 DEF Shutdown, ActiveManaged, Listed
  <2> QED BY <1>1, <2>1 DEF Shutdown, TypeOK, ManagedBounded, CancelledAll, NothingLeft, ShutdownEndsLoad
<1>2. CASE CancelTasks
  <2>1. Kept BY <1>2, CancelTasksKeeps
  <2>2. TypeOK' BY <1>2, <2>1 DEF CancelTasks, TypeOK, Kept
  <2>3. left' \in Nat /\ left' <= left
    <3>1. left' = left BY <1>2 DEF CancelTasks
    <3>2. left \in Nat BY DEF TypeOK
    <3> QED BY <3>1, <3>2
  <2>4. ManagedBounded' /\ NothingLeft' BY <1>2, <2>1, <2>3, BoundKept DEF CancelTasks, NothingLeft
  <2>5. \A i \in DOMAIN active' : active'[i].cancel = "pending"
    <3>1. \A i \in DOMAIN active : active[i] \in Runtime BY DEF TypeOK
    <3> QED BY <1>2, <3>1 DEF CancelTasks, Runtime
  <2>6. ActiveManaged' \subseteq DOMAIN active' BY DEF ActiveManaged, Listed
  <2>7. CancelledAll' BY <1>2, <2>5, <2>6 DEF CancelTasks, TypeOK, CancelledAll
  <2>8. ShutdownEndsLoad' BY <1>2 DEF CancelTasks, ShutdownEndsLoad
  <2> QED BY <2>2, <2>4, <2>7, <2>8
<1>3. CASE ShutdownReturns
  <2>1. ActiveManaged' = ActiveManaged /\ ActiveManaged \subseteq DOMAIN active
    BY <1>3 DEF ShutdownReturns, ActiveManaged, Listed
  <2> QED BY <1>3, <2>1
          DEF ShutdownReturns, TypeOK, ManagedBounded, CancelledAll, NothingLeft, ShutdownEndsLoad
<1> QED BY <1>1, <1>2, <1>3

(* Every step keeps the invariant.                                         *)
LEMMA Step == ASSUME IInv, [Next]_vars PROVE IInv'
<1>1. TypeOK /\ NothingLeft BY DEF IInv
<1>2. CASE RoundBegins \/ RoundGoesOn BY <1>2, SpawnStep
<1>3. CASE RoundIdle
  <2>1. Kept BY <1>1, <1>3, TrimmedKeeps DEF RoundIdle
  <2> QED BY <1>1, <1>3, <2>1, QuietStep DEF NothingLeft, RoundIdle, TypeOK
<1>4. CASE RoundEnds
  <2>1. Kept BY <1>1, <1>4, TrimmedKeeps DEF RoundEnds
  <2>2. closing = "no" BY <1>4 DEF RoundEnds, IInv, CancelledAll
  <2> QED BY <1>1, <1>4, <2>1, <2>2, QuietStep DEF NothingLeft, RoundEnds, TypeOK
<1>5. CASE LoopCancelled
  <2>1. Kept BY <1>1, <1>5, Untouched DEF LoopCancelled
  <2> QED BY <1>1, <1>5, <2>1, QuietStep DEF NothingLeft, LoopCancelled, TypeOK
<1>6. ASSUME NEW t \in 0 .. MaxTarget, SetLoad(t) PROVE IInv'
  <2>1. Kept BY <1>1, <1>6, TrimmedKeeps DEF SetLoad
  <2> QED BY <1>1, <1>6, <2>1, QuietStep DEF NothingLeft, SetLoad, TypeOK
<1>7. ASSUME NEW count \in 1 .. MaxManual, SpawnManual(count) PROVE IInv'
  <2>1. Kept BY <1>1, <1>7, SpawnedOneShot DEF SpawnManual
  <2>2. manual' \in Nat BY <1>1, <1>7, BoundsAssumption DEF SpawnManual, TypeOK
  <2> QED BY <1>1, <1>7, <2>1, <2>2, QuietStep DEF NothingLeft, SpawnManual, TypeOK
<1>8. CASE SpawnManualGoesOn
  <2>1. Kept BY <1>1, <1>8, SpawnedOneShot DEF SpawnManualGoesOn
  <2> QED BY <1>1, <1>8, <2>1, QuietStep DEF NothingLeft, SpawnManualGoesOn, TypeOK
<1>9. CASE StopAll
  <2>1. Kept BY <1>1, <1>9, StopAllKeeps
  <2>2. target' \in 0 .. MaxTarget BY <1>9, BoundsAssumption DEF StopAll
  <2> QED BY <1>1, <1>9, <2>1, <2>2, QuietStep DEF NothingLeft, StopAll, TypeOK
<1>10. CASE Shutdown \/ Closer BY <1>10, ShutdownStep DEF Closer
<1>11. CASE Tasks
  <2>1. PICK i \in DOMAIN active : Task(i) BY <1>11 DEF Tasks
  <2>2. Kept BY <1>1, <2>1, TaskKeeps
  <2>3. UNCHANGED <<target, loop, left, manual, closing>>
    BY <2>1 DEF Task, MachineStarts, MachineEnds, MachineCancelled
  <2> QED BY <1>1, <2>2, <2>3, QuietStep DEF NothingLeft, TypeOK
<1>12. CASE UNCHANGED vars
  <2>1. Kept BY <1>1, <1>12, Untouched DEF vars
  <2> QED BY <1>1, <1>12, <2>1, QuietStep DEF NothingLeft, vars, TypeOK
<1>13. CASE RoundFails BY <1>13, FailStep
<1>14. CASE SpawnManualFails
  <2>1. Kept BY <1>1, <1>14, Untouched DEF SpawnManualFails
  <2>2. manual' \in Nat BY <1>1, <1>14 DEF SpawnManualFails, TypeOK
  <2> QED BY <1>1, <1>14, <2>1, <2>2, QuietStep DEF NothingLeft, SpawnManualFails, TypeOK
<1> QED BY <1>2, <1>3, <1>4, <1>5, <1>6, <1>7, <1>8, <1>9, <1>10, <1>11, <1>12, <1>13, <1>14
        DEF Next, Loop, Terminating

LEMMA Initially == ASSUME Init PROVE IInv
<1>1. ActiveManaged = {} BY DEF Init, ActiveManaged, Listed
<1>2. Cardinality(ActiveManaged) = 0 BY <1>1, FS_EmptySet
<1> QED BY <1>1, <1>2, BoundsAssumption
        DEF Init, IInv, TypeOK, ManagedBounded, CancelledAll, NothingLeft, ShutdownEndsLoad

-----------------------------------------------------------------------------
(* The inductive invariant holds at every moment, whatever the bounds.     *)
THEOREM Invariance == Spec => []IInv
<1>1. Init => IInv BY Initially
<1>2. IInv /\ [Next]_vars => IInv' BY Step
<1> QED BY <1>1, <1>2, PTL DEF Spec

(* _maintain_loop never has more machines of the load than the largest     *)
(* target asked for, those it has yet to spawn included.                   *)
THEOREM LoadBounded == Spec => []ManagedBounded
<1>1. IInv => ManagedBounded BY DEF IInv
<1> QED BY <1>1, Invariance, PTL

(* When shutdown returns, the task of every machine of the load has ended. *)
THEOREM ShutdownEnds == Spec => []ShutdownEndsLoad
<1>1. IInv => ShutdownEndsLoad BY DEF IInv
<1> QED BY <1>1, Invariance, PTL

-----------------------------------------------------------------------------
(* Trimming.                                                               *)

(* A set of naturals that is not empty has a least member.                 *)
LEMMA Least ==
  ASSUME NEW S \in SUBSET Nat, S # {}
  PROVE  \E m \in S : \A n \in S : m <= n
<1> DEFINE R == OpToRel(<, Nat)
<1>1. IsWellFoundedOn(R, Nat) BY NatLessThanWellFounded
<1>2. \A m, n \in Nat : m < n => <<m, n>> \in R BY DEF OpToRel
<1> HIDE DEF R
<1>3. PICK m \in S : \A n \in S : <<n, m>> \notin R BY <1>1, WFMin
<1>4. \A n \in S : ~(n < m) BY <1>2, <1>3
<1> QED BY <1>3, <1>4

LEMMA Greatest ==
  ASSUME NEW k \in Nat, NEW S \in SUBSET (0 .. k), S # {}
  PROVE  \E m \in S : \A n \in S : n <= m
<1> DEFINE T == {k - n : n \in S}
<1>1. T \in SUBSET Nat /\ T # {}
  <2>1. \A n \in S : n \in Nat /\ k - n \in Nat OBVIOUS
  <2> QED BY <2>1
<1> HIDE DEF T
<1>2. PICK l \in T : \A n \in T : l <= n BY <1>1, Least
<1>3. PICK m \in S : l = k - m BY DEF T
<1>4. \A n \in S : k - n \in T BY DEF T
<1>5. \A n \in S : n <= m BY <1>2, <1>3, <1>4
<1> QED BY <1>5

From(C, i) == {j \in C : j >= i}
Oldest(C, t) == {i \in C : Cardinality(From(C, i)) > t}

(* Of numbered machines, all but the t with the highest numbers: t of them *)
(* are left, or all if there are no more, and those are the youngest.      *)
LEMMA ExcessOf ==
  ASSUME NEW k \in Nat, NEW C \in SUBSET (0 .. k), NEW t \in Nat
  PROVE  /\ Cardinality(C \ Oldest(C, t)) <= t
         /\ Oldest(C, t) # {} => Cardinality(C \ Oldest(C, t)) = t
         /\ Cardinality(C) <= t => Oldest(C, t) = {}
         /\ \A i \in Oldest(C, t), j \in C \ Oldest(C, t) : i < j
<1> DEFINE Above(i) == From(C, i)
           excess == Oldest(C, t)
           kept == C \ excess
<1> USE DEF From, Oldest
<1>0. \A i \in C : i \in Nat OBVIOUS
<1>1. IsFiniteSet(C) /\ IsFiniteSet(kept)
  <2>1. IsFiniteSet(0 .. k) BY FS_Interval
  <2>2. IsFiniteSet(C) BY <2>1, FS_Subset
  <2>3. kept \in SUBSET C OBVIOUS
  <2> HIDE DEF kept
  <2> QED BY <2>2, <2>3, FS_Subset
<1>2. Cardinality(C) \in Nat /\ Cardinality(kept) \in Nat BY <1>1, FS_CardinalityType
<1>3. ASSUME NEW i \in C
      PROVE  /\ Above(i) \subseteq C /\ IsFiniteSet(Above(i)) /\ Cardinality(Above(i)) \in Nat
             /\ Cardinality(Above(i)) <= Cardinality(C)
  <2>1. Above(i) \in SUBSET C OBVIOUS
  <2> QED BY <1>1, <2>1, FS_Subset, FS_CardinalityType
<1>4. ASSUME NEW i \in C PROVE i \in kept <=> Cardinality(Above(i)) <= t
  BY <1>3
<1>5. Cardinality(kept) <= t
  <2>1. CASE kept = {}
    <3> HIDE DEF kept
    <3> QED BY <2>1, FS_EmptySet
  <2>2. CASE kept # {}
    <3>1. kept \in SUBSET Nat BY <1>0
    <3>2. PICK m \in kept : \A n \in kept : m <= n BY <2>2, <3>1, Least
    <3>3. kept \subseteq Above(m) BY <3>2
    <3>4. Cardinality(kept) <= Cardinality(Above(m)) BY <1>3, <3>3, FS_Subset
    <3>5. Cardinality(Above(m)) <= t BY <1>4
    <3> HIDE DEF kept, Above, From
    <3>6. Cardinality(Above(m)) \in Nat BY <1>3 DEF kept
    <3> QED BY <1>2, <3>4, <3>5, <3>6
  <2> QED BY <2>1, <2>2
<1>6. ASSUME excess # {} PROVE Cardinality(kept) >= t
  <2>1. PICK m \in excess : \A n \in excess : n <= m BY <1>6, Greatest
  <2>2. Above(m) \in SUBSET (kept \union {m})
    <3>1. ASSUME NEW j \in Above(m), j # m PROVE j \in kept
      <4>1. j \in C /\ j >= m /\ ~(j <= m) BY <1>0, <3>1
      <4> HIDE DEF Above, From
      <4> QED BY <2>1, <4>1
    <3> QED BY <3>1
  <2>3. IsFiniteSet(kept \union {m}) /\ Cardinality(kept \union {m}) = Cardinality(kept) + 1
    BY <1>1, FS_AddElement
  <2>4. Cardinality(Above(m)) <= Cardinality(kept) + 1
    <3> HIDE DEF kept, Above, From
    <3> QED BY <2>2, <2>3, FS_Subset
  <2>5. Cardinality(Above(m)) > t /\ Cardinality(Above(m)) \in Nat BY <1>3
  <2> HIDE DEF kept, Above, From
  <2> QED BY <1>2, <2>4, <2>5
<1>7. ASSUME Cardinality(C) <= t PROVE excess = {}
  <2>1. ASSUME NEW i \in C PROVE ~(Cardinality(Above(i)) > t)
    <3>1. Cardinality(Above(i)) \in Nat /\ Cardinality(Above(i)) <= Cardinality(C) BY <1>3
    <3> HIDE DEF Above, From
    <3> QED BY <1>2, <1>7, <3>1
  <2> QED BY <2>1
<1>8. ASSUME NEW i \in excess, NEW j \in kept PROVE i < j
  <2>1. ASSUME j <= i PROVE FALSE
    <3>1. Above(i) \in SUBSET Above(j)
      <4>1. i \in Nat /\ j \in Nat /\ \A l \in C : l \in Nat BY <1>0
      <4>2. \A l \in C : l >= i => l >= j BY <2>1, <4>1
      <4> QED BY <4>2
    <3>2. Cardinality(Above(i)) <= Cardinality(Above(j)) BY <1>3, <3>1, FS_Subset
    <3>3. Cardinality(Above(j)) <= t BY <1>4
    <3>4. Cardinality(Above(i)) > t OBVIOUS
    <3>5. Cardinality(Above(i)) \in Nat /\ Cardinality(Above(j)) \in Nat BY <1>3
    <3> HIDE DEF Above, From
    <3> QED BY <3>2, <3>3, <3>4, <3>5
  <2> QED BY <2>1
<1>9. excess # {} => Cardinality(kept) = t BY <1>2, <1>5, <1>6
<1> QED BY <1>5, <1>7, <1>8, <1>9

(* The machines that a trim chooses from, and the flags it sets.           *)
Undrained == {i \in DOMAIN active : active[i].managed /\ ~active[i].drain}

LEMMA TrimmedFlags ==
  ASSUME TypeOK, NEW t \in Nat, active' = Trimmed(t)
  PROVE  Unasked' = Unasked \ Excess(t) /\ Unasked \subseteq Undrained
<1>1. Unasked = {i \in DOMAIN active : active[i].managed /\ ~active[i].drain /\ ~active[i].stop}
  BY DEF Unasked, Listed
<1>2. Unasked' = {i \in DOMAIN active' : active'[i].managed /\ ~active'[i].drain /\ ~active'[i].stop}
  BY DEF Unasked, Listed
<1>3. \A i \in DOMAIN active : active[i] \in Runtime BY DEF TypeOK
<1>4. DOMAIN active' = DOMAIN active BY DEF Trimmed
<1>5. ASSUME NEW i \in DOMAIN active
      PROVE  /\ active'[i].managed = active[i].managed /\ active'[i].drain = active[i].drain
             /\ active'[i].stop = (active[i].stop \/ i \in Excess(t))
  <2>1. active'[i] = [active[i] EXCEPT !.stop = @ \/ i \in Excess(t)] BY DEF Trimmed
  <2> QED BY <1>3, <2>1 DEF Runtime
<1>6. Unasked' = Unasked \ Excess(t) BY <1>1, <1>2, <1>4, <1>5
<1> QED BY <1>1, <1>6 DEF Undrained

LEMMA ExcessChosen ==
  ASSUME TypeOK, NEW t \in Nat
  PROVE  /\ Excess(t) \subseteq Undrained
         /\ Cardinality(Undrained \ Excess(t)) <= t
         /\ Excess(t) # {} => Cardinality(Undrained \ Excess(t)) = t
         /\ Cardinality(Undrained) <= t => Excess(t) = {}
         /\ \A i \in Excess(t), j \in Undrained \ Excess(t) : i < j
<1>1. Len(active) \in Nat /\ Undrained \in SUBSET (0 .. Len(active))
  BY DEF TypeOK, Undrained
<1>2. Excess(t) = {i \in Undrained : Cardinality({j \in Undrained : j >= i}) > t}
  BY DEF Excess, Undrained, Listed
<1>3. Excess(t) = Oldest(Undrained, t) BY <1>2 DEF Oldest, From
<1>4. Excess(t) \subseteq Undrained BY <1>2
<1>5. /\ Cardinality(Undrained \ Oldest(Undrained, t)) <= t
      /\ Oldest(Undrained, t) # {} => Cardinality(Undrained \ Oldest(Undrained, t)) = t
      /\ Cardinality(Undrained) <= t => Oldest(Undrained, t) = {}
      /\ \A i \in Oldest(Undrained, t), j \in Undrained \ Oldest(Undrained, t) : i < j
  BY <1>1, ExcessOf
<1> QED BY <1>3, <1>4, <1>5

Trims == RoundIdle \/ RoundEnds \/ \E t \in 0 .. MaxTarget : SetLoad(t)

(* A trim leaves no more machines unasked than the target, and those are   *)
(* younger than any it asks to stop; it keeps the whole target if it asks  *)
(* any, and asks none while the load is within it.                         *)
TrimsToTarget ==
  [][Trims =>
       /\ Cardinality(Unasked') <= target'
       /\ \A i \in Unasked \ Unasked', j \in Unasked' : i < j
       /\ Unasked' # Unasked => Cardinality(Undrained \ Excess(target')) = target'
       /\ Cardinality(Undrained) <= target' => Unasked' = Unasked]_vars

(* _trim_excess_locked asks the surplus to stop, the oldest of the load,   *)
(* and no more: the youngest are kept.  This is the safety part of         *)
(* ExcessStopped.                                                          *)
THEOREM TrimmingMeetsTarget == Spec => TrimsToTarget
<1>1. ASSUME IInv, Trims
      PROVE  /\ Cardinality(Unasked') <= target'
             /\ \A i \in Unasked \ Unasked', j \in Unasked' : i < j
             /\ Unasked' # Unasked => Cardinality(Undrained \ Excess(target')) = target'
             /\ Cardinality(Undrained) <= target' => Unasked' = Unasked
  <2>1. TypeOK BY <1>1 DEF IInv
  <2>2. target' \in Nat /\ active' = Trimmed(target')
    BY <1>1, <2>1, BoundsAssumption DEF Trims, RoundIdle, RoundEnds, SetLoad, TypeOK
  <2>3. Unasked' = Unasked \ Excess(target') /\ Unasked \subseteq Undrained
    BY <2>1, <2>2, TrimmedFlags
  <2> DEFINE rest == Undrained \ Excess(target')
  <2>4. Unasked' \in SUBSET rest BY <2>3
  <2>5. IsFiniteSet(rest)
    <3>1. Len(active) \in Nat /\ rest \in SUBSET (1 .. Len(active)) BY <2>1 DEF TypeOK, Undrained
    <3>2. IsFiniteSet(1 .. Len(active)) BY <3>1, FS_Interval
    <3> HIDE DEF rest
    <3> QED BY <3>1, <3>2, FS_Subset
  <2>6. Cardinality(rest) <= target' BY <2>1, <2>2, ExcessChosen
  <2>7. Cardinality(Unasked') <= target'
    <3> HIDE DEF rest
    <3>1. IsFiniteSet(Unasked') /\ Cardinality(Unasked') <= Cardinality(rest) BY <2>4, <2>5, FS_Subset
    <3>2. Cardinality(Unasked') \in Nat /\ Cardinality(rest) \in Nat
      BY <2>5, <3>1, FS_CardinalityType
    <3> QED BY <2>2, <2>6, <3>1, <3>2
  <2>8. \A i \in Unasked \ Unasked', j \in Unasked' : i < j
    BY <2>1, <2>2, <2>3, ExcessChosen
  <2>9. Unasked' # Unasked => Excess(target') # {} BY <2>3
  <2> QED BY <2>1, <2>2, <2>3, <2>7, <2>8, <2>9, ExcessChosen
<1>2. IInv /\ [Next]_vars =>
        [Trims => /\ Cardinality(Unasked') <= target'
                  /\ \A i \in Unasked \ Unasked', j \in Unasked' : i < j
                  /\ Unasked' # Unasked => Cardinality(Undrained \ Excess(target')) = target'
                  /\ Cardinality(Undrained) <= target' => Unasked' = Unasked]_vars
  BY <1>1
<1> QED BY <1>2, Invariance, PTL DEF Spec, TrimsToTarget

-----------------------------------------------------------------------------
(* The load that a round has planned: the machines that there are and the  *)
(* ones that it has still to spawn.                                        *)
Planned == Cardinality(ActiveManaged) + left

RoundStarts == loop = "top" /\ loop' = "spawning"

AsPlanned ==
  /\ RoundStarts => Planned < target /\ Planned' = target
  /\ Planned' > Planned => loop = "top" /\ Planned' <= target
  /\ Planned' < Planned => \/ loop' = "over"
                           \/ \E i \in ActiveManaged : active' = RemoveAt(active, i)

LEMMA QuietPlan ==
  ASSUME TypeOK, Kept, ~RoundStarts, left' = left \/ (loop' = "over" /\ left' = 0)
  PROVE  AsPlanned
<1>1. Cardinality(ActiveManaged) \in Nat BY ManagedFinite
<1>2. active' \in Seq(Runtime) BY DEF Kept
<1>3. Len(active') \in Nat BY <1>2
<1>4. ActiveManaged' \subseteq 1 .. Len(active') BY <1>2, ManagedAfter
<1>5. IsFiniteSet(1 .. Len(active')) BY <1>3, FS_Interval
<1>6. IsFiniteSet(ActiveManaged') BY <1>4, <1>5, FS_Subset
<1>7. Cardinality(ActiveManaged') \in Nat BY <1>6, FS_CardinalityType
<1> QED BY <1>1, <1>7 DEF TypeOK, Kept, AsPlanned, Planned

LEMMA PlanStep ==
  ASSUME IInv, [Next]_vars PROVE AsPlanned
<1>1. TypeOK /\ left \in Nat /\ (loop = "top" => left = 0) BY DEF IInv, TypeOK, NothingLeft
<1> USE DEF RoundStarts
<1>2. CASE RoundBegins
  <2>1. Cardinality(ActiveManaged') = Cardinality(ActiveManaged) + 1
    BY <1>1, <1>2, SpawnedManaged DEF RoundBegins
  <2>2. Cardinality(ActiveManaged) \in Nat BY <1>1, ManagedFinite
  <2>3. Needed = target - Cardinality(ActiveManaged) /\ target > Cardinality(ActiveManaged)
    BY <1>1, <1>2, <2>2, BoundsAssumption DEF RoundBegins, TypeOK, Needed, Lack
  <2>4. left' = Needed - 1 /\ left = 0 /\ target' = target /\ RoundStarts /\ loop' # "top"
    BY <1>1, <1>2 DEF RoundBegins
  <2>5. target \in Nat BY <1>1, BoundsAssumption DEF TypeOK
  <2>6. Planned' = target /\ Planned < target /\ Planned \in Nat
    BY <2>1, <2>2, <2>3, <2>4, <2>5 DEF Planned
  <2>7. ~(Planned' < Planned) BY <2>5, <2>6
  <2>8. loop = "top" /\ Planned' <= target BY <1>2, <2>5, <2>6 DEF RoundBegins
  <2> QED BY <2>4, <2>6, <2>7, <2>8 DEF AsPlanned
<1>3. CASE RoundGoesOn
  <2>1. Cardinality(ActiveManaged') = Cardinality(ActiveManaged) + 1
    BY <1>1, <1>3, SpawnedManaged DEF RoundGoesOn
  <2>2. Cardinality(ActiveManaged) \in Nat BY <1>1, ManagedFinite
  <2>3. left' = left - 1 /\ loop = "spawning" /\ loop' = loop BY <1>3 DEF RoundGoesOn
  <2>4. Planned' = Planned /\ Planned \in Nat BY <1>1, <2>1, <2>2, <2>3 DEF Planned
  <2> QED BY <2>3, <2>4 DEF AsPlanned
<1>4. CASE RoundIdle \/ RoundEnds
  <2>1. Kept BY <1>1, <1>4, TrimmedKeeps DEF RoundIdle, RoundEnds
  <2> QED BY <1>1, <1>4, <2>1, QuietPlan DEF RoundIdle, RoundEnds
<1>5. CASE LoopCancelled
  <2>1. Kept BY <1>1, <1>5, Untouched DEF LoopCancelled
  <2> QED BY <1>1, <1>5, <2>1, QuietPlan DEF LoopCancelled
<1>6. ASSUME NEW t \in 0 .. MaxTarget, SetLoad(t) PROVE AsPlanned
  <2>1. Kept BY <1>1, <1>6, TrimmedKeeps DEF SetLoad
  <2> QED BY <1>1, <1>6, <2>1, QuietPlan DEF SetLoad
<1>7. CASE SpawnManualGoesOn \/ \E count \in 1 .. MaxManual : SpawnManual(count)
  <2>1. Kept BY <1>1, <1>7, SpawnedOneShot DEF SpawnManual, SpawnManualGoesOn
  <2> QED BY <1>1, <1>7, <2>1, QuietPlan DEF SpawnManual, SpawnManualGoesOn
<1>8. CASE StopAll
  <2>1. Kept BY <1>1, <1>8, StopAllKeeps
  <2> QED BY <1>1, <1>8, <2>1, QuietPlan DEF StopAll
<1>9. CASE Shutdown \/ ShutdownReturns
  <2>1. Kept BY <1>1, <1>9, Untouched DEF Shutdown, ShutdownReturns
  <2> QED BY <1>1, <1>9, <2>1, QuietPlan DEF Shutdown, ShutdownReturns
<1>10. CASE CancelTasks
  <2>1. Kept BY <1>1, <1>10, CancelTasksKeeps
  <2> QED BY <1>1, <1>10, <2>1, QuietPlan DEF CancelTasks
<1>11. CASE Tasks
  <2>1. PICK i \in DOMAIN active : Task(i) BY <1>11 DEF Tasks
  <2>2. Kept BY <1>1, <2>1, TaskKeeps
  <2>3. UNCHANGED <<loop, left>>
    BY <2>1 DEF Task, MachineStarts, MachineEnds, MachineCancelled
  <2> QED BY <1>1, <2>2, <2>3, QuietPlan
<1>12. CASE UNCHANGED vars
  <2>1. Kept BY <1>1, <1>12, Untouched DEF vars
  <2> QED BY <1>1, <1>12, <2>1, QuietPlan DEF vars
<1>13. CASE RoundFails /\ active' = Spawned(TRUE)
  <2>1. Cardinality(ActiveManaged') = Cardinality(ActiveManaged) + 1
    BY <1>1, <1>13, SpawnedManaged
  <2>2. Cardinality(ActiveManaged) \in Nat BY <1>1, ManagedFinite
  <2>3. target > Cardinality(ActiveManaged) /\ target \in Nat
    BY <1>1, <1>13, <2>2, BoundsAssumption DEF RoundFails, TypeOK, Needed, Lack
  <2>4. loop = "top" /\ loop' = "over" /\ left = 0 /\ left' = 0 /\ target' = target
    BY <1>1, <1>13 DEF RoundFails
  <2>5. Planned' = Planned + 1 /\ Planned < target /\ Planned \in Nat
    BY <2>1, <2>2, <2>3, <2>4 DEF Planned
  <2> QED BY <2>3, <2>4, <2>5 DEF AsPlanned
<1>14. CASE SpawnManualFails \/ (RoundFails /\ active' = active)
  <2>1. Kept BY <1>1, <1>14, Untouched DEF SpawnManualFails
  <2> QED BY <1>1, <1>14, <2>1, QuietPlan DEF SpawnManualFails, RoundFails
<1> QED BY <1>2, <1>3, <1>4, <1>5, <1>6, <1>7, <1>8, <1>9, <1>10, <1>11, <1>12, <1>13, <1>14
        DEF Next, Loop, RoundFails, Closer, Terminating

(* A round of _maintain_loop plans precisely the load asked for when it    *)
(* begins, however many of its machines have still to be spawned.  From    *)
(* then on nothing adds to the plan, whatever calls come between, and      *)
(* nothing takes from it but a machine of the load that leaves the list,   *)
(* or the end of the loop.  A round that fails at once has not spawned     *)
(* more than was asked for.  This is the safety part of LoadSustained.     *)
RoundsFillTheLoad == [][AsPlanned]_vars

(* What set_load, break_machine and the ends of machines do between two    *)
(* spawns of a round never makes it overshoot the plan or forget a machine.*)
THEOREM LoadFilled == Spec => RoundsFillTheLoad
<1>1. IInv /\ [Next]_vars => [AsPlanned]_vars BY PlanStep
<1> QED BY <1>1, Invariance, PTL DEF Spec, RoundsFillTheLoad
=============================================================================
