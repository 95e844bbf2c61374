---------------------------- MODULE Config_proof ----------------------------
(***************************************************************************)
(* Proofs about Config for any files and payloads.                         *)
(***************************************************************************)
EXTENDS Config, TLAPS

-----------------------------------------------------------------------------
(* One entry of the file.                                                  *)
InputEntry(e) == /\ e.allowed_metrics.is = "list" => Absent \notin Members(e.allowed_metrics.items)
                 /\ Numeric(e.telemetry_interval_ms) /\ NumericRange(e.run_duration_seconds)

(* What Go takes for a positive integer, Python's int() and float() take.  *)
LEMMA PositiveInteger ==
  ASSUME NEW v, Numeric(v), NEW n \in GoInt(v), n > 0
  PROVE  v.is = "number" /\ v.halves \in Int /\ n \in Int /\ v.halves = 2 * n
<1>1. v.is = "number" /\ v.halves % 2 = 0 /\ n = v.halves \div 2
  BY DEF GoInt
<1>2. v.halves \in Int BY <1>1 DEF Numeric
<1> QED BY <1>1, <1>2

LEMMA IntervalAgrees ==
  ASSUME NEW v, Numeric(v), NEW n \in GoInt(v), n > 0
  PROVE  ToInt(v) = {n}
<1>1. v.is = "number" /\ v.halves \in Int /\ n \in Int /\ v.halves = 2 * n
  BY PositiveInteger
<1>2. Truncated(v.halves) = n BY <1>1 DEF Truncated
<1> QED BY <1>1, <1>2 DEF ToInt

LEMMA DurationAgrees ==
  ASSUME NEW v, NumericRange(v), NEW d \in GoDuration(v), 0 < d.min, d.min <= d.max
  PROVE  \E r \in DurationRange(v) : r.min = 2 * d.min /\ r.max = 2 * d.max
<1>1. v.is = "object" /\ d \in [min : GoInt(v.fields.min), max : GoInt(v.fields.max)]
  BY DEF GoDuration, Bounds
<1>2. Numeric(v.fields.min) /\ Numeric(v.fields.max) BY <1>1 DEF NumericRange
<1>3. /\ v.fields.min.is = "number" /\ d.min \in Int /\ v.fields.min.halves = 2 * d.min
  BY <1>1, <1>2, PositiveInteger
<1>4. d.max \in GoInt(v.fields.max) BY <1>1
<1>5. d.max \in Int
  BY <1>2, <1>4 DEF GoInt, Numeric
<1>6. /\ v.fields.max.is = "number" /\ v.fields.max.halves = 2 * d.max
  BY <1>2, <1>3, <1>4, <1>5, PositiveInteger
<1>7. ToFloat(v.fields.min) = {2 * d.min} /\ ToFloat(v.fields.max) = {2 * d.max}
  BY <1>3, <1>6 DEF ToFloat
<1> DEFINE r == [min |-> 2 * d.min, max |-> 2 * d.max]
<1>8. r \in Bounds(v, ToFloat) BY <1>1, <1>7 DEF Bounds
<1>9. 0 < r.min /\ 0 < r.max /\ r.min <= r.max BY <1>3, <1>5
<1> QED BY <1>8, <1>9 DEF DurationRange

LEMMA TextGiven == ASSUME NEW v, v.is = "text" PROVE Given(v) /\ v # Absent
<1>1. Absent.is = "absent" /\ Null.is = "null" BY DEF Absent, Null
<1> QED BY <1>1 DEF Given

LEMMA NameAgrees ==
  ASSUME NEW v, NEW w \in GoString(v), w # ""
  PROVE  v # Absent /\ ToStr(v) = w /\ GoString(v) = {w}
<1>1. v.is = "text" BY DEF GoString
<1>2. Given(v) /\ v # Absent BY <1>1, TextGiven
<1>4. GoString(v) = {v.word} BY <1>1, <1>2 DEF GoString
<1>3. ToStr(v) = v.word BY <1>1 DEF ToStr
<1> QED BY <1>2, <1>3, <1>4

(* Both read the same metrics, except that Python spells null "None".      *)
LEMMA MetricsAgree ==
  ASSUME NEW v, v.is = "list" => Absent \notin Members(v.items),
         NEW s \in GoStrings(v), s # {}
  PROVE  \E metrics \in ToStrs(v) :
           /\ ToStrs(v) = {metrics} /\ metrics # {}
           /\ "None" \notin metrics => metrics \subseteq s
<1>1. v.is = "list" /\ \A item \in Members(v.items) : GoString(item) # {}
  BY DEF GoStrings
<1>2. s = UNION {GoString(item) : item \in Members(v.items)}
  BY <1>1 DEF GoStrings
<1> DEFINE metrics == {ToStr(item) : item \in Members(v.items)}
<1>3. ToStrs(v) = {metrics} BY <1>1 DEF ToStrs
<1>4. metrics # {} BY <1>2
<1>5. ASSUME "None" \notin metrics PROVE metrics \subseteq s
  <2>1. ASSUME NEW item \in Members(v.items) PROVE ToStr(item) \in s
    <3>1. item # Absent BY <1>1
    <3>2. item # Null
      <4>1. ToStr(Null) = "None" BY DEF ToStr, Null
      <4> QED BY <1>5, <4>1
    <3>3. item.is = "text" /\ GoString(item) = {item.word}
      BY <1>1, <3>1, <3>2 DEF GoString, Given
    <3>4. ToStr(item) = item.word BY <3>3 DEF ToStr
    <3> QED BY <1>2, <3>3, <3>4
  <2> QED BY <2>1
<1> QED BY <1>3, <1>4, <1>5

LEMMA OneReading ==
  ASSUME NEW v, NEW s \in GoStrings(v), NEW r \in GoStrings(v) PROVE s = r
<1>1. CASE v.is = "list" /\ \A item \in Members(v.items) : GoString(item) # {}
  BY <1>1 DEF GoStrings
<1>2. CASE ~(v.is = "list" /\ \A item \in Members(v.items) : GoString(item) # {})
  BY <1>2 DEF GoStrings
<1> QED BY <1>1, <1>2

(* The machine type that Go reads from an entry, Python reads too, up to   *)
(* its metrics called null.                                                *)
LEMMA EntryAgrees ==
  ASSUME NEW e, InputEntry(e), NEW u \in GoType(e)
  PROVE  /\ MachineType(e) # {}
         /\ \A t \in MachineType(e) : /\ t.name = u.name
                                      /\ "None" \notin t.metrics => t.metrics \subseteq u.metrics
         /\ \A w \in GoType(e) : w.name = u.name /\ w.metrics = u.metrics
<1>1. /\ u.name \in GoString(e.name) /\ u.name # ""
      /\ u.metrics \in GoStrings(e.allowed_metrics) /\ u.metrics # {}
      /\ u.interval \in GoInt(e.telemetry_interval_ms) /\ u.interval > 0
      /\ u.duration \in GoDuration(e.run_duration_seconds)
      /\ 0 < u.duration.min /\ u.duration.min <= u.duration.max
  BY DEF GoType
<1>2. e.name # Absent /\ ToStr(e.name) = u.name /\ GoString(e.name) = {u.name}
  BY <1>1, NameAgrees
<1>3. PICK metrics \in ToStrs(e.allowed_metrics) :
        /\ ToStrs(e.allowed_metrics) = {metrics} /\ metrics # {}
        /\ "None" \notin metrics => metrics \subseteq u.metrics
  BY <1>1, MetricsAgree DEF InputEntry
<1>4. ToInt(e.telemetry_interval_ms) = {u.interval}
  BY <1>1, IntervalAgrees DEF InputEntry
<1>5. PICK r \in DurationRange(e.run_duration_seconds) : TRUE
  BY <1>1, DurationAgrees DEF InputEntry
<1>6. MachineType(e) # {}
  <2> DEFINE t == [name |-> u.name, metrics |-> metrics, interval |-> u.interval, duration |-> r]
  <2>1. t \in MachineType(e) BY <1>1, <1>2, <1>3, <1>4, <1>5 DEF MachineType
  <2> QED BY <2>1
<1>7. ASSUME NEW t \in MachineType(e)
      PROVE  t.name = u.name /\ ("None" \notin t.metrics => t.metrics \subseteq u.metrics)
  <2>1. t.name = u.name BY <1>2 DEF MachineType
  <2>2. t.metrics = metrics BY <1>3 DEF MachineType
  <2> QED BY <1>3, <2>1, <2>2
<1>8. ASSUME NEW w \in GoType(e) PROVE w.name = u.name /\ w.metrics = u.metrics
  <2>1. w.name = u.name BY <1>2 DEF GoType
  <2>2. w.metrics \in GoStrings(e.allowed_metrics) BY DEF GoType
  <2>3. w.metrics = u.metrics BY <1>1, <2>2, OneReading
  <2> QED BY <2>1, <2>3
<1> QED BY <1>6, <1>7, <1>8

-----------------------------------------------------------------------------
(* The whole file.                                                         *)
LEMMA InputFile ==
  ASSUME NEW entries \in Files
  PROVE  /\ entries \in Seq(Members(entries))
         /\ \A i \in DOMAIN entries : entries[i] \in Members(entries) /\ InputEntry(entries[i])
BY FilesAssumption DEF Members, InputEntry

(* A file that Go serves from: each entry is accepted, names are distinct. *)
GoAccepts(entries) ==
  \A i \in DOMAIN entries :
    /\ GoType(entries[i]) # {}
    /\ \A j \in 1 .. i - 1 : \A t \in GoType(entries[i]), u \in GoType(entries[j]) : t.name # u.name

PythonAccepts(entries) ==
  \A i \in DOMAIN entries :
    /\ MachineType(entries[i]) # {}
    /\ \A j \in 1 .. i - 1 :
         \A t \in MachineType(entries[i]), u \in MachineType(entries[j]) : t.name # u.name

LEMMA GoTypesOf ==
  GoTypes # {} => GoAccepts(file) /\ GoTypes = UNION {GoType(e) : e \in Members(file)}
BY DEF GoTypes, TypesIn, GoAccepts

LEMMA TypesOf ==
  Types = IF PythonAccepts(file) THEN UNION {MachineType(e) : e \in Members(file)} ELSE {}
BY DEF Types, TypesIn, PythonAccepts

(* What Go accepts, Python accepts.                                        *)
LEMMA AcceptedByBoth == ASSUME file \in Files, GoAccepts(file) PROVE PythonAccepts(file)
<1>1. ASSUME NEW i \in DOMAIN file PROVE MachineType(file[i]) # {}
  <2>1. PICK u \in GoType(file[i]) : TRUE BY DEF GoAccepts
  <2> QED BY <2>1, InputFile, EntryAgrees
<1>2. ASSUME NEW i \in DOMAIN file, NEW j \in 1 .. i - 1,
             NEW t \in MachineType(file[i]), NEW u \in MachineType(file[j])
      PROVE  t.name # u.name
  <2>1. file \in Seq(Members(file)) BY InputFile
  <2>2. j \in DOMAIN file BY <2>1
  <2>3. PICK v \in GoType(file[i]), w \in GoType(file[j]) : v.name # w.name
    BY <2>2 DEF GoAccepts
  <2>4. t.name = v.name BY InputFile, EntryAgrees
  <2>5. u.name = w.name BY <2>2, InputFile, EntryAgrees
  <2> QED BY <2>3, <2>4, <2>5
<1> QED BY <1>1, <1>2 DEF PythonAccepts

(* Go's types have distinct names, up to metrics that are the same.        *)
LEMMA GoNamesDistinct ==
  ASSUME file \in Files, GoAccepts(file),
         NEW i \in DOMAIN file, NEW t \in GoType(file[i]),
         NEW j \in DOMAIN file, NEW u \in GoType(file[j]), t.name = u.name
  PROVE  t.metrics = u.metrics
<1>1. file \in Seq(Members(file)) BY InputFile
<1>2. i \in Nat /\ j \in Nat /\ i > 0 /\ j > 0 BY <1>1
<1>3. ~(j < i)
  <2>1. j < i => j \in 1 .. i - 1 BY <1>2
  <2> QED BY <2>1 DEF GoAccepts
<1>4. ~(i < j)
  <2>1. i < j => i \in 1 .. j - 1 BY <1>2
  <2> QED BY <2>1 DEF GoAccepts
<1>5. i = j BY <1>2, <1>3, <1>4
<1> QED BY <1>5, InputFile, EntryAgrees

(* The type that the validator has by a name is the one of the entry.      *)
LEMMA BothKnow ==
  ASSUME file \in Files, GoTypes # {}, NEW t \in Types
  PROVE  LET u == CHOOSE u \in GoTypes : u.name = t.name
         IN  /\ t.name \in {v.name : v \in GoTypes}
             /\ "None" \notin t.metrics => t.metrics \subseteq u.metrics
             /\ t.metrics # {}
<1>1. GoAccepts(file) /\ GoTypes = UNION {GoType(e) : e \in Members(file)} BY GoTypesOf
<1>2. PICK i \in DOMAIN file : t \in MachineType(file[i])
  BY TypesOf DEF Members
<1>3. PICK v \in GoType(file[i]) : TRUE BY <1>1 DEF GoAccepts
<1>4. t.name = v.name /\ ("None" \notin t.metrics => t.metrics \subseteq v.metrics)
  BY <1>2, InputFile, EntryAgrees
<1>5. v \in GoTypes BY <1>1, <1>3 DEF Members
<1> DEFINE u == CHOOSE u \in GoTypes : u.name = t.name
<1>6. u \in GoTypes /\ u.name = t.name BY <1>4, <1>5
<1>7. PICK j \in DOMAIN file : u \in GoType(file[j])
  BY <1>1, <1>6 DEF Members
<1>8. u.metrics = v.metrics BY <1>1, <1>4, <1>6, <1>7, GoNamesDistinct
<1>9. t.metrics # {} BY <1>2 DEF MachineType
<1> QED BY <1>4, <1>5, <1>8, <1>9

(* Every message of a type that both know is valid.                        *)
LEMMA Accepted ==
  ASSUME file \in Files, GoTypes # {},
         NEW t \in Types, "None" \notin t.metrics, NEW m \in Messages(t)
  PROVE  Validator(GoTypes)!Valid(m)
<1> DEFINE names == {u.name : u \in GoTypes}
<1>1. t.name \in names /\ t.metrics # {} /\ t.metrics \subseteq (CHOOSE u \in GoTypes : u.name = t.name).metrics
  BY BothKnow
<1>2. m.type = t.name /\ m.machine = "id" /\ m.job = TRUE /\ m.timestamp = TRUE
  BY DEF Messages, BuildMessage
<1>3. \/ m.event \in {"hello", "done"} /\ m.metrics = {}
      \/ m.event = "telemetry" /\ m.metrics = t.metrics
  BY DEF Messages, BuildMessage, GenerateMetrics
<1>4. "id" # "" OBVIOUS
<1> QED BY <1>1, <1>2, <1>3, <1>4 DEF Validator!Valid, Validator!SupportedEvents

-----------------------------------------------------------------------------
(* What set_load accepts, and what the loop does with it.                  *)
Positive(n) == n \in Int /\ n > 0

(* Settings from which a machine can be chosen and given its timing.       *)
Sound(s) == /\ \E name \in DOMAIN s.mix : s.mix[name] # 0
            /\ DOMAIN s.mix \subseteq {t.name : t \in Types}
            /\ s.interval # 0 => Positive(s.interval)
            /\ s.duration # NoDuration => s.duration.min > 0

IInv == /\ file \in Files
        /\ backend = "serves" => GoTypes # {}
        /\ simulator \in {"off", "refused", "serves"}
        /\ simulator = "refused" => Types = {}
        /\ simulator = "serves" => Types # {}
        /\ settings # {} => simulator = "serves"
        /\ \A s \in settings : Sound(s)
        /\ \A m \in spawned : m.interval > 0 /\ m.duration.min > 0

LEMMA IntegerRead == ASSUME NEW v, Numeric(v), NEW n \in ToInt(v) PROVE n \in Int
BY DEF ToInt, Truncated, Numeric

LEMMA PositiveStart == ASSUME NEW v, NEW d \in DurationRange(v) PROVE d.min > 0
BY DEF DurationRange

(* A type has a positive interval and a positive shortest duration.        *)
LEMMA NamedTiming ==
  ASSUME file \in Files, NEW name \in {t.name : t \in Types}
  PROVE  Positive(Named(name).interval) /\ Named(name).duration.min > 0
<1>1. Named(name) \in Types BY DEF Named
<1>2. PICK i \in DOMAIN file : Named(name) \in MachineType(file[i])
  BY <1>1, TypesOf DEF Members
<1>3. /\ Named(name).interval \in ToInt(file[i].telemetry_interval_ms)
      /\ Named(name).interval > 0
      /\ Named(name).duration \in DurationRange(file[i].run_duration_seconds)
  BY <1>2 DEF MachineType
<1>4. Numeric(file[i].telemetry_interval_ms) BY InputFile DEF InputEntry
<1>5. Named(name).interval \in Int BY <1>3, <1>4, IntegerRead
<1>6. Named(name).duration.min > 0 BY <1>3, PositiveStart
<1> QED BY <1>3, <1>5, <1>6 DEF Positive

(* The mix that is the default: one weight for each type there is.         *)
LEMMA DefaultMixSound ==
  ASSUME Types # {}
  PROVE  (\E name \in DOMAIN DefaultMix : DefaultMix[name] # 0)
         /\ DOMAIN DefaultMix = {t.name : t \in Types}
<1>1. DOMAIN DefaultMix = {t.name : t \in Types} BY DEF DefaultMix
<1>2. PICK t \in Types : TRUE OBVIOUS
<1>3. t.name \in DOMAIN DefaultMix BY <1>1
<1>4. DefaultMix[t.name] # 0 BY <1>1, <1>3 DEF DefaultMix
<1> QED BY <1>1, <1>3, <1>4

LEMMA MixSound ==
  ASSUME Types # {}, NEW v, NEW w \in Mix(v),
         v.is = "object" => /\ v.fields = [n \in DOMAIN v.fields |-> v.fields[n]]
                            /\ \A n \in DOMAIN v.fields : Numeric(v.fields[n])
  PROVE  (\E name \in DOMAIN w : w[name] # 0) /\ DOMAIN w \subseteq {t.name : t \in Types}
<1>1. CASE v.is = "object" /\ Given(v)
  <2>1. v.fields # <<>> /\ DOMAIN w = DOMAIN v.fields
        /\ DOMAIN w \subseteq DOMAIN DefaultMix
        /\ \A n \in DOMAIN w : w[n] \in PositiveFloat(v.fields[n])
    BY <1>1 DEF Mix
  <2>2. DOMAIN v.fields # {}
    <3>1. v.fields = [n \in DOMAIN v.fields |-> v.fields[n]] BY <1>1
    <3>2. <<>> = [n \in {} |-> v.fields[n]] OBVIOUS
    <3> QED BY <2>1, <3>1, <3>2
  <2>3. PICK n \in DOMAIN w : TRUE BY <2>1, <2>2
  <2>4. w[n] # 0 BY <2>1 DEF PositiveFloat
  <2> QED BY <2>1, <2>3, <2>4, DefaultMixSound
<1>2. CASE ~Given(v)
  <2>1. v.is # "object"
    <3>1. Absent.is = "absent" /\ Null.is = "null" BY DEF Absent, Null
    <3> QED BY <1>2, <3>1 DEF Given
  <2>2. w = DefaultMix BY <1>2, <2>1 DEF Mix
  <2> QED BY <2>2, DefaultMixSound
<1> QED BY <1>1, <1>2 DEF Mix

LEMMA PayloadSound ==
  ASSUME Types # {}, NEW p \in Payloads, NEW s \in LoadSettings(p) PROVE Sound(s)
<1>1. /\ s.mix \in Mix(p.machine_mix)
      /\ s.interval \in OptionalPositiveInt(p.telemetry_interval_ms)
      /\ s.duration \in OptionalDuration(p.duration_seconds)
  BY DEF LoadSettings
<1>2. (\E name \in DOMAIN s.mix : s.mix[name] # 0) /\ DOMAIN s.mix \subseteq {t.name : t \in Types}
  BY <1>1, MixSound, PayloadsAssumption
<1>3. ASSUME s.interval # 0 PROVE Positive(s.interval)
  <2>1. s.interval \in ToInt(p.telemetry_interval_ms) /\ s.interval > 0
    BY <1>1, <1>3 DEF OptionalPositiveInt, NonNegativeInt
  <2> QED BY <2>1, IntegerRead, PayloadsAssumption DEF Positive
<1>4. ASSUME s.duration # NoDuration PROVE s.duration.min > 0
  BY <1>1, <1>4, PositiveStart DEF OptionalDuration
<1> QED BY <1>2, <1>3, <1>4 DEF Sound

(* A round does not die of sound settings of which the total weight is     *)
(* finite and the rate a number, and it spawns a machine with a positive   *)
(* timing.                                                                 *)
LEMMA RoundRuns ==
  ASSUME IInv, Round
  PROVE  /\ loop # "dead" /\ loop' = "dead" =>
              \E s \in settings : TotalNotFinite(s.mix) \/ s.spawn_rate = NaN
         /\ \A m \in spawned' : m.interval > 0 /\ m.duration.min > 0
<1>1. PICK s \in settings :
        IF NoChoice(s.mix)
        THEN loop' = "dead" /\ UNCHANGED spawned
        ELSE \E name \in DOMAIN s.mix :
               /\ spawned' = {[name |-> name,
                               interval |-> IF s.interval # 0 THEN s.interval
                                            ELSE Named(name).interval,
                               duration |-> IF s.duration # NoDuration THEN s.duration
                                            ELSE Named(name).duration]}
               /\ loop' = IF s.spawn_rate = NaN THEN "dead" ELSE loop
  BY DEF Round
<1>2. Sound(s) BY DEF IInv
<1>3. CASE NoChoice(s.mix)
  <2>1. TotalNotFinite(s.mix) BY <1>2, <1>3 DEF Sound, NoChoice
  <2> QED BY <1>1, <1>3, <2>1 DEF IInv
<1>4. CASE ~NoChoice(s.mix)
  <2>1. PICK name \in DOMAIN s.mix :
               /\ spawned' = {[name |-> name,
                               interval |-> IF s.interval # 0 THEN s.interval
                                            ELSE Named(name).interval,
                               duration |-> IF s.duration # NoDuration THEN s.duration
                                            ELSE Named(name).duration]}
               /\ loop' = IF s.spawn_rate = NaN THEN "dead" ELSE loop
    BY <1>1, <1>4
  <2>2. Positive(Named(name).interval) /\ Named(name).duration.min > 0
    BY <1>2, NamedTiming DEF Sound, IInv
  <2>3. ASSUME NEW m \in spawned' PROVE m.interval > 0 /\ m.duration.min > 0
    <3>1. m.interval = IF s.interval # 0 THEN s.interval ELSE Named(name).interval
      BY <2>1, <2>3
    <3>2. m.duration = IF s.duration # NoDuration THEN s.duration ELSE Named(name).duration
      BY <2>1, <2>3
    <3>3. m.interval > 0 BY <1>2, <2>2, <3>1 DEF Sound, Positive
    <3>4. m.duration.min > 0 BY <1>2, <2>2, <3>2 DEF Sound
    <3> QED BY <3>3, <3>4
  <2> QED BY <2>1, <2>3
<1> QED BY <1>3, <1>4

-----------------------------------------------------------------------------
LEMMA Initially == Init => IInv
BY DEF Init, IInv

LEMMA SameTypes ==
  ASSUME UNCHANGED file
  PROVE  Types' = Types /\ GoTypes' = GoTypes /\ (\A s : Sound(s)' <=> Sound(s))
<1>1. Types' = Types /\ GoTypes' = GoTypes BY DEF Types, GoTypes
<1> QED BY <1>1 DEF Sound

LEMMA Step == ASSUME IInv, [Next]_vars PROVE IInv'
<1>1. CASE LoadBackend BY <1>1, SameTypes DEF LoadBackend, IInv
<1>2. CASE LoadSimulator
  <2>1. CASE Types = {} BY <1>2, <2>1, SameTypes DEF LoadSimulator, IInv
  <2>2. CASE Types # {}
    <3> DEFINE start == [target_active |-> 0, spawn_rate |-> 2, mix |-> DefaultMix,
                         duration |-> NoDuration, interval |-> 0, faults |-> 0]
    <3>1. Sound(start) BY <2>2, DefaultMixSound DEF Sound
    <3>2. /\ simulator' = "serves" /\ settings' = {start} /\ UNCHANGED <<file, backend, spawned>>
      BY <1>2, <2>2 DEF LoadSimulator
    <3> QED BY <2>2, <3>1, <3>2, SameTypes DEF IInv
  <2> QED BY <2>1, <2>2
<1>3. ASSUME NEW p \in Payloads, SetLoad(p) PROVE IInv'
  <2>1. \A s \in settings' : Sound(s)
    BY <1>3, PayloadSound DEF SetLoad, IInv
  <2> QED BY <1>3, <2>1, SameTypes DEF SetLoad, IInv
<1>4. CASE Round
  <2>1. UNCHANGED <<file, backend, simulator, settings>> BY <1>4 DEF Round
  <2>2. \A m \in spawned' : m.interval > 0 /\ m.duration.min > 0 BY <1>4, RoundRuns
  <2> QED BY <2>1, <2>2, SameTypes DEF IInv
<1>5. CASE UNCHANGED vars BY <1>5, SameTypes DEF vars, IInv
<1> QED BY <1>1, <1>2, <1>3, <1>4, <1>5 DEF Next, Terminating

(* The inductive invariant: who serves has accepted the file, and what the *)
(* loop works with is sound.                                               *)
THEOREM Invariance == Spec => []IInv
<1> QED BY Initially, Step, PTL DEF Spec

(* The simulator takes every file that the backend serves from.            *)
THEOREM SharedFile == Spec => []SharedFileAccepted
<1>1. IInv => SharedFileAccepted
  <2>1. ASSUME IInv, GoTypes # {} PROVE Types # {}
    <3>1. GoAccepts(file) /\ PythonAccepts(file) BY <2>1, GoTypesOf, AcceptedByBoth DEF IInv
    <3>2. PICK i \in DOMAIN file : GoType(file[i]) # {}
      BY <2>1, GoTypesOf DEF Members
    <3>3. PICK t \in MachineType(file[i]) : TRUE BY <3>1 DEF PythonAccepts
    <3>4. t \in Types BY <3>1, TypesOf DEF Members
    <3> QED BY <3>4
  <2> QED BY <2>1 DEF IInv, SharedFileAccepted
<1> QED BY <1>1, Invariance, PTL

(* Whatever a machine of a shared file sends, the backend accepts.         *)
THEOREM SharedMessages == Spec => []MessagesAccepted
<1>1. IInv => MessagesAccepted BY Accepted DEF IInv, MessagesAccepted
<1> QED BY <1>1, Invariance, PTL

(* No accepted load kills the maintain loop but one of which the total     *)
(* weight is not finite or the rate a NaN, and every machine has a         *)
(* positive duration and interval.                                         *)
THEOREM AcceptedLoads == Spec => AcceptedLoadRuns
<1>1. IInv /\ [Next]_vars =>
        [/\ loop # "dead" /\ loop' = "dead" =>
              \E s \in settings : TotalNotFinite(s.mix) \/ s.spawn_rate = NaN
         /\ \A m \in spawned' : m.interval > 0 /\ m.duration.min > 0]_vars
  <2> SUFFICES ASSUME IInv, Next
               PROVE  /\ loop # "dead" /\ loop' = "dead" =>
                            \E s \in settings : TotalNotFinite(s.mix) \/ s.spawn_rate = NaN
                      /\ \A m \in spawned' : m.interval > 0 /\ m.duration.min > 0
    OBVIOUS
  <2>1. CASE Round BY <2>1, RoundRuns
  <2>2. CASE ~Round
    <3>1. UNCHANGED spawned /\ (loop' = loop \/ loop' = "alive")
      BY <2>2 DEF Next, LoadBackend, LoadSimulator, SetLoad, Terminating, vars
    <3> QED BY <3>1 DEF IInv
  <2> QED BY <2>1, <2>2
<1> QED BY <1>1, Invariance, PTL DEF Spec, AcceptedLoadRuns
=============================================================================
