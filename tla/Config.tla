------------------------------- MODULE Config -------------------------------
(***************************************************************************)
(* The machine types file as both programs that share it read it           *)
(* (simulator/config.py and backend/internal/config/config.go), the        *)
(* payloads that set the load (the parsers of simulator/controller.py),    *)
(* and what depends on their validation elsewhere: the choice of a machine *)
(* by the maintain loop, whose exceptions nobody sees, and the messages of *)
(* simulator/protocol.py and metrics.py, which the backend validates.      *)
(*                                                                         *)
(* Python converts a value, Go insists on its JSON type.  A parser is an   *)
(* operator that returns the set of its results: it is empty if the code   *)
(* raises or returns an error.                                             *)
(***************************************************************************)
EXTENDS Integers, Sequences, Functions

CONSTANTS Files,     \* what the file may hold: sequences of entries
          Payloads,  \* the bodies of PUT /api/load
          Infinity   \* the first number beyond the floats, as they are counted

VARIABLES
  file,       \* the entries of the file
  backend,    \* "off", "refused" or "serves"
  simulator,  \* the same
  settings,   \* _settings, if the simulator serves
  loop,       \* "none", or whether _maintain_loop is alive or dead
  spawned     \* the machine it has spawned last, if any

vars == <<file, backend, simulator, settings, loop, spawned>>

-----------------------------------------------------------------------------
(* JSON values.  Numbers are counted in halves; a numeral is a string that *)
(* spells one, a number is huge if it is beyond the floats, as 1e400, and  *)
(* a string may spell what is not a number: "nan".                         *)
Absent == [is |-> "absent"]
Null == [is |-> "null"]
Huge == [is |-> "huge"]
NotANumber == [is |-> "nan"]
Number(halves) == [is |-> "number", halves |-> halves]
Numeral(halves) == [is |-> "numeral", halves |-> halves]
Text(word) == [is |-> "text", word |-> word]
List(items) == [is |-> "list", items |-> items]
Object(fields) == [is |-> "object", fields |-> fields]

Given(v) == v \notin {Absent, Null}
Or(v, default) == IF v = Absent THEN default ELSE v
Members(s) == {s[i] : i \in DOMAIN s}

(* The shape of the inputs: numbers are whole numbers of halves below      *)
(* those that are huge, a range has both its fields, and no item of a list *)
(* is absent.                                                              *)
ASSUME InfinityAssumption == Infinity \in Nat \ {0}

Numeric(v) == v.is \in {"number", "numeral"} => v.halves \in Int /\ v.halves < Infinity
NumericRange(v) == v.is = "object" => Numeric(v.fields.min) /\ Numeric(v.fields.max)

ASSUME FilesAssumption ==
  \A entries \in Files :
    /\ entries \in Seq(Members(entries))
    /\ \A e \in Members(entries) :
         /\ e.allowed_metrics.is = "list" => Absent \notin Members(e.allowed_metrics.items)
         /\ Numeric(e.telemetry_interval_ms) /\ NumericRange(e.run_duration_seconds)

ASSUME PayloadsAssumption ==
  \A p \in Payloads :
    /\ p.machine_mix.is = "object" =>
         LET weights == p.machine_mix.fields
         IN  /\ weights = [n \in DOMAIN weights |-> weights[n]]
             /\ \A n \in DOMAIN weights : Numeric(weights[n])
    /\ Numeric(p.telemetry_interval_ms) /\ NumericRange(p.duration_seconds)

(* float(v), in halves.  Of all that is compared with a NaN, each          *)
(* comparison is false; as the code asks what is wrong with a number and   *)
(* never what is right, a NaN behind Infinity passes each lower bound.     *)
NaN == Infinity + 1
ToFloat(v) == CASE v.is \in {"number", "numeral"} -> {v.halves}
              [] v.is = "huge" -> {Infinity}
              [] v.is = "nan" -> {NaN}
              [] OTHER -> {}

(* int(v) truncates a number; a numeral must spell an integer.             *)
Truncated(halves) == IF halves >= 0 THEN halves \div 2 ELSE -((-halves) \div 2)
ToInt(v) == CASE v.is = "number" -> {Truncated(v.halves)}
              [] v.is = "numeral" /\ v.halves % 2 = 0 -> {v.halves \div 2}
              [] OTHER -> {}

(* str(v)                                                                  *)
ToStr(v) == CASE v.is = "text" -> v.word
            [] v.is = "null" -> "None"
            [] OTHER -> "other"

(* tuple(str(item) for item in v): a string has its characters as items.   *)
ToStrs(v) == CASE v.is = "list" -> {{ToStr(item) : item \in Members(v.items)}}
             [] v.is = "text" /\ v.word # "" -> {{"character"}}
             [] OTHER -> {}

-----------------------------------------------------------------------------
(* The file, read by the simulator.                                        *)

Bounds(v, Parse(_)) == IF v.is = "object"
                       THEN [min : Parse(v.fields.min), max : Parse(v.fields.max)]
                       ELSE {}

(* Wrong: bounds may be zero.                                              *)
DurationFromZero(v) == {d \in Bounds(v, ToFloat) :
                          0 <= d.min /\ 0 <= d.max /\ (d.min = NaN \/ d.min <= d.max)}

(* Wrong: min must be less than max.                                       *)
DurationStrict(v) == {d \in Bounds(v, ToFloat) :
                        0 < d.min /\ 0 < d.max /\ (d.min = NaN \/ d.min < d.max)}

DurationRange(v) == {d \in Bounds(v, ToFloat) :
                       0 < d.min /\ 0 < d.max /\ (d.min = NaN \/ d.min <= d.max)}

MachineType(e) == {t \in [name : IF e.name = Absent THEN {} ELSE {ToStr(e.name)},
                          metrics : ToStrs(e.allowed_metrics),
                          interval : ToInt(e.telemetry_interval_ms),
                          duration : DurationRange(e.run_duration_seconds)] :
                     t.name # "" /\ t.metrics # {} /\ t.interval > 0}

(* The machine types of a file of which every entry is accepted and no two *)
(* have the same name; none if the file is refused.                        *)
TypesIn(entries, Parse(_)) ==
  IF \A i \in DOMAIN entries :
       /\ Parse(entries[i]) # {}
       /\ \A j \in 1 .. i - 1 : \A t \in Parse(entries[i]), u \in Parse(entries[j]) :
                                  t.name # u.name
  THEN UNION {Parse(e) : e \in Members(entries)}
  ELSE {}

(* ... and by the backend: null and a missing field are the zero value.    *)
GoInt(v) == CASE v.is = "number" /\ v.halves % 2 = 0 -> {v.halves \div 2}
              [] ~Given(v) -> {0}
              [] OTHER -> {}

GoString(v) == CASE v.is = "text" -> {v.word}
                 [] ~Given(v) -> {""}
                 [] OTHER -> {}

GoStrings(v) == CASE v.is = "list" /\ (\A item \in Members(v.items) : GoString(item) # {})
                       -> {UNION {GoString(item) : item \in Members(v.items)}}
                  [] ~Given(v) -> {{}}
                  [] OTHER -> {}

GoDuration(v) == IF Given(v) THEN Bounds(v, GoInt) ELSE {[min |-> 0, max |-> 0]}

GoType(e) == {t \in [name : GoString(e.name),
                     metrics : GoStrings(e.allowed_metrics),
                     interval : GoInt(e.telemetry_interval_ms),
                     duration : GoDuration(e.run_duration_seconds)] :
                /\ t.name # "" /\ t.metrics # {} /\ t.interval > 0
                /\ 0 < t.duration.min /\ t.duration.min <= t.duration.max}

Types == TypesIn(file, MachineType)
GoTypes == TypesIn(file, GoType)
Named(name) == CHOOSE t \in Types : t.name = name

-----------------------------------------------------------------------------
(* The payload of set_load.  An option that is not given is a zero.        *)

NonNegativeInt(v) == {n \in ToInt(v) : n >= 0}
PositiveFloat(v) == {x \in ToFloat(v) : x > 0}
Probability(v) == {x \in ToFloat(v) : 0 <= x /\ (x = NaN \/ x <= 2)}

OptionalPositiveInt(v) == IF Given(v) THEN {n \in NonNegativeInt(v) : n > 0} ELSE {0}
NoDuration == [min |-> 0, max |-> 0]
OptionalDuration(v) == IF Given(v) THEN DurationRange(v) ELSE {NoDuration}

DefaultMix == [name \in {t.name : t \in Types} |-> 2]

Mix(v) == CASE ~Given(v) -> {DefaultMix}
            [] v.is = "object" /\ v.fields # <<>>
                 -> {w \in [DOMAIN v.fields -> UNION {ToFloat(v.fields[n]) : n \in DOMAIN v.fields}] :
                       /\ DOMAIN w \subseteq DOMAIN DefaultMix
                       /\ \A n \in DOMAIN w : w[n] \in PositiveFloat(v.fields[n])}
            [] OTHER -> {}

LoadSettings(p) == [target_active : NonNegativeInt(Or(p.target_active, Number(0))),
                    spawn_rate : PositiveFloat(Or(p.spawn_rate_per_sec, Number(2))),
                    mix : Mix(p.machine_mix),
                    duration : OptionalDuration(p.duration_seconds),
                    interval : OptionalPositiveInt(p.telemetry_interval_ms),
                    faults : Probability(Or(p.fault_probability_per_minute, Number(0)))]

-----------------------------------------------------------------------------
(* The messages of a machine of type t.                                    *)

BuildMessage(event, t, metrics) == [event |-> event, machine |-> "id", type |-> t.name,
                                    job |-> TRUE, timestamp |-> TRUE, metrics |-> metrics]

(* Wrong: completion_pct is sent whether or not it is allowed.             *)
GenerateWithProgress(t) == t.metrics \union {"completion_pct"}

GenerateMetrics(t) == t.metrics

Messages(t) == {BuildMessage("hello", t, {}), BuildMessage("done", t, {}),
                BuildMessage("telemetry", t, GenerateMetrics(t))}

(* NewValidator                                                            *)
Validator(types) ==
  INSTANCE Protocol WITH
    Machines <- {"id"}, Missing <- "",
    MachineTypes <- {t.name : t \in types},
    Metrics <- UNION {t.metrics : t \in types},
    AllowedMetrics <- [name \in {t.name : t \in types} |->
                         (CHOOSE t \in types : t.name = name).metrics]

-----------------------------------------------------------------------------
Init == /\ file \in Files
        /\ backend = "off" /\ simulator = "off"
        /\ settings = {} /\ loop = "none" /\ spawned = {}

LoadBackend == /\ backend = "off"
               /\ backend' = IF GoTypes = {} THEN "refused" ELSE "serves"
               /\ UNCHANGED <<file, simulator, settings, loop, spawned>>

(* The simulator has loaded the file and started the controller.           *)
LoadSimulator ==
  /\ simulator = "off"
  /\ IF Types = {}
     THEN simulator' = "refused" /\ UNCHANGED <<settings, loop>>
     ELSE /\ simulator' = "serves" /\ loop' = "alive"
          /\ settings' = {[target_active |-> 0, spawn_rate |-> 2, mix |-> DefaultMix,
                           duration |-> NoDuration, interval |-> 0, faults |-> 0]}
  /\ UNCHANGED <<file, backend, spawned>>

(* set_load replaces all the settings, or raises before it changes any.    *)
SetLoad(p) == /\ simulator = "serves"
              /\ LoadSettings(p) # {}
              /\ settings' = LoadSettings(p)
              /\ UNCHANGED <<file, backend, simulator, loop, spawned>>

(* random.choices raises if the total of the weights is zero or not        *)
(* finite, which it may be although each weight is.                        *)
TotalNotFinite(mix) == SumFunction(mix) >= Infinity
NoChoice(mix) == (\A name \in DOMAIN mix : mix[name] = 0) \/ TotalNotFinite(mix)

(* _maintain_loop chooses a machine, spawns it and sleeps for 1/spawn_rate *)
(* seconds, which raises for a NaN; an exception ends it.                  *)
Round == \E s \in settings :
           /\ loop = "alive" /\ s.target_active > 0
           /\ IF NoChoice(s.mix)
              THEN loop' = "dead" /\ UNCHANGED spawned
              ELSE \E name \in DOMAIN s.mix :
                     /\ spawned' = {[name |-> name,
                                     interval |-> IF s.interval # 0 THEN s.interval
                                                  ELSE Named(name).interval,
                                     duration |-> IF s.duration # NoDuration THEN s.duration
                                                  ELSE Named(name).duration]}
                     /\ loop' = IF s.spawn_rate = NaN THEN "dead" ELSE loop
           /\ UNCHANGED <<file, backend, simulator, settings>>

Terminating == backend # "off" /\ simulator = "refused" /\ UNCHANGED vars

Next == \/ LoadBackend \/ LoadSimulator \/ Round \/ Terminating
        \/ \E p \in Payloads : SetLoad(p)

Spec == Init /\ [][Next]_vars
-----------------------------------------------------------------------------
(* A file that the backend serves from never stops the simulator: all that *)
(* Go accepts, Python accepts too.                                         *)
SharedFileAccepted == backend = "serves" => simulator # "refused"

(* Whatever a machine of a shared file sends is a message the backend      *)
(* accepts, although each side reads names and metrics in its own way.  A  *)
(* metric called null is read as "" by one and as "None" by the other.     *)
MessagesAccepted ==
  backend = "serves" /\ simulator = "serves" =>
    \A t \in Types : "None" \notin t.metrics =>
      \A m \in Messages(t) : Validator(GoTypes)!Valid(m)

(* Two kinds of settings are all that the maintain loop dies of, once      *)
(* set_load has accepted them: those of which the total weight is not      *)
(* finite and those of which the rate is a NaN.  And no machine gets a     *)
(* duration of zero, by which its progress is divided, or sends without a  *)
(* pause.                                                                  *)
AcceptedLoadRuns ==
  [][/\ loop # "dead" /\ loop' = "dead" =>
          \E s \in settings : TotalNotFinite(s.mix) \/ s.spawn_rate = NaN
     /\ \A m \in spawned' : m.interval > 0 /\ m.duration.min > 0]_vars
=============================================================================
