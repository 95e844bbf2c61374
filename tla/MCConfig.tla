------------------------------ MODULE MCConfig ------------------------------
(* Files and payloads for TLC: for every field, each kind of value that    *)
(* one of the two readers takes and each that one of them refuses.         *)
EXTENDS Config

Names == {Absent, Null, Text(""), Text("cnc"), Number(4)}
Metrics == {Absent, Null, List(<<>>), List(<<Text("temp")>>), List(<<Text("temp"), Null>>),
            List(<<Number(2)>>), Text("temp"), Number(2)}
Intervals == {Absent, Null, Number(-1), Number(0), Number(1), Number(2), Numeral(2), Huge}
BoundValues == {Absent, Null, Number(-2), Number(0), Number(1), Number(2), Number(4), Numeral(4), Huge, NotANumber}
DurationsOf(values) == {Absent, Null, Text("long")}
                         \union {Object(b) : b \in [min : values, max : values]}
Durations == DurationsOf(BoundValues)

Entry(name, metrics, interval, duration) ==
  [name |-> name, allowed_metrics |-> metrics,
   telemetry_interval_ms |-> interval, run_duration_seconds |-> duration]

Temp == List(<<Text("temp")>>)
Power == List(<<Text("power")>>)
Some == Object([min |-> Number(2), max |-> Number(4)])
Cnc == Entry(Text("cnc"), Temp, Number(2), Some)
Oven == Entry(Text("oven"), Power, Number(2), Some)

(* One entry, wrong or odd in its name and metrics, or in one of its       *)
(* numbers; and a second one, which may have the name of the first.        *)
MCFiles ==
  {<<>>, <<Cnc, Oven>>, <<Cnc, Cnc>>}
    \union {<<Entry(n, m, Number(2), Some)>> : n \in Names, m \in Metrics}
    \union {<<Entry(Text("cnc"), Temp, i, Some)>> : i \in Intervals}
    \union {<<Entry(Text("cnc"), Temp, Number(2), d)>> : d \in Durations}
    \union {<<Oven, Entry(n, m, Number(2), Some)>> : n \in Names, m \in Metrics}

Payload == [target_active |-> Number(2), spawn_rate_per_sec |-> Absent, machine_mix |-> Absent,
            duration_seconds |-> Absent, telemetry_interval_ms |-> Absent,
            fault_probability_per_minute |-> Absent]

(* Two weights of half the largest float are finite, and their total not.  *)
Weights == {Null, Number(-1), Number(0), Number(1), Number(Infinity \div 2), Huge, NotANumber}

MCPayloads ==
  {[Payload EXCEPT !.target_active = v] : v \in {Absent, Null, Number(-1), Numeral(2), Text("two")}}
    \union {[Payload EXCEPT !.spawn_rate_per_sec = v, !.fault_probability_per_minute = w] :
              v \in {Number(0), Number(1), Huge, NotANumber}, w \in {Number(1), Number(3), NotANumber}}
    \union {[Payload EXCEPT !.machine_mix = Object(f)] :
              f \in UNION {[N -> Weights] : N \in {{}, {"cnc"}, {"cnc", "oven"}, {"lathe"}}}}
    \union {[Payload EXCEPT !.duration_seconds = d] :
              d \in DurationsOf({Number(0), Numeral(4), NotANumber})}
    \union {[Payload EXCEPT !.telemetry_interval_ms = i] : i \in Intervals}
=============================================================================
