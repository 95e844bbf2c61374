----------------------------- MODULE MCBackend -----------------------------
(* Instances of Backend for TLC.                                           *)
EXTENDS Backend, TLC

CONSTANTS m1, m2, cnc, oven, temperature, power

MCAllowed == cnc :> {temperature}

Msg(event, machine, type, job, timestamp, metrics) ==
  [event |-> event, machine |-> machine, type |-> type,
   job |-> job, timestamp |-> timestamp, metrics |-> metrics]

(* The valid lines, and one line for each clause of the validator.         *)
ValidLines == {Msg("hello", m1, cnc, TRUE, TRUE, {}),
               Msg("telemetry", m1, cnc, TRUE, TRUE, {temperature}),
               Msg("done", m1, cnc, TRUE, TRUE, {})}

OtherMachine == {Msg("telemetry", m2, cnc, TRUE, TRUE, {temperature})}

InvalidLines == {Msg("unknown", m1, cnc, TRUE, TRUE, {}),
                 Msg(Missing, m1, cnc, TRUE, TRUE, {}),
                 Msg("hello", Missing, cnc, TRUE, TRUE, {}),
                 Msg("hello", m1, oven, TRUE, TRUE, {}),
                 Msg("hello", m1, Missing, TRUE, TRUE, {}),
                 Msg("hello", m1, cnc, FALSE, TRUE, {}),
                 Msg("hello", m1, cnc, TRUE, FALSE, {}),
                 Msg("telemetry", m1, cnc, TRUE, TRUE, {}),
                 Msg("telemetry", m1, cnc, TRUE, TRUE, {power})}

AllLines == ValidLines \union OtherMachine \union InvalidLines \union {Garbage}
=============================================================================
