------------------------------ MODULE Protocol ------------------------------
(***************************************************************************)
(* backend/internal/protocol/message.go: what a line of the telemetry      *)
(* protocol holds once decoded, and which messages the validator accepts.  *)
(* A string is Missing when it is empty, job_id and timestamp are reduced  *)
(* to their presence, and the values of the metrics are left out.          *)
(***************************************************************************)
CONSTANTS Machines,        \* machine ids
          MachineTypes,    \* machine type names that occur in messages
          Metrics,         \* metric names that occur in messages
          AllowedMetrics,  \* Validator.allowedMetrics: known type -> metric names
          Missing          \* the empty string

ASSUME MissingAssumption == Missing \notin Machines \union MachineTypes
ASSUME AllowedAssumption == DOMAIN AllowedMetrics \subseteq MachineTypes

SupportedEvents == {"hello", "telemetry", "done"}

Message == [event : SupportedEvents \union {"unknown", Missing},
            machine : Machines \union {Missing},
            type : MachineTypes \union {Missing},
            job : BOOLEAN, timestamp : BOOLEAN,
            metrics : SUBSET Metrics]

(* Validator.Validate returns no error.                                    *)
Valid(m) == /\ m.event \in SupportedEvents
            /\ m.machine # Missing
            /\ m.job /\ m.timestamp
            /\ m.type \in DOMAIN AllowedMetrics
            /\ m.event = "telemetry" => m.metrics # {}
            /\ m.metrics \subseteq AllowedMetrics[m.type]
=============================================================================
