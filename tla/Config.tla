------------------------------- MODULE Config -------------------------------
(***************************************************************************)
(* The configuration of ptp4u (server/config.go): command-line flags,      *)
(* which hold until the server ends, and the dynamic configuration, a YAML *)
(* file of which every key is optional.                                    *)
(*                                                                         *)
(* Of a file we keep whether it exists and parses, and the keys it has.    *)
(***************************************************************************)
EXTENDS Values

HW == "hardware"
SW == "software"
HWRX == "hardware_rx"
SWRX == "software_rx"

-----------------------------------------------------------------------------
(***************************************************************************)
(* The static configuration.  Addresses: `own' is an IPv4 address of the   *)
(* interface, `foreign' one of another machine, `none' does not parse.     *)
(***************************************************************************)
IfaceIPs == {"own", "::", "0.0.0.0"}

IfaceHasIP(f) == f.Interface # "missing" /\ f.IP \in IfaceIPs

IsIPv4(f) == f.IP \notin {"::", "none"}       \* IP.To4() != nil

\* Variant: the largest DSCP is off by one.
ValidDSCP64(f) == f.DSCP \in 0 .. 64

ValidDSCP(f) == f.DSCP \in 0 .. 63

\* Variant: a server without receive workers is accepted.
ValidNoReceivers(f) == f.RecvWorkers >= 0

ValidRecvWorkers(f) == f.RecvWorkers > 0

\* Variant: a server without send workers is accepted.
ValidNoSenders(f) == f.SendWorkers >= 0

ValidSendWorkers(f) == f.SendWorkers > 0

\* Config.Validate
Validate(f) ==
    /\ ValidDSCP(f) /\ f.DomainNumber <= 255
    /\ ValidRecvWorkers(f) /\ ValidSendWorkers(f)
    /\ f.MonitoringPort > 0 /\ f.MonitoringPort <= 65535
    /\ f.QueueSize >= 0
    /\ f.TimestampType \in {SW, HW}
    /\ f.IP # "none" /\ IfaceHasIP(f)
    /\ f.DebugAddr # "bad"

-----------------------------------------------------------------------------
(***************************************************************************)
(* The dynamic configuration.                                              *)
(***************************************************************************)
NewDefaultDynamicConfig ==
    [ClockAccuracy |-> 33, ClockClass |-> 6,
     DrainInterval |-> 30 * Sec, MaxSubDuration |-> 3600 * Sec,
     MetricInterval |-> 60 * Sec, MinSubInterval |-> Sec,
     UTCOffset |-> 37 * Sec]

Field == DOMAIN NewDefaultDynamicConfig

\* DynamicConfig.Validate
ValidateDynamic(dc) ==
    /\ 30 * Sec <= dc.UTCOffset /\ dc.UTCOffset <= 50 * Sec
    /\ dc.DrainInterval >= 0 /\ dc.MaxSubDuration >= 0
    /\ dc.MetricInterval >= 0 /\ dc.MinSubInterval >= 0
    /\ dc.MaxSubDuration >= dc.MinSubInterval

\* yaml.Unmarshal into the defaults: keys that are missing keep them, and an
\* empty file has no keys.
Unmarshal(keys) ==
    [k \in Field |-> IF k \in DOMAIN keys THEN keys[k]
                                          ELSE NewDefaultDynamicConfig[k]]

\* Variant: the result is not validated.
ReadsUnchecked(file) == file.kind = "yaml"

\* ReadDynamicConfig(path) returns no error ...
Reads(file) == file.kind = "yaml" /\ ValidateDynamic(Unmarshal(file.keys))

\* ... but this configuration.
ReadDynamicConfig(file) == Unmarshal(file.keys)

=============================================================================
