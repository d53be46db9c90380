------------------------------ MODULE MCReload ------------------------------
(***************************************************************************)
(* An instance of Reload, and with it of Startup, Config and Values.       *)
(***************************************************************************)
EXTENDS Reload

\* Software timestamps over IPv4, with the largest DSCP and domain.
Software ==
    [DSCP |-> 63, DomainNumber |-> 255, RecvWorkers |-> 1, SendWorkers |-> 2,
     MonitoringPort |-> 65535, QueueSize |-> 0, TimestampType |-> SW,
     IP |-> "0.0.0.0", Interface |-> "eth0", DebugAddr |-> "",
     ConfigFile |-> "file", LogLevel |-> "warn"]

\* Hardware timestamps over IPv6 and no configuration file, the defaults.
Hardware == [Software EXCEPT !.TimestampType = HW, !.IP = "::", !.ConfigFile = "",
                             !.SendWorkers = 1, !.DSCP = 0, !.DomainNumber = 0,
                             !.MonitoringPort = 1]

\* Flags just outside of what is allowed, one at a time.
MCFlags ==
    {Software, Hardware}
    \cup {[Software EXCEPT !.DSCP = n] : n \in {-1, 64}}
    \cup {[Software EXCEPT !.MonitoringPort = n] : n \in {0, 65536}}
    \cup {[Software EXCEPT !.TimestampType = t] : t \in {SWRX, HWRX}}
    \cup {[Software EXCEPT !.IP = a] : a \in {"foreign", "none"}}
    \cup {[Software EXCEPT !.DomainNumber = 256], [Software EXCEPT !.RecvWorkers = 0],
          [Software EXCEPT !.SendWorkers = 0], [Software EXCEPT !.QueueSize = -1],
          [Software EXCEPT !.Interface = "missing"],
          [Software EXCEPT !.DebugAddr = "bad"], [Software EXCEPT !.LogLevel = "bad"]}

\* Truncated to no time at all, truncated, and too long for a duration.
MCLogInterval == {-4, -2, 13}

Yaml(keys) == [kind |-> "yaml", keys |-> keys]

\* No file, a valid one, and one with both errors; a truncated one has the
\* defaults.
MCContents ==
    {Absent,
     Yaml([UTCOffset |-> 38 * Sec, MinSubInterval |-> 0]),
     Yaml([UTCOffset |-> 51 * Sec, MinSubInterval |-> 2 * Sec, MaxSubDuration |-> Sec])}

=============================================================================
