------------------------------ MODULE Startup ------------------------------
(***************************************************************************)
(* The life of the ptp4u process: main (main.go), Server.Start and the     *)
(* listeners (server/server.go), the sockets of the send workers           *)
(* (server/worker.go, dscp/dscp.go), the pid file, the signals, and the    *)
(* ways in which the process ends.  Whoever runs ptp4u starts it again     *)
(* after it has ended, possibly with other flags; the pid file and the     *)
(* configuration file outlive it.                                          *)
(*                                                                         *)
(* Any system call may fail; most failures end the process.  What Drain    *)
(* does on SIGTERM is in DrainControl.                                     *)
(***************************************************************************)
EXTENDS Config, FiniteSets

CONSTANTS
    Flags,      \* the command lines the server may be started with
    MaxWorkers, \* bound: send workers in Flags
    MaxBoots    \* bound: how often it is started

Listener == {"event", "general"}
Watch == {"hup", "term"}
SendWorker == 1 .. MaxWorkers

ASSUME StartupAssumption ==
    /\ MaxWorkers \in Nat /\ MaxBoots \in Nat
    /\ \A f \in Flags : f.SendWorkers <= MaxWorkers /\ f.QueueSize \in Int

VARIABLES
    boot,       \* number of the process, 0 before the first
    status,     \* "off", "up", or how the process ended
    main,       \* what the main goroutine is about to do
    flags,      \* Config.StaticConfig
    cfg,        \* Config.DynamicConfig
    sw,         \* sw[i]: the send worker, "nil", "new" or "ready"
    tos,        \* tos[i]: traffic class of the worker's sockets
    listener,   \* listener[l]: "none", "spawned" or "ready"
    watch,      \* watch[s]: progress of handleSighup and handleSigterm
    pidFile,    \* the boot whose pid is in the pid file, 0 if there is none
    file        \* the file with the dynamic configuration

procVars == <<boot, status, main, flags>>
bootVars == <<sw, tos, listener>>
startupVars == <<procVars, cfg, bootVars, watch, pidFile, file>>

Up == status = "up"

NoWorkers == [i \in SendWorker |-> "nil"]
NoSockets == [i \in SendWorker |-> 0]
NoListeners == [l \in Listener |-> "none"]
NoWatches == [s \in Watch |-> "none"]

\* os.Exit, a return from main, a panic, or the default action of a signal:
\* the memory and the sockets of the process are gone.
Exit(how) ==
    /\ status' = how /\ main' = "none"
    /\ cfg' = NewDefaultDynamicConfig
    /\ sw' = NoWorkers /\ tos' = NoSockets
    /\ listener' = NoListeners /\ watch' = NoWatches
    /\ UNCHANGED <<boot, flags, file>>

StartupInit ==
    /\ boot = 0 /\ status = "off" /\ main = "none"
    /\ flags \in Flags
    /\ cfg = NewDefaultDynamicConfig
    /\ sw = NoWorkers /\ tos = NoSockets
    /\ listener = NoListeners /\ watch = NoWatches
    /\ pidFile = 0

-----------------------------------------------------------------------------
(***************************************************************************)
(* main and Server.Start.                                                  *)
(***************************************************************************)
Exec(f) ==
    /\ ~ Up /\ boot < MaxBoots
    /\ boot' = boot + 1 /\ status' = "up" /\ main' = "config"
    /\ flags' = f
    /\ UNCHANGED <<cfg, bootVars, watch, pidFile, file>>

Main(from, to) == Up /\ main = from /\ main' = to

\* An unknown log level or an unreadable file is the end.
ReadConfig ==
    \/ /\ Main("config", "validate")
       /\ flags.LogLevel # "bad"
       /\ \/ flags.ConfigFile = "" /\ UNCHANGED cfg
          \/ flags.ConfigFile # "" /\ Reads(file) /\ cfg' = ReadDynamicConfig(file)
       /\ UNCHANGED <<boot, status, flags, bootVars, watch, pidFile, file>>
    \/ /\ Up /\ main = "config"
       /\ flags.LogLevel = "bad" \/ (flags.ConfigFile # "" /\ ~ Reads(file))
       /\ Exit("error") /\ UNCHANGED pidFile

ValidateConfig ==
    \/ /\ Main("validate", "pidfile") /\ Validate(flags)
       /\ UNCHANGED <<boot, status, flags, cfg, bootVars, watch, pidFile, file>>
    \/ /\ Up /\ main = "validate" /\ ~ Validate(flags)
       /\ Exit("error") /\ UNCHANGED pidFile

\* The monitoring and the profiling server, in goroutines of their own, end the
\* process if they cannot listen.
HTTPFails ==
    /\ Up /\ main \notin {"config", "validate"}
    /\ Exit("error") /\ UNCHANGED pidFile

\* Variant: a pid file that is there is left alone.
CreatePidFileOnce ==
    /\ Main("pidfile", "identity")
    /\ pidFile' = IF pidFile = 0 THEN boot ELSE pidFile
    /\ UNCHANGED <<boot, status, flags, cfg, bootVars, watch, file>>

CreatePidFile ==
    /\ Main("pidfile", "identity")
    /\ pidFile' = boot
    /\ UNCHANGED <<boot, status, flags, cfg, bootVars, watch, file>>

\* The clock identity is made from the MAC address of the interface, and the
\* context of the subscriptions is created.
SetClockIdentity ==
    /\ Main("identity", "workers")
    /\ UNCHANGED <<boot, status, flags, cfg, bootVars, watch, pidFile, file>>

\* Start returns an error: the pid file cannot be written, the interface is
\* gone, or its MAC address is neither EUI-48 nor EUI-64.
StartFails ==
    /\ Up /\ main \in {"pidfile", "identity"}
    /\ Exit("error") /\ UNCHANGED pidFile

Workers == Cardinality({i \in SendWorker : sw[i] # "nil"})

\* newSendWorker and `go s.sw[i].Start()'; a channel of negative size panics.
NewSendWorker ==
    /\ Up /\ main = "workers" /\ Workers < flags.SendWorkers
    /\ IF flags.QueueSize < 0
         THEN Exit("panic") /\ UNCHANGED pidFile
         ELSE /\ sw' = [sw EXCEPT ![Workers + 1] = "new"]
              /\ UNCHANGED <<procVars, cfg, tos, listener, watch, pidFile, file>>

\* The go statements of handleSighup and handleSigterm.
GoWatches == watch' = [s \in Watch |-> "spawned"]

\* The go statements that follow: the listeners and the signal handlers.
Spawn ==
    /\ Workers >= flags.SendWorkers
    /\ Main("workers", "select")
    /\ listener' = [l \in Listener |-> "spawned"]
    /\ GoWatches
    /\ UNCHANGED <<boot, status, flags, cfg, sw, tos, pidFile, file>>

MainStep ==
    \/ ReadConfig \/ ValidateConfig \/ CreatePidFile \/ SetClockIdentity
    \/ NewSendWorker \/ Spawn

-----------------------------------------------------------------------------
(***************************************************************************)
(* The sockets.                                                            *)
(***************************************************************************)
\* The traffic class that setsockopt stores: IPV6_TCLASS refuses what does not
\* fit a byte, IP_TOS cuts it off.
Enable(f) == (f.DSCP * 4) % 256
EnableRefused(f) == ~ IsIPv4(f) /\ f.DSCP * 4 > 255

\* sendWorker.listen: two sockets with SO_REUSEPORT, bound to any port, with
\* DSCP, and timestamps on the first.
Listen(i) ==
    /\ Up /\ sw[i] = "new" /\ ~ EnableRefused(flags)
    /\ sw' = [sw EXCEPT ![i] = "ready"]
    /\ tos' = [tos EXCEPT ![i] = Enable(flags)]
    /\ UNCHANGED <<procVars, cfg, listener, watch, pidFile, file>>

\* startEventListener, startGeneralListener: ListenUDP on the port, RX
\* timestamps on the event socket, and the receive workers.
StartListener(l) ==
    /\ Up /\ listener[l] = "spawned"
    /\ listener' = [listener EXCEPT ![l] = "ready"]
    /\ UNCHANGED <<procVars, cfg, sw, tos, watch, pidFile, file>>

\* A socket cannot be set up.
SocketFails ==
    /\ Up /\ \/ \E i \in SendWorker : sw[i] = "new"
             \/ \E l \in Listener : listener[l] = "spawned"
    /\ Exit("error") /\ UNCHANGED pidFile

Receiving(l) == Up /\ listener[l] = "ready" /\ flags.RecvWorkers > 0

\* findWorker, s.sw[hash % len(s.sw)], finds a worker: there are workers, and
\* every element of s.sw is set.
FindsWorker == flags.SendWorkers > 0 /\ Workers >= flags.SendWorkers

SocketStep ==
    \/ \E i \in SendWorker : Listen(i)
    \/ \E l \in Listener : StartListener(l)

-----------------------------------------------------------------------------
(***************************************************************************)
(* Signals.  Until signal.Notify is called they have their default action, *)
(* which ends the process.                                                 *)
(***************************************************************************)
Notify(s) ==
    /\ Up /\ watch[s] = "spawned"
    /\ watch' = [watch EXCEPT ![s] = "idle"]
    /\ UNCHANGED <<procVars, cfg, bootVars, pidFile, file>>

Sigterm ==
    /\ Up /\ watch["term"] = "idle"
    /\ watch' = [watch EXCEPT !["term"] = "drain"]
    /\ UNCHANGED <<procVars, cfg, bootVars, pidFile, file>>

\* After Drain; `done' makes Start and main return.
DeletePidFile ==
    /\ Up /\ watch["term"] = "drain"
    /\ pidFile' = 0 /\ Exit("ok")

DeletePidFileFails ==
    /\ Up /\ watch["term"] = "drain"
    /\ Exit("error") /\ UNCHANGED pidFile

\* SIGKILL, or SIGHUP, SIGTERM and SIGINT before Notify.
Killed == Up /\ Exit("killed") /\ UNCHANGED pidFile

SignalStep == (\E s \in Watch : Notify(s)) \/ DeletePidFile

StartupNext ==
    \/ \E f \in Flags : Exec(f)
    \/ MainStep \/ HTTPFails \/ StartFails
    \/ SocketStep \/ SocketFails
    \/ SignalStep \/ DeletePidFileFails \/ Sigterm \/ Killed

StartupFairness ==
    /\ WF_startupVars(MainStep) /\ WF_startupVars(DeletePidFile)
    /\ \A i \in SendWorker : WF_startupVars(Listen(i))
    /\ \A l \in Listener : WF_startupVars(StartListener(l))
    /\ \A s \in Watch : WF_startupVars(Notify(s))

-----------------------------------------------------------------------------
(***************************************************************************)
(* The traffic class of every worker's sockets is the DSCP of the flags    *)
(* this process runs with, although it is shifted into a byte on its way   *)
(* (dscp.Enable).  Validate has to refuse what the shift would change,     *)
(* since the kernel refuses it for IPv6 only.                              *)
(***************************************************************************)
DSCPHonoured == \A i \in SendWorker : sw[i] = "ready" => tos[i] \div 4 = flags.DSCP

(***************************************************************************)
(* The pid file is about this process, also after one that was killed or   *)
(* failed and left its own behind: from CreatePidFile on it names the      *)
(* process that runs, and after a graceful end there is none.              *)
(***************************************************************************)
PidFileCurrent ==
    /\ Up /\ main \in {"identity", "workers", "select"} => pidFile = boot
    /\ status = "ok" => pidFile = 0

Serving ==
    /\ Up /\ Workers = flags.SendWorkers
    /\ \A i \in SendWorker : sw[i] # "new"
    /\ \A l \in Listener : Receiving(l)
    /\ \A s \in Watch : watch[s] \notin {"none", "spawned"}

(***************************************************************************)
(* A process that was started serves in the end, with all its workers,     *)
(* receivers and signal handlers, or ends: whatever the flags and files    *)
(* are, it does not linger half started.                                   *)
(***************************************************************************)
StartsOrEnds == Up ~> (Serving \/ ~ Up)

=============================================================================
