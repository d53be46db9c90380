------------------------------- MODULE Reload -------------------------------
(***************************************************************************)
(* The dynamic configuration of a running ptp4u: the file is edited,       *)
(* handleSighup reads it and copies it over the configuration in force     *)
(* (server/server.go), while handlers, send workers and the metric loop    *)
(* read that configuration without a lock.                                 *)
(*                                                                         *)
(* The copy is an assignment of a struct: its fields are stored one by     *)
(* one, in any order.  A reader sees each field before or after.  One      *)
(* handler at a time is followed, since handlers do not disturb each other *)
(* here: it either decides on a grant request, and later on renewals of    *)
(* the subscription, or answers an sptp request.                           *)
(***************************************************************************)
EXTENDS Startup

CONSTANTS
    Contents,       \* what the configuration file may be made to hold
    MaxEdits,       \* bound: how often the file is changed
    SigBuffer,      \* capacity of the channel of signals (10)
    LogInterval,    \* log intervals that are asked for
    DurationField,  \* durations, in seconds, that are asked for
    Time,           \* moments at which an sptp exchange may happen, UTC
    TrueUTCOffset   \* what the hardware clock is ahead of UTC

ASSUME ReloadAssumption ==
    /\ MaxEdits \in Nat /\ SigBuffer \in Nat \ {0}
    /\ LogInterval \subseteq -128 .. 127 /\ DurationField \subseteq Nat
    /\ Time \subseteq Nat /\ TrueUTCOffset \in Nat

\* The values in a file are durations, and bytes for the quality of the clock.
ASSUME ContentsAssumption ==
    \A c \in Contents : c.kind = "yaml" =>
        \A k \in DOMAIN c.keys :
            c.keys[k] \in IF k \in {"ClockAccuracy", "ClockClass"} THEN Nat ELSE Int

\* No timestamp is so late that its seconds field wraps: with 48 bits, that is
\* nine million years away.
ASSUME TimeAssumption ==
    \A t \in Time : \A d \in {50 * Sec, TrueUTCOffset} : t + d < SecondsMod * Sec

VARIABLES
    edits,      \* changes made to the file
    draft,      \* what Write has still to put into the file it truncated
    fresh,      \* history: a SIGHUP was sent since the last change
    sigs,       \* signals waiting in the channel of handleSighup
    hup,        \* handleSighup: the configuration it read and what is to copy
    reader      \* the handler and worker that use the configuration

editVars == <<edits, draft>>
memVars == <<sigs, hup, reader>>
vars == <<startupVars, editVars, fresh, memVars>>

Absent == [kind |-> "absent", keys |-> << >>]
Empty == [kind |-> "yaml", keys |-> << >>]

IdleReader == [pc |-> "idle", clean |-> TRUE, log |-> 0, interval |-> 0,
               duration |-> 0, min |-> 0, t |-> 0, wire |-> NewTimestamp(0),
               offset |-> 0]

Idle == [pc |-> "idle", dc |-> NewDefaultDynamicConfig, todo |-> {}]

ForgetAll ==
    /\ sigs' = 0 /\ hup' = Idle /\ reader' = IdleReader
    /\ fresh' = FALSE

Init ==
    /\ StartupInit
    /\ file \in Contents
    /\ edits = 0 /\ draft = Absent /\ fresh = FALSE
    /\ sigs = 0 /\ hup = Idle /\ reader = IdleReader

-----------------------------------------------------------------------------
(***************************************************************************)
(* The file, changed by the operator or by a tool that calls               *)
(* DynamicConfig.Write, which truncates it first.                          *)
(***************************************************************************)
Replace(c) ==
    /\ edits < MaxEdits /\ draft = Absent
    /\ file' = c /\ edits' = edits + 1 /\ fresh' = FALSE
    /\ UNCHANGED <<procVars, cfg, bootVars, watch, pidFile, draft, memVars>>

WriteTruncates(c) ==
    /\ edits < MaxEdits /\ draft = Absent /\ c.kind = "yaml"
    /\ file' = Empty /\ edits' = edits + 1 /\ draft' = c /\ fresh' = FALSE
    /\ UNCHANGED <<procVars, cfg, bootVars, watch, pidFile, memVars>>

WriteFinishes ==
    /\ draft # Absent
    /\ file' = draft /\ draft' = Absent /\ fresh' = FALSE
    /\ UNCHANGED <<procVars, cfg, bootVars, watch, pidFile, edits, memVars>>

-----------------------------------------------------------------------------
(***************************************************************************)
(* handleSighup.                                                           *)
(***************************************************************************)
Watching == Up /\ watch["hup"] = "idle"

\* Variant: the channel has no buffer, so a signal is lost while the last one
\* is being handled.
SighupUnbuffered ==
    /\ Watching
    /\ sigs' = IF hup.pc = "idle" THEN 1 ELSE sigs
    /\ fresh' = TRUE
    /\ UNCHANGED <<startupVars, editVars, hup, reader>>

\* The runtime drops a signal if the channel is full.
Sighup ==
    /\ Watching
    /\ sigs' = IF sigs < SigBuffer THEN sigs + 1 ELSE sigs
    /\ fresh' = TRUE
    /\ UNCHANGED <<startupVars, editVars, hup, reader>>

ReceiveSighup ==
    /\ Watching /\ hup.pc = "idle" /\ sigs > 0
    /\ sigs' = sigs - 1
    /\ hup' = [hup EXCEPT !.pc = "read"]
    /\ UNCHANGED <<startupVars, editVars, fresh, reader>>

\* A file that cannot be read or is not valid changes nothing.
ReloadConfig ==
    /\ Watching /\ hup.pc = "read"
    /\ hup' = IF flags.ConfigFile # "" /\ Reads(file)
                THEN LET dc == ReadDynamicConfig(file)
                     IN  [pc |-> "copy", dc |-> dc,
                          todo |-> {k \in Field : dc[k] # cfg[k]}]
                ELSE Idle
    /\ UNCHANGED <<startupVars, editVars, fresh, sigs, reader>>

CopyField(k) ==
    /\ Watching /\ hup.pc = "copy" /\ k \in hup.todo
    /\ cfg' = [cfg EXCEPT ![k] = hup.dc[k]]
    /\ hup' = [hup EXCEPT !.todo = @ \ {k}]
    /\ reader' = [reader EXCEPT !.clean = @ /\ reader.pc \notin {"announce", "answer", "answered"}]
    /\ UNCHANGED <<procVars, bootVars, watch, pidFile, file, editVars, fresh,
                   sigs>>

Copied ==
    /\ Watching /\ hup.pc = "copy" /\ hup.todo = {}
    /\ hup' = Idle
    /\ UNCHANGED <<startupVars, editVars, fresh, sigs, reader>>

HupStep ==
    \/ ReceiveSighup \/ ReloadConfig \/ Copied
    \/ \E k \in Field : CopyField(k)

-----------------------------------------------------------------------------
(***************************************************************************)
(* Grant requests: the limits are two reads.                               *)
(***************************************************************************)
Step(r) == reader' = r /\ UNCHANGED <<startupVars, editVars, fresh, sigs, hup>>
Panic == Exit("panic") /\ UNCHANGED <<pidFile, editVars>> /\ ForgetAll

\* ... the interval is compared with MinSubInterval ...
GrantRequest(i, d) ==
    /\ Receiving("general") /\ reader.pc = "idle"
    /\ IF FindsWorker
         THEN \E n \in Duration(i) :
                  /\ n >= cfg.MinSubInterval
                  /\ Step([IdleReader EXCEPT !.pc = "max", !.log = i, !.interval = n,
                                             !.duration = d * Sec,
                                             !.min = cfg.MinSubInterval])
         ELSE Panic

\* ... and the duration with MaxSubDuration; then the subscription gets its
\* ticker.  time.NewTicker panics unless the interval is positive.
CheckMaxSubDuration ==
    /\ Up /\ reader.pc = "max"
    /\ IF reader.duration > cfg.MaxSubDuration THEN Step(IdleReader)
       ELSE IF reader.interval <= 0 THEN Panic
       ELSE Step([reader EXCEPT !.pc = "ticking", !.duration = 0, !.min = 0])

\* A renewal stores its interval first and is compared with the limits later
\* (LimitsEnforced in Subscription), so any interval comes through ...
Renew(i) ==
    /\ Receiving("general") /\ reader.pc = "ticking"
    /\ \E n \in Duration(i) :
           Step([reader EXCEPT !.pc = "renewed", !.log = i, !.interval = n])

\* ... to Ticker.Reset, at the next tick.
ResetTicker ==
    /\ Up /\ reader.pc = "renewed"
    /\ IF reader.interval <= 0 THEN Panic ELSE Step([reader EXCEPT !.pc = "ticking"])

\* A Follow_Up and an Announce say how often they come.
LogMessageInterval == NewLogInterval(reader.interval)

(***************************************************************************)
(* The sptp exchange: a delay request is received, its answer prepared by  *)
(* the handler and sent by the worker.  With software timestamps the UTC   *)
(* offset is added at both ends.                                           *)
(***************************************************************************)
\* What the clock that takes timestamps shows.
Clock(t) == IF flags.TimestampType = HW THEN t + TrueUTCOffset ELSE t

\* Variant: software timestamps are sent as they are.
CorrectedNever(t) == Clock(t)

Corrected(t) ==
    IF flags.TimestampType = HW THEN Clock(t) ELSE Clock(t) + cfg.UTCOffset

ReceiveDelayReq(t) ==
    /\ Receiving("event") /\ reader.pc = "idle"
    /\ IF FindsWorker
         THEN Step([IdleReader EXCEPT !.pc = "announce", !.t = t,
                                      !.wire = NewTimestamp(Corrected(t))])
         ELSE Panic

UpdateAnnounceDelayReq ==
    /\ Up /\ reader.pc = "announce"
    /\ Step([reader EXCEPT !.pc = "answer", !.offset = WholeSeconds(cfg.UTCOffset)])

\* The worker sends the Sync with the time of reception, then the Announce with
\* the time of transmission; one timestamp is kept, the later one.
SendAnswer(t) ==
    /\ Up /\ reader.pc = "answer" /\ \E i \in SendWorker : sw[i] = "ready"
    /\ Step([reader EXCEPT !.pc = "answered", !.t = t,
                           !.wire = NewTimestamp(Corrected(t))])

\* The handler and the worker turn to the next message.
NextMessage == Up /\ reader.pc \in {"ticking", "answered"} /\ Step(IdleReader)

ReaderStep ==
    \/ CheckMaxSubDuration \/ ResetTicker \/ UpdateAnnounceDelayReq \/ NextMessage \/ \E t \in Time : SendAnswer(t)

-----------------------------------------------------------------------------
\* The memory is lost with the process; the file and its editors are elsewhere.
Life ==
    /\ StartupNext
    /\ IF Up' THEN UNCHANGED <<memVars, fresh>> ELSE ForgetAll
    /\ UNCHANGED editVars

Next ==
    \/ Life
    \/ (\E c \in Contents : Replace(c) \/ WriteTruncates(c)) \/ WriteFinishes
    \/ Sighup \/ HupStep
    \/ \E i \in LogInterval : Renew(i) \/ \E d \in DurationField : GrantRequest(i, d)
    \/ \E t \in Time : ReceiveDelayReq(t)
    \/ ReaderStep

Spec == Init /\ [][Next]_vars

\* The Go scheduler runs the goroutines; operators, signals and clients come as
\* they please.
FairSpec ==
    /\ Spec
    /\ StartupFairness
    /\ WF_vars(HupStep)

-----------------------------------------------------------------------------
ReaderRecord ==
    [pc : {"idle", "max", "ticking", "renewed", "announce", "answer",
           "answered"},
     clean : BOOLEAN, log : LogInterval \cup {0}, interval : Int, duration : Nat,
     min : Int, t : Nat, offset : Int,
     wire : [Seconds : 0 .. SecondsMod - 1, Nanoseconds : 0 .. Sec - 1]]

\* The types of the variables.
TypeOK ==
    /\ boot \in 0 .. MaxBoots /\ pidFile \in 0 .. MaxBoots
    /\ status \in {"off", "up", "ok", "error", "killed", "panic"}
    /\ main \in {"none", "config", "validate", "pidfile", "identity", "workers",
                 "select"}
    /\ flags \in Flags
    /\ cfg \in [Field -> Int]
    /\ sw \in [SendWorker -> {"nil", "new", "ready"}]
    /\ tos \in [SendWorker -> 0 .. 255]
    /\ listener \in [Listener -> {"none", "spawned", "ready"}]
    /\ watch \in [Watch -> {"none", "spawned", "idle", "drain"}]
    /\ file \in Contents \cup {Empty} /\ draft \in Contents \cup {Absent}
    /\ edits \in 0 .. MaxEdits /\ fresh \in BOOLEAN /\ sigs \in 0 .. SigBuffer
    /\ hup \in [pc : {"idle", "read", "copy"}, dc : [Field -> Int],
                todo : SUBSET Field]
    /\ reader \in ReaderRecord

(***************************************************************************)
(* The process does not panic, with two exceptions: a configuration may    *)
(* have a minimum interval of 0, and then an interval that is rounded to 0 *)
(* is granted and given to a ticker; and a renewal reaches the ticker even *)
(* if it is rejected.  In particular no handler looks for a worker before  *)
(* there is one, no queue has a negative size, and no interval that        *)
(* overflows is granted as a negative one.                                 *)
(***************************************************************************)
NoPanic ==
    [][Up /\ status' = "panic" =>
           reader.pc = "renewed" \/ (reader.pc = "max" /\ reader.min = 0)]_vars

(***************************************************************************)
(* The configuration in force is valid, whatever the file went through and *)
(* whenever it was read.  While it is being replaced, the UTC offset and   *)
(* the signs are right all the same; only max >= min may fail.             *)
(***************************************************************************)
ConfigValidated ==
    /\ hup.pc # "copy" => ValidateDynamic(cfg)
    /\ 30 * Sec <= cfg.UTCOffset /\ cfg.UTCOffset <= 50 * Sec
    /\ \A k \in Field : cfg[k] >= 0

(***************************************************************************)
(* An sptp client can tell UTC from what it is sent: a timestamp less the  *)
(* announced UTC offset is the UTC time at which the packet was received   *)
(* or sent, for hardware and for software timestamps, provided that the    *)
(* configured offset is whole seconds, is right (which matters only to     *)
(* hardware clocks), and was not being replaced during the exchange.  The  *)
(* handler corrects one timestamp, the worker the other, and the offset    *)
(* that is announced is read a third time.                                 *)
(***************************************************************************)
ClientDerivesUTC ==
    (/\ reader.pc \in {"answer", "answered"} /\ reader.clean
     /\ cfg.UTCOffset % Sec = 0
     /\ flags.TimestampType = HW => cfg.UTCOffset = TrueUTCOffset) =>
    TimeOf(reader.wire) - reader.offset * Sec = reader.t

(***************************************************************************)
(* The interval announced in Follow_Up and Announce packets, which is      *)
(* computed back from a truncated duration, is the one that was asked for  *)
(* last, for every interval that a ticker accepts and a duration can hold. *)
(***************************************************************************)
IntervalAsAsked ==
    reader.pc = "ticking" /\ reader.interval # MaxDuration =>
    LogMessageInterval = reader.log

(***************************************************************************)
(* A SIGHUP sent after the last change of the file makes the server adopt  *)
(* what the file says, even if signals were dropped because others were    *)
(* waiting, or came while an older version was being read or copied.       *)
(***************************************************************************)
ReloadReaches ==
    <>[](fresh /\ Up /\ flags.ConfigFile # "" /\ Reads(file)) =>
    <>[](cfg = ReadDynamicConfig(file))

=============================================================================
