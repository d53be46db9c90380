------------------------------- MODULE Stats --------------------------------
(***************************************************************************)
(* The metrics of ptp4u (stats/stats.go, stats/json.go) and the goroutines *)
(* that touch them: handlers and workers count events, the metric loop of  *)
(* Start takes inventory, snapshots and resets, Drain takes inventory too, *)
(* and the HTTP handler reads the report.                                  *)
(*                                                                         *)
(* Each counter has a lock of its own, or none; Snapshot, Reset and toMap  *)
(* go from one to the next.  Field lists one counter of each kind, in the  *)
(* order the code visits them: all others of its kind are treated alike.   *)
(***************************************************************************)
EXTENDS Integers, Sequences

CONSTANTS
    ActiveSubs, \* running subscriptions of the worker
    MaxEvents,  \* bound: events counted per counter
    MaxRounds,  \* bound: rounds of the metric loop
    MaxDrains   \* bound: calls of inventoryClients by Drain

ASSUME StatsAssumption ==
    /\ ActiveSubs \in Nat /\ MaxEvents \in Nat
    /\ MaxRounds \in Nat /\ MaxDrains \in Nat

Field == <<"subscriptions", "rx", "tx", "reload", "txtsMissing">>
Counter == {"subscriptions", "rx", "tx", "reload", "txtsMissing"}
MapEvent == {"rx", "tx"}              \* counted with syncMapInt64.inc
FlagEvent == {"reload", "txtsMissing"}  \* counted with atomic.StoreInt64
Event == MapEvent \cup FlagEvent

VARIABLES
    counter,  \* the counters
    report,   \* JSONStats.report
    stamp,    \* stamp[f]: round of the snapshot report[f] is from
    metric,   \* the metric loop: its step and the field it is at
    round,    \* rounds of the metric loop begun
    reader,   \* an HTTP request: the field toMap is at; history: the newest
              \* round it has seen, and whether it then saw a stale one
    drains,   \* calls of inventoryClients by Drain so far
    made,     \* history: events counted so far
    reported  \* history: sum of the reports of each counter

vars == <<counter, report, stamp, metric, round, reader, drains, made, reported>>

Zero == [f \in Counter |-> 0]
IdleReader == [at |-> 0, newest |-> 0, stale |-> FALSE]

Init ==
    /\ counter = Zero /\ report = Zero /\ stamp = Zero
    /\ metric = [step |-> "inventory", at |-> 1]
    /\ round = 0
    /\ reader = IdleReader
    /\ drains = 0
    /\ made = Zero /\ reported = Zero

-----------------------------------------------------------------------------
Add(f, n) == counter' = [counter EXCEPT ![f] = @ + n]

\* IncRX, IncTX and the other counters kept in a map.
IncMap(f) ==
    /\ made[f] < MaxEvents
    /\ Add(f, 1)
    /\ made' = [made EXCEPT ![f] = @ + 1]
    /\ UNCHANGED <<report, stamp, metric, round, reader, drains, reported>>

\* IncReload and IncTXTSMissing.
IncFlag(f) ==
    /\ made[f] < MaxEvents
    /\ counter' = [counter EXCEPT ![f] = 1]
    /\ made' = [made EXCEPT ![f] = @ + 1]
    /\ UNCHANGED <<report, stamp, metric, round, reader, drains, reported>>

\* inventoryClients counts every running subscription.
IncSubscriptions == Add("subscriptions", ActiveSubs)

\* The metric loop: inventory of the workers ...
Inventory ==
    /\ metric.step = "inventory" /\ round < MaxRounds
    /\ IncSubscriptions
    /\ metric' = [step |-> "snapshot", at |-> 1]
    /\ round' = round + 1
    /\ UNCHANGED <<report, stamp, reader, drains, made, reported>>

\* ... and the one Drain takes, once per worker and round of its wait.
DrainInventory ==
    /\ drains < MaxDrains
    /\ IncSubscriptions
    /\ drains' = drains + 1
    /\ UNCHANGED <<report, stamp, metric, round, reader, made, reported>>

\* Variant: one field too far.
AdvanceTooFar(after) ==
    metric' = IF metric.at <= Len(Field) THEN [metric EXCEPT !.at = @ + 1]
                                         ELSE [step |-> after, at |-> 1]

\* On to the next field, or from the last field to the step after this one.
Advance(after) ==
    metric' = IF metric.at < Len(Field) THEN [metric EXCEPT !.at = @ + 1]
                                        ELSE [step |-> after, at |-> 1]

\* Variant: tx is left out.
SnapshotForgetsTx ==
    LET f == Field[metric.at]
    IN  /\ metric.step = "snapshot"
        /\ IF f = "tx" THEN UNCHANGED <<report, stamp, reported>>
           ELSE /\ report' = [report EXCEPT ![f] = counter[f]]
                /\ stamp' = [stamp EXCEPT ![f] = round]
                /\ reported' = [reported EXCEPT ![f] = @ + counter[f]]
        /\ Advance("reset")
        /\ UNCHANGED <<counter, round, reader, drains, made>>

\* Snapshot: one counter copied to the report.
Snapshot ==
    LET f == Field[metric.at]
    IN  /\ metric.step = "snapshot"
        /\ report' = [report EXCEPT ![f] = counter[f]]
        /\ stamp' = [stamp EXCEPT ![f] = round]
        /\ reported' = [reported EXCEPT ![f] = @ + counter[f]]
        /\ Advance("reset")
        /\ UNCHANGED <<counter, round, reader, drains, made>>

\* Variant: tx is left out.
ResetForgetsTx ==
    LET f == Field[metric.at]
    IN  /\ metric.step = "reset"
        /\ counter' = [counter EXCEPT ![f] = IF f = "tx" THEN @ ELSE 0]
        /\ Advance("inventory")
        /\ UNCHANGED <<report, stamp, round, reader, drains, made, reported>>

\* Variant: subscriptions, which every inventory counts afresh, is left out.
ResetForgetsSubscriptions ==
    LET f == Field[metric.at]
    IN  /\ metric.step = "reset"
        /\ counter' = [counter EXCEPT ![f] = IF f = "subscriptions" THEN @ ELSE 0]
        /\ Advance("inventory")
        /\ UNCHANGED <<report, stamp, round, reader, drains, made, reported>>

\* Reset: one counter set to 0; after the last one the loop sleeps.
Reset ==
    LET f == Field[metric.at]
    IN  /\ metric.step = "reset"
        /\ counter' = [counter EXCEPT ![f] = 0]
        /\ Advance("inventory")
        /\ UNCHANGED <<report, stamp, round, reader, drains, made, reported>>

\* handleRequest: toMap reads the report field by field.
HandleRequest ==
    /\ reader.at = 0
    /\ reader' = [IdleReader EXCEPT !.at = 1]
    /\ UNCHANGED <<counter, report, stamp, metric, round, drains, made, reported>>

ToMap ==
    /\ reader.at \in 1 .. Len(Field)
    /\ LET r == stamp[Field[reader.at]] IN
        reader' = [at |-> reader.at + 1,
                   newest |-> IF r > reader.newest THEN r ELSE reader.newest,
                   stale |-> reader.stale \/ r < reader.newest - 1]
    /\ UNCHANGED <<counter, report, stamp, metric, round, drains, made, reported>>

Reply ==
    /\ reader.at = Len(Field) + 1
    /\ reader' = IdleReader
    /\ UNCHANGED <<counter, report, stamp, metric, round, drains, made, reported>>

Next ==
    \/ \E f \in MapEvent : IncMap(f)
    \/ \E f \in FlagEvent : IncFlag(f)
    \/ Inventory \/ Snapshot \/ Reset
    \/ DrainInventory
    \/ HandleRequest \/ ToMap \/ Reply

Spec == Init /\ [][Next]_vars

-----------------------------------------------------------------------------
\* The types of the variables.
TypeOK ==
    /\ counter \in [Counter -> Nat] /\ report \in [Counter -> Nat]
    /\ stamp \in [Counter -> 0 .. MaxRounds]
    /\ metric \in [step : {"inventory", "snapshot", "reset"}, at : 1 .. Len(Field)]
    /\ round \in 0 .. MaxRounds
    /\ reader \in [at : 0 .. Len(Field) + 1, newest : 0 .. MaxRounds, stale : BOOLEAN]
    /\ drains \in 0 .. MaxDrains
    /\ made \in [Counter -> 0 .. MaxEvents] /\ reported \in [Counter -> Nat]

(***************************************************************************)
(* No event is reported twice: over all reports, a counter never adds up   *)
(* to more than the events there were, although events go on while the     *)
(* loop snapshots and resets.  (Events counted between the copy and the    *)
(* reset of their counter are lost.)                                       *)
(***************************************************************************)
NoneReportedTwice == \A f \in Event : reported[f] <= made[f]

(***************************************************************************)
(* Every report counts each running subscription, and counts it twice only *)
(* as often as Drain took inventory as well: without a drain the reported  *)
(* number is exact, in every round.                                        *)
(***************************************************************************)
SubscriptionsCounted ==
    stamp["subscriptions"] > 0 =>
        report["subscriptions"] \in ActiveSubs .. ActiveSubs * (1 + drains)

(***************************************************************************)
(* Snapshot and toMap have no lock in common, so a reply may mix two       *)
(* snapshots; but no value in it is more than one snapshot older than one  *)
(* that was read before it.                                                *)
(***************************************************************************)
ReplyNotStale == ~ reader.stale

=============================================================================
