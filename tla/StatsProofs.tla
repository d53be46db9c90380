----------------------------- MODULE StatsProofs -----------------------------
(***************************************************************************)
(* Proofs about Stats, for any number of subscriptions, events, rounds and *)
(* drains: what the reports add up to, and what a reply may mix.           *)
(***************************************************************************)
EXTENDS Stats, TLAPS

\* The place of a counter in the order in which the code visits them.
Place == [subscriptions |-> 1, rx |-> 2, tx |-> 3, reload |-> 4, txtsMissing |-> 5]

\* The counter was copied to the report in this round and not yet reset.
Copied(f) ==
    \/ metric.step = "snapshot" /\ metric.at > Place[f]
    \/ metric.step = "reset" /\ metric.at <= Place[f]

(***************************************************************************)
(* An event is in the counter or in some report.  Between the copy and the *)
(* reset of a counter it is in both, and only the reports are bounded.     *)
(***************************************************************************)
EventInv ==
    \A f \in Event : /\ reported[f] <= made[f]
                     /\ ~ Copied(f) => reported[f] + counter[f] <= made[f]

\* The metric loop has counted the subscriptions of this round.
Inventoried == metric.step = "snapshot" \/ (metric.step = "reset" /\ metric.at = 1)

(***************************************************************************)
(* In `subscriptions' are the inventory of this round, if it was taken,    *)
(* and at most all inventories that Drain has taken so far.                *)
(***************************************************************************)
InventoryInv ==
    LET n == counter["subscriptions"] IN
    /\ Inventoried => n >= ActiveSubs /\ n <= ActiveSubs + ActiveSubs * drains
    /\ ~ Inventoried => n <= ActiveSubs * drains

(***************************************************************************)
(* The fields of the report are those of this round up to the one the      *)
(* snapshot is at, and those of the round before from there on.            *)
(***************************************************************************)
StampInv ==
    /\ \A f \in Counter :
           stamp[f] = IF metric.step = "snapshot" /\ metric.at <= Place[f]
                        THEN round - 1 ELSE round
    /\ metric.step # "inventory" => round > 0
    /\ reader.newest <= round

IInv ==
    /\ TypeOK /\ EventInv /\ InventoryInv /\ SubscriptionsCounted
    /\ StampInv /\ ReplyNotStale

-----------------------------------------------------------------------------
(***************************************************************************)
(* Field lists every counter, at its place.                                *)
(***************************************************************************)
LEMMA Fields ==
    /\ Len(Field) = 5
    /\ \A i \in 1 .. 5 : Field[i] \in Counter /\ Place[Field[i]] = i
    /\ \A f \in Counter : Place[f] \in 1 .. 5 /\ Field[Place[f]] = f
BY DEF Field, Counter, Place

(***************************************************************************)
(* Subscriptions are counted apart from events.                            *)
(***************************************************************************)
LEMMA Counters ==
    /\ Event \subseteq Counter /\ "subscriptions" \in Counter
    /\ "subscriptions" \notin Event
BY DEF Event, MapEvent, FlagEvent, Counter

(***************************************************************************)
(* What is counted are numbers.                                            *)
(***************************************************************************)
LEMMA Numbers ==
    ASSUME TypeOK
    PROVE  /\ \A f \in Counter : /\ counter[f] \in Nat /\ report[f] \in Nat
                                /\ made[f] \in Nat /\ reported[f] \in Nat
                                /\ stamp[f] \in Nat
           /\ drains \in Nat /\ round \in Nat
BY StatsAssumption DEF TypeOK

(***************************************************************************)
(* The field a step is at, and where it goes next.                         *)
(***************************************************************************)
LEMMA AdvanceMoves ==
    ASSUME TypeOK, NEW after \in {"inventory", "snapshot", "reset"}, Advance(after)
    PROVE  /\ Field[metric.at] \in Counter /\ Place[Field[metric.at]] = metric.at
           /\ metric.at \in 1 .. 5
           /\ metric.at < 5 => metric' = [step |-> metric.step, at |-> metric.at + 1]
           /\ metric.at = 5 => metric' = [step |-> after, at |-> 1]
           /\ metric' \in [step : {"inventory", "snapshot", "reset"}, at : 1 .. Len(Field)]
<1>1. metric \in [step : {"inventory", "snapshot", "reset"}, at : 1 .. 5]
  BY Fields DEF TypeOK
<1>2. metric.at < 5 => metric' = [step |-> metric.step, at |-> metric.at + 1]
  BY <1>1, Fields DEF Advance
<1>3. metric.at = 5 => metric' = [step |-> after, at |-> 1]
  BY <1>1, Fields DEF Advance
<1>4. metric' \in [step : {"inventory", "snapshot", "reset"}, at : 1 .. 5]
  BY <1>1, <1>2, <1>3
<1> QED BY <1>1, <1>2, <1>3, <1>4, Fields

(***************************************************************************)
(* Inventories by Drain: one more adds the subscriptions once more.        *)
(***************************************************************************)
LEMMA OneMoreDrain ==
    ASSUME NEW d \in Nat
    PROVE  /\ ActiveSubs * (d + 1) = ActiveSubs * d + ActiveSubs
           /\ ActiveSubs * (1 + d) = ActiveSubs + ActiveSubs * d
           /\ ActiveSubs * d \in Nat
BY StatsAssumption

\* The number of the report, once there is one.
LEMMA CountedBounds ==
    ASSUME TypeOK
    PROVE  SubscriptionsCounted <=>
               (stamp["subscriptions"] > 0 =>
                   /\ report["subscriptions"] >= ActiveSubs
                   /\ report["subscriptions"] <= ActiveSubs + ActiveSubs * drains)
<1>1. drains \in Nat /\ report["subscriptions"] \in Nat
  BY Counters, Numbers
<1> QED BY <1>1, OneMoreDrain, StatsAssumption DEF SubscriptionsCounted

-----------------------------------------------------------------------------
(***************************************************************************)
(* The state starts out right.                                             *)
(***************************************************************************)
LEMMA InitSafe == Init => IInv
<1> SUFFICES ASSUME Init PROVE IInv
  OBVIOUS
<1> USE StatsAssumption, Fields DEF Init, Zero, IdleReader
<1>1. TypeOK
  BY DEF TypeOK
<1>2. EventInv
  BY DEF EventInv, Event, MapEvent, FlagEvent, Counter
<1>3. InventoryInv
  BY OneMoreDrain DEF InventoryInv, Inventoried, Counter
<1>4. SubscriptionsCounted
  BY DEF SubscriptionsCounted, Counter
<1>5. StampInv /\ ReplyNotStale
  BY DEF StampInv, ReplyNotStale
<1> QED BY <1>1, <1>2, <1>3, <1>4, <1>5 DEF IInv

(***************************************************************************)
(* Events: a map counter goes up by one, a flag to one.                    *)
(***************************************************************************)
LEMMA IncSafe ==
    ASSUME IInv, NEW f \in Event, IncMap(f) \/ IncFlag(f)
    PROVE  IInv'
<1>1. /\ f \in Counter /\ f # "subscriptions" /\ made[f] < MaxEvents
      /\ made' = [made EXCEPT ![f] = @ + 1]
      /\ UNCHANGED <<report, stamp, metric, round, reader, drains, reported>>
  BY Counters DEF IncMap, IncFlag
<1>2. /\ counter' \in [Counter -> Nat] /\ counter'[f] <= counter[f] + 1
      /\ counter'[f] \in {1, counter[f] + 1}
      /\ \A g \in Counter : g # f => counter'[g] = counter[g]
  <2>1. counter \in [Counter -> Nat] /\ counter[f] \in Nat
    BY <1>1 DEF IInv, TypeOK
  <2>2. CASE IncMap(f)
    BY <1>1, <2>1, <2>2 DEF IncMap, Add
  <2>3. CASE IncFlag(f)
    BY <1>1, <2>1, <2>3 DEF IncFlag
  <2> QED BY <2>2, <2>3
<1>3. TypeOK'
  <2>1. made' \in [Counter -> 0 .. MaxEvents]
    BY <1>1, StatsAssumption DEF IInv, TypeOK
  <2> QED BY <1>1, <1>2, <2>1 DEF IInv, TypeOK
<1>4. EventInv'
  <2> SUFFICES ASSUME NEW g \in Event
               PROVE  /\ reported'[g] <= made'[g]
                      /\ ~ Copied(g)' => reported'[g] + counter'[g] <= made'[g]
    BY DEF EventInv
  <2>1. Copied(g)' <=> Copied(g)
    BY <1>1 DEF Copied
  <2>2. g \in Counter /\ reported[g] \in Nat /\ made[g] \in Nat /\ counter[g] \in Nat
    BY Counters, Numbers DEF IInv
  <2>3. made'[g] = IF g = f THEN made[g] + 1 ELSE made[g]
    BY <1>1, <2>2 DEF IInv, TypeOK
  <2> QED BY <1>1, <1>2, <2>1, <2>2, <2>3 DEF IInv, EventInv
<1>5. counter'["subscriptions"] = counter["subscriptions"]
  BY <1>1, <1>2, Counters
<1>6. InventoryInv'
  BY <1>1, <1>5 DEF IInv, InventoryInv, Inventoried
<1> QED BY <1>1, <1>3, <1>4, <1>6
        DEF IInv, StampInv, ReplyNotStale, SubscriptionsCounted

(***************************************************************************)
(* The two inventories.                                                    *)
(***************************************************************************)
LEMMA InventorySafe ==
    ASSUME IInv, Inventory
    PROVE  IInv'
<1> USE DEF IInv
<1>1. /\ metric.step = "inventory" /\ round < MaxRounds /\ round' = round + 1
      /\ metric' = [step |-> "snapshot", at |-> 1]
      /\ UNCHANGED <<report, stamp, reader, drains, made, reported>>
  BY DEF Inventory
<1>2. /\ counter' \in [Counter -> Nat]
      /\ counter'["subscriptions"] = counter["subscriptions"] + ActiveSubs
      /\ \A g \in Event : counter'[g] = counter[g]
  <2>1. counter' = [counter EXCEPT !["subscriptions"] = @ + ActiveSubs]
    BY DEF Inventory, IncSubscriptions, Add
  <2> QED BY <2>1, Counters, StatsAssumption DEF TypeOK
<1>3. TypeOK'
  <2>1. round' \in 0 .. MaxRounds
    BY <1>1, StatsAssumption DEF TypeOK
  <2>2. metric' \in [step : {"inventory", "snapshot", "reset"}, at : 1 .. Len(Field)]
    BY <1>1, Fields
  <2> QED BY <1>1, <1>2, <2>1, <2>2 DEF TypeOK
<1>4. EventInv'
  <2>1. \A g \in Event : ~ Copied(g)
    BY <1>1 DEF Copied
  <2> QED BY <1>1, <1>2, <2>1 DEF EventInv
<1>5. InventoryInv'
  <2>1. drains \in Nat /\ counter["subscriptions"] \in Nat
    BY Counters, Numbers
  <2> QED BY <1>1, <1>2, <2>1, OneMoreDrain, StatsAssumption DEF InventoryInv, Inventoried
<1>6. StampInv'
  <2>1. round \in Nat /\ reader.newest \in Nat
    BY StatsAssumption DEF TypeOK
  <2>2. \A f \in Counter : stamp[f] = round /\ Place[f] >= 1
    BY <1>1, Fields DEF StampInv
  <2> QED BY <1>1, <2>1, <2>2 DEF StampInv
<1> QED BY <1>1, <1>3, <1>4, <1>5, <1>6 DEF ReplyNotStale, SubscriptionsCounted

\* The inventory during a drain, seen from the counters.
LEMMA DrainInventorySafe ==
    ASSUME IInv, DrainInventory
    PROVE  IInv'
<1> USE DEF IInv
<1>1. /\ drains < MaxDrains /\ drains' = drains + 1
      /\ UNCHANGED <<report, stamp, metric, round, reader, made, reported>>
  BY DEF DrainInventory
<1>2. /\ counter' \in [Counter -> Nat]
      /\ counter'["subscriptions"] = counter["subscriptions"] + ActiveSubs
      /\ \A g \in Event : counter'[g] = counter[g]
  <2>1. counter' = [counter EXCEPT !["subscriptions"] = @ + ActiveSubs]
    BY DEF DrainInventory, IncSubscriptions, Add
  <2> QED BY <2>1, Counters, StatsAssumption DEF TypeOK
<1>3. TypeOK'
  <2>1. drains' \in 0 .. MaxDrains
    BY <1>1, StatsAssumption DEF TypeOK
  <2> QED BY <1>1, <1>2, <2>1 DEF TypeOK
<1>4. EventInv'
  BY <1>1, <1>2 DEF EventInv, Copied
<1>5. drains \in Nat /\ counter["subscriptions"] \in Nat /\ report["subscriptions"] \in Nat
  BY Counters, Numbers
<1>6. InventoryInv'
  BY <1>1, <1>2, <1>5, OneMoreDrain, StatsAssumption DEF InventoryInv, Inventoried
<1>7. SubscriptionsCounted'
  <2>1. stamp["subscriptions"] > 0 =>
            /\ report["subscriptions"] >= ActiveSubs
            /\ report["subscriptions"] <= ActiveSubs + ActiveSubs * drains
    BY CountedBounds
  <2>2. ActiveSubs * (1 + drains') = ActiveSubs + ActiveSubs * drains + ActiveSubs
    BY <1>1, <1>5, OneMoreDrain, StatsAssumption
  <2> QED BY <1>1, <1>5, <2>1, <2>2, OneMoreDrain, StatsAssumption
          DEF SubscriptionsCounted
<1> QED BY <1>1, <1>3, <1>4, <1>6, <1>7 DEF StampInv, ReplyNotStale

(***************************************************************************)
(* Snapshot copies one counter; the sum of its reports grows by it.        *)
(***************************************************************************)
LEMMA SnapshotSafe ==
    ASSUME IInv, Snapshot
    PROVE  IInv'
<1> DEFINE f == Field[metric.at]
<1> USE DEF IInv
<1>1. /\ metric.step = "snapshot" /\ Advance("reset")
      /\ report' = [report EXCEPT ![f] = counter[f]]
      /\ stamp' = [stamp EXCEPT ![f] = round]
      /\ reported' = [reported EXCEPT ![f] = @ + counter[f]]
      /\ UNCHANGED <<counter, round, reader, drains, made>>
  BY DEF Snapshot
<1>2. /\ f \in Counter /\ Place[f] = metric.at /\ metric.at \in 1 .. 5
      /\ metric.at < 5 => metric' = [step |-> "snapshot", at |-> metric.at + 1]
      /\ metric.at = 5 => metric' = [step |-> "reset", at |-> 1]
      /\ metric' \in [step : {"inventory", "snapshot", "reset"}, at : 1 .. Len(Field)]
  BY <1>1, AdvanceMoves
<1> HIDE DEF f
<1>3. TypeOK'
  <2>1. /\ counter[f] \in Nat /\ reported[f] \in Nat /\ round \in 0 .. MaxRounds
        /\ report \in [Counter -> Nat] /\ reported \in [Counter -> Nat]
        /\ stamp \in [Counter -> 0 .. MaxRounds]
    BY <1>2 DEF TypeOK
  <2>2. reported[f] + counter[f] \in Nat
    BY <2>1
  <2>3. report' \in [Counter -> Nat]
    BY <1>1, <1>2, <2>1
  <2>4. stamp' \in [Counter -> 0 .. MaxRounds]
    BY <1>1, <1>2, <2>1
  <2>5. reported' \in [Counter -> Nat]
    BY <1>1, <1>2, <2>1, <2>2
  <2> QED BY <1>1, <1>2, <2>3, <2>4, <2>5 DEF TypeOK
<1>4. \A g \in Counter : Place[g] \in 1 .. 5 /\ (Place[g] = metric.at <=> g = f)
  BY <1>2, Fields DEF f
<1>5. EventInv'
  <2> SUFFICES ASSUME NEW g \in Event
               PROVE  /\ reported'[g] <= made'[g]
                      /\ ~ Copied(g)' => reported'[g] + counter'[g] <= made'[g]
    BY DEF EventInv
  <2>1. g \in Counter /\ reported[g] \in Nat /\ made[g] \in Nat /\ counter[g] \in Nat
    BY Counters, Numbers
  <2>2. CASE g = f
    <3>1. ~ Copied(g) /\ Copied(g)'
      BY <1>1, <1>2, <2>2 DEF Copied
    <3> QED BY <1>1, <2>1, <2>2, <3>1 DEF EventInv, TypeOK
  <2>3. CASE g # f
    <3>1. Copied(g)' <=> Copied(g)
      BY <1>1, <1>2, <1>4, <2>1, <2>3 DEF Copied
    <3> QED BY <1>1, <2>1, <2>3, <3>1 DEF EventInv, TypeOK
  <2> QED BY <2>2, <2>3
<1>6. InventoryInv'
  BY <1>1, <1>2 DEF InventoryInv, Inventoried
<1>7. SubscriptionsCounted'
  <2>1. CASE f = "subscriptions"
    <3>1. report'["subscriptions"] = counter["subscriptions"]
      BY <1>1, <2>1, Counters DEF TypeOK
    <3>2. drains \in Nat /\ counter["subscriptions"] \in Nat
      BY Counters, Numbers
    <3> QED BY <1>1, <3>1, <3>2, OneMoreDrain, StatsAssumption
            DEF SubscriptionsCounted, InventoryInv, Inventoried
  <2>2. CASE f # "subscriptions"
    BY <1>1, <2>2, Counters DEF SubscriptionsCounted, TypeOK
  <2> QED BY <2>1, <2>2
<1>8. StampInv'
  <2>1. round \in Nat
    BY Numbers
  <2>2. \A g \in Counter : stamp'[g] = IF g = f THEN round ELSE stamp[g]
    BY <1>1 DEF TypeOK
  <2> QED BY <1>1, <1>2, <1>4, <2>1, <2>2 DEF StampInv
<1> QED BY <1>1, <1>3, <1>5, <1>6, <1>7, <1>8 DEF ReplyNotStale

(***************************************************************************)
(* Reset takes one counter back to 0, which was copied before.             *)
(***************************************************************************)
LEMMA ResetSafe ==
    ASSUME IInv, Reset
    PROVE  IInv'
<1> DEFINE f == Field[metric.at]
<1> USE DEF IInv
<1>1. /\ metric.step = "reset" /\ Advance("inventory")
      /\ counter' = [counter EXCEPT ![f] = 0]
      /\ UNCHANGED <<report, stamp, round, reader, drains, made, reported>>
  BY DEF Reset
<1>2. /\ f \in Counter /\ Place[f] = metric.at /\ metric.at \in 1 .. 5
      /\ metric.at < 5 => metric' = [step |-> "reset", at |-> metric.at + 1]
      /\ metric.at = 5 => metric' = [step |-> "inventory", at |-> 1]
      /\ metric' \in [step : {"inventory", "snapshot", "reset"}, at : 1 .. Len(Field)]
  BY <1>1, AdvanceMoves
<1> HIDE DEF f
<1>3. TypeOK'
  <2>1. counter' \in [Counter -> Nat]
    BY <1>1, <1>2 DEF TypeOK
  <2> QED BY <1>1, <1>2, <2>1 DEF TypeOK
<1>4. \A g \in Counter : Place[g] \in 1 .. 5 /\ (Place[g] = metric.at <=> g = f)
  BY <1>2, Fields DEF f
<1>5. EventInv'
  <2> SUFFICES ASSUME NEW g \in Event
               PROVE  /\ reported'[g] <= made'[g]
                      /\ ~ Copied(g)' => reported'[g] + counter'[g] <= made'[g]
    BY DEF EventInv
  <2>1. g \in Counter /\ reported[g] \in Nat /\ made[g] \in Nat /\ counter[g] \in Nat
    BY Counters, Numbers
  <2>2. CASE g = f
    BY <1>1, <2>1, <2>2 DEF EventInv, TypeOK
  <2>3. CASE g # f
    <3>1. Copied(g)' <=> Copied(g)
      BY <1>1, <1>2, <1>4, <2>1, <2>3 DEF Copied
    <3> QED BY <1>1, <2>1, <2>3, <3>1 DEF EventInv, TypeOK
  <2> QED BY <2>2, <2>3
<1>6. InventoryInv'
  <2>1. drains \in Nat /\ counter["subscriptions"] \in Nat /\ "subscriptions" \in Counter
    BY Counters, Numbers
  <2>2. Place["subscriptions"] = 1
    BY DEF Place
  <2>3. ~ Inventoried'
    BY <1>1, <1>2 DEF Inventoried
  <2>4. CASE f = "subscriptions"
    <3>1. counter'["subscriptions"] = 0
      BY <1>1, <2>1, <2>4 DEF TypeOK
    <3> QED BY <1>1, <2>1, <2>3, <3>1, OneMoreDrain DEF InventoryInv
  <2>5. CASE f # "subscriptions"
    <3>1. metric.at # 1
      BY <1>4, <2>1, <2>2, <2>5
    <3>2. ~ Inventoried /\ counter'["subscriptions"] = counter["subscriptions"]
      BY <1>1, <2>1, <2>5, <3>1 DEF Inventoried, TypeOK
    <3> QED BY <1>1, <2>3, <3>2 DEF InventoryInv
  <2> QED BY <2>4, <2>5
<1>7. StampInv'
  BY <1>1, <1>2 DEF StampInv
<1> QED BY <1>1, <1>3, <1>5, <1>6, <1>7 DEF ReplyNotStale, SubscriptionsCounted

(***************************************************************************)
(* An HTTP request reads stamps that are of this round or the last, and    *)
(* what it has seen so far is no newer than this round.                    *)
(***************************************************************************)
LEMMA RequestSafe ==
    ASSUME IInv, HandleRequest \/ ToMap \/ Reply
    PROVE  IInv'
<1> USE DEF IInv
<1>1. UNCHANGED <<counter, report, stamp, metric, round, drains, made, reported>>
  BY DEF HandleRequest, ToMap, Reply
<1>2. round \in Nat /\ reader.newest \in Nat /\ reader \in
          [at : 0 .. 6, newest : 0 .. MaxRounds, stale : BOOLEAN]
  BY StatsAssumption, Fields DEF TypeOK
<1>3. CASE HandleRequest \/ Reply
  <2>1. reader' \in [at : 0 .. 6, newest : 0 .. MaxRounds, stale : BOOLEAN]
        /\ reader'.newest = 0 /\ reader'.stale = FALSE
    <3>1. IdleReader \in [at : 0 .. 6, newest : 0 .. MaxRounds, stale : BOOLEAN]
      BY StatsAssumption DEF IdleReader
    <3>2. reader' = IdleReader \/ reader' = [IdleReader EXCEPT !.at = 1]
      BY <1>3 DEF HandleRequest, Reply
    <3>3. IdleReader.newest = 0 /\ IdleReader.stale = FALSE
      BY DEF IdleReader
    <3> QED BY <3>1, <3>2, <3>3
  <2> QED BY <1>1, <1>2, <2>1, Fields
          DEF TypeOK, EventInv, Copied, InventoryInv, Inventoried, SubscriptionsCounted,
              StampInv, ReplyNotStale
<1>4. CASE ToMap
  <2> DEFINE r == stamp[Field[reader.at]]
  <2>1. Field[reader.at] \in Counter /\ reader.at \in 1 .. 5
    BY <1>4, Fields DEF ToMap
  <2>2. r \in 0 .. MaxRounds /\ r >= round - 1 /\ r <= round
    <3>1. r = round - 1 \/ r = round
      BY <2>1 DEF StampInv
    <3>2. r \in 0 .. MaxRounds /\ round \in 0 .. MaxRounds
      BY <2>1 DEF TypeOK
    <3> HIDE DEF r
    <3> QED BY <3>1, <3>2, StatsAssumption
  <2>3. reader' = [at |-> reader.at + 1,
                   newest |-> IF r > reader.newest THEN r ELSE reader.newest,
                   stale |-> reader.stale \/ r < reader.newest - 1]
    BY <1>4 DEF ToMap
  <2> HIDE DEF r
  <2>4. ~ (r < reader.newest - 1)
    BY <1>2, <2>2, StatsAssumption DEF StampInv
  <2>5. reader'.stale = FALSE
    BY <2>3, <2>4 DEF ReplyNotStale
  <2>6. reader'.newest <= round /\ reader'.newest \in 0 .. MaxRounds
        /\ reader'.at \in 0 .. 6
    BY <1>2, <2>1, <2>2, <2>3, StatsAssumption DEF StampInv
  <2>7. reader' \in [at : 0 .. 6, newest : 0 .. MaxRounds, stale : BOOLEAN]
    BY <2>3, <2>5, <2>6
  <2> QED BY <1>1, <2>5, <2>6, <2>7, Fields
          DEF TypeOK, EventInv, Copied, InventoryInv, Inventoried, SubscriptionsCounted,
              StampInv, ReplyNotStale
<1> QED BY <1>3, <1>4

(***************************************************************************)
(* Every step keeps the invariant.                                         *)
(***************************************************************************)
LEMMA NextSafe == IInv /\ [Next]_vars => IInv'
<1> SUFFICES ASSUME IInv, [Next]_vars PROVE IInv'
  OBVIOUS
<1>1. CASE \E f \in Event : IncMap(f) \/ IncFlag(f)
  BY <1>1, IncSafe
<1>2. CASE UNCHANGED vars
  BY <1>2 DEF vars, IInv, TypeOK, EventInv, Copied, InventoryInv, Inventoried,
              SubscriptionsCounted, StampInv, ReplyNotStale
<1> QED BY <1>1, <1>2, InventorySafe, DrainInventorySafe, SnapshotSafe, ResetSafe,
           RequestSafe
        DEF Next, Event

-----------------------------------------------------------------------------
(***************************************************************************)
(* The invariant holds throughout.                                         *)
(***************************************************************************)
THEOREM StatsInvariance == Spec => []IInv
BY InitSafe, NextSafe, PTL DEF Spec

(***************************************************************************)
(* Counters, stamps and positions keep within their types.                 *)
(***************************************************************************)
THEOREM StatsTypeCorrect == Spec => []TypeOK
<1>1. IInv => TypeOK
  BY DEF IInv
<1> QED BY <1>1, StatsInvariance, PTL

(***************************************************************************)
(* No event is reported twice, for any number of events and rounds.        *)
(***************************************************************************)
THEOREM ReportsAddUp == Spec => []NoneReportedTwice
<1>1. IInv => NoneReportedTwice
  BY DEF IInv, EventInv, NoneReportedTwice
<1> QED BY <1>1, StatsInvariance, PTL

(***************************************************************************)
(* Every report counts the running subscriptions once, and once more for   *)
(* each inventory of Drain at the most.                                    *)
(***************************************************************************)
THEOREM ReportCountsSubscriptions == Spec => []SubscriptionsCounted
<1>1. IInv => SubscriptionsCounted
  BY DEF IInv
<1> QED BY <1>1, StatsInvariance, PTL

(***************************************************************************)
(* A reply mixes at most two neighbouring snapshots in the order of its    *)
(* fields.                                                                 *)
(***************************************************************************)
THEOREM ReplyMixesTwo == Spec => []ReplyNotStale
<1>1. IInv => ReplyNotStale
  BY DEF IInv
<1> QED BY <1>1, StatsInvariance, PTL

=============================================================================
