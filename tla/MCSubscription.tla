--------------------------- MODULE MCSubscription ---------------------------
(***************************************************************************)
(* Instances of Subscription for TLC.  The keys are named after the        *)
(* message type of their subscription; one send worker serves them all.    *)
(***************************************************************************)
EXTENDS Subscription, TLC

MCKeyType == [k \in Key |-> IF k = "sync" THEN Sync
                            ELSE IF k = "resp" THEN DelayResp
                            ELSE IF k = "sptp" THEN DelayReq ELSE Announce]

MCHome == [k \in Key |-> CHOOSE w \in Worker : TRUE]

\* A request within the limits, and one with too short an interval.
MCRequest == {[interval |-> 2, duration |-> 1], [interval |-> 1, duration |-> 1]}

\* Only requests within the limits.
MCValidRequest == {[interval |-> 2, duration |-> 1]}

\* A request within the limits, one for too long, and one for no time at all.
MCDurations == {[interval |-> 2, duration |-> d] : d \in {0, 1, 2}}

\* The goroutines that run one handler are interchangeable.
Symmetry == Permutations(General) \cup Permutations(Event)

=============================================================================
