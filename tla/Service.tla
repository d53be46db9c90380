------------------------------ MODULE Service ------------------------------
(***************************************************************************)
(* What the subscriptions of ptp4u promise to the operator, without the    *)
(* handlers, goroutines, channels and contexts that keep the promise.      *)
(*                                                                         *)
(* A lease is one time that a client is served: it begins with a granted   *)
(* request and ends because it expired, was cancelled, or was drained.     *)
(* Drain turns away everybody who is being served at that moment, at once; *)
(* a lease that begins while the server is drained (its request was        *)
(* granted just before) is turned away, too.  Leases that were turned away *)
(* end, even if the server is undrained meanwhile.                         *)
(***************************************************************************)
CONSTANT Lease

VARIABLES
    drained,    \* the server is drained
    lease       \* lease[n]: where lease n is in its life

vars == <<drained, lease>>

Init ==
    /\ drained = FALSE
    /\ lease = [n \in Lease |-> "none"]

Begin(n) ==
    /\ lease[n] = "none"
    /\ lease' = [lease EXCEPT ![n] = IF drained THEN "ending" ELSE "active"]
    /\ UNCHANGED drained

End(n) ==
    /\ lease[n] \in {"active", "ending"}
    /\ lease' = [lease EXCEPT ![n] = "over"]
    /\ UNCHANGED drained

Drain ==
    /\ ~ drained
    /\ drained' = TRUE
    /\ lease' = [n \in Lease |-> IF lease[n] = "active" THEN "ending"
                                                        ELSE lease[n]]

Undrain ==
    /\ drained
    /\ drained' = FALSE
    /\ UNCHANGED lease

Next == (\E n \in Lease : Begin(n) \/ End(n)) \/ Drain \/ Undrain

Spec == Init /\ [][Next]_vars

\* Lease n ends once it was turned away.
Ends(n) == WF_vars(lease[n] = "ending" /\ End(n))

Fairness == \A n \in Lease : Ends(n)

FairSpec == Spec /\ Fairness

=============================================================================
