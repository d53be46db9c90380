--------------------------- MODULE ServiceProofs ---------------------------
(***************************************************************************)
(* Subscription implements Service (its safety part), for any number of    *)
(* clients, handlers, workers and requests.                                *)
(*                                                                         *)
(* Most steps leave every lease where it is.  A go statement begins one,   *)
(* the last step of a goroutine ends one, and Drain and Undrain are the    *)
(* steps of the same name.                                                 *)
(***************************************************************************)
EXTENDS SubscriptionProofs

\* A context is not cancelled before Undrain has created it.
CancelledInv == cancelled \subseteq 1 .. ctx

\* Only Drain and Undrain touch the contexts, and a new one is not cancelled.
LEMMA CancelledStep == TypeOK /\ CancelledInv /\ [Next]_vars => CancelledInv'
<1> SUFFICES ASSUME TypeOK, CancelledInv, [Next]_vars
             PROVE  CancelledInv'
  OBVIOUS
<1> USE DEF ctxVars, CancelledInv
<1>1. CASE UNCHANGED vars
  BY <1>1 DEF vars
<1>2. CASE Drain
  BY <1>2, ConstantsAssumption DEF Drain, TypeOK
<1>3. CASE Undrain
  BY <1>3, ConstantsAssumption DEF Undrain, TypeOK
<1>4. ASSUME NEW h \in General, NEW k \in Key,
             CancelTLV(h, k) \/ \E r \in Request : RequestTLV(h, k, r)
      PROVE  UNCHANGED ctxVars
  BY <1>4 DEF CancelTLV, RequestTLV
<1>5. ASSUME NEW h \in General, GeneralStep(h) PROVE UNCHANGED ctxVars
  BY <1>5 DEF GeneralStep, CheckRunning, Register, RenewExpire, RenewInterval,
              Reject, Grant, Launch, Stop, StopUnblocks
<1>6. ASSUME NEW e \in Event, NEW k \in Key,
             SptpDelayRequest(e, k) \/ DelayRequest(e, k)
      PROVE  UNCHANGED ctxVars
  BY <1>6 DEF SptpDelayRequest, DelayRequest
<1>7. ASSUME NEW e \in Event, EventStep(e) PROVE UNCHANGED ctxVars
  BY <1>7 DEF EventStep, SptpRegister, SptpStart, Bump, EventOnce
<1>8. ASSUME NEW n \in Req, GoroutineStep(n) \/ Lapse(n) PROVE UNCHANGED ctxVars
  BY <1>8 DEF GoroutineStep, StartRunning, NewTicker, SelectDone, SelectStop,
              SelectTick, Expire, Serve, StopRunning, SendSignalingCancel, Lapse
<1>9. ASSUME NEW w \in Worker,
             WorkerStep(w) \/ InventoryLock(w) \/ InventoryStep(w)
      PROVE  UNCHANGED ctxVars
  BY <1>9 DEF WorkerStep, TakeMessage, TakeSignaling, Transmit, TransmitFails, InventoryLock,
              InventoryStep, InventoryVisit, InventoryDelete, InventoryUnlock
<1> QED BY <1>1, <1>2, <1>3, <1>4, <1>5, <1>6, <1>7, <1>8, <1>9 DEF Next

-----------------------------------------------------------------------------
(***************************************************************************)
(* Steps that leave the leases alone.                                      *)
(***************************************************************************)

\* The mapping looks at goroutines and contexts only.
LEMMA NoLeaseMoves ==
    ASSUME UNCHANGED <<gs, ctxVars>>
    PROVE  UNCHANGED Abstract!vars
BY DEF Abstract!vars, ctxVars, Drained, LeaseOf, Live

\* A goroutine that moves on without ending keeps its lease as it is.
LEMMA GoroutineKeepsLease ==
    ASSUME NEW n \in Req, GoroutineMoves(n), Live(n), gs'[n].pc # "done",
           UNCHANGED ctxVars
    PROVE  UNCHANGED Abstract!vars
<1>1. \A m \in Req : LeaseOf(m)' = LeaseOf(m)
  BY DEF GoroutineMoves, LeaseOf, Live, ctxVars
<1> QED BY <1>1 DEF Abstract!vars, ctxVars, Drained

\* A goroutine that ends ends its lease, turned away or not.
LEMMA GoroutineEndsLease ==
    ASSUME NEW n \in Req, GoroutineMoves(n), Live(n), gs'[n].pc = "done",
           UNCHANGED ctxVars
    PROVE  Abstract!Next
<1>1. LeaseOf(n) \in {"active", "ending"} /\ LeaseOf(n)' = "over"
  BY DEF LeaseOf, Live
<1>2. \A m \in Req : m # n => LeaseOf(m)' = LeaseOf(m)
  BY DEF GoroutineMoves, LeaseOf, Live, ctxVars
<1>3. Abstract!End(n)
  BY <1>1, <1>2 DEF Abstract!End, ctxVars, Drained
<1> QED BY <1>3 DEF Abstract!Next

\* A go statement begins the lease of a number that was not used before; the
\* context it passes is the one that says whether the server is drained.
LEMMA GoStartBeginsLease ==
    ASSUME IInv, NEW h \in Handler, HoldsNumber(h), NEW s \in Req,
           GoStart(hs[h].n, s), UNCHANGED ctxVars
    PROVE  Abstract!Next
<1>0. hs[h].n \in Req /\ gs[hs[h].n].pc = "none"
  BY ConstantsAssumption DEF IInv, HandlerInv, NumberInv, TypeOK, Req
<1>1. PICK n \in Req : n = hs[h].n /\ gs[n].pc = "none"
  BY <1>0
<1>2. Starts(n, s)
  BY <1>1, GoStartStarts DEF IInv
<1>3. LeaseOf(n) = "none"
  BY <1>1 DEF LeaseOf, Live
<1>4. LeaseOf(n)' = IF Drained THEN "ending" ELSE "active"
  BY <1>2 DEF Starts, LeaseOf, Live, ctxVars, Drained
<1>5. \A m \in Req : m # n => LeaseOf(m)' = LeaseOf(m)
  BY <1>2 DEF Starts, LeaseOf, Live, ctxVars
<1>6. Abstract!Begin(n)
  BY <1>1, <1>3, <1>4, <1>5 DEF Abstract!Begin, ctxVars, Drained
<1> QED BY <1>1, <1>6 DEF Abstract!Next

-----------------------------------------------------------------------------
(***************************************************************************)
(* The actions that are more than that.                                    *)
(***************************************************************************)

\* Launch and SptpStart: the go statements of the handlers.
LEMMA StartsRefine ==
    ASSUME IInv, NEW h \in Handler, Launch(h) \/ SptpStart(h)
    PROVE  Abstract!Next \/ UNCHANGED Abstract!vars
<1>1. HoldsNumber(h) /\ hs[h].sc \in Req
  BY DEF Launch, SptpStart, HoldsNumber, HoldsSub, IInv, HandlerInv
<1>2. CASE UNCHANGED gs
  BY <1>2, NoLeaseMoves DEF Launch, SptpStart
<1>3. CASE GoStart(hs[h].n, hs[h].sc)
  BY <1>1, <1>3, GoStartBeginsLease DEF Launch, SptpStart
<1> QED BY <1>2, <1>3 DEF Launch, SptpStart

\* The steps of a goroutine.
LEMMA GoroutineRefines ==
    ASSUME IInv, NEW n \in Req, GoroutineStep(n)
    PROVE  Abstract!Next \/ UNCHANGED Abstract!vars
<1>1. TypeOK
  BY DEF IInv
<1>2. Live(n) /\ gs[n].pc # "none" /\ UNCHANGED ctxVars
  BY DEF GoroutineStep, StartRunning, NewTicker, SelectDone, SelectStop,
         SelectTick, Expire, Serve, StopRunning, SendSignalingCancel, AtSelect,
         Live
<1>3. PICK pc \in {"newticker", "select", "tick", "exit", "cancel", "done"} :
          GoroutineTo(n, pc)
  BY DEF GoroutineStep, StartRunning, NewTicker, SelectDone, SelectStop,
         SelectTick, Expire, Serve, StopRunning, SendSignalingCancel
<1>4. GoroutineMoves(n) /\ gs'[n].pc = pc
  BY <1>1, <1>2, <1>3, GoroutineToMoves
<1> QED BY <1>2, <1>4, GoroutineKeepsLease, GoroutineEndsLease

\* Drain turns every active lease away: no goroutine runs under a context
\* other than the one that is cancelled now, unless that one is cancelled, too.
LEMMA DrainRefines ==
    ASSUME IInv, Drain
    PROVE  Abstract!Drain
<1>1. NoSurvivor
  BY DEF IInv, TypeOK, GoroutineInv, CtxInv, NoSurvivor, Live
<1>2. ~ Drained /\ Drained'
  BY DEF Drain, Drained
<1>3. ASSUME NEW m \in Req
      PROVE  LeaseOf(m)' = IF LeaseOf(m) = "active" THEN "ending" ELSE LeaseOf(m)
  BY <1>1 DEF Drain, NoSurvivor, LeaseOf, Live
<1> QED BY <1>2, <1>3 DEF Abstract!Drain

\* Undrain resumes no lease.
LEMMA UndrainRefines ==
    ASSUME IInv, CancelledInv, Undrain
    PROVE  Abstract!Undrain
<1>1. Drained /\ ~ Drained'
  BY ConstantsAssumption DEF IInv, TypeOK, CancelledInv, Undrain, Drained
<1>2. \A m \in Req : LeaseOf(m)' = LeaseOf(m)
  BY DEF Undrain, LeaseOf, Live
<1> QED BY <1>1, <1>2 DEF Abstract!Undrain

\* Every step is a step of the service or leaves it alone.
LEMMA NextRefines ==
    IInv /\ CancelledInv /\ [Next]_vars => [Abstract!Next]_(Abstract!vars)
<1> SUFFICES ASSUME IInv, CancelledInv, [Next]_vars
             PROVE  Abstract!Next \/ UNCHANGED Abstract!vars
  OBVIOUS
<1>1. CASE UNCHANGED vars
  BY <1>1, NoLeaseMoves DEF vars, ctxVars
<1>2. ASSUME NEW h \in General, NEW k \in Key,
             CancelTLV(h, k) \/ \E r \in Request : RequestTLV(h, k, r)
      PROVE  UNCHANGED Abstract!vars
  BY <1>2, NoLeaseMoves DEF CancelTLV, RequestTLV
<1>3. ASSUME NEW h \in General, GeneralStep(h)
      PROVE  Abstract!Next \/ UNCHANGED Abstract!vars
  <2>1. CASE Launch(h)
    BY <2>1, StartsRefine DEF Handler
  <2>2. CASE ~ Launch(h)
    BY <1>3, <2>2, NoLeaseMoves DEF GeneralStep, CheckRunning, Register,
       RenewExpire, RenewInterval, Reject, Grant, Stop, StopUnblocks
  <2> QED BY <2>1, <2>2
<1>4. ASSUME NEW e \in Event, NEW k \in Key,
             SptpDelayRequest(e, k) \/ DelayRequest(e, k)
      PROVE  UNCHANGED Abstract!vars
  BY <1>4, NoLeaseMoves DEF SptpDelayRequest, DelayRequest
<1>5. ASSUME NEW e \in Event, EventStep(e)
      PROVE  Abstract!Next \/ UNCHANGED Abstract!vars
  <2>1. CASE SptpStart(e)
    BY <2>1, StartsRefine DEF Handler
  <2>2. CASE ~ SptpStart(e)
    BY <1>5, <2>2, NoLeaseMoves DEF EventStep, SptpRegister, Bump, EventOnce
  <2> QED BY <2>1, <2>2
<1>6. ASSUME NEW n \in Req, Lapse(n) PROVE UNCHANGED Abstract!vars
  BY <1>6, NoLeaseMoves DEF Lapse
<1>7. ASSUME NEW w \in Worker,
             WorkerStep(w) \/ InventoryLock(w) \/ InventoryStep(w)
      PROVE  UNCHANGED Abstract!vars
  BY <1>7, NoLeaseMoves DEF WorkerStep, TakeMessage, TakeSignaling, Transmit, TransmitFails,
     InventoryLock, InventoryStep, InventoryVisit, InventoryDelete,
     InventoryUnlock
<1>8. Drain \/ Undrain => Abstract!Next
  BY DrainRefines, UndrainRefines DEF Abstract!Next
<1> QED BY <1>1, <1>2, <1>3, <1>4, <1>5, <1>6, <1>7, <1>8, GoroutineRefines
        DEF Next

\* Before any request there is no lease, and the server is not drained.
LEMMA InitRefines == Init => Abstract!Init /\ CancelledInv
<1> SUFFICES ASSUME Init PROVE Abstract!Init /\ CancelledInv
  OBVIOUS
<1>1. ~ Drained /\ CancelledInv
  BY DEF Init, CancelledInv, Drained
<1>2. \A n \in Req : LeaseOf(n) = "none"
  BY DEF Init, LeaseOf, Live, NoGoroutine
<1> QED BY <1>1, <1>2 DEF Abstract!Init, Drained

(***************************************************************************)
(* The subscriptions implement the service: every go statement, every end  *)
(* of a goroutine, Drain and Undrain do to the leases what Service says,   *)
(* and nothing else touches them.                                          *)
(***************************************************************************)
THEOREM SubscriptionImplementsService == Spec => Abstract!Spec
<1>1. IInv => TypeOK
  BY DEF IInv
<1> QED BY <1>1, Invariance, InitRefines, CancelledStep, NextRefines, PTL
        DEF Spec, Abstract!Spec

=============================================================================
