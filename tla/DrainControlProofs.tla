------------------------- MODULE DrainControlProofs -------------------------
(***************************************************************************)
(* Proofs about DrainControl, for any number of workers, rounds and        *)
(* contexts: the types, RestFollowsDecision and NoneAbandoned.             *)
(***************************************************************************)
EXTENDS DrainControl, TLAPS

LoopPc == {"check", "undrainfile", "drain", "cancel", "wait", "undrain", "store",
           "setdrain", "sleep"}
TermPc == {"idle", "drain", "cancel", "wait", "deletepid"}

\* Each goroutine is in its own part of the code; the loop drains by decision.
PcInv ==
    /\ pc[Loop] \in LoopPc /\ pc[Term] \in TermPc
    /\ pc[Loop] \in {"drain", "cancel", "wait"} => shouldDrain
    /\ pc[Loop] \in {"undrain", "store"} => ~ shouldDrain

\* s.cancel cancels s.ctx but for the moment between the stores of Undrain,
\* which replace a cancelled context by one that only SIGTERM can cancel.
StoreInv ==
    /\ pc[Loop] # "store" => cancel = ctx
    /\ pc[Loop] = "store" => /\ ctx # fresh => ctx \in cancelled
                             /\ pc[Term] = "idle" => fresh \notin cancelled

\* After its decision was carried out, the loop finds it so until it looks again.
DecisionInv ==
    /\ pc[Loop] = "sleep" => (gauge => shouldDrain)
    /\ pc[Loop] \in {"wait", "setdrain", "sleep"} =>
          /\ shouldDrain => ctx \in cancelled
          /\ pc[Term] = "idle" => (ctx \in cancelled => shouldDrain)

IInv == TypeOK /\ PcInv /\ StoreInv /\ DecisionInv

LEMMA VisitsNat == Visits \in Nat
BY DrainAssumption DEF Visits

\* There is always a context for Undrain to create.
LEMMA FreshContext ==
    ASSUME TypeOK
    PROVE  LET f == CHOOSE c \in Context : c \notin {ctx, cancel}
           IN  f \in Context /\ f # ctx /\ f # cancel
<1>1. \E e \in Context : e \notin {ctx, cancel}
  BY DrainAssumption DEF TypeOK
<1> QED
  BY <1>1

LEMMA InitIInv == Init => IInv
<1> SUFFICES ASSUME Init PROVE IInv
  OBVIOUS
<1>1. pc[Loop] = "check" /\ pc[Term] = "idle"
  BY DEF Init, Drainer, Loop, Term
<1>2. TypeOK
  <2>1. pc \in [Drainer -> {"idle", "check", "undrainfile", "drain", "cancel",
                           "wait", "undrain", "store", "setdrain", "sleep",
                           "deletepid"}]
    BY DEF Init
  <2>2. pos \in [Drainer -> 0 .. Visits]
    BY VisitsNat DEF Init
  <2>3. busy \in [1 .. Workers -> BOOLEAN] /\ stuck \in [1 .. Workers -> BOOLEAN]
    BY Zenon DEF Init
  <2>4. /\ killFile \in BOOLEAN /\ unkillFile \in BOOLEAN /\ shouldDrain \in BOOLEAN
        /\ fresh \in Context /\ ctx \in Context /\ cancel \in Context
        /\ cancelled \subseteq Context /\ gauge \in BOOLEAN /\ pidFile \in BOOLEAN
        /\ exited \in {"no", "done", "fail"}
    BY Zenon DEF Init
  <2> QED
    BY <2>1, <2>2, <2>3, <2>4, Zenon DEF TypeOK
<1>3. PcInv /\ StoreInv /\ DecisionInv
  BY <1>1 DEF Init, PcInv, StoreInv, DecisionInv, LoopPc, TermPc
<1> QED
  BY <1>2, <1>3 DEF IInv

-----------------------------------------------------------------------------
(***************************************************************************)
(* The types are preserved.                                                *)
(***************************************************************************)
Label == {"idle", "check", "undrainfile", "drain", "cancel", "wait", "undrain",
          "store", "setdrain", "sleep", "deletepid"}

LEMMA GoToType ==
    ASSUME NEW a \in Drainer, NEW l \in Label, pc \in [Drainer -> Label], GoTo(a, l)
    PROVE  pc' \in [Drainer -> Label] /\ pc'[a] = l
           /\ \A b \in Drainer : b # a => pc'[b] = pc[b]
BY DEF GoTo

LEMMA StepType == TypeOK /\ [Next]_vars => TypeOK'
<1> SUFFICES ASSUME TypeOK, [Next]_vars PROVE TypeOK'
  OBVIOUS
<1>p. pc \in [Drainer -> Label]
  BY DEF TypeOK, Label
<1>l. Loop \in Drainer /\ Term \in Drainer
  BY DEF Drainer
<1>1. pc' \in [Drainer -> Label]
  <2>1. ASSUME NEW a \in Drainer, NEW l \in Label, GoTo(a, l)
        PROVE  pc' \in [Drainer -> Label]
    BY <2>1, <1>p, GoToType
  <2>2. ASSUME NEW a \in Drainer PROVE AfterDrain(a) \in Label
    BY DEF AfterDrain, Label
  <2>3. /\ "check" \in Label /\ "undrainfile" \in Label /\ "drain" \in Label
        /\ "cancel" \in Label /\ "wait" \in Label /\ "undrain" \in Label
        /\ "store" \in Label /\ "setdrain" \in Label /\ "sleep" \in Label
    BY DEF Label
  <2>4. CASE Check
    BY <2>4, <2>1, <2>3, <1>l DEF Check
  <2>5. CASE CheckUndrainFile
    BY <2>5, <2>1, <2>3, <1>l DEF CheckUndrainFile
  <2>6. ASSUME NEW a \in Drainer, DrainCheck(a) PROVE pc' \in [Drainer -> Label]
    BY <2>6, <2>1, <2>3 DEF DrainCheck
  <2>7. ASSUME NEW a \in Drainer, DrainCancel(a) PROVE pc' \in [Drainer -> Label]
    BY <2>7, <2>1, <2>3 DEF DrainCancel
  <2>8. ASSUME NEW a \in Drainer, DrainWait(a) PROVE pc' \in [Drainer -> Label]
    BY <2>8, <2>1, <2>2, <1>p DEF DrainWait
  <2>9. CASE Undrain
    BY <2>9, <2>1, <2>3, <1>l DEF Undrain
  <2>10. CASE Stored
    BY <2>10, <2>1, <2>3, <1>l DEF Stored
  <2>11. CASE SetDrain
    BY <2>11, <2>1, <2>3, <1>l DEF SetDrain
  <2>12. CASE DrainInterval
    BY <2>12, <2>1, <2>3, <1>l DEF DrainInterval
  <2>13. CASE Sigterm
    BY <2>13, <2>1, <2>3, <1>l DEF Sigterm
  <2>14. CASE UNCHANGED pc
    BY <2>14, <1>p
  <2> QED
    BY <2>4, <2>5, <2>6, <2>7, <2>8, <2>9, <2>10, <2>11, <2>12, <2>13, <2>14, <1>l
    DEF Next, LoopStep, TermStep, DrainStep, StoreCtx, StoreCancel, DeletePidFile,
        Fail, Files, Reset, Clients, Stop, vars
<1>2. pos' \in [Drainer -> 0 .. Visits]
  <2>1. pos \in [Drainer -> 0 .. Visits]
    BY DEF TypeOK
  <2>2. ASSUME NEW a \in Drainer, DrainCheck(a)
        PROVE  pos' \in [Drainer -> 0 .. Visits]
    BY <2>1, <2>2, VisitsNat DEF DrainCheck
  <2>3. ASSUME NEW a \in Drainer, DrainWait(a)
        PROVE  pos' \in [Drainer -> 0 .. Visits]
    <3>1. CASE pos[a] = Visits
      BY <2>1, <2>3, <3>1 DEF DrainWait
    <3>2. CASE pos[a] # Visits
      <4>1. pos' = [pos EXCEPT ![a] = @ + 1]
        BY <2>3, <3>2 DEF DrainWait
      <4> QED
        BY <4>1, <2>1, <3>2, VisitsNat
    <3> QED
      BY <3>1, <3>2
  <2>4. CASE UNCHANGED pos
    BY <2>1, <2>4
  <2> QED
    BY <2>2, <2>3, <2>4, <1>l, Zenon
    DEF Next, LoopStep, TermStep, DrainStep, StoreCtx, StoreCancel, DeletePidFile,
        Fail, Files, Reset, Clients, Stop, Check, CheckUndrainFile, DrainCancel, Undrain,
        Stored, SetDrain, DrainInterval, Sigterm, vars
<1>3. busy' \in [1 .. Workers -> BOOLEAN] /\ stuck' \in [1 .. Workers -> BOOLEAN]
  <2>t. busy \in [1 .. Workers -> BOOLEAN] /\ stuck \in [1 .. Workers -> BOOLEAN]
    BY DEF TypeOK
  <2>1. ASSUME NEW w \in 1 .. Workers, Clients(w)
        PROVE  busy' \in [1 .. Workers -> BOOLEAN] /\ stuck' \in [1 .. Workers -> BOOLEAN]
    <3>1. busy' = [busy EXCEPT ![w] = ~ @] /\ stuck' = stuck
      BY <2>1 DEF Clients
    <3> QED
      BY <2>t, <3>1, Zenon
  <2>2. ASSUME NEW w \in 1 .. Workers, Stop(w)
        PROVE  busy' \in [1 .. Workers -> BOOLEAN] /\ stuck' \in [1 .. Workers -> BOOLEAN]
    <3>1. stuck' = [stuck EXCEPT ![w] = ~ @] /\ busy' = busy
      BY <2>2 DEF Stop
    <3> QED
      BY <2>t, <3>1, Zenon
  <2>3. CASE UNCHANGED clientVars
    BY <2>t, <2>3 DEF clientVars
  <2> QED
    BY <2>1, <2>2, <2>3, Zenon
    DEF Next, LoopStep, TermStep, DrainStep, StoreCtx, StoreCancel, DeletePidFile,
        Fail, Files, Reset, Check, CheckUndrainFile, DrainCheck, DrainCancel, DrainWait,
        Undrain, Stored, SetDrain, DrainInterval, Sigterm, vars, clientVars
<1>4. fresh' \in Context /\ ctx' \in Context /\ cancel' \in Context
      /\ cancelled' \subseteq Context
  <2>1. /\ fresh \in Context /\ ctx \in Context /\ cancel \in Context
        /\ cancelled \subseteq Context
    BY DEF TypeOK
  <2>2. CASE Undrain
    BY <2>1, <2>2, FreshContext DEF Undrain
  <2>3. CASE StoreCtx
    BY <2>1, <2>3 DEF StoreCtx
  <2>4. CASE StoreCancel
    BY <2>1, <2>4 DEF StoreCancel
  <2>5. ASSUME NEW a \in Drainer, DrainCancel(a)
        PROVE  fresh' \in Context /\ ctx' \in Context /\ cancel' \in Context
               /\ cancelled' \subseteq Context
    BY <2>1, <2>5 DEF DrainCancel
  <2>6. CASE UNCHANGED ctxVars
    BY <2>1, <2>6 DEF ctxVars
  <2> QED
    BY <2>2, <2>3, <2>4, <2>5, <2>6, <1>l, Zenon
    DEF Next, LoopStep, TermStep, DrainStep, DeletePidFile, Fail, Files, Reset, Clients, Stop,
        Check, CheckUndrainFile, DrainCheck, DrainWait, Stored, SetDrain,
        DrainInterval, Sigterm, vars, ctxVars
<1>5. /\ killFile' \in BOOLEAN /\ unkillFile' \in BOOLEAN /\ shouldDrain' \in BOOLEAN
      /\ gauge' \in BOOLEAN /\ pidFile' \in BOOLEAN
      /\ exited' \in {"no", "done", "fail"}
  BY Zenon
  DEF TypeOK, Next, LoopStep, TermStep, DrainStep, Clients, Check, CheckUndrainFile,
      DrainCheck, DrainCancel, DrainWait, Undrain, StoreCtx, StoreCancel, Stored,
      SetDrain, DrainInterval, Sigterm, DeletePidFile, Fail, Files, Reset, Stop, vars, fileVars,
      endVars
<1> QED
  BY <1>1, <1>2, <1>3, <1>4, <1>5, Zenon DEF TypeOK, Label

-----------------------------------------------------------------------------
(***************************************************************************)
(* The rest of the invariant.  Its parts are about the two program         *)
(* counters, the decision and the four context variables.                  *)
(***************************************************************************)
CtlInv == PcInv /\ StoreInv /\ DecisionInv
ctlVars == <<pc, shouldDrain, gauge, ctxVars>>

LEMMA StepCtl == IInv /\ [Next]_vars => CtlInv'
<1> SUFFICES ASSUME IInv, [Next]_vars PROVE CtlInv'
  OBVIOUS
<1> DEFINE Effect(a, l) == pc'[a] = l /\ \A b \in Drainer : b # a => pc'[b] = pc[b]
<1>l. Loop \in Drainer /\ Term \in Drainer /\ Loop # Term
      /\ \A a \in Drainer : a = Loop \/ a = Term
  BY DEF Drainer, Loop, Term
<1>g. ASSUME NEW a \in Drainer, NEW l, GoTo(a, l) PROVE Effect(a, l)
  BY <1>g DEF IInv, TypeOK, GoTo
<1>t. pc[Loop] \in LoopPc /\ pc[Term] \in TermPc
  BY DEF IInv, PcInv
<1>i. CtlInv
  BY DEF IInv, CtlInv
<1> HIDE DEF Effect
<1>1. CASE Check
  <2>1. Effect(Loop, "undrainfile")
    BY <1>1, <1>g, <1>l DEF Check
  <2> QED
    BY <2>1, <1>1, <1>l, <1>t, <1>i
    DEF CtlInv, PcInv, StoreInv, DecisionInv, LoopPc, TermPc, Effect,
        Check, ctxVars
<1>2. CASE CheckUndrainFile
  <2>1. Effect(Loop, IF shouldDrain' THEN "drain" ELSE "undrain")
    BY <1>2, <1>g, <1>l DEF CheckUndrainFile
  <2> QED
    BY <2>1, <1>2, <1>l, <1>t, <1>i
    DEF CtlInv, PcInv, StoreInv, DecisionInv, LoopPc, TermPc, Effect,
        CheckUndrainFile, ctxVars
<1>3. CASE SetDrain
  <2>1. Effect(Loop, "sleep")
    BY <1>3, <1>g, <1>l DEF SetDrain
  <2> QED
    BY <2>1, <1>3, <1>l, <1>t, <1>i
    DEF CtlInv, PcInv, StoreInv, DecisionInv, LoopPc, TermPc, Effect,
        SetDrain, ctxVars
<1>4. CASE DrainInterval
  <2>1. Effect(Loop, "check")
    BY <1>4, <1>g, <1>l DEF DrainInterval
  <2> QED
    BY <2>1, <1>4, <1>l, <1>t, <1>i
    DEF CtlInv, PcInv, StoreInv, DecisionInv, LoopPc, TermPc, Effect,
        DrainInterval, ctxVars
<1>5. CASE Stored
  <2>1. Effect(Loop, "setdrain")
    BY <1>5, <1>g, <1>l DEF Stored
  <2> QED
    BY <2>1, <1>5, <1>l, <1>t, <1>i
    DEF CtlInv, PcInv, StoreInv, DecisionInv, LoopPc, TermPc, Effect,
        Stored, ctxVars
<1>6. CASE Sigterm
  <2>1. Effect(Term, "drain")
    BY <1>6, <1>g, <1>l DEF Sigterm
  <2> QED
    BY <2>1, <1>6, <1>l, <1>t, <1>i
    DEF CtlInv, PcInv, StoreInv, DecisionInv, LoopPc, TermPc, Effect,
        Sigterm, ctxVars
<1>7. CASE Undrain
  <2>1. CASE ctx \in cancelled
    <3>1. Effect(Loop, "store") /\ fresh' # ctx /\ fresh' # cancel
      BY <1>7, <1>g, <1>l, <2>1, FreshContext DEF Undrain, IInv
    <3> QED
      BY <3>1, <2>1, <1>7, <1>l, <1>t, <1>i
      DEF CtlInv, PcInv, StoreInv, DecisionInv, LoopPc, TermPc, Effect, Undrain
  <2>2. CASE ctx \notin cancelled
    <3>1. Effect(Loop, "setdrain")
      BY <1>7, <1>g, <1>l, <2>2 DEF Undrain
    <3> QED
      BY <3>1, <2>2, <1>7, <1>l, <1>t, <1>i
      DEF CtlInv, PcInv, StoreInv, DecisionInv, LoopPc, TermPc, Effect, Undrain
  <2> QED
    BY <2>1, <2>2
<1>8. CASE StoreCtx
  BY <1>8, <1>t, <1>i
  DEF CtlInv, PcInv, StoreInv, DecisionInv, LoopPc, TermPc, StoreCtx
<1>9. CASE StoreCancel
  BY <1>9, <1>t, <1>i
  DEF CtlInv, PcInv, StoreInv, DecisionInv, LoopPc, TermPc, StoreCancel
<1>10. ASSUME NEW a \in Drainer, DrainCheck(a) PROVE CtlInv'
  <2>1. Effect(a, IF ctx \in cancelled THEN "wait" ELSE "cancel")
    BY <1>10, <1>g DEF DrainCheck
  <2> QED
    BY <2>1, <1>10, <1>l, <1>t, <1>i
    DEF CtlInv, PcInv, StoreInv, DecisionInv, LoopPc, TermPc, Effect, DrainCheck,
        ctxVars
<1>11. ASSUME NEW a \in Drainer, DrainCancel(a) PROVE CtlInv'
  <2>1. Effect(a, "wait")
    BY <1>11, <1>g DEF DrainCancel
  <2> QED
    BY <2>1, <1>11, <1>l, <1>t, <1>i
    DEF CtlInv, PcInv, StoreInv, DecisionInv, LoopPc, TermPc, Effect, DrainCancel
<1>12. CASE UNCHANGED ctlVars
  BY <1>12, <1>i
  DEF CtlInv, PcInv, StoreInv, DecisionInv, ctlVars, ctxVars
<1>13. ASSUME NEW a \in Drainer, DrainWait(a) PROVE CtlInv'
  <2>1. Effect(a, AfterDrain(a)) \/ UNCHANGED ctlVars
    BY <1>13, <1>g DEF DrainWait, ctlVars
  <2>2. CASE Effect(a, AfterDrain(a))
    BY <2>2, <1>13, <1>l, <1>t, <1>i
    DEF CtlInv, PcInv, StoreInv, DecisionInv, LoopPc, TermPc, Effect, DrainWait,
        AfterDrain, ctxVars
  <2> QED
    BY <2>1, <2>2, <1>12
<1>14. CASE Reset
  BY <1>14, <1>i
  DEF CtlInv, PcInv, StoreInv, DecisionInv, Reset, ctxVars
<1> QED
  BY <1>1, <1>2, <1>3, <1>4, <1>5, <1>6, <1>7, <1>8, <1>9, <1>10, <1>11, <1>12,
     <1>13, <1>14, <1>l, Zenon
  DEF Next, LoopStep, TermStep, DrainStep, DeletePidFile, Fail, Files, Reset, Clients, Stop, vars,
      ctlVars, ctxVars

-----------------------------------------------------------------------------
(***************************************************************************)
(* The invariant holds in every reachable state.                           *)
(***************************************************************************)
THEOREM DrainInvariance == Spec => []IInv
<1>1. IInv /\ [Next]_vars => IInv'
  BY StepType, StepCtl DEF IInv, CtlInv
<1> QED
  BY InitIInv, <1>1, PTL DEF Spec

(***************************************************************************)
(* The drain loop's variables keep their types.                            *)
(***************************************************************************)
THEOREM DrainTypeCorrect == Spec => []TypeOK
<1>1. IInv => TypeOK
  BY DEF IInv
<1> QED
  BY DrainInvariance, <1>1, PTL

(***************************************************************************)
(* Whenever the loop of Start sleeps, s.ctx and s.cancel are in the state  *)
(* it decided on, and the drain counter, which the metric loop clears at   *)
(* any moment, says drained only if it is; for any number of workers and   *)
(* rounds.                                                                 *)
(***************************************************************************)
THEOREM LoopRests == Spec => []RestFollowsDecision
<1>1. IInv => RestFollowsDecision
  BY DEF IInv, PcInv, StoreInv, DecisionInv, RestFollowsDecision, LoopPc
<1> QED
  BY DrainInvariance, <1>1, PTL

(***************************************************************************)
(* Undrain never replaces a context that is not cancelled, although the    *)
(* handler of SIGTERM reads and cancels at the same time.                  *)
(***************************************************************************)
THEOREM UndrainAbandonsNone == Spec => NoneAbandoned
<1>1. IInv /\ [Next]_vars => [ctx' # ctx => ctx \in cancelled]_ctx
  <2> SUFFICES ASSUME IInv, [Next]_vars PROVE ctx' # ctx => ctx \in cancelled
    OBVIOUS
  <2>1. CASE StoreCtx
    BY <2>1 DEF StoreCtx, IInv, StoreInv
  <2>2. CASE UNCHANGED ctx
    BY <2>2
  <2> QED
    BY <2>1, <2>2, Zenon
    DEF Next, LoopStep, TermStep, DrainStep, Clients, Check, CheckUndrainFile,
        DrainCheck, DrainCancel, DrainWait, Undrain, StoreCancel, Stored, SetDrain,
        DrainInterval, Sigterm, DeletePidFile, Fail, Files, Reset, Stop, vars, ctxVars
<1> QED
  BY DrainInvariance, <1>1, PTL DEF Spec, NoneAbandoned

=============================================================================
