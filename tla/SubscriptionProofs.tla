------------------------- MODULE SubscriptionProofs -------------------------
(***************************************************************************)
(* Proofs about Subscription, for any number of clients, handlers, workers *)
(* and requests, any queue size and any limits.                            *)
(***************************************************************************)
EXTENDS Subscription, SequenceTheorems, TLAPS

(***************************************************************************)
(* A handler that works on a request holds its number; the goroutine of    *)
(* that number is not started before the handler lets go of it.            *)
(***************************************************************************)
HoldsNumber(h) ==
    hs[h].pc \in {"check", "register", "setexpire", "setinterval", "answer",
                  "launch", "sptpnew", "sptpstart"}

HoldsSub(h) ==
    hs[h].pc \in {"setexpire", "setinterval", "answer", "launch", "stop",
                  "stopping", "sptpstart", "bump", "once"}

HandlerInv ==
    \A h \in Handler : /\ HoldsNumber(h) => hs[h].n \in 1 .. issued
                       /\ HoldsSub(h) => hs[h].sc \in Req

GoroutineInv ==
    \A n \in Req : gs[n].pc # "none" => gs[n].sc \in Req /\ gs[n].ctx \in 1 .. ctx

NumberInv ==
    /\ \A h \in Handler : HoldsNumber(h) => gs[hs[h].n].pc = "none"
    /\ \A h, i \in Handler :
           HoldsNumber(h) /\ HoldsNumber(i) /\ hs[h].n = hs[i].n => h = i
    /\ \A n \in Req : n > issued => gs[n].pc = "none"

CtxInv == \A c \in 1 .. ctx : c # ctx => c \in cancelled

IInv ==
    /\ TypeOK
    /\ HandlerInv
    /\ GoroutineInv
    /\ NumberInv
    /\ CtxInv
    /\ RunningHasGoroutine

-----------------------------------------------------------------------------
(***************************************************************************)
(* Updates of the record-valued functions.                                 *)
(***************************************************************************)

\* A message sent on a channel keeps the channel well typed (Once).
LEMMA SendType ==
    ASSUME NEW c \in Channel, NEW p \in Process, NEW s \in Req
    PROVE  Send(c, p, s) \in Channel
BY DEF Send, Channel

\* What the worker receives from a channel is a subscription.
LEMMA TailType ==
    ASSUME NEW c \in Channel, c # << >>
    PROVE  Tail(c) \in Channel /\ Head(c).sc \in Req
<1>1. Head(c) \in [by : Process, sc : Req]
  BY HeadTailProperties DEF Channel
<1> QED BY <1>1, HeadTailProperties DEF Channel

\* A write to one SubscriptionClient leaves the others alone.
LEMMA SubUpdate ==
    ASSUME sub \in [Req -> SubRecord], NEW s \in Req, NEW r \in SubRecord,
           sub' = [sub EXCEPT ![s] = r]
    PROVE  /\ sub' \in [Req -> SubRecord]
           /\ sub'[s] = r
           /\ \A t \in Req : t # s => sub'[t] = sub[t]
OBVIOUS

\* A step of one handler leaves the locals of the others alone.
LEMMA HandlerUpdate ==
    ASSUME hs \in [Handler -> HandlerRecord], NEW h \in Handler,
           NEW r \in HandlerRecord, hs' = [hs EXCEPT ![h] = r]
    PROVE  /\ hs' \in [Handler -> HandlerRecord]
           /\ hs'[h] = r
           /\ \A i \in Handler : i # h => hs'[i] = hs[i]
OBVIOUS

\* NewSubscriptionClient returns a subscription that is not running.
LEMMA NewType ==
    ASSUME NEW k \in Key \cup {None}, NEW i \in Int, NEW d \in Int
    PROVE  /\ NewSubscriptionClient(k, i, d) \in SubRecord
           /\ ~ NewSubscriptionClient(k, i, d).running
<1>1. NoSub \in SubRecord /\ ~ NoSub.running
  BY DEF NoSub, SubRecord
<1>2. ASSUME NEW x \in SubRecord
      PROVE  [x EXCEPT !.key = k, !.interval = i] \in SubRecord
  BY DEF SubRecord
<1>3. ASSUME NEW x \in SubRecord
      PROVE  [x EXCEPT !.duration = d, !.expired = FALSE] \in SubRecord
  BY DEF SubRecord
<1>4. NewSubscriptionClient(k, i, d) =
          [[NoSub EXCEPT !.key = k, !.interval = i]
              EXCEPT !.duration = d, !.expired = FALSE]
  BY DEF NewSubscriptionClient, NoSub
<1>5. ~ NewSubscriptionClient(k, i, d).running
  BY DEF NewSubscriptionClient, NoSub
<1> QED BY <1>1, <1>2, <1>3, <1>4, <1>5

\* A handler at its socket has no locals.
LEMMA IdleType == IdleHandler \in HandlerRecord /\ IdleHandler.pc = "idle"
BY ConstantsAssumption DEF IdleHandler, HandlerRecord

(***************************************************************************)
(* The ways in which a step may touch handlers, goroutines and flags.      *)
(***************************************************************************)
\* Handler h moves on, keeping its number or giving it up.
HandlerMoves(h) ==
    /\ hs' \in [Handler -> HandlerRecord]
    /\ \A i \in Handler : i # h => hs'[i] = hs[i]
    /\ HoldsNumber(h)' => HoldsNumber(h) /\ hs'[h].n = hs[h].n
    /\ HoldsSub(h)' => hs'[h].sc \in Req

\* Handler h takes the next number.
TakesNumber(h) ==
    /\ hs' \in [Handler -> HandlerRecord]
    /\ \A i \in Handler : i # h => hs'[i] = hs[i]
    /\ issued < MaxRequests /\ issued' = issued + 1
    /\ hs'[h].n = issued'
    /\ ~ HoldsSub(h)'

\* Goroutine n, already started, moves on.
GoroutineMoves(n) ==
    /\ gs' \in [Req -> GoroutineRecord]
    /\ \A m \in Req : m # n => gs'[m] = gs[m]
    /\ gs[n].pc # "none" /\ gs'[n].pc # "none"
    /\ gs'[n].sc = gs[n].sc /\ gs'[n].ctx = gs[n].ctx

\* Goroutine n is started on the subscription s, under the current context.
Starts(n, s) ==
    /\ gs' \in [Req -> GoroutineRecord]
    /\ \A m \in Req : m # n => gs'[m] = gs[m]
    /\ gs'[n].pc = "start" /\ gs'[n].sc = s /\ gs'[n].ctx = ctx

\* No subscription begins to run.
NoneBeginsToRun ==
    /\ sub' \in [Req -> SubRecord]
    /\ \A t \in Req : sub'[t].running => sub[t].running

\* GoTo moves the program counter and nothing else.
LEMMA GoToMoves ==
    ASSUME TypeOK, HandlerInv, NEW h \in Handler,
           NEW pc \in {"setexpire", "setinterval", "register", "answer",
                       "launch", "stopping", "once"},
           GoTo(h, pc),
           HoldsNumber(h) \/ pc \in {"stopping", "once"},
           pc # "register" => hs[h].sc \in Req
    PROVE  HandlerMoves(h) /\ hs'[h].pc = pc
<1>0. hs \in [Handler -> HandlerRecord]
  BY DEF TypeOK
<1>1. /\ hs' \in [Handler -> HandlerRecord]
      /\ hs'[h].pc = pc /\ hs'[h].n = hs[h].n /\ hs'[h].sc = hs[h].sc
      /\ \A i \in Handler : i # h => hs'[i] = hs[i]
  BY <1>0 DEF GoTo, HandlerRecord
<1> QED BY <1>1 DEF HandlerMoves, HoldsNumber, HoldsSub

\* Return gives everything up.
LEMMA ReturnMoves ==
    ASSUME TypeOK, NEW h \in Handler, Return(h)
    PROVE  HandlerMoves(h) /\ ~ HoldsNumber(h)'
<1>1. /\ hs' \in [Handler -> HandlerRecord] /\ hs'[h] = IdleHandler
      /\ \A i \in Handler : i # h => hs'[i] = hs[i]
  BY HandlerUpdate, IdleType DEF Return, TypeOK
<1> QED BY <1>1, IdleType DEF HandlerMoves, HoldsNumber, HoldsSub

\* GoroutineTo moves the program counter and nothing else.
LEMMA GoroutineToMoves ==
    ASSUME TypeOK, NEW n \in Req, gs[n].pc # "none",
           NEW pc \in {"newticker", "select", "tick", "exit", "cancel", "done"},
           GoroutineTo(n, pc)
    PROVE  GoroutineMoves(n) /\ gs'[n].pc = pc
<1>1. /\ gs' \in [Req -> GoroutineRecord]
      /\ gs'[n].pc = pc /\ gs'[n].sc = gs[n].sc /\ gs'[n].ctx = gs[n].ctx
      /\ \A m \in Req : m # n => gs'[m] = gs[m]
  BY DEF GoroutineTo, TypeOK, GoroutineRecord
<1> QED BY <1>1 DEF GoroutineMoves

\* The go statement starts a goroutine under s.ctx.
LEMMA GoStartStarts ==
    ASSUME TypeOK, NEW n \in Req, NEW s \in Req, GoStart(n, s)
    PROVE  Starts(n, s)
<1>1. ctx \in Nat
  BY ConstantsAssumption DEF TypeOK
<1>2. [pc |-> "start", sc |-> s, ctx |-> ctx] \in GoroutineRecord
  BY <1>1, ConstantsAssumption DEF GoroutineRecord, Req
<1> QED BY <1>2 DEF GoStart, Starts, TypeOK

-----------------------------------------------------------------------------
(***************************************************************************)
(* Each way of moving preserves the parts of the invariant it can disturb. *)
(***************************************************************************)
\* A handler that moves on neither takes nor reuses a number.
LEMMA HandlerMovesSafe ==
    ASSUME TypeOK, HandlerInv, NumberInv, NEW h \in Handler, HandlerMoves(h),
           UNCHANGED <<gs, issued>>
    PROVE  HandlerInv' /\ NumberInv'
<1>1. HandlerInv'
  BY DEF HandlerInv, HandlerMoves, HoldsNumber, HoldsSub
<1>2. NumberInv'
  BY DEF NumberInv, HandlerMoves, HoldsNumber
<1> QED BY <1>1, <1>2

\* The number of a new request is in nobody's hands, and no goroutine has it.
LEMMA TakesNumberSafe ==
    ASSUME TypeOK, HandlerInv, NumberInv, NEW h \in Handler, TakesNumber(h),
           UNCHANGED gs
    PROVE  HandlerInv' /\ NumberInv'
<1> USE ConstantsAssumption
<1>1. issued \in Nat /\ issued' \in Req
  BY DEF TypeOK, TakesNumber, Req
<1>2. HandlerInv'
  BY <1>1 DEF HandlerInv, TakesNumber, HoldsNumber, HoldsSub
<1>3. ASSUME NEW i \in Handler, HoldsNumber(i)'
      PROVE  gs'[hs'[i].n].pc = "none"
  BY <1>1, <1>3 DEF NumberInv, TakesNumber, HoldsNumber
<1>4. ASSUME NEW i \in Handler, NEW j \in Handler, HoldsNumber(i)',
             HoldsNumber(j)', hs'[i].n = hs'[j].n
      PROVE  i = j
  <2>1. ASSUME NEW m \in Handler, m # h, HoldsNumber(m)'
        PROVE  hs'[m].n # issued' /\ HoldsNumber(m)
    BY <1>1, <2>1 DEF HandlerInv, TakesNumber, HoldsNumber
  <2> QED BY <1>4, <2>1 DEF NumberInv, TakesNumber
<1>5. \A n \in Req : n > issued' => gs'[n].pc = "none"
  BY <1>1 DEF NumberInv, TakesNumber, Req
<1> QED BY <1>2, <1>3, <1>4, <1>5 DEF NumberInv

\* A handler that starts the goroutine of its number gives the number up.
LEMMA StartsSafe ==
    ASSUME TypeOK, HandlerInv, NumberInv, GoroutineInv, NEW h \in Handler,
           HandlerMoves(h), HoldsNumber(h), ~ HoldsNumber(h)',
           NEW s \in Req, Starts(hs[h].n, s), UNCHANGED <<issued, ctx>>
    PROVE  HandlerInv' /\ NumberInv' /\ GoroutineInv'
<1> USE ConstantsAssumption
<1>1. hs[h].n \in 1 .. issued /\ issued \in 0 .. MaxRequests
  BY DEF HandlerInv, TypeOK
<1>2. HandlerInv'
  BY DEF HandlerInv, HandlerMoves, HoldsNumber, HoldsSub
<1>3. ASSUME NEW i \in Handler, HoldsNumber(i)'
      PROVE  HoldsNumber(i) /\ hs'[i].n = hs[i].n /\ hs[i].n # hs[h].n
  BY <1>3 DEF HandlerMoves, HoldsNumber, NumberInv
<1>4. ASSUME NEW i \in Handler, HoldsNumber(i)'
      PROVE  gs'[hs'[i].n].pc = "none"
  <2>1. hs[i].n \in Req
    BY <1>1, <1>3, <1>4 DEF HandlerInv, Req
  <2> QED BY <1>3, <1>4, <2>1 DEF NumberInv, Starts
<1>5. \A n \in Req : n > issued => gs'[n].pc = "none"
  BY <1>1 DEF NumberInv, Starts, Req
<1>6. NumberInv'
  BY <1>3, <1>4, <1>5 DEF NumberInv
<1>7. GoroutineInv'
  BY DEF GoroutineInv, Starts, TypeOK
<1> QED BY <1>2, <1>6, <1>7

\* A goroutine that moves on was started before: no handler has its number.
LEMMA GoroutineMovesSafe ==
    ASSUME TypeOK, HandlerInv, NumberInv, GoroutineInv, NEW n \in Req,
           GoroutineMoves(n), UNCHANGED <<hs, issued, ctx>>
    PROVE  HandlerInv' /\ NumberInv' /\ GoroutineInv'
<1>1. HandlerInv'
  BY DEF HandlerInv, HoldsNumber, HoldsSub
<1>2. ASSUME NEW i \in Handler, HoldsNumber(i)
      PROVE  hs[i].n \in Req /\ hs[i].n # n
  BY <1>2, ConstantsAssumption DEF NumberInv, HandlerInv, GoroutineMoves, TypeOK, Req
<1>3. NumberInv'
  BY <1>2 DEF NumberInv, GoroutineMoves, HoldsNumber
<1>4. GoroutineInv'
  BY DEF GoroutineInv, GoroutineMoves
<1> QED BY <1>1, <1>3, <1>4

\* The flags are safe as long as the goroutines that serve keep serving.
LEMMA RunningSafe ==
    ASSUME RunningHasGoroutine, NoneBeginsToRun,
           \A m \in Req : Serving(m) => Serving(m)' /\ gs'[m].sc = gs[m].sc
    PROVE  RunningHasGoroutine'
BY DEF RunningHasGoroutine, NoneBeginsToRun

\* Steps of a handler that start no goroutine and take no number.
LEMMA HandlerStepSafe ==
    ASSUME IInv, NEW h \in Handler, HandlerMoves(h), NoneBeginsToRun,
           clients' \in [Key -> 0 .. MaxRequests],
           queue' \in [Worker -> Channel],
           signalingQueue' \in [Worker -> Channel],
           cancels' \in 0 .. MaxCancels,
           UNCHANGED <<gs, cur, inv, ctx, cancelled, issued, lastSignal>>
    PROVE  IInv'
<1>1. TypeOK'
  BY DEF IInv, TypeOK, HandlerMoves, NoneBeginsToRun
<1>2. HandlerInv' /\ NumberInv'
  BY HandlerMovesSafe DEF IInv
<1>3. GoroutineInv' /\ CtxInv'
  BY DEF IInv, GoroutineInv, CtxInv
<1>4. RunningHasGoroutine'
  BY RunningSafe DEF IInv, Serving
<1> QED BY <1>1, <1>2, <1>3, <1>4 DEF IInv

\* Steps of a goroutine that was started.
LEMMA GoroutineStepSafe ==
    ASSUME IInv, NEW n \in Req, GoroutineMoves(n), sub' \in [Req -> SubRecord],
           queue' \in [Worker -> Channel],
           signalingQueue' \in [Worker -> Channel],
           RunningHasGoroutine',
           UNCHANGED <<hs, issued, cancels, clients, cur, inv, ctx, cancelled,
                       lastSignal>>
    PROVE  IInv'
<1>1. TypeOK'
  BY DEF IInv, TypeOK, GoroutineMoves
<1>2. HandlerInv' /\ NumberInv' /\ GoroutineInv'
  BY GoroutineMovesSafe DEF IInv
<1>3. CtxInv'
  BY DEF IInv, CtxInv
<1> QED BY <1>1, <1>2, <1>3 DEF IInv

\* Steps of the worker, of the inventory and of the clock.
LEMMA OtherStepSafe ==
    ASSUME IInv, TypeOK', NoneBeginsToRun, UNCHANGED <<hs, gs, issued, ctx, cancelled>>
    PROVE  IInv'
<1>1. HandlerInv' /\ NumberInv' /\ GoroutineInv' /\ CtxInv'
  BY DEF IInv, HandlerInv, NumberInv, GoroutineInv, CtxInv, HoldsNumber, HoldsSub
<1>2. RunningHasGoroutine'
  BY RunningSafe DEF IInv, Serving
<1> QED BY <1>1, <1>2 DEF IInv

-----------------------------------------------------------------------------
(***************************************************************************)
(* The actions, one by one.                                                *)
(***************************************************************************)

\* A request TLV takes the next number.
LEMMA RequestTLVSafe ==
    ASSUME IInv, NEW h \in General, NEW k \in Key, NEW r \in Request,
           RequestTLV(h, k, r)
    PROVE  IInv'
<1> DEFINE x == [pc |-> "check", key |-> k, n |-> issued + 1, sc |-> clients[k],
                 interval |-> r.interval, duration |-> r.duration]
<1>1. h \in Handler /\ issued < MaxRequests /\ issued \in 0 .. MaxRequests
  BY DEF RequestTLV, Handler, IInv, TypeOK
<1>2. x \in HandlerRecord
  BY <1>1, ConstantsAssumption DEF HandlerRecord, IInv, TypeOK
<1>3. hs' = [hs EXCEPT ![h] = x] /\ issued' = issued + 1
  BY DEF RequestTLV
<1>4. TakesNumber(h)
  BY <1>1, <1>2, <1>3, HandlerUpdate DEF TakesNumber, IInv, TypeOK, HoldsSub
<1>5. UNCHANGED <<sub, clients, gs, queue, signalingQueue, cur, lastSignal, inv,
                  ctx, cancelled, cancels>>
  BY DEF RequestTLV, workerVars, ctxVars
<1>6. TypeOK'
  BY <1>1, <1>4, <1>5, ConstantsAssumption DEF IInv, TypeOK, TakesNumber
<1>7. HandlerInv' /\ NumberInv'
  BY <1>1, <1>4, <1>5, TakesNumberSafe DEF IInv
<1>8. GoroutineInv' /\ CtxInv' /\ RunningHasGoroutine'
  BY <1>5 DEF IInv, GoroutineInv, CtxInv, RunningHasGoroutine, Serving
<1> QED BY <1>6, <1>7, <1>8 DEF IInv

\* Steps of a handler that only look at the state.
LEMMA CheckRunningSafe ==
    ASSUME IInv, NEW h \in General, CheckRunning(h) PROVE IInv'
<1>1. h \in Handler /\ TypeOK /\ HandlerInv /\ HoldsNumber(h)
  BY DEF CheckRunning, Handler, IInv, HoldsNumber
<1>2. UNCHANGED <<sub, clients, gs, queue, signalingQueue, cur, lastSignal, inv,
                  ctx, cancelled, issued, cancels>>
  BY DEF CheckRunning, workerVars, ctxVars
<1>3. CASE GoTo(h, "register")
  BY <1>1, <1>2, <1>3, GoToMoves, HandlerStepSafe DEF TypeOK, NoneBeginsToRun
<1>4. CASE hs[h].sc # 0 /\ GoTo(h, "setexpire")
  <2>1. hs[h].sc \in Req
    BY <1>1, <1>4, ConstantsAssumption DEF TypeOK, HandlerRecord, Req
  <2> QED BY <1>1, <1>2, <1>4, <2>1, GoToMoves, HandlerStepSafe DEF TypeOK, NoneBeginsToRun
<1> QED BY <1>3, <1>4 DEF CheckRunning

\* A write that does not set running.
LEMMA SubWrite ==
    ASSUME TypeOK, NEW s \in Req, NEW r \in SubRecord, r.running => sub[s].running,
           sub' = [sub EXCEPT ![s] = r]
    PROVE  NoneBeginsToRun
<1>1. sub' \in [Req -> SubRecord] /\ sub'[s] = r
      /\ \A t \in Req : t # s => sub'[t] = sub[t]
  BY SubUpdate DEF TypeOK
<1> QED BY <1>1 DEF NoneBeginsToRun

\* Whatever is sent, the channels of all workers stay well typed.
LEMMA OnceType ==
    ASSUME TypeOK, NEW p \in Process, NEW s \in Req
    PROVE  /\ Once(p, s) => queue' \in [Worker -> Channel]
           /\ OnceSignaling(p, s) => signalingQueue' \in [Worker -> Channel]
<1>1. ASSUME NEW q \in [Worker -> Channel], NEW w
      PROVE  [q EXCEPT ![w] = Send(q[w], p, s)] \in [Worker -> Channel]
  BY SendType
<1> DEFINE v == Home[sub[s].key]
<1>2. [queue EXCEPT ![v] = Send(queue[v], p, s)] \in [Worker -> Channel]
  BY <1>1 DEF TypeOK
<1>3. [signalingQueue EXCEPT ![v] = Send(signalingQueue[v], p, s)]
          \in [Worker -> Channel]
  BY <1>1 DEF TypeOK
<1> QED BY <1>2, <1>3 DEF Once, OnceSignaling

\* RegisterSubscription stores a new subscription, which is not running.
LEMMA RegisterSafe ==
    ASSUME IInv, NEW h \in General, Register(h) PROVE IInv'
<1> DEFINE x == [hs[h] EXCEPT !.pc = "answer", !.sc = hs[h].n]
           y == NewSubscriptionClient(hs[h].key, hs[h].interval, hs[h].duration)
<1>1. h \in Handler /\ TypeOK /\ HoldsNumber(h) /\ hs[h] \in HandlerRecord
  BY DEF Register, RegisterSubscription, Handler, IInv, TypeOK, HoldsNumber
<1>2. hs[h].n \in Req /\ hs[h].n \in 0 .. MaxRequests
  BY <1>1, ConstantsAssumption DEF IInv, HandlerInv, TypeOK, Req
<1>3. y \in SubRecord /\ ~ y.running
  BY <1>1, NewType DEF HandlerRecord
<1>4. NoneBeginsToRun
  BY <1>1, <1>2, <1>3, SubWrite DEF Register, RegisterSubscription
<1>5. x \in HandlerRecord /\ x.n = hs[h].n /\ x.sc = hs[h].n
  BY <1>1, <1>2 DEF HandlerRecord
<1>6. hs' = [hs EXCEPT ![h] = x] /\ clients' = [clients EXCEPT ![hs[h].key] = hs[h].n]
  BY DEF Register, RegisterSubscription
<1>7. HandlerMoves(h)
  BY <1>1, <1>2, <1>5, <1>6, HandlerUpdate DEF HandlerMoves, TypeOK, HoldsNumber
<1>8. clients' \in [Key -> 0 .. MaxRequests]
  BY <1>1, <1>2, <1>6 DEF TypeOK
<1>9. UNCHANGED <<gs, queue, signalingQueue, cur, lastSignal, inv, ctx, cancelled,
                  issued, cancels>>
  BY DEF Register, RegisterSubscription, workerVars, ctxVars
<1> QED BY <1>1, <1>4, <1>7, <1>8, <1>9, HandlerStepSafe DEF TypeOK

\* SetExpire extends the lease and leaves the flag alone.
LEMMA RenewExpireSafe ==
    ASSUME IInv, NEW h \in General, RenewExpire(h) PROVE IInv'
<1> DEFINE y == [sub[hs[h].sc] EXCEPT !.expired = FALSE, !.duration = hs[h].duration]
<1>1. h \in Handler /\ TypeOK /\ HandlerInv /\ hs[h].sc \in Req
      /\ hs[h].interval \in Int /\ hs[h].duration \in Int
  BY DEF RenewExpire, Handler, IInv, TypeOK, HandlerInv, HoldsSub, HandlerRecord
<1>2. sub[hs[h].sc] \in SubRecord
  BY <1>1 DEF TypeOK
<1>3. y \in SubRecord /\ (y.running => sub[hs[h].sc].running)
  BY <1>1, <1>2 DEF SubRecord
<1>4. NoneBeginsToRun
  BY <1>1, <1>3, SubWrite DEF RenewExpire
<1>5. HandlerMoves(h)
  BY <1>1, GoToMoves DEF RenewExpire, HoldsNumber
<1>6. UNCHANGED <<clients, gs, queue, signalingQueue, cur, lastSignal, inv, ctx,
                  cancelled, issued, cancels>>
  BY DEF RenewExpire, workerVars, ctxVars
<1> QED BY <1>1, <1>4, <1>5, <1>6, HandlerStepSafe DEF TypeOK

\* SetInterval leaves the flag alone.
LEMMA RenewIntervalSafe ==
    ASSUME IInv, NEW h \in General, RenewInterval(h) PROVE IInv'
<1> DEFINE y == [sub[hs[h].sc] EXCEPT !.interval = hs[h].interval]
<1>1. h \in Handler /\ TypeOK /\ HandlerInv /\ hs[h].sc \in Req
      /\ hs[h].interval \in Int /\ hs[h].duration \in Int
  BY DEF RenewInterval, Handler, IInv, TypeOK, HandlerInv, HoldsSub, HandlerRecord
<1>2. sub[hs[h].sc] \in SubRecord
  BY <1>1 DEF TypeOK
<1>3. y \in SubRecord /\ (y.running => sub[hs[h].sc].running)
  BY <1>1, <1>2 DEF SubRecord
<1>4. NoneBeginsToRun
  BY <1>1, <1>3, SubWrite DEF RenewInterval
<1>5. HandlerMoves(h)
  BY <1>1, GoToMoves DEF RenewInterval, HoldsNumber
<1>6. UNCHANGED <<clients, gs, queue, signalingQueue, cur, lastSignal, inv, ctx,
                  cancelled, issued, cancels>>
  BY DEF RenewInterval, workerVars, ctxVars
<1> QED BY <1>1, <1>4, <1>5, <1>6, HandlerStepSafe DEF TypeOK

\* The bump of an sptp subscription leaves the flag alone.
LEMMA BumpSafe ==
    ASSUME IInv, NEW e \in Event, Bump(e) PROVE IInv'
<1> DEFINE y == [sub[hs[e].sc] EXCEPT !.expired = FALSE, !.duration = SptpInterval]
<1>1. e \in Handler /\ TypeOK /\ HandlerInv /\ hs[e].sc \in Req
      /\ hs[e].interval \in Int /\ hs[e].duration \in Int
  BY DEF Bump, Handler, IInv, TypeOK, HandlerInv, HoldsSub, HandlerRecord
<1>2. sub[hs[e].sc] \in SubRecord
  BY <1>1 DEF TypeOK
<1>3. y \in SubRecord /\ (y.running => sub[hs[e].sc].running)
  BY <1>1, <1>2, ConstantsAssumption DEF SubRecord
<1>4. NoneBeginsToRun
  BY <1>1, <1>3, SubWrite DEF Bump
<1>5. HandlerMoves(e)
  BY <1>1, GoToMoves DEF Bump, HoldsNumber
<1>6. UNCHANGED <<clients, gs, queue, signalingQueue, cur, lastSignal, inv, ctx,
                  cancelled, issued, cancels>>
  BY DEF Bump, workerVars, ctxVars
<1> QED BY <1>1, <1>4, <1>5, <1>6, HandlerStepSafe DEF TypeOK

\* A refusal writes the shared packet and ends the request.
LEMMA RejectSafe ==
    ASSUME IInv, NEW h \in General, Reject(h) PROVE IInv'
<1> DEFINE y == [sub[hs[h].sc] EXCEPT !.signaling = "deny"]
<1>1. h \in Handler /\ h \in Process /\ TypeOK /\ HandlerInv /\ hs[h].sc \in Req
  BY DEF Reject, Handler, Process, IInv, HandlerInv, HoldsSub
<1>2. sub[hs[h].sc] \in SubRecord
  BY <1>1 DEF TypeOK
<1>3. y \in SubRecord /\ (y.running => sub[hs[h].sc].running)
  BY <1>2 DEF SubRecord
<1>4. NoneBeginsToRun
  BY <1>1, <1>3, SubWrite DEF Reject
<1>5. HandlerMoves(h)
  BY <1>1, ReturnMoves DEF Reject, HoldsNumber
<1>6. signalingQueue' \in [Worker -> Channel]
  BY <1>1, OnceType DEF Reject
<1>7. UNCHANGED <<clients, gs, queue, cur, lastSignal, inv, ctx, cancelled,
                  issued, cancels>>
  BY DEF Reject, ctxVars
<1> QED BY <1>1, <1>4, <1>5, <1>6, <1>7, HandlerStepSafe DEF TypeOK

\* A grant writes the shared packet.
LEMMA GrantSafe ==
    ASSUME IInv, NEW h \in General, Grant(h) PROVE IInv'
<1> DEFINE y == [sub[hs[h].sc] EXCEPT !.signaling = GrantTLV(hs[h].duration)]
<1>1. h \in Handler /\ h \in Process /\ TypeOK /\ HandlerInv /\ hs[h].sc \in Req
  BY DEF Grant, Handler, Process, IInv, HandlerInv, HoldsSub
<1>2. sub[hs[h].sc] \in SubRecord
  BY <1>1 DEF TypeOK
<1>3. y \in SubRecord /\ (y.running => sub[hs[h].sc].running)
  BY <1>2 DEF SubRecord, GrantTLV
<1>4. NoneBeginsToRun
  BY <1>1, <1>3, SubWrite DEF Grant
<1>5. HandlerMoves(h)
  BY <1>1, GoToMoves DEF Grant, HoldsNumber
<1>6. signalingQueue' \in [Worker -> Channel]
  BY <1>1, OnceType DEF Grant
<1>7. UNCHANGED <<clients, gs, queue, cur, lastSignal, inv, ctx, cancelled,
                  issued, cancels>>
  BY DEF Grant, ctxVars
<1> QED BY <1>1, <1>4, <1>5, <1>6, <1>7, HandlerStepSafe DEF TypeOK

\* A handler starts the goroutine of its number on a subscription.
LEMMA StartStepSafe ==
    ASSUME IInv, NEW h \in Handler, HandlerMoves(h), HoldsNumber(h),
           ~ HoldsNumber(h)', hs[h].n \in Req, hs[h].sc \in Req,
           GoStart(hs[h].n, hs[h].sc),
           UNCHANGED <<sub, clients, queue, signalingQueue, cur, lastSignal, inv,
                       ctx, cancelled, issued, cancels>>
    PROVE  IInv'
<1>1. Starts(hs[h].n, hs[h].sc)
  BY GoStartStarts DEF IInv
<1>2. TypeOK'
  BY <1>1 DEF IInv, TypeOK, HandlerMoves, Starts
<1>3. HandlerInv' /\ NumberInv' /\ GoroutineInv'
  BY <1>1, StartsSafe DEF IInv
<1>4. gs[hs[h].n].pc = "none"
  BY DEF IInv, NumberInv
<1>5. RunningHasGoroutine'
  BY <1>1, <1>4, RunningSafe DEF IInv, TypeOK, Starts, Serving, NoneBeginsToRun
<1>6. CtxInv'
  BY DEF IInv, CtxInv
<1> QED BY <1>2, <1>3, <1>5, <1>6 DEF IInv

\* The go statement of a granted request.
LEMMA LaunchSafe ==
    ASSUME IInv, NEW h \in General, Launch(h) PROVE IInv'
<1>1. h \in Handler /\ TypeOK /\ HoldsNumber(h) /\ hs[h].sc \in Req
  BY DEF Launch, Handler, IInv, HandlerInv, HoldsSub, HoldsNumber
<1>2. hs[h].n \in Req
  BY <1>1, ConstantsAssumption DEF IInv, HandlerInv, TypeOK, Req
<1>3. HandlerMoves(h) /\ ~ HoldsNumber(h)'
  BY <1>1, ReturnMoves DEF Launch
<1>4. UNCHANGED <<sub, clients, queue, signalingQueue, cur, lastSignal, inv, ctx,
                  cancelled, issued, cancels>>
  BY DEF Launch, workerVars, ctxVars
<1>5. CASE UNCHANGED gs
  BY <1>1, <1>3, <1>4, <1>5, HandlerStepSafe DEF TypeOK, NoneBeginsToRun
<1>6. CASE GoStart(hs[h].n, hs[h].sc)
  BY <1>1, <1>2, <1>3, <1>4, <1>6, StartStepSafe
<1> QED BY <1>5, <1>6 DEF Launch

\* The go statement of a new sptp subscription.
LEMMA SptpStartSafe ==
    ASSUME IInv, NEW e \in Event, SptpStart(e) PROVE IInv'
<1>1. e \in Handler /\ TypeOK /\ HandlerInv /\ HoldsNumber(e) /\ hs[e].sc \in Req
  BY DEF SptpStart, Handler, IInv, HandlerInv, HoldsSub, HoldsNumber
<1>2. hs[e].n \in Req
  BY <1>1, ConstantsAssumption DEF HandlerInv, TypeOK, Req
<1>3. HandlerMoves(e) /\ ~ HoldsNumber(e)'
  BY <1>1, GoToMoves DEF SptpStart, HoldsNumber
<1>4. UNCHANGED <<sub, clients, queue, signalingQueue, cur, lastSignal, inv, ctx,
                  cancelled, issued, cancels>>
  BY DEF SptpStart, workerVars, ctxVars
<1> QED BY <1>1, <1>2, <1>3, <1>4, StartStepSafe DEF SptpStart

\* A cancel TLV looks up the subscription it is about to stop.
LEMMA CancelTLVSafe ==
    ASSUME IInv, NEW h \in General, NEW k \in Key, CancelTLV(h, k) PROVE IInv'
<1> DEFINE x == [IdleHandler EXCEPT !.pc = "stop", !.key = k, !.sc = clients[k]]
<1>1. h \in Handler /\ TypeOK /\ clients[k] \in 0 .. MaxRequests
  BY DEF Handler, IInv, TypeOK
<1>2. UNCHANGED <<sub, clients, gs, queue, signalingQueue, cur, lastSignal, inv,
                  ctx, cancelled, issued>>
  BY DEF CancelTLV, workerVars, ctxVars
<1>3. cancels' \in 0 .. MaxCancels
  BY <1>1, ConstantsAssumption DEF CancelTLV, TypeOK
<1>4. CASE UNCHANGED hs
  BY <1>1, <1>2, <1>3, <1>4, HandlerStepSafe
     DEF TypeOK, NoneBeginsToRun, HandlerMoves, HoldsNumber, HoldsSub, IInv, HandlerInv
<1>5. CASE clients[k] # 0 /\ hs' = [hs EXCEPT ![h] = x]
  <2>1. clients[k] \in Req
    BY <1>1, <1>5, ConstantsAssumption DEF Req
  <2>2. x \in HandlerRecord /\ x.pc = "stop" /\ x.sc = clients[k]
    BY <1>1, IdleType DEF HandlerRecord
  <2>3. HandlerMoves(h)
    BY <1>1, <1>5, <2>1, <2>2, HandlerUpdate DEF HandlerMoves, HoldsNumber, TypeOK
  <2> QED BY <1>1, <1>2, <1>3, <2>3, HandlerStepSafe DEF TypeOK, NoneBeginsToRun
<1> QED BY <1>4, <1>5 DEF CancelTLV

\* Stop marks the subscription and never sets the flag, blocked or not.
LEMMA StopSafe ==
    ASSUME IInv, NEW h \in General, Stop(h) PROVE IInv'
<1> DEFINE s == hs[h].sc
<1>1. h \in Handler /\ TypeOK /\ HandlerInv /\ s \in Req
  BY DEF Stop, Handler, IInv, HandlerInv, HoldsSub
<1>2. sub[s] \in SubRecord
  BY <1>1 DEF TypeOK
<1>3. \A y \in {[sub[s] EXCEPT !.expired = TRUE],
                [sub[s] EXCEPT !.expired = TRUE, !.stop = 1],
                [sub[s] EXCEPT !.expired = TRUE, !.holder = h]} :
         y \in SubRecord /\ (y.running => sub[s].running)
  BY <1>2 DEF SubRecord
<1>4. NoneBeginsToRun
  BY <1>1, <1>3, SubWrite DEF Stop
<1>5. HandlerMoves(h)
  BY <1>1, GoToMoves, ReturnMoves DEF Stop
<1>6. UNCHANGED <<clients, gs, queue, signalingQueue, cur, lastSignal, inv, ctx,
                  cancelled, issued, cancels>>
  BY DEF Stop, workerVars, ctxVars
<1> QED BY <1>1, <1>4, <1>5, <1>6, HandlerStepSafe DEF TypeOK

\* The blocked Stop leaves its token and the mutex.
LEMMA StopUnblocksSafe ==
    ASSUME IInv, NEW h \in General, StopUnblocks(h) PROVE IInv'
<1> DEFINE s == hs[h].sc
           y == [sub[s] EXCEPT !.stop = 1, !.holder = None]
<1>1. h \in Handler /\ TypeOK /\ HandlerInv /\ s \in Req
  BY DEF StopUnblocks, Handler, IInv, HandlerInv, HoldsSub
<1>2. sub[s] \in SubRecord
  BY <1>1 DEF TypeOK
<1>3. y \in SubRecord /\ (y.running => sub[s].running)
  BY <1>2 DEF SubRecord
<1>4. NoneBeginsToRun
  BY <1>1, <1>3, SubWrite DEF StopUnblocks
<1>5. HandlerMoves(h)
  BY <1>1, ReturnMoves DEF StopUnblocks
<1>6. UNCHANGED <<clients, gs, queue, signalingQueue, cur, lastSignal, inv, ctx,
                  cancelled, issued, cancels>>
  BY DEF StopUnblocks, workerVars, ctxVars
<1> QED BY <1>1, <1>4, <1>5, <1>6, HandlerStepSafe DEF TypeOK

\* An sptp delay request takes a number or finds its subscription.
LEMMA SptpDelayRequestSafe ==
    ASSUME IInv, NEW e \in Event, NEW k \in Key, SptpDelayRequest(e, k) PROVE IInv'
<1> DEFINE x == [IdleHandler EXCEPT !.pc = "sptpnew", !.key = k, !.n = issued + 1]
           y == [IdleHandler EXCEPT !.pc = "bump", !.key = k, !.sc = clients[k]]
<1>1. e \in Handler /\ TypeOK /\ clients[k] \in 0 .. MaxRequests
      /\ issued \in 0 .. MaxRequests
  BY DEF Handler, IInv, TypeOK
<1>2. UNCHANGED <<sub, clients, gs, queue, signalingQueue, cur, lastSignal, inv,
                  ctx, cancelled, cancels>>
  BY DEF SptpDelayRequest, workerVars, ctxVars
<1>3. CASE issued < MaxRequests /\ issued' = issued + 1 /\ hs' = [hs EXCEPT ![e] = x]
  <2>1. issued + 1 \in 0 .. MaxRequests
    BY <1>1, <1>3, ConstantsAssumption
  <2>2. x \in HandlerRecord /\ x.pc = "sptpnew" /\ x.n = issued + 1
    BY <2>1, IdleType DEF HandlerRecord
  <2>3. TakesNumber(e)
    BY <1>1, <1>3, <2>2, HandlerUpdate DEF TakesNumber, TypeOK, HoldsSub
  <2>4. TypeOK'
    BY <1>1, <1>2, <1>3, <2>1, <2>3 DEF TypeOK, TakesNumber
  <2>5. HandlerInv' /\ NumberInv'
    BY <1>1, <1>2, <2>3, TakesNumberSafe DEF IInv
  <2>6. GoroutineInv' /\ CtxInv' /\ RunningHasGoroutine'
    BY <1>2 DEF IInv, GoroutineInv, CtxInv, RunningHasGoroutine, Serving
  <2> QED BY <2>4, <2>5, <2>6 DEF IInv
<1>4. CASE clients[k] # 0 /\ UNCHANGED issued /\ hs' = [hs EXCEPT ![e] = y]
  <2>1. clients[k] \in Req
    BY <1>1, <1>4, ConstantsAssumption DEF Req
  <2>2. y \in HandlerRecord /\ y.pc = "bump" /\ y.sc = clients[k]
    BY <1>1, IdleType DEF HandlerRecord
  <2>3. HandlerMoves(e)
    BY <1>1, <1>4, <2>1, <2>2, HandlerUpdate DEF HandlerMoves, HoldsNumber, TypeOK
  <2> QED BY <1>1, <1>2, <1>4, <2>3, HandlerStepSafe DEF TypeOK, NoneBeginsToRun
<1> QED BY <1>3, <1>4 DEF SptpDelayRequest

\* RegisterSubscription of an sptp client.
LEMMA SptpRegisterSafe ==
    ASSUME IInv, NEW e \in Event, SptpRegister(e) PROVE IInv'
<1> DEFINE x == [hs[e] EXCEPT !.pc = "sptpstart", !.sc = hs[e].n]
           y == NewSubscriptionClient(hs[e].key, SptpInterval, SptpInterval)
<1>1. e \in Handler /\ TypeOK /\ HoldsNumber(e) /\ hs[e] \in HandlerRecord
  BY DEF SptpRegister, RegisterSubscription, Handler, IInv, TypeOK, HoldsNumber
<1>2. hs[e].n \in Req /\ hs[e].n \in 0 .. MaxRequests
  BY <1>1, ConstantsAssumption DEF IInv, HandlerInv, TypeOK, Req
<1>3. y \in SubRecord /\ ~ y.running
  BY <1>1, NewType, ConstantsAssumption DEF HandlerRecord
<1>4. NoneBeginsToRun
  BY <1>1, <1>2, <1>3, SubWrite DEF SptpRegister, RegisterSubscription
<1>5. x \in HandlerRecord /\ x.n = hs[e].n /\ x.sc = hs[e].n
  BY <1>1, <1>2 DEF HandlerRecord
<1>6. hs' = [hs EXCEPT ![e] = x] /\ clients' = [clients EXCEPT ![hs[e].key] = hs[e].n]
  BY DEF SptpRegister, RegisterSubscription
<1>7. HandlerMoves(e)
  BY <1>1, <1>2, <1>5, <1>6, HandlerUpdate DEF HandlerMoves, TypeOK, HoldsNumber
<1>8. clients' \in [Key -> 0 .. MaxRequests]
  BY <1>1, <1>2, <1>6 DEF TypeOK
<1>9. UNCHANGED <<gs, queue, signalingQueue, cur, lastSignal, inv, ctx, cancelled,
                  issued, cancels>>
  BY DEF SptpRegister, RegisterSubscription, workerVars, ctxVars
<1> QED BY <1>1, <1>4, <1>7, <1>8, <1>9, HandlerStepSafe DEF TypeOK

\* A delay request looks up the DelayResp subscription of its client.
LEMMA DelayRequestSafe ==
    ASSUME IInv, NEW e \in Event, NEW k \in Key, DelayRequest(e, k) PROVE IInv'
<1> DEFINE x == [IdleHandler EXCEPT !.pc = "once", !.key = k, !.sc = clients[k]]
<1>1. e \in Handler /\ TypeOK /\ clients[k] \in 0 .. MaxRequests
  BY DEF Handler, IInv, TypeOK
<1>2. UNCHANGED <<sub, clients, gs, queue, signalingQueue, cur, lastSignal, inv,
                  ctx, cancelled, issued, cancels>>
  BY DEF DelayRequest, workerVars, ctxVars
<1>3. clients[k] \in Req
  BY <1>1, ConstantsAssumption DEF Req, DelayRequest
<1>4. x \in HandlerRecord /\ x.pc = "once" /\ x.sc = clients[k]
  BY <1>1, IdleType DEF HandlerRecord
<1>5. HandlerMoves(e)
  BY <1>1, <1>3, <1>4, HandlerUpdate DEF HandlerMoves, HoldsNumber, TypeOK, DelayRequest
<1> QED BY <1>1, <1>2, <1>5, HandlerStepSafe DEF TypeOK, NoneBeginsToRun

\* The answer to a delay request is handed to the worker.
LEMMA EventOnceSafe ==
    ASSUME IInv, NEW e \in Event, EventOnce(e) PROVE IInv'
<1>1. e \in Handler /\ e \in Process /\ TypeOK /\ hs[e].sc \in Req
  BY DEF EventOnce, Handler, Process, IInv, HandlerInv, HoldsSub
<1>2. HandlerMoves(e)
  BY <1>1, ReturnMoves DEF EventOnce
<1>3. queue' \in [Worker -> Channel]
  BY <1>1, OnceType DEF EventOnce
<1>4. UNCHANGED <<sub, clients, gs, signalingQueue, cur, lastSignal, inv, ctx,
                  cancelled, issued, cancels>>
  BY DEF EventOnce, ctxVars
<1> QED BY <1>1, <1>2, <1>3, <1>4, HandlerStepSafe DEF TypeOK, NoneBeginsToRun

-----------------------------------------------------------------------------
\* setRunning(true): the goroutine that sets the flag serves.
LEMMA StartRunningSafe ==
    ASSUME IInv, NEW n \in Req, StartRunning(n) PROVE IInv'
<1> DEFINE s == gs[n].sc
           y == [sub[s] EXCEPT !.running = TRUE]
<1>1. n \in Process /\ TypeOK /\ s \in Req /\ gs[n].pc # "none" /\ sub[s] \in SubRecord
  BY DEF StartRunning, Process, IInv, GoroutineInv, TypeOK
<1>2. GoroutineMoves(n) /\ gs'[n].pc = "newticker"
  BY <1>1, GoroutineToMoves DEF StartRunning
<1>3. y \in SubRecord
  BY <1>1 DEF SubRecord
<1>4. sub' \in [Req -> SubRecord] /\ \A t \in Req : t # s => sub'[t] = sub[t]
  BY <1>1, <1>3, SubUpdate DEF StartRunning, TypeOK
<1>5. queue' \in [Worker -> Channel]
  BY <1>1, OnceType DEF StartRunning, TypeOK
<1>6. UNCHANGED <<clients, hs, issued, cancels, signalingQueue, cur, lastSignal,
                  inv, ctx, cancelled>>
  BY DEF StartRunning, handlerVars, ctxVars
<1>7. RunningHasGoroutine'
  <2>1. gs'[n].sc = s /\ Serving(n)'
    BY <1>2 DEF GoroutineMoves, Serving
  <2>2. ASSUME NEW t \in Req, t # s, sub'[t].running
        PROVE  \E m \in Req : gs'[m].sc = t /\ Serving(m)'
    BY <1>4, <2>2, <1>2 DEF IInv, RunningHasGoroutine, GoroutineMoves, Serving
  <2> QED BY <2>1, <2>2 DEF RunningHasGoroutine
<1> QED BY <1>1, <1>2, <1>4, <1>5, <1>6, <1>7, GoroutineStepSafe DEF TypeOK

\* NewTicker adopts the interval.
LEMMA NewTickerSafe ==
    ASSUME IInv, NEW n \in Req, NewTicker(n) PROVE IInv'
<1> DEFINE s == gs[n].sc
           y == [sub[s] EXCEPT !.runningInterval = sub[s].interval]
<1>1. n \in Process /\ TypeOK /\ s \in Req /\ gs[n].pc # "none" /\ sub[s] \in SubRecord
  BY DEF NewTicker, Process, IInv, GoroutineInv, TypeOK
<1>2. GoroutineMoves(n) /\ (Serving(n) => Serving(n)')
  BY <1>1, GoroutineToMoves DEF NewTicker, Serving
<1>3. y \in SubRecord /\ (y.running => sub[s].running)
  BY <1>1 DEF SubRecord
<1>4. NoneBeginsToRun
  BY <1>1, <1>3, SubWrite DEF NewTicker
<1>6. UNCHANGED <<clients, hs, issued, cancels, queue, signalingQueue, cur, lastSignal, inv,
                  ctx, cancelled>>
  BY DEF NewTicker, handlerVars, workerVars, ctxVars
<1>7. RunningHasGoroutine'
  BY <1>2, <1>4, RunningSafe DEF IInv, GoroutineMoves, Serving, NoneBeginsToRun, TypeOK
<1> QED BY <1>1, <1>2, <1>4, <1>6, <1>7, GoroutineStepSafe
  DEF TypeOK, NoneBeginsToRun

\* ctx.Done() sends the goroutine to its exit.
LEMMA SelectDoneSafe ==
    ASSUME IInv, NEW n \in Req, SelectDone(n) PROVE IInv'
<1>1. TypeOK /\ gs[n].pc # "none"
  BY DEF SelectDone, IInv, AtSelect
<1>2. GoroutineMoves(n) /\ (Serving(n) => Serving(n)')
  BY <1>1, GoroutineToMoves DEF SelectDone, Serving, AtSelect
<1>6. UNCHANGED <<sub, clients, hs, issued, cancels, queue, signalingQueue, cur, lastSignal,
                  inv, ctx, cancelled>>
  BY DEF SelectDone, handlerVars, workerVars, ctxVars
<1>7. RunningHasGoroutine'
  BY <1>1, <1>2, <1>6, RunningSafe DEF IInv, GoroutineMoves, Serving, NoneBeginsToRun, TypeOK
<1> QED BY <1>1, <1>2, <1>6, <1>7, GoroutineStepSafe
  DEF TypeOK, NoneBeginsToRun

\* The stop token sends the goroutine to its exit.
LEMMA SelectStopSafe ==
    ASSUME IInv, NEW n \in Req, SelectStop(n) PROVE IInv'
<1> DEFINE s == gs[n].sc
           y == [sub[s] EXCEPT !.stop = 0]
<1>1. n \in Process /\ TypeOK /\ s \in Req /\ gs[n].pc # "none" /\ sub[s] \in SubRecord
  BY DEF SelectStop, Process, IInv, GoroutineInv, TypeOK, AtSelect
<1>2. GoroutineMoves(n) /\ (Serving(n) => Serving(n)')
  BY <1>1, GoroutineToMoves DEF SelectStop, Serving, AtSelect
<1>3. y \in SubRecord /\ (y.running => sub[s].running)
  BY <1>1 DEF SubRecord
<1>4. NoneBeginsToRun
  BY <1>1, <1>3, SubWrite DEF SelectStop
<1>6. UNCHANGED <<clients, hs, issued, cancels, queue, signalingQueue, cur, lastSignal, inv,
                  ctx, cancelled>>
  BY DEF SelectStop, handlerVars, workerVars, ctxVars
<1>7. RunningHasGoroutine'
  BY <1>2, <1>4, RunningSafe DEF IInv, GoroutineMoves, Serving, NoneBeginsToRun, TypeOK
<1> QED BY <1>1, <1>2, <1>4, <1>6, <1>7, GoroutineStepSafe
  DEF TypeOK, NoneBeginsToRun

\* A tick keeps the goroutine in its loop.
LEMMA SelectTickSafe ==
    ASSUME IInv, NEW n \in Req, SelectTick(n) PROVE IInv'
<1>1. TypeOK /\ gs[n].pc # "none"
  BY DEF SelectTick, IInv, AtSelect
<1>2. GoroutineMoves(n) /\ (Serving(n) => Serving(n)')
  BY <1>1, GoroutineToMoves DEF SelectTick, Serving, AtSelect
<1>6. UNCHANGED <<sub, clients, hs, issued, cancels, queue, signalingQueue, cur, lastSignal,
                  inv, ctx, cancelled>>
  BY DEF SelectTick, handlerVars, workerVars, ctxVars
<1>7. RunningHasGoroutine'
  BY <1>1, <1>2, <1>6, RunningSafe DEF IInv, GoroutineMoves, Serving, NoneBeginsToRun, TypeOK
<1> QED BY <1>1, <1>2, <1>6, <1>7, GoroutineStepSafe
  DEF TypeOK, NoneBeginsToRun

\* An expired lease sends the goroutine to its exit.
LEMMA ExpireSafe ==
    ASSUME IInv, NEW n \in Req, Expire(n) PROVE IInv'
<1>1. TypeOK /\ gs[n].pc # "none"
  BY DEF Expire, IInv
<1>2. GoroutineMoves(n) /\ (Serving(n) => Serving(n)')
  BY <1>1, GoroutineToMoves DEF Expire, Serving
<1>6. UNCHANGED <<sub, clients, hs, issued, cancels, queue, signalingQueue, cur, lastSignal,
                  inv, ctx, cancelled>>
  BY DEF Expire, handlerVars, workerVars, ctxVars
<1>7. RunningHasGoroutine'
  BY <1>1, <1>2, <1>6, RunningSafe DEF IInv, GoroutineMoves, Serving, NoneBeginsToRun, TypeOK
<1> QED BY <1>1, <1>2, <1>6, <1>7, GoroutineStepSafe
  DEF TypeOK, NoneBeginsToRun

\* A tick that serves keeps the goroutine in its loop.
LEMMA ServeSafe ==
    ASSUME IInv, NEW n \in Req, Serve(n) PROVE IInv'
<1> DEFINE s == gs[n].sc
           y == [sub[s] EXCEPT !.runningInterval = sub[s].interval]
<1>1. n \in Process /\ TypeOK /\ s \in Req /\ gs[n].pc # "none" /\ sub[s] \in SubRecord
  BY DEF Serve, Process, IInv, GoroutineInv, TypeOK
<1>2. GoroutineMoves(n) /\ (Serving(n) => Serving(n)')
  BY <1>1, GoroutineToMoves DEF Serve, Serving
<1>3. y \in SubRecord /\ (y.running => sub[s].running)
  BY <1>1 DEF SubRecord
<1>4. NoneBeginsToRun
  BY <1>1, <1>3, SubWrite DEF Serve
<1>5. queue' \in [Worker -> Channel]
  BY <1>1, OnceType DEF Serve, TypeOK
<1>6. UNCHANGED <<clients, hs, issued, cancels, signalingQueue, cur, lastSignal, inv,
                  ctx, cancelled>>
  BY DEF Serve, handlerVars, workerVars, ctxVars
<1>7. RunningHasGoroutine'
  BY <1>2, <1>4, RunningSafe DEF IInv, GoroutineMoves, Serving, NoneBeginsToRun, TypeOK
<1> QED BY <1>1, <1>2, <1>4, <1>5, <1>6, <1>7, GoroutineStepSafe
  DEF TypeOK, NoneBeginsToRun

\* setRunning(false): no flag is left to the goroutine that stops serving.
LEMMA StopRunningSafe ==
    ASSUME IInv, NEW n \in Req, StopRunning(n) PROVE IInv'
<1> DEFINE s == gs[n].sc
           y == [sub[s] EXCEPT !.running = FALSE]
<1>1. TypeOK /\ s \in Req /\ gs[n].pc # "none" /\ sub[s] \in SubRecord
  BY DEF StopRunning, IInv, GoroutineInv, TypeOK
<1>2. GoroutineMoves(n)
  BY <1>1, GoroutineToMoves DEF StopRunning
<1>3. y \in SubRecord /\ ~ y.running
  BY <1>1 DEF SubRecord
<1>4. /\ sub' \in [Req -> SubRecord] /\ ~ sub'[s].running
      /\ \A t \in Req : t # s => sub'[t] = sub[t]
  BY <1>1, <1>3, SubUpdate DEF StopRunning, TypeOK
<1>5. UNCHANGED <<clients, hs, issued, cancels, queue, signalingQueue, cur,
                  lastSignal, inv, ctx, cancelled>>
  BY DEF StopRunning, handlerVars, workerVars, ctxVars
<1>6. ASSUME NEW t \in Req, sub'[t].running
      PROVE  \E m \in Req : gs'[m].sc = t /\ Serving(m)'
  <2>1. t # s /\ sub[t].running
    BY <1>4, <1>6
  <2>2. PICK m \in Req : gs[m].sc = t /\ Serving(m)
    BY <2>1 DEF IInv, RunningHasGoroutine
  <2> QED BY <1>2, <2>1, <2>2 DEF GoroutineMoves, Serving
<1> QED BY <1>1, <1>2, <1>4, <1>5, <1>6, GoroutineStepSafe DEF TypeOK, RunningHasGoroutine

\* The cancel is the last word of a goroutine.
LEMMA SendSignalingCancelSafe ==
    ASSUME IInv, NEW n \in Req, SendSignalingCancel(n) PROVE IInv'
<1> DEFINE s == gs[n].sc
           y == [sub[s] EXCEPT !.signaling = "cancel"]
<1>1. n \in Process /\ TypeOK /\ s \in Req /\ gs[n].pc # "none" /\ sub[s] \in SubRecord
  BY DEF SendSignalingCancel, Process, IInv, GoroutineInv, TypeOK
<1>2. GoroutineMoves(n) /\ (Serving(n) => Serving(n)')
  BY <1>1, GoroutineToMoves DEF SendSignalingCancel, Serving
<1>3. y \in SubRecord /\ (y.running => sub[s].running)
  BY <1>1 DEF SubRecord
<1>4. NoneBeginsToRun
  BY <1>1, <1>3, SubWrite DEF SendSignalingCancel
<1>5. signalingQueue' \in [Worker -> Channel]
  BY <1>1, OnceType DEF SendSignalingCancel, TypeOK
<1>6. UNCHANGED <<clients, hs, issued, cancels, queue, cur, lastSignal, inv,
                  ctx, cancelled>>
  BY DEF SendSignalingCancel, handlerVars, workerVars, ctxVars
<1>7. RunningHasGoroutine'
  BY <1>2, <1>4, RunningSafe DEF IInv, GoroutineMoves, Serving, NoneBeginsToRun, TypeOK
<1> QED BY <1>1, <1>2, <1>4, <1>5, <1>6, <1>7, GoroutineStepSafe
  DEF TypeOK, NoneBeginsToRun

-----------------------------------------------------------------------------
\* The worker, the inventory and the clock start and stop nothing.
LEMMA WorkerSafe ==
    ASSUME IInv, NEW w \in Worker, WorkerStep(w) PROVE IInv'
<1>1. TypeOK /\ NoneBeginsToRun /\ UNCHANGED <<hs, gs, issued, ctx, cancelled>>
  BY DEF WorkerStep, TakeMessage, TakeSignaling, Transmit, TransmitFails, IInv, TypeOK,
         NoneBeginsToRun, handlerVars, ctxVars
<1>2. CASE TakeMessage(w)
  <2>1. Tail(queue[w]) \in Channel
    BY <1>1, <1>2, TailType DEF TakeMessage, TypeOK
  <2> QED BY <1>1, <1>2, <2>1, OtherStepSafe DEF TakeMessage, handlerVars, TypeOK
<1>3. CASE TakeSignaling(w)
  <2>1. Tail(signalingQueue[w]) \in Channel /\ Head(signalingQueue[w]).sc \in Req
    BY <1>1, <1>3, TailType DEF TakeSignaling, TypeOK
  <2>2. Head(signalingQueue[w]).sc \in 0 .. MaxRequests
    BY <2>1 DEF Req
  <2> QED BY <1>1, <1>3, <2>1, <2>2, OtherStepSafe
      DEF TakeSignaling, handlerVars, TypeOK
<1>4. CASE Transmit(w) \/ TransmitFails(w)
  <2>1. cur[w] \in Req
    BY <1>1, <1>4, ConstantsAssumption DEF Transmit, TransmitFails, TypeOK, Req
  <2>2. sub[cur[w]].signaling \in {"none", "grant", "deny", "cancel"}
    BY <1>1, <2>1 DEF TypeOK, SubRecord
  <2>3. lastSignal' \in [Key -> {"none", "grant", "deny", "cancel", "lost"}]
    BY <1>1, <1>4, <2>2 DEF Transmit, TransmitFails, TypeOK
  <2>4. cur' \in [Worker -> 0 .. MaxRequests]
    BY <1>1, <1>4, ConstantsAssumption DEF Transmit, TransmitFails, TypeOK
  <2>5. TypeOK'
    BY <1>1, <1>4, <2>3, <2>4 DEF Transmit, TransmitFails, handlerVars, ctxVars, TypeOK
  <2> QED BY <1>1, <2>5, OtherStepSafe
<1> QED BY <1>2, <1>3, <1>4 DEF WorkerStep

InvRecord == [locked : BOOLEAN, todo : SUBSET Key, del : Key \cup {None}]

\* The inventory removes entries of the client table and nothing else.
LEMMA InventorySafe ==
    ASSUME IInv, NEW w \in Worker, InventoryLock(w) \/ InventoryStep(w) PROVE IInv'
<1>1. TypeOK /\ inv \in [Worker -> InvRecord] /\ inv[w] \in InvRecord
  BY DEF IInv, TypeOK, InvRecord
<1>2. UNCHANGED <<sub, hs, issued, cancels, gs, queue, signalingQueue, cur,
                  lastSignal, ctx, cancelled>>
  BY DEF InventoryLock, InventoryStep, InventoryVisit, InventoryDelete,
         InventoryUnlock, handlerVars, workerVars, ctxVars
<1>3. ASSUME inv' \in [Worker -> InvRecord], clients' \in [Key -> 0 .. MaxRequests]
      PROVE  IInv'
  BY <1>1, <1>2, <1>3, OtherStepSafe DEF TypeOK, NoneBeginsToRun, InvRecord
<1>4. CASE InventoryLock(w)
  <2>1. inv' \in [Worker -> InvRecord]
    BY <1>1, <1>4 DEF InventoryLock, InvRecord
  <2> QED BY <1>1, <1>3, <1>4, <2>1 DEF InventoryLock, TypeOK
<1>5. ASSUME NEW k \in Key, InventoryVisit(w, k) PROVE IInv'
  <2> DEFINE d == IF sub[clients[k]].running THEN None ELSE k
  <2>1. d \in Key \cup {None}
    OBVIOUS
  <2>2. inv' = [inv EXCEPT ![w] = [inv[w] EXCEPT !.todo = inv[w].todo \ {k}, !.del = d]]
    BY <1>1, <1>5 DEF InventoryVisit, InvRecord
  <2> HIDE DEF d
  <2>3. [inv[w] EXCEPT !.todo = inv[w].todo \ {k}, !.del = d] \in InvRecord
    BY <1>1, <2>1 DEF InvRecord
  <2>4. inv' \in [Worker -> InvRecord]
    BY <1>1, <2>2, <2>3
  <2> QED BY <1>1, <1>3, <1>5, <2>4 DEF InventoryVisit, TypeOK
<1>6. CASE InventoryDelete(w)
  <2>1. inv' \in [Worker -> InvRecord]
    BY <1>1, <1>6 DEF InventoryDelete, InvRecord
  <2>2. clients' \in [Key -> 0 .. MaxRequests]
    BY <1>1, <1>6, ConstantsAssumption DEF InventoryDelete, TypeOK
  <2> QED BY <1>3, <2>1, <2>2
<1>7. CASE InventoryUnlock(w)
  <2>1. inv' \in [Worker -> InvRecord]
    BY <1>1, <1>7 DEF InventoryUnlock, InvRecord
  <2> QED BY <1>1, <1>3, <1>7, <2>1 DEF InventoryUnlock, TypeOK
<1> QED BY <1>4, <1>5, <1>6, <1>7 DEF InventoryStep

\* The clock only makes leases expire.
LEMMA LapseSafe ==
    ASSUME IInv, NEW n \in Req, Lapse(n) PROVE IInv'
<1> DEFINE y == [sub[n] EXCEPT !.expired = TRUE]
<1>1. TypeOK /\ sub[n] \in SubRecord
  BY DEF IInv, TypeOK
<1>2. y \in SubRecord /\ (y.running => sub[n].running)
  BY <1>1 DEF SubRecord
<1>3. NoneBeginsToRun
  BY <1>1, <1>2, SubWrite DEF Lapse
<1>4. UNCHANGED <<clients, hs, issued, cancels, gs, queue, signalingQueue, cur,
                  lastSignal, inv, ctx, cancelled>>
  BY DEF Lapse, handlerVars, workerVars, ctxVars
<1>5. TypeOK'
  BY <1>1, <1>3, <1>4 DEF TypeOK, NoneBeginsToRun
<1> QED BY <1>3, <1>4, <1>5, OtherStepSafe

\* Drain cancels the current context and Undrain leaves it behind cancelled.
LEMMA DrainSafe ==
    ASSUME IInv, Drain \/ Undrain PROVE IInv'
<1>1. TypeOK /\ UNCHANGED <<sub, clients, hs, issued, cancels, gs, queue,
                            signalingQueue, cur, lastSignal, inv>>
  BY DEF Drain, Undrain, IInv, handlerVars, workerVars
<1>2. HandlerInv' /\ NumberInv' /\ RunningHasGoroutine'
  BY <1>1 DEF IInv, HandlerInv, NumberInv, RunningHasGoroutine, HoldsNumber,
              HoldsSub, Serving
<1>3. ctx \in 1 .. MaxCtx /\ cancelled \in SUBSET (1 .. MaxCtx)
  BY <1>1 DEF TypeOK
<1>4. CASE Drain
  <2>1. TypeOK'
    BY <1>1, <1>3, <1>4 DEF Drain, TypeOK
  <2>2. GoroutineInv' /\ CtxInv'
    BY <1>1, <1>4 DEF Drain, IInv, GoroutineInv, CtxInv
  <2> QED BY <1>2, <2>1, <2>2 DEF IInv
<1>5. CASE Undrain
  <2>1. ctx' = ctx + 1 /\ ctx \in cancelled /\ ctx < MaxCtx /\ UNCHANGED cancelled
    BY <1>5 DEF Undrain, Drained
  <2>2. TypeOK'
    BY <1>1, <1>3, <2>1, ConstantsAssumption DEF TypeOK
  <2>3. GoroutineInv'
    BY <1>1, <1>3, <2>1, ConstantsAssumption DEF IInv, GoroutineInv
  <2>4. CtxInv'
    BY <1>3, <2>1, ConstantsAssumption DEF IInv, CtxInv
  <2> QED BY <1>2, <2>2, <2>3, <2>4 DEF IInv
<1> QED BY <1>4, <1>5

-----------------------------------------------------------------------------
\* The initial state satisfies the invariant.
LEMMA InitIInv == Init => IInv
<1> SUFFICES ASSUME Init PROVE IInv
  OBVIOUS
<1> USE ConstantsAssumption
<1>1. NoSub \in SubRecord /\ ~ NoSub.running
  BY DEF NoSub, SubRecord
<1>2. NoGoroutine \in GoroutineRecord /\ NoGoroutine.pc = "none"
  BY DEF NoGoroutine, GoroutineRecord
<1>3. << >> \in Channel
  BY DEF Channel
<1>4. TypeOK
  BY <1>1, <1>2, <1>3, IdleType DEF Init, TypeOK
<1>5. HandlerInv /\ NumberInv /\ GoroutineInv
  BY <1>2, IdleType DEF Init, HandlerInv, NumberInv, GoroutineInv, HoldsNumber, HoldsSub
<1>6. CtxInv /\ RunningHasGoroutine
  BY <1>1 DEF Init, CtxInv, RunningHasGoroutine
<1> QED BY <1>4, <1>5, <1>6 DEF IInv

\* Every step preserves it.
LEMMA NextIInv == IInv /\ [Next]_vars => IInv'
<1> SUFFICES ASSUME IInv, [Next]_vars PROVE IInv'
  OBVIOUS
<1>1. CASE UNCHANGED vars
  BY <1>1 DEF vars, IInv, TypeOK, HandlerInv, GoroutineInv, NumberInv, CtxInv,
              RunningHasGoroutine, HoldsNumber, HoldsSub, Serving
<1>2. ASSUME NEW h \in General, GeneralStep(h) PROVE IInv'
  BY <1>2, CheckRunningSafe, RegisterSafe, RenewExpireSafe, RenewIntervalSafe,
     RejectSafe, GrantSafe, LaunchSafe, StopSafe, StopUnblocksSafe DEF GeneralStep
<1>3. ASSUME NEW e \in Event, EventStep(e) PROVE IInv'
  BY <1>3, SptpRegisterSafe, SptpStartSafe, BumpSafe, EventOnceSafe DEF EventStep
<1>4. ASSUME NEW n \in Req, GoroutineStep(n) PROVE IInv'
  BY <1>4, StartRunningSafe, NewTickerSafe, SelectDoneSafe, SelectStopSafe,
     SelectTickSafe, ExpireSafe, ServeSafe, StopRunningSafe,
     SendSignalingCancelSafe DEF GoroutineStep
<1> QED BY <1>1, <1>2, <1>3, <1>4, RequestTLVSafe, CancelTLVSafe,
           SptpDelayRequestSafe, DelayRequestSafe, LapseSafe, WorkerSafe,
           InventorySafe, DrainSafe DEF Next

\* IInv is an invariant.
THEOREM Invariance == Spec => []IInv
BY InitIInv, NextIInv, PTL DEF Spec

\* Type correctness of handlers, goroutines, channels and the client table.
THEOREM TypeCorrect == Spec => []TypeOK
<1>1. IInv => TypeOK
  BY DEF IInv
<1> QED BY <1>1, Invariance, PTL

(***************************************************************************)
(* Drain reaches every goroutine: the numbers of contexts grow, Undrain    *)
(* replaces a context only after it was cancelled (CtxInv), and a go       *)
(* statement passes the context of its own moment (GoroutineInv).          *)
(***************************************************************************)
THEOREM DrainReachesAll == Spec => []NoSurvivor
<1>1. IInv => NoSurvivor
  BY DEF IInv, TypeOK, GoroutineInv, CtxInv, NoSurvivor, Live
<1> QED BY <1>1, Invariance, PTL

(***************************************************************************)
(* The running flag is never a leftover: the number of a request is used   *)
(* for one goroutine only (NumberInv), so no go statement can replace a    *)
(* goroutine that serves.                                                  *)
(***************************************************************************)
THEOREM RunningIsServed == Spec => []RunningHasGoroutine
<1>1. IInv => RunningHasGoroutine
  BY DEF IInv
<1> QED BY <1>1, Invariance, PTL

=============================================================================
