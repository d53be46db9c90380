---------------------------- MODULE GrantProofs -----------------------------
(***************************************************************************)
(* Proofs that no subscription ends silently (NoSilentEnd), and that no    *)
(* mutex is kept but by a Stop that blocks (OnlyStopWaits), for any number *)
(* of clients, handlers, workers and requests and any queue size.          *)
(***************************************************************************)
EXTENDS SubscriptionProofs

(***************************************************************************)
(* The locals of a handler.  Before it registers, the SubscriptionClient   *)
(* of its number does not exist; later on, the one it holds is of its key. *)
(***************************************************************************)
HandlerKeys(h) ==
    /\ hs[h].pc \in {"check", "register", "sptpnew"} =>
           hs[h].key \in Key /\ sub[hs[h].n].key = None
    /\ hs[h].pc \in {"check", "register"} => KeyType[hs[h].key] # DelayReq
    /\ hs[h].pc = "check" /\ hs[h].sc # 0 => sub[hs[h].sc].key = hs[h].key
    /\ hs[h].pc \in {"setexpire", "setinterval", "answer", "launch"} =>
           /\ hs[h].key \in Key /\ KeyType[hs[h].key] # DelayReq
           /\ sub[hs[h].sc].key = hs[h].key

\* The client table is keyed by what its entries serve; unissued numbers are free.
KeyInv ==
    /\ \A h \in Handler : HandlerKeys(h)
    /\ \A k \in Key : clients[k] # 0 => sub[clients[k]].key = k
    /\ \A n \in Req : n > issued => sub[n].key = None

(***************************************************************************)
(* Why a client may believe in a grant: a handler is about to launch the   *)
(* goroutine, a goroutine is alive, or another answer is on its way, which *)
(* will correct it.                                                        *)
(***************************************************************************)
Launching(k) == \E h \in Handler : hs[h].pc = "launch" /\ hs[h].key = k

Waiting(k) ==
    \E w \in Worker :
        \/ cur[w] # 0 /\ sub[cur[w]].key = k
        \/ \E i \in 1 .. Len(signalingQueue[w]) : sub[signalingQueue[w][i].sc].key = k

Served(k) == \E n \in Req : Live(n) /\ sub[gs[n].sc].key = k

\* The same for the packet that the next answer of s is marshalled from.
LaunchingSub(s) == \E h \in Handler : hs[h].pc = "launch" /\ hs[h].sc = s
ServedSub(s) == \E n \in Req : Live(n) /\ gs[n].sc = s

\* The packet of a subscription says grant only while it is served or about to be.
SignalInv ==
    \A s \in Req : sub[s].signaling = "grant" =>
        KeyType[sub[s].key] # DelayReq /\ (LaunchingSub(s) \/ ServedSub(s))

\* A client was last told a grant only if it is served or will be told more.
LastInv ==
    \A k \in Key : lastSignal[k] = "grant" =>
        KeyType[k] # DelayReq /\ (Launching(k) \/ Waiting(k) \/ Served(k))

GrantInv == KeyInv /\ SignalInv /\ LastInv

-----------------------------------------------------------------------------
(***************************************************************************)
(* The ways in which a step may touch what the invariant is about.         *)
(***************************************************************************)
\* No key and no signaling packet is written.
SubsKept ==
    \A t \in Req : sub'[t].key = sub[t].key /\ sub'[t].signaling = sub[t].signaling

\* No goroutine ends, and none is replaced.
GoroutinesKept == \A n \in Req : Live(n) => Live(n)' /\ gs'[n].sc = gs[n].sc

\* Keys are given once.
KeysKept == \A t \in Req : sub[t].key # None => sub'[t].key = sub[t].key

\* The references that a state holds are subscriptions.
LEMMA References ==
    ASSUME IInv
    PROVE  /\ \A h \in Handler : hs[h].pc \in {"check", "register", "sptpnew"} => hs[h].n \in Req
           /\ \A h \in Handler : hs[h].pc = "check" /\ hs[h].sc # 0 => hs[h].sc \in Req
           /\ \A h \in Handler :
                  hs[h].pc \in {"setexpire", "setinterval", "answer", "launch"} => hs[h].sc \in Req
           /\ \A k \in Key : clients[k] # 0 => clients[k] \in Req
           /\ \A n \in Req : Live(n) => gs[n].sc \in Req
           /\ \A w \in Worker : cur[w] # 0 => cur[w] \in Req
           /\ \A w \in Worker : \A i \in 1 .. Len(signalingQueue[w]) :
                  signalingQueue[w][i].sc \in Req
<1> USE ConstantsAssumption
<1>1. \A x \in 0 .. MaxRequests : x # 0 => x \in Req
  BY DEF Req
<1>2. \A h \in Handler : hs[h].pc \in {"check", "register", "sptpnew"} => hs[h].n \in Req
  <2>1. 1 .. issued \subseteq Req
    BY DEF IInv, TypeOK, Req
  <2> QED BY <2>1 DEF IInv, HandlerInv, HoldsNumber
<1>3. \A h \in Handler : hs[h].sc \in 0 .. MaxRequests
  BY DEF IInv, TypeOK, HandlerRecord
<1>4. \A h \in Handler :
          hs[h].pc \in {"setexpire", "setinterval", "answer", "launch"} => hs[h].sc \in Req
  BY DEF IInv, HandlerInv, HoldsSub
<1>5. \A k \in Key : clients[k] \in 0 .. MaxRequests
  BY DEF IInv, TypeOK
<1>6. \A n \in Req : Live(n) => gs[n].sc \in Req
  BY DEF IInv, GoroutineInv, Live
<1>7. \A w \in Worker : cur[w] \in 0 .. MaxRequests
  BY DEF IInv, TypeOK
<1>8. ASSUME NEW w \in Worker, NEW i \in 1 .. Len(signalingQueue[w])
      PROVE  signalingQueue[w][i].sc \in Req
  <2>1. signalingQueue[w] \in Seq([by : Process, sc : Req])
    BY DEF IInv, TypeOK, Channel
  <2>2. signalingQueue[w][i] \in [by : Process, sc : Req]
    BY <2>1, ElementOfSeq
  <2> QED BY <2>2
<1> QED BY <1>1, <1>2, <1>3, <1>4, <1>5, <1>6, <1>7, <1>8

(***************************************************************************)
(* What each reason to believe in a grant depends on.                      *)
(***************************************************************************)
LEMMA ServedKept ==
    ASSUME IInv, KeysKept, GoroutinesKept, NEW k \in Key, Served(k)
    PROVE  Served(k)'
<1>1. PICK n \in Req : Live(n) /\ sub[gs[n].sc].key = k
  BY DEF Served
<1>2. k # None /\ gs[n].sc \in Req
  BY <1>1, References, ConstantsAssumption
<1> QED BY <1>1, <1>2 DEF Served, KeysKept, GoroutinesKept

\* An answer stays on its way while the worker does not touch its queue.
LEMMA WaitingKept ==
    ASSUME IInv, KeysKept, UNCHANGED <<signalingQueue, cur>>, NEW k \in Key, Waiting(k)
    PROVE  Waiting(k)'
<1>1. k # None
  BY ConstantsAssumption
<1>2. PICK w \in Worker : \/ cur[w] # 0 /\ sub[cur[w]].key = k
                          \/ \E i \in 1 .. Len(signalingQueue[w]) :
                                 sub[signalingQueue[w][i].sc].key = k
  BY DEF Waiting
<1>3. CASE cur[w] # 0 /\ sub[cur[w]].key = k
  BY <1>1, <1>3, References DEF Waiting, KeysKept
<1>4. ASSUME NEW i \in 1 .. Len(signalingQueue[w]), sub[signalingQueue[w][i].sc].key = k
      PROVE  Waiting(k)'
  <2>1. sub'[signalingQueue'[w][i].sc].key = k
    BY <1>1, <1>4, References DEF KeysKept
  <2> QED BY <2>1 DEF Waiting
<1> QED BY <1>2, <1>3, <1>4

\* The answer that OnceSignaling queues for s; those before it stay.
LEMMA WaitingGrows ==
    ASSUME IInv, NEW s \in Req, NEW p, OnceSignaling(p, s), SubsKept \/ KeysKept,
           UNCHANGED cur, NEW k \in Key, Waiting(k) \/ sub[s].key = k
    PROVE  Waiting(k)'
<1>1. k # None /\ KeysKept
  BY ConstantsAssumption DEF SubsKept, KeysKept
<1> DEFINE v == Home[sub[s].key]
           m == [by |-> p, sc |-> s]
<1>2. signalingQueue' = [signalingQueue EXCEPT ![v] = Append(signalingQueue[v], m)]
  BY DEF OnceSignaling, Send
<1>3. signalingQueue \in [Worker -> Channel]
  BY DEF IInv, TypeOK
<1>4. ASSUME NEW w \in Worker, NEW i \in 1 .. Len(signalingQueue[w])
      PROVE  i \in 1 .. Len(signalingQueue'[w]) /\ signalingQueue'[w][i].sc = signalingQueue[w][i].sc
  <2>1. signalingQueue[w] \in Seq([by : Process, sc : Req])
    BY <1>3 DEF Channel
  <2>2. CASE w # v
    BY <1>2, <1>3, <2>2
  <2>3. CASE w = v
    <3>1. signalingQueue'[w] = Append(signalingQueue[w], m)
      BY <1>2, <1>3, <2>3
    <3> HIDE DEF m
    <3> QED BY <2>1, <3>1
  <2> QED BY <2>2, <2>3
<1>5. CASE sub[s].key = k
  <2>1. v \in Worker
    BY <1>5, ConstantsAssumption
  <2>2. signalingQueue[v] \in Seq([by : Process, sc : Req]) /\ signalingQueue'[v] = Append(signalingQueue[v], m)
    BY <1>2, <1>3, <2>1 DEF Channel
  <2>3. /\ Len(signalingQueue[v]) + 1 \in 1 .. Len(signalingQueue'[v])
        /\ signalingQueue'[v][Len(signalingQueue[v]) + 1] = m
    <3> HIDE DEF m, v
    <3> QED BY <2>2
  <2>4. m.sc = s /\ sub'[s].key = k
    BY <1>1, <1>5 DEF KeysKept
  <2> QED BY <2>1, <2>3, <2>4 DEF Waiting
<1>6. CASE Waiting(k)
  <2>1. PICK w \in Worker : \/ cur[w] # 0 /\ sub[cur[w]].key = k
                            \/ \E i \in 1 .. Len(signalingQueue[w]) :
                                   sub[signalingQueue[w][i].sc].key = k
    BY <1>6 DEF Waiting
  <2>2. CASE cur[w] # 0 /\ sub[cur[w]].key = k
    BY <1>1, <2>2, References DEF Waiting, KeysKept
  <2>3. ASSUME NEW i \in 1 .. Len(signalingQueue[w]), sub[signalingQueue[w][i].sc].key = k
        PROVE  Waiting(k)'
    <3>1. sub'[signalingQueue'[w][i].sc].key = k /\ i \in 1 .. Len(signalingQueue'[w])
      BY <1>1, <1>4, <2>3, References DEF KeysKept
    <3> QED BY <3>1 DEF Waiting
  <2> QED BY <2>1, <2>2, <2>3
<1> QED BY <1>5, <1>6

-----------------------------------------------------------------------------
(***************************************************************************)
(* Steps that answer nobody: keys and packets stay as they are, goroutines *)
(* live on, no handler leaves "launch", the table may only lose entries.   *)
(***************************************************************************)
LEMMA QuietStep ==
    ASSUME IInv, GrantInv, SubsKept, GoroutinesKept,
           UNCHANGED <<signalingQueue, cur, lastSignal>>,
           issued' = issued \/ issued' = issued + 1,
           \A k \in Key : clients'[k] = clients[k] \/ clients'[k] = 0,
           \A h \in Handler :
               hs'[h] = hs[h] \/ (hs[h].pc # "launch" /\ HandlerKeys(h)')
    PROVE  GrantInv'
<1>1. KeysKept
  BY DEF SubsKept, KeysKept
<1>2. KeyInv'
  <2>1. ASSUME NEW h \in Handler, hs'[h] = hs[h]
        PROVE  HandlerKeys(h)'
    <3>1. HandlerKeys(h)
      BY DEF GrantInv, KeyInv
    <3> QED BY <2>1, <3>1, References DEF HandlerKeys, SubsKept
  <2>2. \A k \in Key : clients'[k] # 0 => sub'[clients'[k]].key = k
    BY References DEF GrantInv, KeyInv, SubsKept
  <2>3. \A n \in Req : n > issued' => n > issued
    BY ConstantsAssumption DEF IInv, TypeOK, Req
  <2>4. \A n \in Req : n > issued' => sub'[n].key = None
    BY <2>3 DEF GrantInv, KeyInv, SubsKept
  <2> QED BY <2>1, <2>2, <2>4 DEF KeyInv
<1>3. SignalInv'
  <2> SUFFICES ASSUME NEW s \in Req, sub'[s].signaling = "grant"
               PROVE  KeyType[sub'[s].key] # DelayReq /\ (LaunchingSub(s)' \/ ServedSub(s)')
    BY DEF SignalInv
  <2>1. KeyType[sub[s].key] # DelayReq /\ (LaunchingSub(s) \/ ServedSub(s))
    BY DEF GrantInv, SignalInv, SubsKept
  <2>2. LaunchingSub(s) => LaunchingSub(s)'
    BY DEF LaunchingSub
  <2>3. ServedSub(s) => ServedSub(s)'
    BY DEF ServedSub, GoroutinesKept
  <2> QED BY <2>1, <2>2, <2>3 DEF SubsKept
<1>4. LastInv'
  <2> SUFFICES ASSUME NEW k \in Key, lastSignal'[k] = "grant"
               PROVE  KeyType[k] # DelayReq /\ (Launching(k)' \/ Waiting(k)' \/ Served(k)')
    BY DEF LastInv
  <2>1. KeyType[k] # DelayReq /\ (Launching(k) \/ Waiting(k) \/ Served(k))
    BY DEF GrantInv, LastInv
  <2>2. Launching(k) => Launching(k)'
    BY DEF Launching
  <2> QED BY <1>1, <2>1, <2>2, ServedKept, WaitingKept
<1> QED BY <1>2, <1>3, <1>4 DEF GrantInv

\* A request, of either kind, finds what the client table has for its key.
LEMMA LookUpQuiet ==
    ASSUME IInv, GrantInv, NEW h \in Handler, NEW k \in Key, NEW x \in HandlerRecord,
           hs' = [hs EXCEPT ![h] = x], hs[h].pc = "idle",
           x.key = k, x.sc # 0 => x.sc = clients[k],
           \/ x.pc \in {"stop", "bump", "once"} /\ issued' = issued
           \/ /\ x.pc \in {"check", "sptpnew"} /\ x.n = issued + 1 /\ issued' = issued + 1
              /\ x.pc = "check" => KeyType[k] # DelayReq
              /\ issued < MaxRequests,
           UNCHANGED <<sub, clients, gs, signalingQueue, cur, lastSignal>>
    PROVE  GrantInv'
<1>1. SubsKept /\ GoroutinesKept
  BY DEF SubsKept, GoroutinesKept, Live
<1>2. hs'[h] = x /\ \A i \in Handler : i # h => hs'[i] = hs[i]
  BY HandlerUpdate DEF IInv, TypeOK
<1>3. HandlerKeys(h)'
  <2>1. CASE x.pc \in {"stop", "bump", "once"}
    BY <1>2, <2>1 DEF HandlerKeys
  <2>2. CASE x.pc \in {"check", "sptpnew"} /\ x.n = issued + 1 /\ issued < MaxRequests
             /\ (x.pc = "check" => KeyType[k] # DelayReq)
    <3>1. x.n \in Req /\ x.n > issued
      BY <2>2, ConstantsAssumption DEF IInv, TypeOK, Req
    <3>2. sub[x.n].key = None
      BY <3>1 DEF GrantInv, KeyInv
    <3>3. x.sc # 0 => sub[x.sc].key = k
      BY DEF GrantInv, KeyInv
    <3> QED BY <1>2, <2>2, <3>2, <3>3 DEF HandlerKeys
  <2> QED BY <2>1, <2>2
<1> QED BY <1>1, <1>2, <1>3, QuietStep

\* RequestTLV, CancelTLV, SptpDelayRequest and DelayRequest.
LEMMA LookUps ==
    ASSUME IInv, GrantInv, NEW k \in Key,
           \/ \E h \in General : CancelTLV(h, k) \/ \E r \in Request : RequestTLV(h, k, r)
           \/ \E e \in Event : SptpDelayRequest(e, k) \/ DelayRequest(e, k)
    PROVE  GrantInv'
<1> USE ConstantsAssumption
<1>1. /\ clients[k] \in 0 .. MaxRequests /\ issued \in 0 .. MaxRequests
      /\ General \subseteq Handler /\ Event \subseteq Handler
  BY DEF IInv, TypeOK, Handler
<1>2. ASSUME NEW h \in General, NEW r \in Request, RequestTLV(h, k, r)
      PROVE  GrantInv'
  <2> DEFINE x == [pc |-> "check", key |-> k, n |-> issued + 1, sc |-> clients[k],
                   interval |-> r.interval, duration |-> r.duration]
  <2>1. issued < MaxRequests /\ hs[h].pc = "idle" /\ issued' = issued + 1 /\ KeyType[k] # DelayReq
        /\ hs' = [hs EXCEPT ![h] = x]
    BY <1>2 DEF RequestTLV, Idle
  <2>2. issued + 1 \in 0 .. MaxRequests /\ r.interval \in Int /\ r.duration \in Int
    BY <1>1, <2>1
  <2>3. x \in HandlerRecord
    BY <1>1, <2>2 DEF HandlerRecord
  <2>4. x.pc = "check" /\ x.n = issued + 1 /\ x.key = k /\ x.sc = clients[k]
    OBVIOUS
  <2>5. UNCHANGED <<sub, clients, gs, signalingQueue, cur, lastSignal>>
    BY <1>2 DEF RequestTLV, workerVars
  <2> HIDE DEF x
  <2> QED BY <1>1, <2>1, <2>3, <2>4, <2>5, LookUpQuiet
<1>3. ASSUME NEW h \in General, CancelTLV(h, k)
      PROVE  GrantInv'
  <2>1. UNCHANGED <<sub, clients, gs, signalingQueue, cur, lastSignal, issued>> /\ hs[h].pc = "idle"
    BY <1>3 DEF CancelTLV, Idle, workerVars
  <2>2. CASE UNCHANGED hs
    BY <2>1, <2>2, QuietStep DEF SubsKept, GoroutinesKept, Live
  <2> DEFINE x == [IdleHandler EXCEPT !.pc = "stop", !.key = k, !.sc = clients[k]]
  <2>3. CASE hs' = [hs EXCEPT ![h] = x]
    <3>1. x \in HandlerRecord /\ x.pc = "stop" /\ x.key = k /\ x.sc = clients[k]
      BY <1>1, IdleType DEF HandlerRecord
    <3> HIDE DEF x
    <3> QED BY <1>1, <2>1, <2>3, <3>1, LookUpQuiet
  <2> QED BY <1>3, <2>2, <2>3 DEF CancelTLV
<1>4. ASSUME NEW e \in Event, SptpDelayRequest(e, k)
      PROVE  GrantInv'
  <2>1. UNCHANGED <<sub, clients, gs, signalingQueue, cur, lastSignal>> /\ hs[e].pc = "idle"
    BY <1>4 DEF SptpDelayRequest, Idle, workerVars
  <2> DEFINE x == [IdleHandler EXCEPT !.pc = "sptpnew", !.key = k, !.n = issued + 1]
             y == [IdleHandler EXCEPT !.pc = "bump", !.key = k, !.sc = clients[k]]
  <2>2. CASE issued < MaxRequests /\ issued' = issued + 1 /\ hs' = [hs EXCEPT ![e] = x]
    <3>1. issued + 1 \in 0 .. MaxRequests
      BY <1>1, <2>2
    <3>2. x \in HandlerRecord /\ x.pc = "sptpnew" /\ x.key = k /\ x.n = issued + 1
      BY <3>1, IdleType DEF HandlerRecord
    <3>3. x.sc = 0
      BY DEF IdleHandler
    <3> HIDE DEF x
    <3> QED BY <1>1, <2>1, <2>2, <3>2, <3>3, LookUpQuiet
  <2>3. CASE UNCHANGED issued /\ hs' = [hs EXCEPT ![e] = y]
    <3>1. y \in HandlerRecord /\ y.pc = "bump" /\ y.key = k /\ y.sc = clients[k]
      BY <1>1, IdleType DEF HandlerRecord
    <3> HIDE DEF y
    <3> QED BY <1>1, <2>1, <2>3, <3>1, LookUpQuiet
  <2> QED BY <1>4, <2>2, <2>3 DEF SptpDelayRequest
<1>5. ASSUME NEW e \in Event, DelayRequest(e, k)
      PROVE  GrantInv'
  <2> DEFINE x == [IdleHandler EXCEPT !.pc = "once", !.key = k, !.sc = clients[k]]
  <2>1. UNCHANGED <<sub, clients, gs, signalingQueue, cur, lastSignal, issued>> /\ hs[e].pc = "idle"
        /\ hs' = [hs EXCEPT ![e] = x]
    BY <1>5 DEF DelayRequest, Idle, workerVars
  <2>2. x \in HandlerRecord /\ x.pc = "once" /\ x.key = k /\ x.sc = clients[k]
    BY <1>1, IdleType DEF HandlerRecord
  <2> HIDE DEF x
  <2> QED BY <1>1, <2>1, <2>2, LookUpQuiet
<1> QED BY <1>2, <1>3, <1>4, <1>5

\* A write to other fields of a SubscriptionClient.
LEMMA WriteKept ==
    ASSUME IInv, NEW s \in Req, NEW r, sub' = [sub EXCEPT ![s] = r],
           r.key = sub[s].key, r.signaling = sub[s].signaling
    PROVE  SubsKept
BY DEF IInv, TypeOK, SubsKept

\* GoTo keeps the locals, Return gives them up.
LEMMA GoToKeeps ==
    ASSUME IInv, NEW h \in Handler, NEW pc, GoTo(h, pc)
    PROVE  /\ hs'[h].pc = pc /\ hs'[h].key = hs[h].key
           /\ hs'[h].n = hs[h].n /\ hs'[h].sc = hs[h].sc
           /\ \A i \in Handler : i # h => hs'[i] = hs[i]
<1>1. hs[h] \in HandlerRecord /\ hs \in [Handler -> HandlerRecord]
  BY DEF IInv, TypeOK
<1> QED BY <1>1 DEF GoTo, HandlerRecord

\* A handler that returns has nothing left to keep.
LEMMA ReturnDrops ==
    ASSUME IInv, NEW h \in Handler, Return(h)
    PROVE  /\ hs'[h].pc = "idle" /\ HandlerKeys(h)'
           /\ \A i \in Handler : i # h => hs'[i] = hs[i]
<1>1. hs'[h] = IdleHandler /\ \A i \in Handler : i # h => hs'[i] = hs[i]
  BY HandlerUpdate, IdleType DEF Return, IInv, TypeOK
<1> QED BY <1>1, IdleType DEF HandlerKeys

\* Steps of a handler other than the registration and the answer.
LEMMA HandlersQuiet ==
    ASSUME IInv, GrantInv, NEW h \in Handler,
           \/ CheckRunning(h) \/ RenewExpire(h) \/ RenewInterval(h) \/ Bump(h)
           \/ Stop(h) \/ StopUnblocks(h) \/ EventOnce(h)
    PROVE  GrantInv'
<1> DEFINE s == hs[h].sc
<1>1. UNCHANGED <<clients, gs, signalingQueue, cur, lastSignal, issued>>
  BY DEF CheckRunning, RenewExpire, RenewInterval, Bump, Stop, StopUnblocks, EventOnce,
         workerVars
<1>2. GoroutinesKept
  BY <1>1 DEF GoroutinesKept, Live
<1>3. HandlerKeys(h)
  BY DEF GrantInv, KeyInv
<1>4. SubsKept
  <2>1. CASE CheckRunning(h) \/ EventOnce(h)
    BY <2>1 DEF CheckRunning, EventOnce, SubsKept
  <2>2. CASE RenewExpire(h) \/ RenewInterval(h) \/ Bump(h) \/ Stop(h) \/ StopUnblocks(h)
    <3>1. s \in Req
      BY <2>2 DEF IInv, HandlerInv, HoldsSub, RenewExpire, RenewInterval, Bump, Stop, StopUnblocks
    <3>2. sub[s] \in SubRecord
      BY <3>1 DEF IInv, TypeOK
    <3>3. PICK y \in {[sub[s] EXCEPT !.expired = FALSE, !.duration = hs[h].duration],
                      [sub[s] EXCEPT !.interval = hs[h].interval],
                      [sub[s] EXCEPT !.expired = FALSE, !.duration = SptpInterval],
                      [sub[s] EXCEPT !.expired = TRUE],
                      [sub[s] EXCEPT !.expired = TRUE, !.stop = 1],
                      [sub[s] EXCEPT !.expired = TRUE, !.holder = h],
                      [sub[s] EXCEPT !.stop = 1, !.holder = None]} :
                sub' = [sub EXCEPT ![s] = y]
      BY <2>2 DEF RenewExpire, RenewInterval, Bump, Stop, StopUnblocks
    <3>4. y.key = sub[s].key /\ y.signaling = sub[s].signaling
      BY <3>2, <3>3 DEF SubRecord
    <3> HIDE DEF s
    <3> QED BY <3>1, <3>3, <3>4, WriteKept
  <2> QED BY <2>1, <2>2
<1>5. ASSUME NEW pc, GoTo(h, pc),
             \/ pc = "register" /\ hs[h].pc = "check"
             \/ pc = "setexpire" /\ hs[h].pc = "check" /\ hs[h].sc # 0
             \/ pc = "setinterval" /\ hs[h].pc = "setexpire"
             \/ pc = "answer" /\ hs[h].pc = "setinterval"
             \/ pc \in {"once", "stopping"} /\ hs[h].pc # "launch"
      PROVE  GrantInv'
  <2>1. /\ hs'[h].pc = pc /\ hs'[h].key = hs[h].key
        /\ hs'[h].n = hs[h].n /\ hs'[h].sc = hs[h].sc
        /\ \A i \in Handler : i # h => hs'[i] = hs[i]
    BY <1>5, GoToKeeps
  <2>2. hs[h].pc # "launch"
    BY <1>5
  <2>3. HandlerKeys(h)'
    BY <1>3, <1>4, <1>5, <2>1, References DEF HandlerKeys, SubsKept
  <2> QED BY <1>1, <1>2, <1>4, <2>1, <2>2, <2>3, QuietStep
<1>6. ASSUME Return(h), hs[h].pc # "launch"
      PROVE  GrantInv'
  BY <1>1, <1>2, <1>4, <1>6, ReturnDrops, QuietStep
<1>7. CASE CheckRunning(h)
  BY <1>5, <1>7 DEF CheckRunning
<1>8. CASE RenewExpire(h) \/ RenewInterval(h) \/ Bump(h)
  BY <1>5, <1>8 DEF RenewExpire, RenewInterval, Bump
<1>9. CASE Stop(h) \/ StopUnblocks(h) \/ EventOnce(h)
  BY <1>5, <1>6, <1>9 DEF Stop, StopUnblocks, EventOnce
<1> QED BY <1>7, <1>8, <1>9

\* Steps of a goroutine before its end.
LEMMA GoroutinesQuiet ==
    ASSUME IInv, GrantInv, NEW n \in Req,
           \/ StartRunning(n) \/ NewTicker(n) \/ SelectDone(n) \/ SelectStop(n)
           \/ SelectTick(n) \/ Expire(n) \/ Serve(n)
    PROVE  GrantInv'
<1> DEFINE s == gs[n].sc
<1>1. UNCHANGED <<clients, hs, signalingQueue, cur, lastSignal, issued>>
  BY DEF StartRunning, NewTicker, SelectDone, SelectStop, SelectTick, Expire, Serve,
         handlerVars, workerVars
<1>2. Live(n) /\ s \in Req /\ gs[n].pc # "none"
  BY References DEF StartRunning, NewTicker, SelectDone, SelectStop, SelectTick, Expire,
         Serve, AtSelect, Live
<1>3. PICK pc \in {"newticker", "select", "tick", "exit"} : GoroutineTo(n, pc)
  BY DEF StartRunning, NewTicker, SelectDone, SelectStop, SelectTick, Expire, Serve
<1>4. GoroutineMoves(n) /\ gs'[n].pc = pc
  BY <1>2, <1>3, GoroutineToMoves DEF IInv
<1>5. GoroutinesKept
  BY <1>3, <1>4 DEF GoroutinesKept, GoroutineMoves, Live
<1>6. SubsKept
  <2>1. CASE UNCHANGED sub
    BY <2>1 DEF SubsKept
  <2>2. sub[s] \in SubRecord
    BY <1>2 DEF IInv, TypeOK
  <2>3. ASSUME NEW y \in {[sub[s] EXCEPT !.running = TRUE], [sub[s] EXCEPT !.stop = 0],
                          [sub[s] EXCEPT !.runningInterval = sub[s].interval]},
               sub' = [sub EXCEPT ![s] = y]
        PROVE  SubsKept
    <3>1. y.key = sub[s].key /\ y.signaling = sub[s].signaling
      BY <2>2, <2>3 DEF SubRecord
    <3> HIDE DEF s
    <3> QED BY <1>2, <2>3, <3>1, WriteKept
  <2> QED BY <2>1, <2>3 DEF StartRunning, NewTicker, SelectDone, SelectStop, SelectTick, Expire, Serve
<1> QED BY <1>1, <1>5, <1>6, QuietStep

\* Messages, the inventory, the clock and the switch answer nobody.
LEMMA OthersQuiet ==
    ASSUME IInv, GrantInv,
           \/ \E w \in Worker : TakeMessage(w) \/ InventoryLock(w) \/ InventoryStep(w)
           \/ \E n \in Req : Lapse(n)
           \/ Drain \/ Undrain
    PROVE  GrantInv'
<1>1. UNCHANGED <<hs, gs, signalingQueue, cur, lastSignal, issued>>
  BY DEF TakeMessage, InventoryLock, InventoryStep, InventoryVisit, InventoryDelete,
         InventoryUnlock, Lapse, Drain, Undrain, handlerVars, workerVars
<1>2. GoroutinesKept
  BY <1>1 DEF GoroutinesKept, Live
<1>3. \A k \in Key : clients'[k] = clients[k] \/ clients'[k] = 0
  BY DEF TakeMessage, InventoryLock, InventoryStep, InventoryVisit, InventoryDelete,
         InventoryUnlock, Lapse, Drain, Undrain, IInv, TypeOK
<1>4. SubsKept
  <2>1. CASE UNCHANGED sub
    BY <2>1 DEF SubsKept
  <2>2. ASSUME NEW n \in Req, Lapse(n)
        PROVE  SubsKept
    <3>1. sub[n] \in SubRecord
      BY DEF IInv, TypeOK
    <3>2. sub' = [sub EXCEPT ![n] = [sub[n] EXCEPT !.expired = TRUE]]
      BY <2>2 DEF Lapse
    <3>3. /\ [sub[n] EXCEPT !.expired = TRUE].key = sub[n].key
          /\ [sub[n] EXCEPT !.expired = TRUE].signaling = sub[n].signaling
      BY <3>1 DEF SubRecord
    <3> QED BY <3>2, <3>3, WriteKept
  <2> QED BY <2>1, <2>2 DEF TakeMessage, InventoryLock, InventoryStep, InventoryVisit,
             InventoryDelete, InventoryUnlock, Drain, Undrain
<1> QED BY <1>1, <1>2, <1>3, <1>4, QuietStep

-----------------------------------------------------------------------------
(***************************************************************************)
(* Steps that give keys, write packets or end goroutines.                  *)
(***************************************************************************)
\* RegisterSubscription: the SubscriptionClient of a number gets its key.
LEMMA RegisterKeeps ==
    ASSUME IInv, GrantInv, NEW h \in Handler, NEW r, NEW pc,
           \/ hs[h].pc = "register" /\ pc = "answer"
           \/ hs[h].pc = "sptpnew" /\ pc = "sptpstart",
           r.key = hs[h].key, r.signaling = "none",
           sub' = [sub EXCEPT ![hs[h].n] = r],
           RegisterSubscription(hs[h].key, hs[h].n),
           hs' = [hs EXCEPT ![h] = [@ EXCEPT !.pc = pc, !.sc = hs[h].n]],
           UNCHANGED <<gs, signalingQueue, cur, lastSignal, issued>>
    PROVE  GrantInv'
<1> DEFINE n == hs[h].n
           k == hs[h].key
<1>1. n \in Req /\ n \in 1 .. issued /\ issued \in Nat
  BY References DEF IInv, HandlerInv, HoldsNumber, TypeOK
<1>2. k \in Key /\ sub[n].key = None /\ (pc = "answer" => KeyType[k] # DelayReq)
  BY DEF GrantInv, KeyInv, HandlerKeys
<1>3. sub'[n].key = k /\ sub'[n].signaling = "none" /\ \A t \in Req : t # n => sub'[t] = sub[t]
  BY <1>1 DEF IInv, TypeOK
<1>4. /\ hs'[h].pc = pc /\ hs'[h].key = k /\ hs'[h].sc = n
      /\ \A i \in Handler : i # h => hs'[i] = hs[i]
  <2>1. hs[h] \in HandlerRecord /\ hs \in [Handler -> HandlerRecord]
    BY DEF IInv, TypeOK
  <2> QED BY <2>1 DEF HandlerRecord
<1>5. clients'[k] = n /\ \A j \in Key : j # k => clients'[j] = clients[j]
  BY <1>2 DEF IInv, TypeOK, RegisterSubscription
<1> HIDE DEF n, k
<1>6. KeysKept /\ GoroutinesKept
  BY <1>2, <1>3 DEF KeysKept, GoroutinesKept, Live
<1>7. None \notin Key
  BY ConstantsAssumption
<1>8. KeyInv'
  <2>1. HandlerKeys(h)'
    BY <1>2, <1>3, <1>4 DEF HandlerKeys
  <2>2. ASSUME NEW i \in Handler, i # h PROVE HandlerKeys(i)'
    <3>1. HandlerKeys(i)
      BY DEF GrantInv, KeyInv
    <3>2. hs[i].pc \in {"check", "register", "sptpnew"} => hs[i].n \in Req /\ hs[i].n # n
      BY <2>2, References DEF IInv, NumberInv, HoldsNumber, n
    <3>3. hs[i].pc = "check" /\ hs[i].sc # 0 => sub'[hs[i].sc].key = hs[i].key
      BY <1>6, <1>7, <3>1, References DEF HandlerKeys, KeysKept
    <3>4. hs[i].pc \in {"setexpire", "setinterval", "answer", "launch"} =>
              sub'[hs[i].sc].key = hs[i].key
      BY <1>6, <1>7, <3>1, References DEF HandlerKeys, KeysKept
    <3> QED BY <1>3, <1>4, <2>2, <3>1, <3>2, <3>3, <3>4 DEF HandlerKeys
  <2>3. ASSUME NEW j \in Key, clients'[j] # 0 PROVE sub'[clients'[j]].key = j
    <3>1. CASE j = k
      BY <1>3, <1>5, <3>1
    <3>2. CASE j # k
      BY <1>5, <1>6, <1>7, <2>3, <3>2, References DEF GrantInv, KeyInv, KeysKept
    <3> QED BY <3>1, <3>2
  <2>4. ASSUME NEW m \in Req, m > issued' PROVE sub'[m].key = None
    <3>1. m # n
      BY <1>1, <2>4 DEF Req
    <3> QED BY <1>3, <2>4, <3>1 DEF GrantInv, KeyInv
  <2> QED BY <2>1, <2>2, <2>3, <2>4 DEF KeyInv
<1>9. SignalInv'
  <2> SUFFICES ASSUME NEW s \in Req, sub'[s].signaling = "grant"
               PROVE  KeyType[sub'[s].key] # DelayReq /\ (LaunchingSub(s)' \/ ServedSub(s)')
    BY DEF SignalInv
  <2>1. sub'[s] = sub[s]
    BY <1>3
  <2>2. LaunchingSub(s) => LaunchingSub(s)'
    BY <1>4 DEF LaunchingSub
  <2>3. ServedSub(s) => ServedSub(s)'
    BY <1>6 DEF ServedSub, GoroutinesKept
  <2> QED BY <2>1, <2>2, <2>3 DEF GrantInv, SignalInv
<1>10. LastInv'
  <2>1. \A j \in Key : Launching(j) => Launching(j)'
    BY <1>4 DEF Launching
  <2> QED BY <1>6, <2>1, ServedKept, WaitingKept DEF GrantInv, LastInv
<1> QED BY <1>8, <1>9, <1>10 DEF GrantInv

\* Register and SptpNew are the two steps that register.
LEMMA RegistersKeep ==
    ASSUME IInv, GrantInv, NEW h \in Handler, Register(h) \/ SptpRegister(h)
    PROVE  GrantInv'
<1>1. \A i, d : /\ NewSubscriptionClient(hs[h].key, i, d).key = hs[h].key
                /\ NewSubscriptionClient(hs[h].key, i, d).signaling = "none"
  BY DEF NewSubscriptionClient, NoSub
<1>2. UNCHANGED <<gs, signalingQueue, cur, lastSignal, issued>>
  BY DEF Register, SptpRegister, workerVars
<1>3. CASE Register(h)
  <2> DEFINE r == NewSubscriptionClient(hs[h].key, hs[h].interval, hs[h].duration)
  <2>1. /\ hs[h].pc = "register" /\ sub' = [sub EXCEPT ![hs[h].n] = r]
        /\ RegisterSubscription(hs[h].key, hs[h].n)
        /\ hs' = [hs EXCEPT ![h] = [@ EXCEPT !.pc = "answer", !.sc = hs[h].n]]
    BY <1>3 DEF Register
  <2>2. r.key = hs[h].key /\ r.signaling = "none"
    BY <1>1
  <2> HIDE DEF r
  <2> QED BY <1>2, <2>1, <2>2, RegisterKeeps
<1>4. CASE SptpRegister(h)
  <2> DEFINE r == NewSubscriptionClient(hs[h].key, SptpInterval, SptpInterval)
  <2>1. /\ hs[h].pc = "sptpnew" /\ sub' = [sub EXCEPT ![hs[h].n] = r]
        /\ RegisterSubscription(hs[h].key, hs[h].n)
        /\ hs' = [hs EXCEPT ![h] = [@ EXCEPT !.pc = "sptpstart", !.sc = hs[h].n]]
    BY <1>4 DEF SptpRegister
  <2>2. r.key = hs[h].key /\ r.signaling = "none"
    BY <1>1
  <2> HIDE DEF r
  <2> QED BY <1>2, <2>1, <2>2, RegisterKeeps
<1> QED BY <1>3, <1>4

\* An answer is written and queued; a handler that grants goes on to launch.
LEMMA AnswerKeeps ==
    ASSUME IInv, GrantInv, NEW h \in Handler, Reject(h) \/ Grant(h)
    PROVE  GrantInv'
<1> DEFINE s == hs[h].sc
<1>1. /\ hs[h].pc = "answer" /\ OnceSignaling(h, s)
      /\ UNCHANGED <<clients, gs, cur, lastSignal, issued>>
  BY DEF Reject, Grant
<1>2. PICK sig \in {"deny", "grant"} : /\ sub' = [sub EXCEPT ![s].signaling = sig]
                                       /\ \/ GoTo(h, "launch")
                                          \/ Return(h) /\ sig = "deny"
  BY DEF Reject, Grant, GrantTLV
<1>3. s \in Req /\ hs[h].key \in Key /\ KeyType[hs[h].key] # DelayReq /\ sub[s].key = hs[h].key
  BY <1>1, References DEF GrantInv, KeyInv, HandlerKeys
<1>4. /\ \A t \in Req : sub'[t].key = sub[t].key
      /\ sub'[s].signaling = sig /\ \A t \in Req : t # s => sub'[t].signaling = sub[t].signaling
  <2>1. sub \in [Req -> SubRecord] /\ sub[s] \in SubRecord
    BY <1>3 DEF IInv, TypeOK
  <2>2. [sub[s] EXCEPT !.signaling = sig].key = sub[s].key
        /\ [sub[s] EXCEPT !.signaling = sig].signaling = sig
    BY <2>1 DEF SubRecord
  <2> QED BY <1>2, <1>3, <2>1, <2>2
<1>5. /\ GoTo(h, "launch") => hs'[h].pc = "launch" /\ hs'[h].sc = s /\ hs'[h].key = hs[h].key
      /\ hs'[h].pc \in {"launch", "idle"}
      /\ hs'[h].pc = "launch" => hs'[h].sc = s /\ hs'[h].key = hs[h].key
      /\ \A i \in Handler : i # h => hs'[i] = hs[i]
  BY <1>2, GoToKeeps, ReturnDrops
<1> HIDE DEF s
<1>6. KeysKept /\ GoroutinesKept
  BY <1>1, <1>4 DEF KeysKept, GoroutinesKept, Live
<1>7. KeyInv'
  <2>1. HandlerKeys(h)'
    BY <1>3, <1>4, <1>5 DEF HandlerKeys
  <2>2. ASSUME NEW i \in Handler, i # h PROVE HandlerKeys(i)'
    <3>1. HandlerKeys(i)
      BY DEF GrantInv, KeyInv
    <3> QED BY <1>4, <1>5, <2>2, <3>1, References DEF HandlerKeys
  <2>3. \A k \in Key : clients'[k] # 0 => sub'[clients'[k]].key = k
    BY <1>1, <1>4, References DEF GrantInv, KeyInv
  <2>4. \A n \in Req : n > issued' => sub'[n].key = None
    BY <1>1, <1>4 DEF GrantInv, KeyInv
  <2> QED BY <2>1, <2>2, <2>3, <2>4 DEF KeyInv
<1>8. SignalInv'
  <2> SUFFICES ASSUME NEW t \in Req, sub'[t].signaling = "grant"
               PROVE  KeyType[sub'[t].key] # DelayReq /\ (LaunchingSub(t)' \/ ServedSub(t)')
    BY DEF SignalInv
  <2>1. CASE t = s
    <3>1. GoTo(h, "launch")
      BY <1>2, <1>4, <2>1
    <3> QED BY <1>3, <1>4, <1>5, <2>1, <3>1 DEF LaunchingSub
  <2>2. CASE t # s
    <3>1. KeyType[sub[t].key] # DelayReq /\ (LaunchingSub(t) \/ ServedSub(t))
      BY <1>4, <2>2 DEF GrantInv, SignalInv
    <3>2. LaunchingSub(t) => LaunchingSub(t)'
      BY <1>1, <1>5 DEF LaunchingSub
    <3>3. ServedSub(t) => ServedSub(t)'
      BY <1>6 DEF ServedSub, GoroutinesKept
    <3> QED BY <1>4, <3>1, <3>2, <3>3
  <2> QED BY <2>1, <2>2
<1>9. LastInv'
  <2>1. \A k \in Key : Launching(k) => Launching(k)'
    BY <1>1, <1>5 DEF Launching
  <2>2. \A k \in Key : Waiting(k) => Waiting(k)'
    BY <1>1, <1>3, <1>6, WaitingGrows DEF s
  <2> QED BY <1>1, <1>6, <2>1, <2>2, ServedKept DEF GrantInv, LastInv
<1> QED BY <1>7, <1>8, <1>9 DEF GrantInv

\* The go statement replaces no goroutine.
LEMMA GoStartKeeps ==
    ASSUME IInv, NEW h \in Handler, HoldsNumber(h), NEW s \in Req, GoStart(hs[h].n, s)
    PROVE  GoroutinesKept /\ ServedSub(s)'
<1>1. hs[h].n \in Req /\ gs[hs[h].n].pc = "none"
  BY ConstantsAssumption DEF IInv, HandlerInv, NumberInv, TypeOK, Req
<1>2. Starts(hs[h].n, s)
  BY <1>1, GoStartStarts DEF IInv
<1>3. GoroutinesKept
  BY <1>1, <1>2 DEF Starts, GoroutinesKept, Live
<1>4. PICK n \in Req : gs'[n].pc = "start" /\ gs'[n].sc = s
  BY <1>1, <1>2 DEF Starts
<1>5. ServedSub(s)'
  BY <1>4 DEF ServedSub, Live
<1> QED BY <1>3, <1>5

\* The go statement of an sptp subscription, which is never granted.
LEMMA SptpStartKeeps ==
    ASSUME IInv, GrantInv, NEW e \in Handler, SptpStart(e)
    PROVE  GrantInv'
<1>1. HoldsNumber(e) /\ hs[e].sc \in Req /\ hs[e].pc # "launch"
  BY DEF SptpStart, HoldsNumber, HoldsSub, IInv, HandlerInv
<1>2. GoroutinesKept
  BY <1>1, GoStartKeeps DEF SptpStart
<1>3. UNCHANGED <<sub, clients, signalingQueue, cur, lastSignal, issued>> /\ SubsKept
  BY DEF SptpStart, workerVars, SubsKept
<1>4. hs'[e].pc = "once" /\ \A i \in Handler : i # e => hs'[i] = hs[i]
  BY GoToKeeps DEF SptpStart
<1>5. HandlerKeys(e)'
  BY <1>4 DEF HandlerKeys
<1> QED BY <1>1, <1>2, <1>3, <1>4, <1>5, QuietStep

\* Launch: the flag stands for a goroutine, or a new one is started.
LEMMA LaunchKeeps ==
    ASSUME IInv, GrantInv, NEW h \in Handler, Launch(h)
    PROVE  GrantInv'
<1>1. /\ hs[h].pc = "launch" /\ HoldsNumber(h) /\ hs[h].sc \in Req
      /\ hs[h].key \in Key /\ sub[hs[h].sc].key = hs[h].key
  BY References DEF Launch, HoldsNumber, GrantInv, KeyInv, HandlerKeys
<1> PICK s \in Req : s = hs[h].sc
  BY <1>1
<1> PICK k \in Key : k = hs[h].key
  BY <1>1
<1>2. UNCHANGED <<sub, clients, signalingQueue, cur, lastSignal, issued>>
  BY DEF Launch, workerVars
<1>3. GoroutinesKept /\ ServedSub(s)'
  <2>1. CASE sub[s].running /\ UNCHANGED gs
    <3>1. PICK n \in Req : gs[n].sc = s /\ Serving(n)
      BY <2>1 DEF IInv, RunningHasGoroutine
    <3> QED BY <2>1, <3>1 DEF Serving, Live, ServedSub, GoroutinesKept
  <2>2. CASE GoStart(hs[h].n, s)
    BY <1>1, <2>2, GoStartKeeps
  <2> QED BY <2>1, <2>2 DEF Launch
<1>4. hs'[h].pc = "idle" /\ HandlerKeys(h)' /\ \A i \in Handler : i # h => hs'[i] = hs[i]
  BY ReturnDrops DEF Launch
<1>5. KeysKept
  BY <1>2 DEF KeysKept
<1>6. KeyInv'
  <2>1. ASSUME NEW i \in Handler, i # h PROVE HandlerKeys(i)'
    BY <1>2, <1>4, <2>1 DEF GrantInv, KeyInv, HandlerKeys
  <2> QED BY <1>2, <1>4, <2>1 DEF GrantInv, KeyInv
<1>7. SignalInv'
  <2>1. ASSUME NEW t \in Req, LaunchingSub(t) PROVE LaunchingSub(t)' \/ ServedSub(t)'
    BY <1>3, <1>4, <2>1 DEF LaunchingSub
  <2>2. \A t \in Req : ServedSub(t) => ServedSub(t)'
    BY <1>3 DEF ServedSub, GoroutinesKept
  <2> QED BY <1>2, <2>1, <2>2 DEF GrantInv, SignalInv
<1>8. LastInv'
  <2>1. Served(k)'
    BY <1>1, <1>2, <1>3 DEF Served, ServedSub
  <2>2. \A j \in Key : Launching(j) => Launching(j)' \/ Served(j)'
    BY <1>4, <2>1 DEF Launching
  <2> QED BY <1>2, <1>3, <1>5, <2>2, ServedKept, WaitingKept DEF GrantInv, LastInv
<1> QED BY <1>6, <1>7, <1>8 DEF GrantInv

\* Keys depend on the handlers, the client table and nothing else.
LEMMA KeysSame ==
    ASSUME IInv, KeyInv, \A t \in Req : sub'[t].key = sub[t].key, UNCHANGED <<clients, hs, issued>>
    PROVE  KeyInv'
<1>1. ASSUME NEW h \in Handler PROVE HandlerKeys(h)'
  <2>1. HandlerKeys(h)
    BY DEF KeyInv
  <2> QED BY <2>1, References DEF HandlerKeys
<1>2. \A k \in Key : clients'[k] # 0 => sub'[clients'[k]].key = k
  BY References DEF KeyInv
<1>3. \A n \in Req : n > issued' => sub'[n].key = None
  BY DEF KeyInv
<1> QED BY <1>1, <1>2, <1>3 DEF KeyInv

\* setRunning(false): a goroutine that ends here never had a grant to revoke.
LEMMA StopRunningKeeps ==
    ASSUME IInv, GrantInv, NEW n \in Req, StopRunning(n)
    PROVE  GrantInv'
<1> PICK s : s = gs[n].sc
  OBVIOUS
<1>1. Live(n) /\ s \in Req /\ sub[s] \in SubRecord /\ gs[n].pc # "none"
  BY References DEF StopRunning, Live, IInv, TypeOK
<1>2. UNCHANGED <<clients, hs, signalingQueue, cur, lastSignal, issued>>
  BY DEF StopRunning, handlerVars, workerVars
<1>3. SubsKept
  <2>1. /\ [sub[s] EXCEPT !.running = FALSE].key = sub[s].key
        /\ [sub[s] EXCEPT !.running = FALSE].signaling = sub[s].signaling
    BY <1>1 DEF SubRecord
  <2> QED BY <1>1, <2>1, WriteKept DEF StopRunning
<1>4. CASE GoroutineTo(n, "cancel")
  <2>1. GoroutineMoves(n) /\ gs'[n].pc = "cancel"
    BY <1>1, <1>4, GoroutineToMoves DEF IInv
  <2>2. GoroutinesKept
    BY <2>1 DEF GoroutinesKept, GoroutineMoves, Live
  <2> QED BY <1>2, <1>3, <2>2, QuietStep
<1>5. CASE GoroutineTo(n, "done") /\ KeyType[sub[s].key] = DelayReq
  <2>1. GoroutineMoves(n)
    BY <1>1, <1>5, GoroutineToMoves DEF IInv
  <2>2. \A m \in Req : m # n => gs'[m] = gs[m]
    BY <2>1 DEF GoroutineMoves
  <2>3. KeyInv'
    BY <1>2, <1>3, KeysSame DEF GrantInv, SubsKept
  <2>4. SignalInv'
    <3> SUFFICES ASSUME NEW t \in Req, sub'[t].signaling = "grant"
                 PROVE  KeyType[sub'[t].key] # DelayReq /\ (LaunchingSub(t)' \/ ServedSub(t)')
      BY DEF SignalInv
    <3>1. KeyType[sub[t].key] # DelayReq /\ (LaunchingSub(t) \/ ServedSub(t))
      BY <1>3 DEF GrantInv, SignalInv, SubsKept
    <3>2. t # s
      BY <1>5, <3>1
    <3>3. ServedSub(t) => ServedSub(t)'
      BY <2>2, <3>2 DEF ServedSub, Live
    <3>4. LaunchingSub(t) => LaunchingSub(t)'
      BY <1>2 DEF LaunchingSub
    <3> QED BY <1>3, <3>1, <3>3, <3>4 DEF SubsKept
  <2>5. LastInv'
    <3> SUFFICES ASSUME NEW k \in Key, lastSignal'[k] = "grant"
                 PROVE  KeyType[k] # DelayReq /\ (Launching(k)' \/ Waiting(k)' \/ Served(k)')
      BY DEF LastInv
    <3>1. KeyType[k] # DelayReq /\ (Launching(k) \/ Waiting(k) \/ Served(k))
      BY <1>2 DEF GrantInv, LastInv
    <3>2. Launching(k) => Launching(k)'
      BY <1>2 DEF Launching
    <3>3. Waiting(k) => Waiting(k)'
      BY <1>2, <1>3, WaitingKept DEF SubsKept, KeysKept
    <3>4. ASSUME Served(k) PROVE Served(k)'
      <4>1. PICK m \in Req : Live(m) /\ sub[gs[m].sc].key = k
        BY <3>4 DEF Served
      <4>2. m # n /\ gs[m].sc \in Req
        BY <1>5, <3>1, <4>1, References
      <4> QED BY <1>3, <2>2, <4>1, <4>2 DEF Served, Live, SubsKept
    <3> QED BY <3>1, <3>2, <3>3, <3>4
  <2> QED BY <2>3, <2>4, <2>5 DEF GrantInv
<1> QED BY <1>4, <1>5 DEF StopRunning

\* sendSignalingCancel: the goroutine that ends leaves its cancel in the queue.
LEMMA CancelKeeps ==
    ASSUME IInv, GrantInv, NEW n \in Req, SendSignalingCancel(n)
    PROVE  GrantInv'
<1> PICK s : s = gs[n].sc
  OBVIOUS
<1>1. Live(n) /\ s \in Req /\ sub[s] \in SubRecord /\ gs[n].pc # "none"
  BY References DEF SendSignalingCancel, Live, IInv, TypeOK
<1>2. UNCHANGED <<clients, hs, cur, lastSignal, issued>> /\ OnceSignaling(n, s)
  BY DEF SendSignalingCancel, handlerVars
<1>3. /\ \A t \in Req : sub'[t].key = sub[t].key
      /\ sub'[s].signaling = "cancel" /\ \A t \in Req : t # s => sub'[t].signaling = sub[t].signaling
  <2>1. [sub[s] EXCEPT !.signaling = "cancel"].key = sub[s].key
        /\ [sub[s] EXCEPT !.signaling = "cancel"].signaling = "cancel"
    BY <1>1 DEF SubRecord
  <2>2. sub' = [sub EXCEPT ![s] = [sub[s] EXCEPT !.signaling = "cancel"]] /\ sub \in [Req -> SubRecord]
    BY DEF SendSignalingCancel, IInv, TypeOK
  <2> QED BY <1>1, <2>1, <2>2
<1>4. \A m \in Req : m # n => gs'[m] = gs[m]
  BY <1>1, GoroutineToMoves DEF SendSignalingCancel, GoroutineMoves, IInv
<1>5. KeysKept
  BY <1>3 DEF KeysKept
<1>6. KeyInv'
  BY <1>2, <1>3, KeysSame DEF GrantInv
<1>7. SignalInv'
  <2> SUFFICES ASSUME NEW t \in Req, sub'[t].signaling = "grant"
               PROVE  KeyType[sub'[t].key] # DelayReq /\ (LaunchingSub(t)' \/ ServedSub(t)')
    BY DEF SignalInv
  <2>1. t # s
    BY <1>3
  <2>2. KeyType[sub[t].key] # DelayReq /\ (LaunchingSub(t) \/ ServedSub(t))
    BY <1>3, <2>1 DEF GrantInv, SignalInv
  <2>3. ServedSub(t) => ServedSub(t)'
    BY <1>4, <2>1 DEF ServedSub, Live
  <2>4. LaunchingSub(t) => LaunchingSub(t)'
    BY <1>2 DEF LaunchingSub
  <2> QED BY <1>3, <2>2, <2>3, <2>4
<1>8. LastInv'
  <2> SUFFICES ASSUME NEW k \in Key, lastSignal'[k] = "grant"
               PROVE  KeyType[k] # DelayReq /\ (Launching(k)' \/ Waiting(k)' \/ Served(k)')
    BY DEF LastInv
  <2>1. KeyType[k] # DelayReq /\ (Launching(k) \/ Waiting(k) \/ Served(k))
    BY <1>2 DEF GrantInv, LastInv
  <2>2. Launching(k) => Launching(k)'
    BY <1>2 DEF Launching
  <2>3. Waiting(k) \/ sub[s].key = k => Waiting(k)'
    BY <1>1, <1>2, <1>5, WaitingGrows
  <2>4. ASSUME Served(k) PROVE Served(k)' \/ sub[s].key = k
    <3>1. PICK m \in Req : Live(m) /\ sub[gs[m].sc].key = k
      BY <2>4 DEF Served
    <3>2. gs[m].sc \in Req
      BY <3>1, References
    <3> QED BY <1>3, <1>4, <3>1, <3>2 DEF Served, Live
  <2> QED BY <2>1, <2>2, <2>3, <2>4
<1> QED BY <1>6, <1>7, <1>8 DEF GrantInv

\* The worker takes an answer from its channel, to marshal it.
LEMMA TakeSignalingKeeps ==
    ASSUME IInv, GrantInv, NEW w \in Worker, TakeSignaling(w)
    PROVE  GrantInv'
<1> DEFINE q == signalingQueue[w]
<1>1. /\ cur[w] = 0 /\ q # << >> /\ UNCHANGED <<sub, clients, hs, gs, issued, lastSignal>>
      /\ signalingQueue' = [signalingQueue EXCEPT ![w] = Tail(q)]
      /\ cur' = [cur EXCEPT ![w] = Head(q).sc]
  BY DEF TakeSignaling, handlerVars
<1>2. KeyInv' /\ SignalInv'
  <2>1. KeyInv'
    BY <1>1, KeysSame DEF GrantInv
  <2>2. SignalInv'
    BY <1>1 DEF GrantInv, SignalInv, LaunchingSub, ServedSub, Live
  <2> QED BY <2>1, <2>2
<1>3. LastInv'
  <2> SUFFICES ASSUME NEW k \in Key, lastSignal'[k] = "grant"
               PROVE  KeyType[k] # DelayReq /\ (Launching(k)' \/ Waiting(k)' \/ Served(k)')
    BY DEF LastInv
  <2>1. KeyType[k] # DelayReq /\ (Launching(k) \/ Waiting(k) \/ Served(k))
    BY <1>1 DEF GrantInv, LastInv
  <2>2. (Launching(k) => Launching(k)') /\ (Served(k) => Served(k)')
    BY <1>1 DEF Launching, Served, Live
  <2>3. ASSUME Waiting(k) PROVE Waiting(k)'
    <3>1. PICK v \in Worker : \/ cur[v] # 0 /\ sub[cur[v]].key = k
                              \/ \E i \in 1 .. Len(signalingQueue[v]) :
                                     sub[signalingQueue[v][i].sc].key = k
      BY <2>3 DEF Waiting
    <3>2. cur \in [Worker -> 0 .. MaxRequests] /\ signalingQueue \in [Worker -> Channel]
      BY DEF IInv, TypeOK
    <3>3. CASE v # w
      <4>1. cur'[v] = cur[v] /\ signalingQueue'[v] = signalingQueue[v]
        BY <1>1, <3>2, <3>3
      <4> QED BY <1>1, <3>1, <4>1 DEF Waiting
    <3>4. CASE v = w
      <4>1. q \in Seq([by : Process, sc : Req]) /\ cur'[w] = Head(q).sc /\ signalingQueue'[w] = Tail(q)
        BY <1>1, <3>2 DEF Channel
      <4>2. PICK i \in 1 .. Len(q) : sub[q[i].sc].key = k
        BY <1>1, <3>1, <3>4
      <4> HIDE DEF q
      <4>3. CASE i = 1
        <5>1. q # << >> /\ q[1] \in [by : Process, sc : Req]
          BY <1>1, <4>1, <4>2, <4>3, ElementOfSeq
        <5>2. Head(q) = q[1]
          BY <4>1, <5>1
        <5>3. cur'[w] # 0 /\ sub'[cur'[w]].key = k
          BY <1>1, <4>1, <4>2, <4>3, <5>1, <5>2, ConstantsAssumption DEF Req
        <5> QED BY <5>3 DEF Waiting
      <4>4. CASE i # 1
        <5>1. /\ Len(q) \in Nat /\ Len(Tail(q)) = Len(q) - 1
              /\ \A j \in 1 .. Len(q) - 1 : Tail(q)[j] = q[j + 1]
          BY <1>1, <4>1, HeadTailProperties, LenProperties
        <5>2. i - 1 \in 1 .. Len(q) - 1 /\ (i - 1) + 1 = i
          BY <4>2, <4>4, <5>1
        <5>3. i - 1 \in 1 .. Len(signalingQueue'[w]) /\ signalingQueue'[w][i - 1] = q[i]
          BY <4>1, <5>1, <5>2
        <5>4. sub'[signalingQueue'[w][i - 1].sc].key = k
          BY <1>1, <4>2, <5>3
        <5> QED BY <5>3, <5>4 DEF Waiting
      <4> QED BY <4>3, <4>4
    <3> QED BY <3>3, <3>4
  <2> QED BY <2>1, <2>2, <2>3
<1> QED BY <1>2, <1>3 DEF GrantInv

\* What is sent is what the packet holds now, and the packet tells the truth; a
\* packet that is lost leaves a client with a grant only if it held a grant itself.
LEMMA TransmitKeeps ==
    ASSUME IInv, GrantInv, NEW w \in Worker, Transmit(w) \/ TransmitFails(w)
    PROVE  GrantInv'
<1> PICK s : s = cur[w]
  OBVIOUS
<1>1. /\ s \in Req /\ UNCHANGED <<sub, clients, hs, gs, issued, signalingQueue>>
      /\ cur' = [cur EXCEPT ![w] = 0]
  BY References DEF Transmit, TransmitFails, handlerVars
<1>2. \A k \in Key :
          /\ k # sub[s].key => lastSignal'[k] = lastSignal[k]
          /\ k = sub[s].key /\ lastSignal'[k] = "grant" => sub[s].signaling = "grant"
  BY DEF Transmit, TransmitFails, IInv, TypeOK
<1>3. KeyInv' /\ SignalInv'
  <2>1. KeyInv'
    BY <1>1, KeysSame DEF GrantInv
  <2>2. SignalInv'
    BY <1>1 DEF GrantInv, SignalInv, LaunchingSub, ServedSub, Live
  <2> QED BY <2>1, <2>2
<1>4. LastInv'
  <2> SUFFICES ASSUME NEW k \in Key, lastSignal'[k] = "grant"
               PROVE  KeyType[k] # DelayReq /\ (Launching(k)' \/ Waiting(k)' \/ Served(k)')
    BY DEF LastInv
  <2>1. CASE k = sub[s].key
    <3>1. sub[s].signaling = "grant"
      BY <1>2, <2>1
    <3>2. KeyType[k] # DelayReq /\ (LaunchingSub(s) \/ ServedSub(s))
      BY <1>1, <2>1, <3>1 DEF GrantInv, SignalInv
    <3>3. LaunchingSub(s) => Launching(k)'
      BY <1>1, <2>1 DEF LaunchingSub, Launching, GrantInv, KeyInv, HandlerKeys
    <3>4. ServedSub(s) => Served(k)'
      BY <1>1, <2>1 DEF ServedSub, Served, Live
    <3> QED BY <3>2, <3>3, <3>4
  <2>2. CASE k # sub[s].key
    <3>1. lastSignal[k] = "grant"
      BY <1>2, <2>2
    <3>2. KeyType[k] # DelayReq /\ (Launching(k) \/ Waiting(k) \/ Served(k))
      BY <3>1 DEF GrantInv, LastInv
    <3>3. (Launching(k) => Launching(k)') /\ (Served(k) => Served(k)')
      BY <1>1 DEF Launching, Served, Live
    <3>4. ASSUME Waiting(k) PROVE Waiting(k)'
      <4>1. cur \in [Worker -> 0 .. MaxRequests]
        BY DEF IInv, TypeOK
      <4>2. \A v \in Worker : cur[v] # 0 /\ sub[cur[v]].key = k => cur'[v] = cur[v]
        BY <1>1, <2>2, <4>1
      <4> QED BY <1>1, <3>4, <4>2 DEF Waiting
    <3> QED BY <3>2, <3>3, <3>4
  <2> QED BY <2>1, <2>2
<1> QED BY <1>3, <1>4 DEF GrantInv

-----------------------------------------------------------------------------
\* At the start nobody was granted anything.
LEMMA InitGrant == Init => GrantInv
<1> SUFFICES ASSUME Init PROVE GrantInv
  OBVIOUS
<1>1. NoSub.key = None /\ NoSub.signaling = "none"
  BY DEF NoSub
<1>2. KeyInv
  BY <1>1, IdleType DEF Init, KeyInv, HandlerKeys
<1>3. SignalInv /\ LastInv
  BY <1>1 DEF Init, SignalInv, LastInv
<1> QED BY <1>2, <1>3 DEF GrantInv

\* Every step keeps the invariant.
LEMMA NextGrant == IInv /\ GrantInv /\ [Next]_vars => GrantInv'
<1> SUFFICES ASSUME IInv, GrantInv, [Next]_vars PROVE GrantInv'
  OBVIOUS
<1>1. CASE UNCHANGED vars
  <2>1. UNCHANGED <<sub, clients, hs, gs, signalingQueue, cur, issued, lastSignal>>
    BY <1>1 DEF vars
  <2> QED BY <2>1, QuietStep DEF SubsKept, GoroutinesKept, Live
<1>2. General \subseteq Handler /\ Event \subseteq Handler
  BY DEF Handler
<1>3. ASSUME NEW h \in General, GeneralStep(h) PROVE GrantInv'
  BY <1>2, <1>3, HandlersQuiet, RegistersKeep, AnswerKeeps, LaunchKeeps DEF GeneralStep
<1>4. ASSUME NEW e \in Event, EventStep(e) PROVE GrantInv'
  BY <1>2, <1>4, HandlersQuiet, RegistersKeep, SptpStartKeeps DEF EventStep
<1>5. ASSUME NEW n \in Req, GoroutineStep(n) PROVE GrantInv'
  BY <1>5, GoroutinesQuiet, StopRunningKeeps, CancelKeeps DEF GoroutineStep
<1>6. ASSUME NEW w \in Worker, WorkerStep(w) PROVE GrantInv'
  BY <1>6, OthersQuiet, TakeSignalingKeeps, TransmitKeeps DEF WorkerStep
<1> QED BY <1>1, <1>3, <1>4, <1>5, <1>6, LookUps, OthersQuiet DEF Next

(***************************************************************************)
(* No client is left with a grant that nobody serves.  Whatever the order  *)
(* in which grants, cancels and ends of goroutines interleave, the packet  *)
(* of a subscription says "grant" only while somebody serves it or will    *)
(* (SignalInv), and whoever stops doing so leaves a cancel in the queue    *)
(* behind every grant (LastInv).  A cancel or a refusal whose send fails   *)
(* (TransmitFails) is the exception that NoSilentEnd states: nothing is    *)
(* claimed of that client until the next answer leaves for it.             *)
(***************************************************************************)
THEOREM GrantsAreServed == Spec => []NoSilentEnd
<1>1. GrantInv => NoSilentEnd
  <2> SUFFICES ASSUME GrantInv, NEW k \in Key, Quiet(k), lastSignal[k] = "grant"
               PROVE  \E n \in Req : Live(n) /\ sub[gs[n].sc].key = k
    BY DEF NoSilentEnd
  <2>1. Launching(k) \/ Waiting(k) \/ Served(k)
    BY DEF GrantInv, LastInv
  <2>2. ~ Launching(k) /\ ~ Waiting(k)
    BY DEF Quiet, Launching, Waiting
  <2> QED BY <2>1, <2>2 DEF Served
<1> QED BY <1>1, InitGrant, NextGrant, Invariance, PTL DEF Spec

-----------------------------------------------------------------------------
(***************************************************************************)
(* The mutexes.  The mutex of a subscription and the mux of a client table *)
(* are held across steps; who holds them, and since when?                  *)
(***************************************************************************)
Cancelling(h) == hs[h].pc \in {"stop", "stopping"}

(***************************************************************************)
(* The mutex of a subscription is in the hands of the Stop that blocks on  *)
(* it, and of nobody else.  Nobody sets or clears running meanwhile.       *)
(***************************************************************************)
MutexInv ==
    /\ \A h \in Handler : Cancelling(h) => sub[hs[h].sc].key # None
    /\ \A h \in Handler : hs[h].pc = "stopping" => sub[hs[h].sc].holder = h
    /\ \A s \in Req : sub[s].holder # None =>
           /\ hs[sub[s].holder].pc = "stopping" /\ hs[sub[s].holder].sc = s
           /\ sub[s].running

\* Each cancel TLV is one handler that stops, or one token in a stop channel.
CancelInv ==
    /\ \A h \in Handler : Cancelling(h) => cancels >= 1
    /\ \A s \in Req : sub[s].stop = 1 => cancels >= 1
    /\ \A h \in Handler, s \in Req : Cancelling(h) /\ sub[s].stop = 1 => cancels >= 2
    /\ \A h, i \in Handler : Cancelling(h) /\ Cancelling(i) /\ h # i => cancels >= 2
    /\ \A h \in Handler : hs[h].pc = "stopping" => cancels >= 2

\* What inventoryClients has still to visit or to remove is in its table.
MuxInv ==
    \A w \in Worker :
        /\ inv[w].del \notin inv[w].todo
        /\ \A k \in inv[w].todo : Home[k] = w /\ clients[k] # 0
        /\ inv[w].todo # {} \/ inv[w].del # None => inv[w].locked
        /\ inv[w].del # None => Home[inv[w].del] = w

LockInv == MutexInv /\ CancelInv /\ MuxInv

\* No handler begins or ends a Stop.
StopsKept ==
    \A h \in Handler : hs'[h] = hs[h] \/ (~ Cancelling(h) /\ ~ Cancelling(h)')

\* No mutex changes hands, no token is added, and no held subscription changes.
MutexesKept ==
    \A t \in Req :
        /\ sub'[t].holder = sub[t].holder
        /\ sub'[t].stop = 1 => sub[t].stop = 1
        /\ sub[t].holder # None => sub'[t].running = sub[t].running
        /\ sub[t].key # None => sub'[t].key = sub[t].key

\* Every step but a cancel TLV and a Stop.
LEMMA StopsQuiet ==
    ASSUME IInv, MutexInv, CancelInv, StopsKept, MutexesKept, UNCHANGED cancels
    PROVE  MutexInv' /\ CancelInv'
<1>1. \A h \in Handler : Cancelling(h) => hs[h].sc \in Req
  BY DEF IInv, HandlerInv, HoldsSub, Cancelling
<1>2. \A h \in Handler : Cancelling(h)' => Cancelling(h) /\ hs'[h] = hs[h]
  BY DEF StopsKept, Cancelling
<1>3. \A s \in Req : sub[s].holder # None => sub[s].holder \in Handler
  BY DEF IInv, TypeOK, SubRecord, Handler
<1>4. MutexInv'
  <2>1. \A h \in Handler : Cancelling(h)' => sub'[hs'[h].sc].key # None
    BY <1>1, <1>2 DEF MutexInv, MutexesKept
  <2>2. \A h \in Handler : hs'[h].pc = "stopping" => sub'[hs'[h].sc].holder = h
    BY <1>1, <1>2 DEF MutexInv, MutexesKept, Cancelling
  <2>3. ASSUME NEW s \in Req, sub'[s].holder # None
        PROVE  /\ hs'[sub'[s].holder].pc = "stopping" /\ hs'[sub'[s].holder].sc = s
               /\ sub'[s].running
    BY <1>3, <2>3 DEF MutexInv, MutexesKept, StopsKept, Cancelling
  <2> QED BY <2>1, <2>2, <2>3 DEF MutexInv
<1>5. CancelInv'
  BY <1>2 DEF CancelInv, MutexesKept, Cancelling
<1> QED BY <1>4, <1>5

\* A registration adds to a table that nobody walks.
LEMMA MuxQuiet ==
    ASSUME MuxInv, UNCHANGED inv, \A k \in Key : clients'[k] = clients[k] \/ clients'[k] # 0,
           IInv
    PROVE  MuxInv'
BY DEF MuxInv, IInv, TypeOK

\* A write to a SubscriptionClient by whoever may take its mutex.
LEMMA MutexWrite ==
    ASSUME IInv, NEW s \in Req, NEW r, sub' = [sub EXCEPT ![s] = r],
           r.holder = sub[s].holder, r.stop = 1 => sub[s].stop = 1,
           Free(s) \/ r.running = sub[s].running,
           sub[s].key # None => r.key = sub[s].key
    PROVE  MutexesKept
BY DEF IInv, TypeOK, MutexesKept, Free

\* Look-ups: a request, a delay request.
LEMMA LookUpLocks ==
    ASSUME IInv, LockInv, NEW h \in Handler, NEW k \in Key,
           \/ \E r \in Request : RequestTLV(h, k, r)
           \/ SptpDelayRequest(h, k) \/ DelayRequest(h, k)
    PROVE  LockInv'
<1>1. UNCHANGED <<sub, clients, inv, cancels>>
  BY DEF RequestTLV, SptpDelayRequest, DelayRequest
<1>2. hs[h].pc = "idle"
  BY DEF RequestTLV, SptpDelayRequest, DelayRequest, Idle
<1>3. /\ hs'[h].pc \in {"check", "sptpnew", "bump", "once"}
      /\ \A i \in Handler : i # h => hs'[i] = hs[i]
  <2>1. hs \in [Handler -> HandlerRecord]
    BY DEF IInv, TypeOK
  <2>2. ASSUME NEW r \in Request, RequestTLV(h, k, r)
        PROVE  hs'[h].pc = "check" /\ \A i \in Handler : i # h => hs'[i] = hs[i]
    BY <2>1, <2>2 DEF RequestTLV
  <2>3. CASE SptpDelayRequest(h, k)
    BY <2>1, <2>3 DEF SptpDelayRequest, IdleHandler
  <2>4. CASE DelayRequest(h, k)
    BY <2>1, <2>4 DEF DelayRequest, IdleHandler
  <2> QED BY <2>2, <2>3, <2>4
<1>4. StopsKept
  BY <1>2, <1>3 DEF StopsKept, Cancelling
<1>5. MutexesKept
  BY <1>1 DEF MutexesKept
<1> QED BY <1>1, <1>4, <1>5, StopsQuiet, MuxQuiet DEF LockInv

\* RegisterSubscription: nobody holds the mutex of a SubscriptionClient to be.
LEMMA RegisterLocks ==
    ASSUME IInv, GrantInv, LockInv, NEW h \in Handler, Register(h) \/ SptpRegister(h)
    PROVE  LockInv'
<1> DEFINE n == hs[h].n
<1>1. UNCHANGED <<inv, cancels>> /\ clients' = [clients EXCEPT ![hs[h].key] = n]
  BY DEF Register, SptpRegister, RegisterSubscription
<1>2. n \in Req /\ sub[n].key = None /\ hs[h].pc \in {"register", "sptpnew"}
  BY References DEF Register, SptpRegister, GrantInv, KeyInv, HandlerKeys
<1>3. PICK y : sub' = [sub EXCEPT ![n] = y] /\ y.holder = None /\ y.stop = 0
  <2>1. \A i, d : /\ NewSubscriptionClient(hs[h].key, i, d).holder = None
                 /\ NewSubscriptionClient(hs[h].key, i, d).stop = 0
    BY DEF NewSubscriptionClient, NoSub
  <2>2. \/ sub' = [sub EXCEPT ![n] =
                     NewSubscriptionClient(hs[h].key, hs[h].interval, hs[h].duration)]
        \/ sub' = [sub EXCEPT ![n] =
                     NewSubscriptionClient(hs[h].key, SptpInterval, SptpInterval)]
    BY DEF Register, SptpRegister
  <2> QED BY <2>1, <2>2
<1>4. sub[n].holder = None
  <2>1. sub[n].holder # None => sub[n].holder \in Handler
    BY <1>2 DEF IInv, TypeOK, SubRecord, Handler
  <2> HIDE DEF n
  <2> QED BY <1>2, <2>1 DEF LockInv, MutexInv, Cancelling
<1>5. MutexesKept
  <2> HIDE DEF n
  <2>1. Free(n) /\ y.holder = sub[n].holder
    BY <1>3, <1>4 DEF Free
  <2>2. y.stop = 1 => sub[n].stop = 1
    BY <1>3
  <2>3. sub[n].key # None => y.key = sub[n].key
    BY <1>2
  <2> QED BY <1>2, <1>3, <2>1, <2>2, <2>3, MutexWrite
<1>6. StopsKept
  <2>1. hs[h] \in HandlerRecord /\ hs \in [Handler -> HandlerRecord]
    BY DEF IInv, TypeOK
  <2>2. /\ hs'[h].pc \in {"answer", "sptpstart"}
        /\ \A i \in Handler : i # h => hs'[i] = hs[i]
    <3>1. CASE Register(h)
      BY <2>1, <3>1 DEF Register, HandlerRecord
    <3>2. CASE SptpRegister(h)
      BY <2>1, <3>2 DEF SptpRegister, HandlerRecord
    <3> QED BY <3>1, <3>2
  <2> QED BY <1>2, <2>2 DEF StopsKept, Cancelling
<1>7. \A k \in Key : clients'[k] = clients[k] \/ clients'[k] # 0
  BY <1>1, <1>2 DEF IInv, TypeOK, Req
<1> QED BY <1>1, <1>5, <1>6, <1>7, StopsQuiet, MuxQuiet DEF LockInv

\* The other steps of a handler.
LEMMA HandlerLocks ==
    ASSUME IInv, LockInv, NEW h \in Handler,
           \/ CheckRunning(h) \/ RenewExpire(h) \/ RenewInterval(h) \/ Bump(h)
           \/ Reject(h) \/ Grant(h) \/ Launch(h) \/ SptpStart(h) \/ EventOnce(h)
    PROVE  LockInv'
<1> DEFINE s == hs[h].sc
<1>1. UNCHANGED <<clients, inv, cancels>>
  BY DEF CheckRunning, RenewExpire, RenewInterval, Bump, Reject, Grant, Launch, SptpStart,
         EventOnce
<1>2. ~ Cancelling(h)
  BY DEF CheckRunning, RenewExpire, RenewInterval, Bump, Reject, Grant, Launch, SptpStart,
         EventOnce, Cancelling
<1>3. StopsKept
  <2>1. Return(h) \/ \E pc \in {"register", "setexpire", "setinterval", "answer", "launch",
                                "once"} : GoTo(h, pc)
    BY DEF CheckRunning, RenewExpire, RenewInterval, Bump, Reject, Grant, Launch, SptpStart,
           EventOnce
  <2>2. CASE Return(h)
    BY <1>2, <2>2, ReturnDrops DEF StopsKept, Cancelling
  <2>3. ASSUME NEW pc \in {"register", "setexpire", "setinterval", "answer", "launch", "once"},
               GoTo(h, pc)
        PROVE  StopsKept
    BY <1>2, <2>3, GoToKeeps DEF StopsKept, Cancelling
  <2> QED BY <2>1, <2>2, <2>3
<1>4. MutexesKept
  <2>1. CASE UNCHANGED sub
    BY <2>1 DEF MutexesKept
  <2>2. CASE RenewExpire(h) \/ RenewInterval(h) \/ Bump(h) \/ Reject(h) \/ Grant(h)
    <3>1. s \in Req
      BY <2>2 DEF IInv, HandlerInv, HoldsSub, RenewExpire, RenewInterval, Bump, Reject, Grant
    <3>2. sub[s] \in SubRecord
      BY <3>1 DEF IInv, TypeOK
    <3>3. PICK y \in {[sub[s] EXCEPT !.expired = FALSE, !.duration = hs[h].duration],
                      [sub[s] EXCEPT !.interval = hs[h].interval],
                      [sub[s] EXCEPT !.expired = FALSE, !.duration = SptpInterval],
                      [sub[s] EXCEPT !.signaling = "deny"],
                      [sub[s] EXCEPT !.signaling = GrantTLV(hs[h].duration)]} :
                sub' = [sub EXCEPT ![s] = y]
      BY <2>2 DEF RenewExpire, RenewInterval, Bump, Reject, Grant
    <3>4. /\ y.key = sub[s].key /\ y.holder = sub[s].holder
          /\ y.stop = sub[s].stop /\ y.running = sub[s].running
      BY <3>2, <3>3 DEF SubRecord
    <3> HIDE DEF s
    <3> QED BY <3>1, <3>3, <3>4, MutexWrite
  <2> QED BY <2>1, <2>2 DEF CheckRunning, Launch, SptpStart, EventOnce
<1> QED BY <1>1, <1>3, <1>4, StopsQuiet, MuxQuiet DEF LockInv

\* A goroutine takes tokens, and writes running only with the mutex.
LEMMA GoroutineLocks ==
    ASSUME IInv, LockInv, NEW n \in Req, GoroutineStep(n)
    PROVE  LockInv'
<1> DEFINE s == gs[n].sc
<1>1. UNCHANGED <<clients, inv, cancels, hs>>
  BY DEF GoroutineStep, StartRunning, NewTicker, SelectDone, SelectStop, SelectTick, Expire,
         Serve, StopRunning, SendSignalingCancel, handlerVars
<1>2. s \in Req
  BY References DEF GoroutineStep, StartRunning, NewTicker, SelectDone, SelectStop, SelectTick,
         Expire, Serve, StopRunning, SendSignalingCancel, AtSelect, IInv, GoroutineInv
<1>3. sub[s] \in SubRecord
  BY <1>2 DEF IInv, TypeOK
<1>4. MutexesKept
  <2>1. CASE UNCHANGED sub
    BY <2>1 DEF MutexesKept
  <2>2. ASSUME NEW y, sub' = [sub EXCEPT ![s] = y],
               \/ y = [sub[s] EXCEPT !.running = TRUE] /\ Free(s)
               \/ y = [sub[s] EXCEPT !.running = FALSE] /\ Free(s)
               \/ y = [sub[s] EXCEPT !.runningInterval = sub[s].interval]
               \/ y = [sub[s] EXCEPT !.stop = 0]
               \/ y = [sub[s] EXCEPT !.signaling = "cancel"]
        PROVE  MutexesKept
    <3>1. /\ y.key = sub[s].key /\ y.holder = sub[s].holder
          /\ y.stop = 1 => sub[s].stop = 1
          /\ Free(s) \/ y.running = sub[s].running
      BY <1>3, <2>2 DEF SubRecord
    <3> HIDE DEF s
    <3> QED BY <1>2, <2>2, <3>1, MutexWrite
  <2>3. CASE SelectDone(n) \/ SelectTick(n) \/ Expire(n)
    BY <2>1, <2>3 DEF SelectDone, SelectTick, Expire
  <2>4. CASE ~ (SelectDone(n) \/ SelectTick(n) \/ Expire(n))
    BY <2>2, <2>4 DEF GoroutineStep, StartRunning, NewTicker, SelectStop, Serve, StopRunning,
           SendSignalingCancel
  <2> QED BY <2>3, <2>4
<1>5. StopsKept
  BY <1>1 DEF StopsKept
<1> QED BY <1>1, <1>4, <1>5, StopsQuiet, MuxQuiet DEF LockInv

\* The worker, the clock and the switch take no mutex across steps.
LEMMA OtherLocks ==
    ASSUME IInv, LockInv,
           \/ \E w \in Worker : WorkerStep(w)
           \/ \E n \in Req : Lapse(n)
           \/ Drain \/ Undrain \/ UNCHANGED vars
    PROVE  LockInv'
<1>1. UNCHANGED <<clients, inv, cancels, hs>>
  BY DEF WorkerStep, TakeMessage, TakeSignaling, Transmit, TransmitFails, Lapse, Drain,
         Undrain, vars, handlerVars
<1>2. MutexesKept
  <2>1. CASE UNCHANGED sub
    BY <2>1 DEF MutexesKept
  <2>2. ASSUME NEW n \in Req, Lapse(n)
        PROVE  MutexesKept
    <3>1. sub[n] \in SubRecord
      BY DEF IInv, TypeOK
    <3>2. sub' = [sub EXCEPT ![n] = [sub[n] EXCEPT !.expired = TRUE]]
      BY <2>2 DEF Lapse
    <3>3. /\ [sub[n] EXCEPT !.expired = TRUE].key = sub[n].key
          /\ [sub[n] EXCEPT !.expired = TRUE].holder = sub[n].holder
          /\ [sub[n] EXCEPT !.expired = TRUE].stop = sub[n].stop
          /\ [sub[n] EXCEPT !.expired = TRUE].running = sub[n].running
      BY <3>1 DEF SubRecord
    <3> QED BY <3>2, <3>3, MutexWrite
  <2> QED BY <2>1, <2>2 DEF WorkerStep, TakeMessage, TakeSignaling, Transmit, TransmitFails, Drain,
                              Undrain, vars
<1>3. StopsKept
  BY <1>1 DEF StopsKept
<1> QED BY <1>1, <1>2, <1>3, StopsQuiet, MuxQuiet DEF LockInv

\* inventoryClients walks the table of its own worker, with the mux.
LEMMA InventoryLocks ==
    ASSUME IInv, LockInv, NEW w \in Worker, InventoryLock(w) \/ InventoryStep(w)
    PROVE  LockInv'
<1>1. UNCHANGED <<sub, cancels, hs>>
  BY DEF InventoryLock, InventoryStep, InventoryVisit, InventoryDelete, InventoryUnlock,
         handlerVars
<1>2. MutexInv' /\ CancelInv'
  <2>1. StopsKept /\ MutexesKept
    BY <1>1 DEF StopsKept, MutexesKept
  <2> QED BY <1>1, <2>1, StopsQuiet DEF LockInv
<1>3. /\ inv \in [Worker -> InvRecord] /\ inv[w] \in InvRecord
      /\ clients \in [Key -> 0 .. MaxRequests] /\ None \notin Key
  BY ConstantsAssumption DEF IInv, TypeOK, InvRecord
<1>4. MuxInv
  BY DEF LockInv
<1>5. MuxInv'
  <2>1. CASE InventoryLock(w)
    <3>1. UNCHANGED clients
      BY <2>1 DEF InventoryLock
    <3>2. inv[w].todo = {} /\ inv[w].del = None
      BY <1>4, <2>1 DEF MuxInv, InventoryLock
    <3>3. /\ inv'[w].locked /\ inv'[w].del = None
          /\ inv'[w].todo = {k \in Key : Home[k] = w /\ clients[k] # 0}
          /\ \A v \in Worker : v # w => inv'[v] = inv[v]
      BY <1>3, <2>1, <3>2 DEF InventoryLock, InvRecord
    <3> QED BY <1>3, <1>4, <3>1, <3>3 DEF MuxInv
  <2>2. ASSUME NEW k \in Key, InventoryVisit(w, k)
        PROVE  MuxInv'
    <3>1. UNCHANGED clients /\ inv[w].locked /\ k \in inv[w].todo
      BY <2>2 DEF InventoryVisit
    <3>2. /\ inv'[w].locked /\ inv'[w].del \in {None, k}
          /\ inv'[w].todo = inv[w].todo \ {k}
          /\ \A v \in Worker : v # w => inv'[v] = inv[v]
      BY <1>3, <2>2 DEF InventoryVisit, InvRecord
    <3>3. inv[w].todo \subseteq Key
      BY <1>3 DEF InvRecord
    <3> QED BY <1>3, <1>4, <3>1, <3>2, <3>3 DEF MuxInv
  <2>3. CASE InventoryDelete(w)
    <3>1. /\ inv'[w].locked /\ inv'[w].del = None
          /\ inv'[w].todo = inv[w].todo
          /\ \A v \in Worker : v # w => inv'[v] = inv[v]
      BY <1>3, <2>3 DEF InventoryDelete, InvRecord
    <3>2. Home[inv[w].del] = w /\ inv[w].del \notin inv[w].todo
      BY <1>4, <2>3 DEF MuxInv, InventoryDelete
    <3>3. \A k \in Key : k # inv[w].del => clients'[k] = clients[k]
      BY <1>3, <2>3 DEF InventoryDelete
    <3>4. \A v \in Worker : inv[v].todo \subseteq Key
      BY <1>3 DEF InvRecord
    <3>5. ASSUME NEW v \in Worker, NEW k \in inv[v].todo
          PROVE  clients'[k] # 0
      BY <1>4, <3>2, <3>3, <3>4, <3>5 DEF MuxInv
    <3>6. None \notin inv[w].todo
      BY <1>3, <3>4
    <3> QED BY <1>4, <3>1, <3>5, <3>6 DEF MuxInv
  <2>4. CASE InventoryUnlock(w)
    <3>1. UNCHANGED clients /\ inv[w].del = None /\ inv[w].todo = {}
      BY <2>4 DEF InventoryUnlock
    <3>2. /\ inv'[w].del = None /\ inv'[w].todo = {}
          /\ \A v \in Worker : v # w => inv'[v] = inv[v]
      BY <1>3, <2>4, <3>1 DEF InventoryUnlock, InvRecord
    <3> QED BY <1>4, <3>1, <3>2 DEF MuxInv
  <2> QED BY <2>1, <2>2, <2>3, <2>4 DEF InventoryStep
<1> QED BY <1>2, <1>5 DEF LockInv

-----------------------------------------------------------------------------
\* A cancel TLV is counted before its Stop begins.
LEMMA CancelTLVLocks ==
    ASSUME IInv, GrantInv, LockInv, NEW h \in Handler, NEW k \in Key, CancelTLV(h, k)
    PROVE  LockInv'
<1>1. UNCHANGED <<sub, clients, inv>> /\ cancels' = cancels + 1 /\ cancels \in Nat
  BY ConstantsAssumption DEF CancelTLV, IInv, TypeOK
<1>2. hs[h].pc = "idle" /\ ~ Cancelling(h)
  BY DEF CancelTLV, Idle, Cancelling
<1>3. \A i \in Handler : i # h => hs'[i] = hs[i]
  BY DEF CancelTLV, IInv, TypeOK
<1>4. \/ hs'[h] = hs[h]
      \/ /\ hs'[h].pc = "stop" /\ hs'[h].sc = clients[k] /\ clients[k] # 0
  BY DEF CancelTLV, IInv, TypeOK, IdleHandler
<1>5. clients[k] # 0 => sub[clients[k]].key # None
  BY ConstantsAssumption DEF GrantInv, KeyInv
<1>6. MutexInv'
  <2>1. \A i \in Handler : Cancelling(i)' => sub'[hs'[i].sc].key # None
    BY <1>1, <1>2, <1>3, <1>4, <1>5 DEF LockInv, MutexInv, Cancelling
  <2>2. \A i \in Handler : hs'[i].pc = "stopping" => hs'[i] = hs[i]
    BY <1>2, <1>3, <1>4
  <2>3. \A i \in Handler : hs[i].pc = "stopping" => hs'[i] = hs[i]
    BY <1>2, <1>3
  <2>4. \A s \in Req : sub[s].holder # None => sub[s].holder \in Handler
    BY DEF IInv, TypeOK, SubRecord, Handler
  <2> QED BY <1>1, <2>1, <2>2, <2>3, <2>4 DEF LockInv, MutexInv
<1>7. CancelInv'
  <2>1. \A i \in Handler : i # h /\ Cancelling(i)' => cancels >= 1
    BY <1>3 DEF LockInv, CancelInv, Cancelling
  <2>2. \A s \in Req : sub'[s].stop = 1 => cancels >= 1
    BY <1>1 DEF LockInv, CancelInv
  <2>3. hs'[h].pc # "stopping"
    BY <1>2, <1>4
  <2> QED BY <1>1, <2>1, <2>2, <2>3 DEF CancelInv, Cancelling
<1> QED BY <1>1, <1>6, <1>7, MuxQuiet DEF LockInv

\* A Stop returns, with or without a token, or keeps the mutex.
LEMMA StopLocks ==
    ASSUME IInv, LockInv, NEW h \in Handler, h \in General, Stop(h) \/ StopUnblocks(h)
    PROVE  LockInv'
<1> DEFINE s == hs[h].sc
<1>1. UNCHANGED <<clients, inv, cancels>> /\ cancels \in Nat
  BY ConstantsAssumption DEF Stop, StopUnblocks, IInv, TypeOK
<1>2. s \in Req /\ Cancelling(h)
  BY DEF Stop, StopUnblocks, IInv, HandlerInv, HoldsSub, Cancelling
<1>3. sub[s] \in SubRecord /\ sub \in [Req -> SubRecord]
  BY <1>2 DEF IInv, TypeOK
<1>4. \A t \in Req : sub[t].holder # None => sub[t].holder \in Handler
  BY DEF IInv, TypeOK, SubRecord, Handler
<1>5. None \notin Handler
  BY ConstantsAssumption
<1>6. MutexInv /\ CancelInv
  BY DEF LockInv
<1>7. \A i \in Handler : Cancelling(i) => hs[i].sc \in Req
  BY DEF IInv, HandlerInv, HoldsSub, Cancelling
<1>8. ASSUME Return(h), NEW y, sub' = [sub EXCEPT ![s] = y],
             y.key = sub[s].key, y.running = sub[s].running, y.holder = None,
             hs[h].pc = "stopping" \/ Free(s)
      PROVE  LockInv'
  <2>1. /\ hs'[h].pc = "idle" /\ ~ Cancelling(h)'
        /\ \A i \in Handler : i # h => hs'[i] = hs[i]
    BY <1>8, ReturnDrops DEF Cancelling
  <2>2. sub'[s] = y /\ \A t \in Req : t # s => sub'[t] = sub[t]
    BY <1>2, <1>3, <1>8
  <2>3. \A i \in Handler : i # h /\ hs[i].pc = "stopping" => hs[i].sc # s
    BY <1>5, <1>6, <1>8 DEF MutexInv, Free
  <2>4. \A t \in Req : t # s => sub[t].holder # h
    BY <1>5, <1>6 DEF MutexInv
  <2> HIDE DEF s
  <2>5. MutexInv'
    <3>1. \A i \in Handler : Cancelling(i)' => sub'[hs'[i].sc].key # None
      BY <1>6, <1>7, <1>8, <2>1, <2>2 DEF MutexInv, Cancelling
    <3>2. \A i \in Handler : hs'[i].pc = "stopping" => sub'[hs'[i].sc].holder = i
      BY <1>6, <1>7, <2>1, <2>2, <2>3 DEF MutexInv, Cancelling
    <3>3. \A t \in Req : sub'[t].holder # None =>
              /\ hs'[sub'[t].holder].pc = "stopping" /\ hs'[sub'[t].holder].sc = t
              /\ sub'[t].running
      BY <1>4, <1>6, <1>8, <2>1, <2>2, <2>4 DEF MutexInv
    <3> QED BY <3>1, <3>2, <3>3 DEF MutexInv
  <2>6. CancelInv'
    <3>1. \A i \in Handler : Cancelling(i)' => Cancelling(i) /\ i # h /\ hs'[i] = hs[i]
      BY <2>1 DEF Cancelling
    <3>2. cancels >= 1 /\ \A i \in Handler : Cancelling(i)' => cancels >= 2
      BY <1>2, <1>6, <3>1 DEF CancelInv
    <3> QED BY <1>1, <3>2 DEF CancelInv, Cancelling
  <2> QED BY <1>1, <2>5, <2>6, MuxQuiet DEF LockInv
<1>9. ASSUME GoTo(h, "stopping"), hs[h].pc = "stop", Free(s), sub[s].running,
             sub[s].stop = 1,
             sub' = [sub EXCEPT ![s] = [sub[s] EXCEPT !.expired = TRUE, !.holder = h]]
      PROVE  LockInv'
  <2>1. /\ hs'[h].pc = "stopping" /\ hs'[h].sc = s
        /\ \A i \in Handler : i # h => hs'[i] = hs[i]
    BY <1>9, GoToKeeps
  <2>2. /\ sub'[s].holder = h /\ sub'[s].running /\ sub'[s].key = sub[s].key
        /\ sub'[s].stop = sub[s].stop
        /\ \A t \in Req : t # s => sub'[t] = sub[t]
    BY <1>2, <1>3, <1>9 DEF SubRecord
  <2>3. \A i \in Handler : hs[i].pc = "stopping" => hs[i].sc # s
    BY <1>5, <1>6, <1>9 DEF MutexInv, Free
  <2>4. \A t \in Req : sub[t].holder # h
    BY <1>5, <1>6, <1>9 DEF MutexInv
  <2>5. cancels >= 2
    BY <1>2, <1>6, <1>9 DEF CancelInv
  <2> HIDE DEF s
  <2>6. MutexInv'
    <3>1. \A i \in Handler : Cancelling(i)' => sub'[hs'[i].sc].key # None
      BY <1>2, <1>6, <1>7, <2>1, <2>2 DEF MutexInv, Cancelling, s
    <3>2. \A i \in Handler : hs'[i].pc = "stopping" => sub'[hs'[i].sc].holder = i
      BY <1>6, <1>7, <2>1, <2>2, <2>3 DEF MutexInv, Cancelling
    <3>3. \A t \in Req : sub'[t].holder # None =>
              /\ hs'[sub'[t].holder].pc = "stopping" /\ hs'[sub'[t].holder].sc = t
              /\ sub'[t].running
      BY <1>4, <1>6, <2>1, <2>2, <2>4 DEF MutexInv
    <3> QED BY <3>1, <3>2, <3>3 DEF MutexInv
  <2>7. CancelInv'
    BY <1>1, <2>5 DEF CancelInv
  <2> QED BY <1>1, <2>6, <2>7, MuxQuiet DEF LockInv
<1>10. CASE Stop(h)
  <2>1. Free(s) /\ sub[s].holder = None
    BY <1>10 DEF Stop, Free
  <2>2. \/ Return(h) /\ sub' = [sub EXCEPT ![s] = [sub[s] EXCEPT !.expired = TRUE]]
        \/ Return(h) /\ sub' = [sub EXCEPT ![s] = [sub[s] EXCEPT !.expired = TRUE, !.stop = 1]]
        \/ /\ GoTo(h, "stopping") /\ hs[h].pc = "stop" /\ sub[s].running /\ sub[s].stop = 1
           /\ sub' = [sub EXCEPT ![s] = [sub[s] EXCEPT !.expired = TRUE, !.holder = h]]
    BY <1>10 DEF Stop
  <2>3. ASSUME NEW y \in {[sub[s] EXCEPT !.expired = TRUE],
                          [sub[s] EXCEPT !.expired = TRUE, !.stop = 1]}
        PROVE  y.key = sub[s].key /\ y.running = sub[s].running /\ y.holder = None
    BY <1>3, <2>1, <2>3 DEF SubRecord
  <2> HIDE DEF s
  <2> QED BY <1>8, <1>9, <2>1, <2>2, <2>3
<1>11. CASE StopUnblocks(h)
  <2>1. /\ Return(h) /\ hs[h].pc = "stopping"
        /\ sub' = [sub EXCEPT ![s] = [sub[s] EXCEPT !.stop = 1, !.holder = None]]
    BY <1>11 DEF StopUnblocks
  <2>2. /\ [sub[s] EXCEPT !.stop = 1, !.holder = None].key = sub[s].key
        /\ [sub[s] EXCEPT !.stop = 1, !.holder = None].running = sub[s].running
        /\ [sub[s] EXCEPT !.stop = 1, !.holder = None].holder = None
    BY <1>3 DEF SubRecord
  <2> HIDE DEF s
  <2> QED BY <1>8, <2>1, <2>2
<1> QED BY <1>10, <1>11

\* At the start nothing is locked and nothing was cancelled.
LEMMA InitLocks == Init => LockInv
<1> SUFFICES ASSUME Init PROVE LockInv
  OBVIOUS
<1>1. NoSub.holder = None /\ NoSub.stop = 0
  BY DEF NoSub
<1>2. MutexInv /\ CancelInv
  BY <1>1, IdleType DEF Init, MutexInv, CancelInv, Cancelling
<1>3. MuxInv
  BY DEF Init, MuxInv
<1> QED BY <1>2, <1>3 DEF LockInv

\* Every step keeps the invariant.
LEMMA NextLocks == IInv /\ GrantInv /\ LockInv /\ [Next]_vars => LockInv'
<1> SUFFICES ASSUME IInv, GrantInv, LockInv, [Next]_vars PROVE LockInv'
  OBVIOUS
<1>1. General \subseteq Handler /\ Event \subseteq Handler
  BY DEF Handler
<1>2. ASSUME NEW h \in General, GeneralStep(h) PROVE LockInv'
  BY <1>1, <1>2, HandlerLocks, RegisterLocks, StopLocks DEF GeneralStep
<1>3. ASSUME NEW e \in Event, EventStep(e) PROVE LockInv'
  BY <1>1, <1>3, HandlerLocks, RegisterLocks DEF EventStep
<1>4. ASSUME NEW h \in General, NEW k \in Key,
             CancelTLV(h, k) \/ \E r \in Request : RequestTLV(h, k, r)
      PROVE  LockInv'
  BY <1>1, <1>4, CancelTLVLocks, LookUpLocks
<1>5. ASSUME NEW e \in Event, NEW k \in Key, SptpDelayRequest(e, k) \/ DelayRequest(e, k)
      PROVE  LockInv'
  BY <1>1, <1>5, LookUpLocks
<1> QED BY <1>2, <1>3, <1>4, <1>5, GoroutineLocks, OtherLocks, InventoryLocks DEF Next

(***************************************************************************)
(* Whatever is locked is locked by a Stop after the second cancel, or by   *)
(* an inventory that can go on.  Besides the invariants above, the proof   *)
(* needs a count of the cancels (CancelInv): each one is a handler that    *)
(* stops or a token in a stop channel, and a Stop blocks on a token that   *)
(* is not its own.                                                         *)
(***************************************************************************)
THEOREM MutexesReturned == Spec => []OnlyStopWaits
<1>1. IInv /\ LockInv => OnlyStopWaits
  <2> SUFFICES ASSUME IInv, LockInv PROVE OnlyStopWaits
    OBVIOUS
  <2>1. ASSUME NEW s \in Req, sub[s].holder # None
        PROVE  /\ hs[sub[s].holder].pc = "stopping" /\ hs[sub[s].holder].sc = s
               /\ cancels >= 2
               /\ \E n \in Req : gs[n].sc = s /\ Serving(n)
    <3>1. sub[s].holder \in Handler
      BY <2>1 DEF IInv, TypeOK, SubRecord, Handler
    <3>2. hs[sub[s].holder].pc = "stopping" /\ hs[sub[s].holder].sc = s /\ sub[s].running
      BY <2>1 DEF LockInv, MutexInv
    <3>3. cancels >= 2
      BY <3>1, <3>2 DEF LockInv, CancelInv
    <3> QED BY <3>2, <3>3 DEF IInv, RunningHasGoroutine
  <2>2. \A h \in Handler : hs[h].pc = "stopping" => sub[hs[h].sc].holder = h
    BY DEF LockInv, MutexInv
  <2>3. ASSUME NEW w \in Worker, NEW k \in Key, k \in inv[w].todo
        PROVE  clients[k] \in Req /\ (Free(clients[k]) \/ cancels >= 2)
    <3>1. clients[k] \in Req
      BY <2>3, ConstantsAssumption DEF LockInv, MuxInv, IInv, TypeOK, Req
    <3> QED BY <2>1, <3>1 DEF Free
  <2> QED BY <2>1, <2>2, <2>3 DEF OnlyStopWaits
<1> QED BY <1>1, InitGrant, NextGrant, InitLocks, NextLocks, Invariance, PTL DEF Spec

=============================================================================
