---------------------------- MODULE Subscription ----------------------------
(***************************************************************************)
(* Unicast subscriptions of ptp4u: the general and event handlers that     *)
(* create, renew and cancel them (server/server.go), the goroutine that    *)
(* serves each one (SubscriptionClient.Start in server/subscription.go),   *)
(* the send worker's two channels and its client table                     *)
(* (server/worker.go), and the drain switch.                               *)
(*                                                                         *)
(* Every process is a sequence of atomic steps.  Two steps are kept apart  *)
(* whenever another process may run between the corresponding lines of     *)
(* Go: a mutex is released, a channel may block, or shared state is read   *)
(* and used later.                                                         *)
(*                                                                         *)
(* Abstractions.                                                           *)
(*  - Time.  `expired' is what Expired() would answer.  It turns true when *)
(*    Lapse happens, at any moment after SetExpire; ticks come at any      *)
(*    moment.                                                              *)
(*  - A client port and a message type are one Key.                        *)
(*  - Requests are numbered in the order in which they are received.  The  *)
(*    number of a request names the SubscriptionClient and the goroutine   *)
(*    it may create, so 0 is nil.                                          *)
(*  - Of all the methods that lock the SubscriptionClient only Stop can    *)
(*    block while it holds the mutex; that one is recorded in `holder',    *)
(*    the others are single steps that wait for the mutex to be free.      *)
(***************************************************************************)
EXTENDS Integers, Sequences, FiniteSets

CONSTANTS
    Key,            \* client port + message type
    KeyType,        \* [Key -> message type]
    Worker,         \* send workers
    Home,           \* [Key -> Worker], the hash of findWorker
    General,        \* goroutines running handleGeneralMessages
    Event,          \* goroutines running handleEventMessages
    QueueSize,      \* capacity of queue and signalingQueue, 0 by default
    MinSubInterval, MaxSubDuration,      \* the limits of the dynamic config
    SptpInterval,   \* subscriptionDuration, the fixed interval of sptp
    Request,        \* [interval, duration] of a grant request
    MaxRequests,    \* bound: subscriptions requested in a behaviour
    MaxCancels,     \* bound: cancel TLVs received in a behaviour
    MaxCtx,         \* bound: contexts created in a behaviour
    None

Announce == "announce"
Sync == "sync"
DelayResp == "delay_resp"
DelayReq == "delay_req"
MessageType == {Announce, Sync, DelayResp, DelayReq}

Req == 1 .. MaxRequests
Handler == General \cup Event
Process == Handler \cup Req      \* whoever sends on a worker's channels

ASSUME ConstantsAssumption ==
    /\ KeyType \in [Key -> MessageType]
    /\ Home \in [Key -> Worker]
    /\ QueueSize \in Nat /\ MaxRequests \in Nat
    /\ MaxCancels \in Nat /\ MaxCtx \in Nat \ {0}
    /\ MinSubInterval \in Int /\ MaxSubDuration \in Int
    /\ SptpInterval \in Int
    /\ Request \subseteq [interval : Int, duration : Nat]
    /\ General \cap Event = {} /\ Handler \cap Req = {}
    /\ None \notin Handler /\ None \notin Key

VARIABLES
    sub,        \* sub[n]: the SubscriptionClient created for request n
    clients,    \* clients[k]: the client table of the worker of k, 0 if absent
    hs,         \* hs[h]: program counter and locals of a handler
    gs,         \* gs[n]: the goroutine `go sc.Start(ctx)' of request n
    queue,      \* queue[w]: the worker's channel of messages to send
    signalingQueue, \* signalingQueue[w]: the worker's channel of answers
    cur,        \* cur[w]: the subscription whose answer w is sending, or 0
    inv,        \* inv[w]: progress of inventoryClients, which holds w's mux
    ctx,        \* number of the context in Server.ctx
    cancelled,  \* contexts whose cancel function was called
    issued,     \* requests received so far
    cancels,    \* cancel TLVs received so far
    lastSignal  \* lastSignal[k]: history, the last answer that left for k's
                \* client, or "lost" if a refusal or a cancel after it did not

handlerVars == <<hs, issued, cancels>>
workerVars == <<queue, signalingQueue, cur, lastSignal>>
ctxVars == <<ctx, cancelled>>
vars == <<sub, clients, hs, gs, queue, signalingQueue, cur, inv, ctx,
          cancelled, issued, cancels, lastSignal>>

-----------------------------------------------------------------------------
(***************************************************************************)
(* Go channels.  A channel is the sequence of values sent and not yet      *)
(* received, each with its sender: the first QueueSize of them sit in the  *)
(* buffer, the senders of the others are blocked, in the order in which    *)
(* they arrived.  Capacity 0 is the unbuffered channel.                    *)
(***************************************************************************)
Send(c, p, s) == Append(c, [by |-> p, sc |-> s])

BlockedOn(c, p) == \E i \in 1 .. Len(c) : i > QueueSize /\ c[i].by = p

Blocked(p) ==
    \E w \in Worker : BlockedOn(queue[w], p) \/ BlockedOn(signalingQueue[w], p)

Once(p, s) ==
    queue' = [queue EXCEPT ![Home[sub[s].key]] = Send(@, p, s)]

OnceSignaling(p, s) ==
    signalingQueue' =
        [signalingQueue EXCEPT ![Home[sub[s].key]] = Send(@, p, s)]

Free(s) == sub[s].holder = None           \* sc.Lock() succeeds
MuxFree(k) == ~ inv[Home[k]].locked       \* worker.mux.Lock() succeeds

(***************************************************************************)
(* Sync and Announce are pushed by the goroutine; DelayResp and DelayReq   *)
(* (sptp) are sent only when a delay request of the client arrives.        *)
(***************************************************************************)
Periodic(s) == KeyType[sub[s].key] \in {Announce, Sync}

Drained == ctx \in cancelled              \* s.ctx.Err() != nil

NoSub == [key |-> None, interval |-> 0, duration |-> 0, expired |-> TRUE,
          running |-> FALSE, runningInterval |-> 0, stop |-> 0,
          holder |-> None, signaling |-> "none"]

NewSubscriptionClient(k, i, d) ==
    [NoSub EXCEPT !.key = k, !.interval = i, !.duration = d, !.expired = FALSE]

IdleHandler == [pc |-> "idle", key |-> None, n |-> 0, sc |-> 0,
                interval |-> 0, duration |-> 0]

NoGoroutine == [pc |-> "none", sc |-> 0, ctx |-> 0]

Init ==
    /\ sub = [n \in Req |-> NoSub]
    /\ clients = [k \in Key |-> 0]
    /\ hs = [h \in Handler |-> IdleHandler]
    /\ gs = [n \in Req |-> NoGoroutine]
    /\ queue = [w \in Worker |-> << >>]
    /\ signalingQueue = [w \in Worker |-> << >>]
    /\ cur = [w \in Worker |-> 0]
    /\ inv = [w \in Worker |-> [locked |-> FALSE, todo |-> {}, del |-> None]]
    /\ ctx = 1
    /\ cancelled = {}
    /\ issued = 0
    /\ cancels = 0
    /\ lastSignal = [k \in Key |-> "none"]

-----------------------------------------------------------------------------
(***************************************************************************)
(* General handlers: one grant request TLV.                                *)
(***************************************************************************)
GoTo(h, pc) == hs' = [hs EXCEPT ![h].pc = pc]
Return(h) == hs' = [hs EXCEPT ![h] = IdleHandler]

Idle(h) == hs[h].pc = "idle" /\ ~ Blocked(h)

\* FindSubscription: the table is read now, the result used later.
RequestTLV(h, k, r) ==
    /\ Idle(h) /\ issued < MaxRequests
    /\ KeyType[k] # DelayReq
    /\ MuxFree(k)
    /\ issued' = issued + 1
    /\ hs' = [hs EXCEPT ![h] =
                 [pc |-> "check", key |-> k, n |-> issued + 1,
                  sc |-> clients[k],
                  interval |-> r.interval, duration |-> r.duration]]
    /\ UNCHANGED <<sub, clients, gs, workerVars, inv, ctxVars, cancels>>

\* sc == nil || !sc.Running()
CheckRunning(h) ==
    /\ hs[h].pc = "check"
    /\ \/ hs[h].sc = 0 /\ GoTo(h, "register")
       \/ /\ hs[h].sc # 0 /\ Free(hs[h].sc)
          /\ GoTo(h, IF sub[hs[h].sc].running THEN "setexpire" ELSE "register")
    /\ UNCHANGED <<sub, clients, gs, workerVars, inv, ctxVars, issued, cancels>>

\* RegisterSubscription, under the worker's mux.
RegisterSubscription(k, n) == clients' = [clients EXCEPT ![k] = n]

\* NewSubscriptionClient, then RegisterSubscription.
Register(h) ==
    LET n == hs[h].n  k == hs[h].key
    IN  /\ hs[h].pc = "register"
        /\ MuxFree(k)
        /\ sub' = [sub EXCEPT ![n] =
                      NewSubscriptionClient(k, hs[h].interval, hs[h].duration)]
        /\ RegisterSubscription(k, n)
        /\ hs' = [hs EXCEPT ![h] = [@ EXCEPT !.pc = "answer", !.sc = n]]
        /\ UNCHANGED <<gs, workerVars, inv, ctxVars, issued, cancels>>

\* The renewal of a running subscription: SetExpire, then SetInterval and
\* SetGclisa (addresses are left out, so the two locks are taken as one).
RenewExpire(h) ==
    /\ hs[h].pc = "setexpire" /\ Free(hs[h].sc)
    /\ sub' = [sub EXCEPT ![hs[h].sc] =
                  [@ EXCEPT !.expired = FALSE, !.duration = hs[h].duration]]
    /\ GoTo(h, "setinterval")
    /\ UNCHANGED <<clients, gs, workerVars, inv, ctxVars, issued, cancels>>

RenewInterval(h) ==
    /\ hs[h].pc = "setinterval" /\ Free(hs[h].sc)
    /\ sub' = [sub EXCEPT ![hs[h].sc].interval = hs[h].interval]
    /\ GoTo(h, "answer")
    /\ UNCHANGED <<clients, gs, workerVars, inv, ctxVars, issued, cancels>>

OutOfLimits(i, d) == i < MinSubInterval \/ d > MaxSubDuration

\* The grant TLV carries the duration: 0 is how the client reads a refusal.
GrantTLV(d) == IF d = 0 THEN "deny" ELSE "grant"

\* sendSignalingGrant with duration 0, and `continue'.
Reject(h) ==
    LET s == hs[h].sc
    IN  /\ hs[h].pc = "answer"
        /\ OutOfLimits(hs[h].interval, hs[h].duration) \/ Drained
        /\ sub' = [sub EXCEPT ![s].signaling = "deny"]
        /\ OnceSignaling(h, s)
        /\ Return(h)
        /\ UNCHANGED <<clients, gs, queue, cur, lastSignal, inv, ctxVars,
                       issued, cancels>>

\* sendSignalingGrant with the requested duration.
Grant(h) ==
    LET s == hs[h].sc
    IN  /\ hs[h].pc = "answer"
        /\ ~ OutOfLimits(hs[h].interval, hs[h].duration) /\ ~ Drained
        /\ sub' = [sub EXCEPT ![s].signaling = GrantTLV(hs[h].duration)]
        /\ OnceSignaling(h, s)
        /\ GoTo(h, "launch")
        /\ UNCHANGED <<clients, gs, queue, cur, lastSignal, inv, ctxVars,
                       issued, cancels>>

GoStart(n, s) == gs' = [gs EXCEPT ![n] = [pc |-> "start", sc |-> s, ctx |-> ctx]]

\* if !sc.Running() { go sc.Start(s.ctx) }
Launch(h) ==
    /\ hs[h].pc = "launch" /\ ~ Blocked(h)
    /\ Free(hs[h].sc)
    /\ IF sub[hs[h].sc].running THEN UNCHANGED gs
                                ELSE GoStart(hs[h].n, hs[h].sc)
    /\ Return(h)
    /\ UNCHANGED <<sub, clients, workerVars, inv, ctxVars, issued, cancels>>

(***************************************************************************)
(* General handlers: one cancel TLV, for a subscription of any type.       *)
(***************************************************************************)
CancelTLV(h, k) ==
    /\ Idle(h) /\ cancels < MaxCancels
    /\ MuxFree(k)
    /\ cancels' = cancels + 1
    /\ IF clients[k] = 0
         THEN UNCHANGED hs
         ELSE hs' = [hs EXCEPT ![h] = [IdleHandler EXCEPT
                        !.pc = "stop", !.key = k, !.sc = clients[k]]]
    /\ UNCHANGED <<sub, clients, gs, workerVars, inv, ctxVars, issued>>

\* Variant: the stop channel is unbounded.
StopUnbounded(h) ==
    LET s == hs[h].sc
    IN  /\ hs[h].pc = "stop" /\ Free(s)
        /\ sub' = [sub EXCEPT ![s].expired = TRUE,
                              ![s].stop = IF sub[s].running THEN @ + 1 ELSE @]
        /\ Return(h)
        /\ UNCHANGED <<clients, gs, workerVars, inv, ctxVars, issued, cancels>>

\* Variant: the stop channel has no buffer.
StopUnbuffered(h) ==
    LET s == hs[h].sc
    IN  /\ hs[h].pc = "stop" /\ Free(s)
        /\ IF sub[s].running
             THEN /\ sub' = [sub EXCEPT ![s] = [@ EXCEPT !.expired = TRUE, !.holder = h]]
                  /\ GoTo(h, "stopping")
             ELSE sub' = [sub EXCEPT ![s].expired = TRUE] /\ Return(h)
        /\ UNCHANGED <<clients, gs, workerVars, inv, ctxVars, issued, cancels>>

\* Stop: the send on the stop channel (capacity 1) may block, mutex held.
Stop(h) ==
    LET s == hs[h].sc
    IN  /\ hs[h].pc = "stop" /\ Free(s)
        /\ \/ /\ ~ sub[s].running
              /\ sub' = [sub EXCEPT ![s].expired = TRUE]
              /\ Return(h)
           \/ /\ sub[s].running /\ sub[s].stop = 0
              /\ sub' = [sub EXCEPT ![s] = [@ EXCEPT !.expired = TRUE, !.stop = 1]]
              /\ Return(h)
           \/ /\ sub[s].running /\ sub[s].stop = 1
              /\ sub' = [sub EXCEPT ![s] = [@ EXCEPT !.expired = TRUE, !.holder = h]]
              /\ GoTo(h, "stopping")
        /\ UNCHANGED <<clients, gs, workerVars, inv, ctxVars, issued, cancels>>

\* The blocked send goes through once the goroutine has taken the token.
StopUnblocks(h) ==
    LET s == hs[h].sc
    IN  /\ hs[h].pc = "stopping" /\ sub[s].stop = 0
        /\ sub' = [sub EXCEPT ![s] = [@ EXCEPT !.stop = 1, !.holder = None]]
        /\ Return(h)
        /\ UNCHANGED <<clients, gs, workerVars, inv, ctxVars, issued, cancels>>

GeneralStep(h) ==
    \/ CheckRunning(h) \/ Register(h) \/ RenewExpire(h) \/ RenewInterval(h)
    \/ Reject(h) \/ Grant(h) \/ Launch(h)
    \/ Stop(h) \/ StopUnblocks(h)

-----------------------------------------------------------------------------
(***************************************************************************)
(* Event handlers: one delay request.  While the server is drained it is   *)
(* ignored.  An sptp request creates or bumps the subscription that        *)
(* answers it; any other one is answered only if the client has a          *)
(* DelayResp subscription, running or not.                                 *)
(***************************************************************************)
SptpDelayRequest(e, k) ==
    /\ Idle(e) /\ KeyType[k] = DelayReq /\ ~ Drained /\ MuxFree(k)
    /\ IF clients[k] = 0
         THEN /\ issued < MaxRequests
              /\ issued' = issued + 1
              /\ hs' = [hs EXCEPT ![e] = [IdleHandler EXCEPT !.pc = "sptpnew",
                                          !.key = k, !.n = issued + 1]]
         ELSE /\ hs' = [hs EXCEPT ![e] = [IdleHandler EXCEPT !.pc = "bump",
                                          !.key = k, !.sc = clients[k]]]
              /\ UNCHANGED issued
    /\ UNCHANGED <<sub, clients, gs, workerVars, inv, ctxVars, cancels>>

SptpRegister(e) ==
    LET n == hs[e].n  k == hs[e].key
    IN  /\ hs[e].pc = "sptpnew"
        /\ MuxFree(k)
        /\ sub' = [sub EXCEPT ![n] =
                      NewSubscriptionClient(k, SptpInterval, SptpInterval)]
        /\ RegisterSubscription(k, n)
        /\ hs' = [hs EXCEPT ![e] = [@ EXCEPT !.pc = "sptpstart", !.sc = n]]
        /\ UNCHANGED <<gs, workerVars, inv, ctxVars, issued, cancels>>

\* go sc.Start(s.ctx): no look at Running here.
SptpStart(e) ==
    /\ hs[e].pc = "sptpstart"
    /\ GoStart(hs[e].n, hs[e].sc)
    /\ GoTo(e, "once")
    /\ UNCHANGED <<sub, clients, workerVars, inv, ctxVars, issued, cancels>>

\* sc.SetExpire(expire)
Bump(e) ==
    /\ hs[e].pc = "bump" /\ Free(hs[e].sc)
    /\ sub' = [sub EXCEPT ![hs[e].sc] =
                  [@ EXCEPT !.expired = FALSE, !.duration = SptpInterval]]
    /\ GoTo(e, "once")
    /\ UNCHANGED <<clients, gs, workerVars, inv, ctxVars, issued, cancels>>

DelayRequest(e, k) ==
    /\ Idle(e) /\ KeyType[k] = DelayResp /\ ~ Drained /\ MuxFree(k)
    /\ clients[k] # 0
    /\ hs' = [hs EXCEPT ![e] = [IdleHandler EXCEPT !.pc = "once",
                                !.key = k, !.sc = clients[k]]]
    /\ UNCHANGED <<sub, clients, gs, workerVars, inv, ctxVars, issued, cancels>>

\* The packets of the subscription are updated and sc.Once() is called.
EventOnce(e) ==
    /\ hs[e].pc = "once"
    /\ Once(e, hs[e].sc)
    /\ Return(e)
    /\ UNCHANGED <<sub, clients, gs, signalingQueue, cur, lastSignal, inv,
                   ctxVars, issued, cancels>>

EventStep(e) == SptpRegister(e) \/ SptpStart(e) \/ Bump(e) \/ EventOnce(e)

-----------------------------------------------------------------------------
(***************************************************************************)
(* The goroutine sc.Start(ctx).                                            *)
(***************************************************************************)
GoroutineTo(n, pc) == gs' = [gs EXCEPT ![n].pc = pc]

\* setRunning(true), and the first message of a periodic subscription.
StartRunning(n) ==
    LET s == gs[n].sc
    IN  /\ gs[n].pc = "start" /\ Free(s)
        /\ sub' = [sub EXCEPT ![s].running = TRUE]
        /\ IF Periodic(s) THEN Once(n, s) ELSE UNCHANGED queue
        /\ GoroutineTo(n, "newticker")
        /\ UNCHANGED <<clients, handlerVars, signalingQueue, cur, lastSignal,
                       inv, ctxVars>>

NewTicker(n) ==
    LET s == gs[n].sc
    IN  /\ gs[n].pc = "newticker" /\ ~ Blocked(n)
        /\ sub' = [sub EXCEPT ![s].runningInterval = sub[s].interval]
        /\ GoroutineTo(n, "select")
        /\ UNCHANGED <<clients, handlerVars, workerVars, inv, ctxVars>>

AtSelect(n) == gs[n].pc = "select" /\ ~ Blocked(n)

\* Variant: the goroutine watches s.ctx instead of the context it was given.
SelectServerDone(n) ==
    /\ AtSelect(n) /\ Drained
    /\ GoroutineTo(n, "exit")
    /\ UNCHANGED <<sub, clients, handlerVars, workerVars, inv, ctxVars>>

\* case <-ctx.Done()
SelectDone(n) ==
    /\ AtSelect(n) /\ gs[n].ctx \in cancelled
    /\ GoroutineTo(n, "exit")
    /\ UNCHANGED <<sub, clients, handlerVars, workerVars, inv, ctxVars>>

\* case <-sc.stop
SelectStop(n) ==
    /\ AtSelect(n) /\ sub[gs[n].sc].stop = 1
    /\ sub' = [sub EXCEPT ![gs[n].sc].stop = 0]
    /\ GoroutineTo(n, "exit")
    /\ UNCHANGED <<clients, handlerVars, workerVars, inv, ctxVars>>

\* case <-sc.intervalTicker.C, before sc.Expired() takes the mutex
SelectTick(n) ==
    /\ AtSelect(n)
    /\ GoroutineTo(n, "tick")
    /\ UNCHANGED <<sub, clients, handlerVars, workerVars, inv, ctxVars>>

\* Variant: the lease is never looked at.
NeverExpired(s) == FALSE

Expired(s) == sub[s].expired

Expire(n) ==
    /\ gs[n].pc = "tick" /\ Free(gs[n].sc)
    /\ Expired(gs[n].sc)
    /\ GoroutineTo(n, "exit")
    /\ UNCHANGED <<sub, clients, handlerVars, workerVars, inv, ctxVars>>

\* A changed interval is adopted, and a periodic subscription sends again.
Serve(n) ==
    LET s == gs[n].sc
    IN  /\ gs[n].pc = "tick" /\ Free(s)
        /\ ~ Expired(s)
        /\ sub' = [sub EXCEPT ![s].runningInterval = sub[s].interval]
        /\ IF Periodic(s) THEN Once(n, s) ELSE UNCHANGED queue
        /\ GoroutineTo(n, "select")
        /\ UNCHANGED <<clients, handlerVars, signalingQueue, cur, lastSignal,
                       inv, ctxVars>>

\* Variant: setRunning(false) is forgotten.
StopRunningForgotten(n) ==
    /\ gs[n].pc = "exit" /\ Free(gs[n].sc)
    /\ GoroutineTo(n, IF KeyType[sub[gs[n].sc].key] = DelayReq THEN "done"
                                                               ELSE "cancel")
    /\ UNCHANGED <<sub, clients, handlerVars, workerVars, inv, ctxVars>>

\* The deferred setRunning(false) runs first ...
StopRunning(n) ==
    LET s == gs[n].sc
    IN  /\ gs[n].pc = "exit" /\ Free(s)
        /\ sub' = [sub EXCEPT ![s].running = FALSE]
        /\ GoroutineTo(n, IF KeyType[sub[s].key] = DelayReq THEN "done"
                                                            ELSE "cancel")
        /\ UNCHANGED <<clients, handlerVars, workerVars, inv, ctxVars>>

\* Variant: a subscription that ended by itself is not cancelled.
CancelForgotten(n) ==
    /\ gs[n].pc = "cancel"
    /\ GoroutineTo(n, "done")
    /\ UNCHANGED <<sub, clients, handlerVars, workerVars, inv, ctxVars>>

\* ... and the deferred sendSignalingCancel last.
SendSignalingCancel(n) ==
    LET s == gs[n].sc
    IN  /\ gs[n].pc = "cancel"
        /\ sub' = [sub EXCEPT ![s].signaling = "cancel"]
        /\ OnceSignaling(n, s)
        /\ GoroutineTo(n, "done")
        /\ UNCHANGED <<clients, handlerVars, queue, cur, lastSignal, inv,
                       ctxVars>>

GoroutineStep(n) ==
    \/ StartRunning(n) \/ NewTicker(n)
    \/ SelectDone(n) \/ SelectStop(n) \/ SelectTick(n)
    \/ Expire(n) \/ Serve(n) \/ StopRunning(n) \/ SendSignalingCancel(n)

-----------------------------------------------------------------------------
(***************************************************************************)
(* The send worker.  What it does with a message is in TxTimestamp; here   *)
(* it frees the channel.  An answer is marshalled from sc.signaling after  *)
(* it was taken from the channel, so it is what the field holds then.      *)
(***************************************************************************)
TakeMessage(w) ==
    /\ cur[w] = 0 /\ queue[w] # << >>
    /\ queue' = [queue EXCEPT ![w] = Tail(@)]
    /\ UNCHANGED <<sub, clients, handlerVars, gs, signalingQueue, cur, inv,
                   ctxVars, lastSignal>>

\* Variant: answers are looked at only along with a message.
TakeSignalingLate(w) ==
    /\ cur[w] = 0 /\ signalingQueue[w] # << >> /\ queue[w] # << >>
    /\ signalingQueue' = [signalingQueue EXCEPT ![w] = Tail(@)]
    /\ cur' = [cur EXCEPT ![w] = Head(signalingQueue[w]).sc]
    /\ UNCHANGED <<sub, clients, handlerVars, gs, queue, inv, ctxVars,
                   lastSignal>>

TakeSignaling(w) ==
    /\ cur[w] = 0 /\ signalingQueue[w] # << >>
    /\ signalingQueue' = [signalingQueue EXCEPT ![w] = Tail(@)]
    /\ cur' = [cur EXCEPT ![w] = Head(signalingQueue[w]).sc]
    /\ UNCHANGED <<sub, clients, handlerVars, gs, queue, inv, ctxVars,
                   lastSignal>>

Transmit(w) ==
    /\ cur[w] # 0
    /\ lastSignal' = [lastSignal EXCEPT ![sub[cur[w]].key] =
                         sub[cur[w]].signaling]
    /\ cur' = [cur EXCEPT ![w] = 0]
    /\ UNCHANGED <<sub, clients, handlerVars, gs, queue, signalingQueue, inv,
                   ctxVars>>

\* BytesTo or Sendto fails: `continue', and the client is told nothing.  What it
\* last heard still stands after a grant that was lost; after a refusal or a
\* cancel it no longer does.
TransmitFails(w) ==
    /\ cur[w] # 0
    /\ lastSignal' = [lastSignal EXCEPT ![sub[cur[w]].key] =
                         IF sub[cur[w]].signaling = "grant" THEN @ ELSE "lost"]
    /\ cur' = [cur EXCEPT ![w] = 0]
    /\ UNCHANGED <<sub, clients, handlerVars, gs, queue, signalingQueue, inv,
                   ctxVars>>

WorkerStep(w) ==
    \/ TakeMessage(w) \/ TakeSignaling(w) \/ Transmit(w) \/ TransmitFails(w)

(***************************************************************************)
(* inventoryClients: the metric loop and Drain walk the client table under *)
(* the worker's mux.  The mutex of a subscription is released between the  *)
(* look at running and the removal.                                        *)
(***************************************************************************)
InventoryLock(w) ==
    /\ ~ inv[w].locked
    /\ inv' = [inv EXCEPT ![w].locked = TRUE,
                          ![w].todo = {k \in Key : Home[k] = w /\ clients[k] # 0}]
    /\ UNCHANGED <<sub, clients, handlerVars, gs, workerVars, ctxVars>>

InventoryVisit(w, k) ==
    /\ inv[w].locked /\ inv[w].del = None /\ k \in inv[w].todo
    /\ Free(clients[k])
    /\ inv' = [inv EXCEPT
                  ![w].todo = @ \ {k},
                  ![w].del = IF sub[clients[k]].running THEN None ELSE k]
    /\ UNCHANGED <<sub, clients, handlerVars, gs, workerVars, ctxVars>>

InventoryDelete(w) ==
    /\ inv[w].locked /\ inv[w].del # None
    /\ clients' = [clients EXCEPT ![inv[w].del] = 0]
    /\ inv' = [inv EXCEPT ![w].del = None]
    /\ UNCHANGED <<sub, handlerVars, gs, workerVars, ctxVars>>

InventoryUnlock(w) ==
    /\ inv[w].locked /\ inv[w].del = None /\ inv[w].todo = {}
    /\ inv' = [inv EXCEPT ![w].locked = FALSE]
    /\ UNCHANGED <<sub, clients, handlerVars, gs, workerVars, ctxVars>>

InventoryStep(w) ==
    \/ \E k \in Key : InventoryVisit(w, k)
    \/ InventoryDelete(w) \/ InventoryUnlock(w)

(***************************************************************************)
(* Drain cancels the context of all subscriptions, Undrain creates the     *)
(* next one.  The waiting loop of Drain is in DrainControl.                *)
(***************************************************************************)
Drain ==
    /\ ~ Drained
    /\ cancelled' = cancelled \cup {ctx}
    /\ UNCHANGED <<sub, clients, handlerVars, gs, workerVars, inv, ctx>>

\* Variant: the context is renewed whether or not it was cancelled.
UndrainAlways ==
    /\ ctx < MaxCtx
    /\ ctx' = ctx + 1
    /\ UNCHANGED <<sub, clients, handlerVars, gs, workerVars, inv, cancelled>>

Undrain ==
    /\ Drained /\ ctx < MaxCtx
    /\ ctx' = ctx + 1
    /\ UNCHANGED <<sub, clients, handlerVars, gs, workerVars, inv, cancelled>>

\* The clock passes sc.expire.
Lapse(n) ==
    /\ sub[n].key # None /\ ~ sub[n].expired
    /\ sub' = [sub EXCEPT ![n].expired = TRUE]
    /\ UNCHANGED <<clients, handlerVars, gs, workerVars, inv, ctxVars>>

Next ==
    \/ \E h \in General, k \in Key :
           CancelTLV(h, k) \/ \E r \in Request : RequestTLV(h, k, r)
    \/ \E h \in General : GeneralStep(h)
    \/ \E e \in Event, k \in Key : SptpDelayRequest(e, k) \/ DelayRequest(e, k)
    \/ \E e \in Event : EventStep(e)
    \/ \E n \in Req : GoroutineStep(n) \/ Lapse(n)
    \/ \E w \in Worker : WorkerStep(w) \/ InventoryLock(w) \/ InventoryStep(w)
    \/ Drain \/ Undrain

Spec == Init /\ [][Next]_vars

(***************************************************************************)
(* Fairness.  The Go scheduler runs every goroutine that can run: weak     *)
(* fairness of each process.  Strong fairness is assumed in three places   *)
(* only: for the worker's mux, which inventoryClients takes and releases   *)
(* for ever (sync.Mutex has a starvation mode), for ctx.Done() among the   *)
(* cases of the goroutine's select, and for the signaling queue in the     *)
(* worker's select (select picks at random among the cases that are        *)
(* ready).  Clients are under no obligation to send anything.              *)
(***************************************************************************)
Fairness ==
    /\ \A h \in General : WF_vars(GeneralStep(h)) /\ SF_vars(Register(h))
    /\ \A e \in Event : WF_vars(EventStep(e)) /\ SF_vars(SptpRegister(e))
    /\ \A n \in Req : /\ WF_vars(GoroutineStep(n)) /\ SF_vars(SelectDone(n))
    /\ \A w \in Worker : /\ WF_vars(WorkerStep(w)) /\ SF_vars(TakeSignaling(w))
                         /\ WF_vars(InventoryStep(w))

FairSpec == Spec /\ Fairness

-----------------------------------------------------------------------------
SubRecord ==
    [key : Key \cup {None}, interval : Int, duration : Int,
     expired : BOOLEAN, running : BOOLEAN, runningInterval : Int,
     stop : {0, 1}, holder : General \cup {None},
     signaling : {"none", "grant", "deny", "cancel"}]

HandlerRecord ==
    [pc : {"idle", "check", "register", "setexpire", "setinterval", "answer",
           "launch", "stop", "stopping", "sptpnew", "sptpstart", "bump", "once"},
     key : Key \cup {None}, n : 0 .. MaxRequests, sc : 0 .. MaxRequests,
     interval : Int, duration : Int]

GoroutineRecord ==
    [pc : {"none", "start", "newticker", "select", "tick", "exit", "cancel",
           "done"},
     sc : 0 .. MaxRequests, ctx : Nat]

Channel == Seq([by : Process, sc : Req])

\* The types of the variables: what each field of the Go structs may hold.
TypeOK ==
    /\ sub \in [Req -> SubRecord]
    /\ clients \in [Key -> 0 .. MaxRequests]
    /\ hs \in [Handler -> HandlerRecord]
    /\ gs \in [Req -> GoroutineRecord]
    /\ queue \in [Worker -> Channel]
    /\ signalingQueue \in [Worker -> Channel]
    /\ cur \in [Worker -> 0 .. MaxRequests]
    /\ inv \in [Worker -> [locked : BOOLEAN, todo : SUBSET Key,
                           del : Key \cup {None}]]
    /\ ctx \in 1 .. MaxCtx
    /\ cancelled \subseteq 1 .. MaxCtx
    /\ issued \in 0 .. MaxRequests
    /\ cancels \in 0 .. MaxCancels
    /\ lastSignal \in [Key -> {"none", "grant", "deny", "cancel", "lost"}]

Live(n) == gs[n].pc \notin {"none", "done"}
Serving(n) == gs[n].pc \in {"newticker", "select", "tick", "exit"}

(***************************************************************************)
(* Drain reaches everybody: a goroutine that is alive runs under the       *)
(* context the next Drain will cancel, or under one that is cancelled      *)
(* already.  Handlers read s.ctx twice, for the limits and for the go      *)
(* statement, while Drain and Undrain replace it.                          *)
(***************************************************************************)
NoSurvivor ==
    \A n \in Req : Live(n) => gs[n].ctx = ctx \/ gs[n].ctx \in cancelled

(***************************************************************************)
(* Running() is never a leftover: the flag is set only while a goroutine   *)
(* of the subscription is between setRunning(true) and setRunning(false),  *)
(* however many goroutines were started for it.  A flag that outlives the  *)
(* goroutine would let a renewal be granted that nobody serves.            *)
(***************************************************************************)
RunningHasGoroutine ==
    \A s \in Req : sub[s].running => \E n \in Req : gs[n].sc = s /\ Serving(n)

\* Everything sent to the client of k so far has left, and no handler works on k.
Quiet(k) ==
    /\ \A h \in Handler : hs[h].key # k
    /\ \A w \in Worker :
        /\ cur[w] # 0 => sub[cur[w]].key # k
        /\ \A i \in 1 .. Len(signalingQueue[w]) :
               sub[signalingQueue[w][i].sc].key # k

(***************************************************************************)
(* No silent end: a client that was last told a grant, and whose refusal   *)
(* or cancel after it was not lost by a failing send (TransmitFails), is   *)
(* being served.  Grants and cancels of a subscription share one packet,   *)
(* sc.signaling, renewals race with the end of the goroutine, and the last *)
(* cancel must never be overwritten or overtaken by an older grant.        *)
(***************************************************************************)
NoSilentEnd ==
    \A k \in Key : Quiet(k) /\ lastSignal[k] = "grant" =>
        \E n \in Req : Live(n) /\ sub[gs[n].sc].key = k

(***************************************************************************)
(* The one lock that can be waited for in vain is that of the finding      *)
(* about Stop.  A SubscriptionClient's mutex is kept across steps by       *)
(* nobody but a Stop whose send on the stop channel blocks; the goroutine  *)
(* it waits for has not ended, and two cancel TLVs at least were received. *)
(* inventoryClients, which keeps the mux of a client table, finds a        *)
(* subscription wherever it looks, and waits for its mutex only after two  *)
(* cancels as well.                                                        *)
(***************************************************************************)
OnlyStopWaits ==
    /\ \A s \in Req : sub[s].holder # None =>
           /\ hs[sub[s].holder].pc = "stopping" /\ hs[sub[s].holder].sc = s
           /\ cancels >= 2
           /\ \E n \in Req : gs[n].sc = s /\ Serving(n)
    /\ \A h \in Handler : hs[h].pc = "stopping" => sub[hs[h].sc].holder = h
    /\ \A w \in Worker, k \in Key : k \in inv[w].todo =>
           clients[k] \in Req /\ (Free(clients[k]) \/ cancels >= 2)

\* A goroutine is alive and a blocked Stop holds the mutex of its subscription.
StopBlocks(n) == Live(n) /\ ~ Free(gs[n].sc)

(***************************************************************************)
(* A goroutine whose context is cancelled ends, whatever it was doing,     *)
(* unless a Stop of its own subscription blocks for ever (StopReturns).    *)
(***************************************************************************)
DrainEnds ==
    \A n \in Req :
        \/ <>[]StopBlocks(n)
        \/ (Live(n) /\ gs[n].ctx \in cancelled) ~> ~ Live(n)

Registered(s) == \E k \in Key : clients[k] = s

\* A second goroutine was started for the subscription that n serves: they share
\* sc.intervalTicker, and the one that ends may stop the ticker of the other.
SharesTicker(n) == \E m \in Req \ {n} : gs[m].sc = gs[n].sc

(***************************************************************************)
(* A goroutine whose subscription was overwritten or dropped from the      *)
(* client table, so that no request and no cancel can reach it any more,   *)
(* still ends, provided that time passes, unless a Stop that was under way *)
(* blocks on it for ever or it shares its ticker with another goroutine.   *)
(***************************************************************************)
OrphanEnds ==
    (\A n \in Req : WF_vars(Lapse(n))) =>
    \A n \in Req :
        \/ <>[]StopBlocks(n)
        \/ (Live(n) /\ ~ Registered(gs[n].sc)) ~> (~ Live(n) \/ SharesTicker(n))

(***************************************************************************)
(* A handler always gets back to its socket, past the mutexes, the mux of  *)
(* the client table and the worker's queues that it may wait for, unless a *)
(* Stop blocks for ever and keeps a subscription's mutex.                  *)
(***************************************************************************)
HandlersReturn ==
    \/ \E s \in Req : <>[](~ Free(s))
    \/ \A h \in Handler : ~ Idle(h) ~> Idle(h)

-----------------------------------------------------------------------------
(***************************************************************************)
(* The abstract service.  A lease is the life of one goroutine; it was     *)
(* turned away when the context it runs under is cancelled.                *)
(***************************************************************************)
LeaseOf(n) ==
    IF Live(n) THEN IF gs[n].ctx \in cancelled THEN "ending" ELSE "active"
               ELSE IF gs[n].pc = "none" THEN "none" ELSE "over"

Abstract == INSTANCE Service WITH
    Lease <- Req, drained <- Drained, lease <- [n \in Req |-> LeaseOf(n)]

(***************************************************************************)
(* The handlers, goroutines and contexts together implement the service:   *)
(* Drain reaches every goroutine at once, also the one whose handler read  *)
(* s.ctx before and starts it after; nothing but a goroutine's own end     *)
(* ends a lease, no lease is resumed by Undrain, and every lease that was  *)
(* turned away ends, but for one whose subscription's mutex is kept for    *)
(* ever by a blocked Stop.                                                 *)
(***************************************************************************)
ImplementsService ==
    /\ Abstract!Spec
    /\ \A n \in Req : <>[]StopBlocks(n) \/ Abstract!Ends(n)

-----------------------------------------------------------------------------
(***************************************************************************)
(* "No matter how many times we run stop we should not lock"               *)
(* (server/subscription_test.go): Stop returns.                            *)
(***************************************************************************)
StopReturns ==
    \A h \in General : hs[h].pc = "stopping" ~> hs[h].pc # "stopping"

(***************************************************************************)
(* "MinSubInterval is a minimum interval of the sync/announce subscription *)
(* messages", "MaxSubDuration is a maximum ... subscription duration"      *)
(* (server/config.go): the ticker of a running subscription and the lease  *)
(* it was given keep to the limits whenever no handler is working on it.   *)
(***************************************************************************)
LimitsEnforced ==
    \A n \in Req :
        (/\ gs[n].pc = "select" /\ KeyType[sub[gs[n].sc].key] # DelayReq
         /\ \A h \in Handler : hs[h].sc # gs[n].sc) =>
        /\ sub[gs[n].sc].runningInterval >= MinSubInterval
        /\ sub[gs[n].sc].duration <= MaxSubDuration

=============================================================================
