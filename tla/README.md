# A TLA+ verification of ptp4u

ptp4u is a unicast PTP server (IEEE 1588) written in Go. This directory holds
TLA+ modules that model its core, TLC configurations that check them on small
instances, and proofs, checked by TLAPS, of the invariants that matter most.
Paths such as `server/server.go` are relative to the repository.

## 1. The system

| Part | State | Operations | Interacts with |
|---|---|---|---|
| general handlers (`server.go`, handleGeneralMessages) | locals between look-up, registration, answer and start | grant request, renewal, rejection, cancel TLVs | client table under the worker's mux; SubscriptionClient under its mutex; worker channels; `s.ctx` |
| event handlers (`server.go`, handleEventMessages) | locals; the packets of an sptp subscription | delay request (classic and sptp) | the same |
| SubscriptionClient (`subscription.go`) | interval, expire, running, stop channel, packets, sequence number | Start (its goroutine), Stop, Once, sendSignaling…, Inc… | worker channels, context of the server |
| send worker (`worker.go`) | queue, signalingQueue, clients, olderKernel | send Sync/Announce/DelayResp/sptp pair/signaling, inventoryClients | sockets, error queue, Stats |
| TX timestamps (`timestamp_linux.go`) | the kernel's error queue | ReadTimeStampSeqIDBuf, ReadTXtimestampBuf | worker |
| drain control (`server.go`, `drain/`) | `s.ctx`, `s.cancel`, kill and unkill files, pid file | drain loop, Drain, Undrain, handleSigterm | subscriptions through the context, workers through inventoryClients |
| metrics (`stats/`) | counters, report | Inc…, Snapshot, Reset, HTTP reply | everybody |
| codec (`protocol/`) | the struct decoded into | Unmarshal, Marshal, TLV loop | handlers, worker |
| dynamic configuration (`config.go`) | limits, UTC offset, clock quality, intervals | read, validate, reload on SIGHUP | handlers, workers, loops read it without a lock |
| main, Start, listeners, dscp (`main.go`, `server.go`, `worker.go`, `dscp/`) | flags, sockets, pid file | set-up, signals, exit | the operator, the kernel, the process before |

What is hard here, and hard to test: the client table is looked up and changed
in different critical sections; a goroutine sets its `running` flag only when
it is scheduled; an answer is marshalled from a field that may have changed
since it was queued; `s.ctx` is replaced while it is read; a channel of
capacity one is written with a mutex held; transmit timestamps come late, out
of order, or never, through a queue all subscriptions of a worker share;
counters are copied and cleared one by one; four independent length fields
meet in the decoder; the configuration is replaced field by field under its
readers, and one value is converted back and forth on its way to a packet;
goroutines start and fail on their own, and a process leaves files to the next
one. `PROJECT.json` lists these hazards with the line where each bites
and the properties that watch it.

What makes each part correct:

* subscriptions: Drain reaches every goroutine; `running` means served; a client
  whose last answer was a grant is served; limits hold; nobody waits for ever,
  which a blocked Stop breaks and the other properties have to except;
* timestamps: a Follow_Up has the number and the timestamp of its Sync, numbers
  are consecutive, a timestamp is used once and is PTP time, the packets of one
  answer belong together, the worker gives up in the end;
* drain control: the state follows the files, and SIGTERM drains and ends;
* metrics: nothing is reported twice, and the number of subscriptions is right;
* configuration: what is in force is valid, a reload takes effect, UTC time and
  intervals reach the packets unchanged and the DSCP the sockets;
* process: it serves completely or ends, and its pid file is its own;
* codec: no index out of bounds, bounded loops, what is encoded is decoded.

## 2. Modules

| Module | Models | MC module / proofs |
|---|---|---|
| `Subscription` | handlers, SubscriptionClient and its goroutine, worker channels, client table, inventory, Drain/Undrain as seen by subscriptions | `MCSubscription`, `SubscriptionProofs`, `GrantProofs` |
| `Service` | the abstract service that `Subscription` implements: leases and drain | `ServiceProofs` |
| `TxTimestamp` | the worker's send path, sequence numbers, error queue | `MCTxTimestamp`, `TxTimestampProofs` |
| `DrainControl` | drain loop, handleSigterm, contexts, files, exit | `MCDrainControl`, `DrainControlProofs` |
| `Stats` | counting, metric loop, Drain's inventory, HTTP reply | `MCStats`, `StatsProofs` |
| `Codec` | decoding and encoding of messages and TLVs | `MCCodec`, `CodecProofs` |
| `Values` | conversions between Go's times and durations and what packets carry | through `Reload` |
| `Config` | flags and dynamic configuration: defaults, validation, reading | through `Reload` |
| `Startup` | main, Start, sockets, pid file, signals, ends and restarts of the process | through `Reload` |
| `Reload` | composes the three: handleSighup, edits of the file, and the readers of the configuration | `MCReload`, `ReloadProofs` |

The modules meet at narrow places. `Subscription` sees a message leave the
channel where `TxTimestamp` sends it; it sees Drain and Undrain as single
steps, since what it needs of them, that a context is replaced only once it is
cancelled, is what `DrainControl` shows when the two stores and the second
drainer are taken apart (`NoneAbandoned`). Its limits are constants: `Reload` has
the decision on a request while they are replaced, and shows that what they are
replaced by is valid. `Startup` ends where the loops of the other modules begin,
and the drain before a graceful end is `DrainControl`. `Stats` takes the number of running
subscriptions as given.

Definitions called variants or mutants are not part of any specification: each
is what a plausible mistake would make of the definition that follows it, and is
there to confirm that the property paired with it in `PROJECT.json` notices.

### Subscription

Requests are numbered as they are received, and the number names the
SubscriptionClient (`sub[n]`) and the goroutine (`gs[n]`) that the request may
create. `hs[h]` has the program counter and locals of a handler: `RequestTLV`
(FindSubscription), `CheckRunning`, `Register`, or `RenewExpire` and
`RenewInterval`, then `Reject` or `Grant`, then `Launch`. These are the points
between which another goroutine can run. A channel is a sequence of values with
their senders, the senders past the capacity being blocked; so capacity 0, the
default, is an unbuffered channel. `Stop` blocks with the mutex held when
the stop channel is full; `holder` records it and everything that locks the
subscription waits. Time is abstract: `Lapse` makes a lease expire at any
moment, a tick may come whenever the goroutine is in its select. Two reads of
`s.ctx` by a handler are two steps. `InventoryLock`, `InventoryVisit`,
`InventoryDelete` and `InventoryUnlock` are inventoryClients under the worker's
mux. A key stands for a client port and a message type. The worker marshals
and sends an answer (`Transmit`), or the packet cannot be made or sent and is
dropped (`TransmitFails`): a grant that is lost leaves the client with what it
heard before, a refusal or a cancel that is lost leaves it uninformed, which
`lastSignal` records as "lost".

Tickers have no state of their own: two goroutines of one subscription share
`sc.intervalTicker` (`server/subscription.go:98`), and the one that ends may stop
the ticker of the other. Safety properties hold of any ticks; `OrphanEnds`, which
needs them to come, excepts such goroutines (`SharesTicker`).

`Service` says the same without any of this: a lease begins, is active or was
turned away, and is over; Drain turns all active ones away in one step. The
refinement mapping reads a lease off a goroutine and its context (`LeaseOf`).

### TxTimestamp

Packets on the event socket are numbered as sent, and a timestamp is the number of the
packet it belongs to, so that "the wrong timestamp" can be said. The kernel
delivers each one (`DeliverTimestamp`) at any moment, in any order, or never. Every `continue` of the worker's loop is a path that skips
IncSequenceID. Sequence numbers are taken modulo `SeqMod` (2^16 in the code),
the number of attempts is `AttemptsTXTS`. Whether the kernel knows
SCM_TS_OPT_ID is open: the worker finds out by EINVAL, as in the code. The
kernel also answers so when the socket has no packet ids switched on, which
EnableSWTimestamps does not do. Of the value of a timestamp its timescale is
kept: UTC from the system clock, PTP time from a hardware clock.
Requests of one sptp client may be read by any of the `RecvWorkers` handlers.
The two stores of a request are separate steps (`UpdateSyncDelayReq`,
`UpdateAnnounceDelayReq`), no lock orders those of different handlers, and the
worker reads each of the packets at another moment. Three history variables tell
what met: `mixed` the handlers whose stores overlap, `torn` the subscriptions whose
packets were last written by such a handler, `overlap` that an answer began so or
that a request was stored during it.

### DrainControl

The loop of Start (`Check`, `CheckUndrainFile`, then Drain or Undrain, then
`SetDrain`, then the interval) and handleSigterm run side by side. Drain is its
check, the call of `s.cancel` and the wait, a visit of each worker in each
round; the assignment `s.ctx, s.cancel = …` is two stores in either order.
Contexts have identities that are reused once nobody refers to them, which keeps the state space
finite without a bound on the number of drains. Files appear and disappear, workers
get and lose clients, drained or not (a subscription is registered before the handler
looks at the context), and a component may fail, at any moment. `stuck[w]` says that a
Stop blocks with the mutex of one of the worker's subscriptions held: then
`inventoryClients`, and the visit of Drain that called it, has to wait
(`InventoryPasses`). The drain counter has two writers, `SetDrain` of the loop and
`Reset` of the metric loop.

### Stats

One counter of each kind, in the order of the code: `subscriptions`
(accumulated by inventory), `rx` and `tx` (maps with a lock each), `reload` and
`txtsMissing` (stored). Snapshot, Reset and toMap advance a field at a time.
`stamp` remembers which snapshot a reported value is from.
The history variables `made` and `reported` count what happened and what was
reported.

### Codec

A packet is its type, the bytes received, MessageLength, and TLVs that are
chosen when the decoder reaches them; sizes and lengths are numbers, contents
are left out except where a branch depends on them. `top` is the highest index
the decoder has used. The messages made by the server and by its clients are
built from the sizes the Marshal functions write, and arrive with trailing
bytes; the struct decoded into is the one used before.

### Values, Config, Startup and Reload

`Values` counts time in units of which a second has `Sec`. Powers of two are
exact in floating point; the conversions to integers truncate, and one that does not
fit has either of the outcomes of the processors Go runs on (`TooLarge`).

`Config` has the flags as a record and the file as whether it exists and parses, and
the keys it has; missing keys keep their defaults, so that an empty file is a valid
one. `Validate` and `ValidateDynamic` are the code's conditions.

In `Startup`, `main` is the place of the main goroutine: `ReadConfig`,
`ValidateConfig`, `CreatePidFile`, `SetClockIdentity`, `NewSendWorker` once per
worker, `Spawn`. From then on workers (`Listen`), listeners (`StartListener`)
and signal handlers (`Notify`) go their own way. Each system call may fail:
`HTTPFails`, `StartFails`, `SocketFails`, `DeletePidFileFails`; and the process
may be killed at any moment. `Exit` loses the memory; pid file and configuration
file remain for the next `Exec`.

In `Reload` the file is replaced at once (`Replace`) or truncated and then filled
(`WriteTruncates`, `WriteFinishes`). handleSighup takes a signal from its channel, reads
the file and copies the fields that differ, one at a time in any order. `reader` is
a handler with its worker: it decides on a grant request in two reads of the
limits and hands the interval to a ticker, to be renewed later; or it receives
an sptp request, prepares the answer and sends it, each with a read of the UTC offset.
`log`, `min`, `t` and `clean` are history.

## 3. Runs

`tlc -config <cfg> <module>`; names as in `PROJECT.json`.

Runs that pass:

| Run | Shows |
|---|---|
| `subscription_sync` | `NoSurvivor`, `RunningHasGoroutine`, `NoSilentEnd`, `OnlyStopWaits` with two general handlers racing on one Sync subscription, good and bad requests, cancels, failing sends, drain and undrain |
| `subscription_live` | with a DelayResp and an sptp subscription, a general and an event handler, two cancels, drain and undrain, and but for what a Stop that blocks for ever holds: `DrainEnds`: every goroutine under a cancelled context ends; `HandlersReturn`: handlers get back to their sockets; `ImplementsService`: the handlers, goroutines and contexts implement `Service`, and every lease that was turned away ends |
| `subscription_orphan` | `OrphanEnds`: a goroutine whose subscription was overwritten in the table ends, but for a blocked Stop and a shared ticker |
| `txtimestamp` | `FollowUpsConsecutive`, `TimestampUsedOnce`, `PTPTime`, `AnswerPaired` with two event handlers, with SCM_TS_OPT_ID `OneSequenceNumber`, and `WorkerReturns` |
| `drain_files` | `RestFollowsDecision`, `NoneAbandoned`, `KillFileDrains`, and, unless a Stop blocks for ever, `UnkillFileServes` and `SigtermExits` |
| `stats_count` | `NoneReportedTwice`, `SubscriptionsCounted`, `ReplyNotStale` |
| `codec_packets` | `InBounds`, `LoopBounded` for packets of unknown origin; `RoundTrip` after other packets and with trailing bytes |
| `server_reload` | `DSCPHonoured`, `PidFileCurrent`, `ConfigValidated`, `ClientDerivesUTC`, `IntervalAsAsked`, `NoPanic`, `StartsOrEnds`, `ReloadReaches` with good and bad flags and files, edits, signals, failures at every step and a restart |

Runs in which TLC refutes what a comment or a test says; the findings in
`PROJECT.json` quote the line:

| Run | What the trace shows |
|---|---|
| `subscription_stop` | repeated cancels fill the stop channel while the goroutine ends; Stop blocks with the mutex the goroutine needs to end |
| `subscription_limits` | a rejected renewal has already changed interval and lease; an interval that is rounded to 0 then makes the ticker panic, which is why `NoPanic` excepts renewals |
| `txtimestamp_own` | after a missing timestamp the next Sync has the same number, and gets the late timestamp |
| `drain_sigterm` | the loop undrains while SIGTERM drains |

What the passing properties do not say:

* `NoSilentEnd` allows a client that was sent a late cancel while a newer
  subscription serves it, which the code does; and it says nothing of a client
  whose refusal or cancel could not be sent, since the worker drops such a packet
  (`server/worker.go:347`) and the client goes on believing in its grant.
* The defect of `subscription_stop` reaches far, and each property it would falsify
  names it as its exception: a goroutine whose own subscription's mutex is kept for
  ever by a blocked Stop (`StopBlocks`) need not end (`DrainEnds`, `OrphanEnds`,
  `ImplementsService`); with any mutex kept so, handlers need not return
  (`HandlersReturn`), and the drain loop and the Drain of SIGTERM may wait in
  inventoryClients for ever (`UnkillFileServes`, `SigtermExits`). Without these
  exceptions TLC refutes every one of them on the same instances. `KillFileDrains` needs
  none: the context stays cancelled.
* `RestFollowsDecision` allows the drain counter of a drained server to be 0: the metric
  loop clears it with the other counters (`stats/stats.go:230`), and it is set again
  in the next round of the drain loop only.
* `AnswerPaired` says nothing of an sptp answer during which a request of the
  client is stored, nor of one whose packets were stored by handlers that
  overlapped: their numbers may be mixed.
* `DSCPHonoured` is about the sockets. The domain of packets is not modelled: Sync,
  Follow_Up, Announce and DelayResp have that of the flags, signaling answers the one
  the client sent (`server/subscription.go:388`).
* `NoPanic` excepts a minimum interval of 0, which `Validate` accepts, and renewals.
* `ConfigValidated` allows max < min while a configuration is being copied, and
  `ClientDerivesUTC` excepts an answer prepared during the copy.
* `RoundTrip` is about display names of three bytes or more.

### Also seen in the code

Differences between the code and its comments that were met while modelling,
and that no run is about:

* A second request may overwrite a subscription that started running between
  the look-up and the registration (`server/server.go:419`;
  `server/worker.go:396`: "Make sure you call findSubscription before this").
* Without SCM_TS_OPT_ID the last timestamp in the error queue may be an older
  packet's (`timestamp/timestamp_linux.go:340`).
* The branch for recent kernels never adds the UTC offset (`server/worker.go:204`).
  It is not a defect, by `PTPTime`, but only because EnableSWTimestamps asks for
  no packet ids.
* `dcMux` is "a dynamic config mutex" (`server/config.go:58`), and no reader
  locks it: a grant may combine limits of two configurations, an sptp
  answer two UTC offsets.
* A UTC offset with a fraction of a second is valid; what is added to software
  timestamps is the whole of it, what is announced is truncated (`server/subscription.go:308`).
* A known sptp client that comes from another address gets its Announce at the
  old one, "port can change" (`server/server.go:345`) notwithstanding.
* A configuration that is being written is read as the defaults (`server/config.go:222`).
* ClockAccuracyFromOffset, which the server does not use, negates the offset; the smallest one stays
  negative and counts as 25 ns (`protocol/types.go:424`).
* The wait of Drain, "up to 10 seconds" (`server/server.go:482`), is up to 10 seconds
  for each worker: every visit may sleep for a second. The model counts visits, not
  seconds, and inventoryClients may hold a visit up longer, or for ever.
* The drain counter is cleared by the metric loop while the server is drained (`stats/stats.go:230`).
* IncReload and IncTXTSMissing store 1 instead of adding it
  (`stats/json.go:147` and `206`); inventories of Drain are added to the
  reported number of subscriptions (`server/server.go:486`); a reply may mix two snapshots (`stats/json.go:68`).
* A TLV may end past MessageLength when bytes trail (`protocol/tlvs.go:65`), a
  PATH_TRACE of length 8N may be decoded to N-1 or N+1 identities
  (`protocol/tlvs.go:314`), and an ALTERNATE_TIME_OFFSET_INDICATOR with a name
  of less than three bytes is encoded but not decoded (`protocol/tlvs.go:359`).

### Bounds

* `MaxRequests = 2`, `MaxCancels` up to 3, `MaxCtx = 2`: two requests are needed for an
  overwrite, a renewal or a second goroutine on one subscription; two cancels fill the stop
  channel and a third blocks; two contexts are a drain, an undrain and
  another drain. Symmetry is used for handlers only, which are
  interchangeable, and only in runs without liveness properties.
* one worker, and one key or two: keys share only the queues and the worker's
  mux; the theorems hold for any number of keys and workers.
* `SeqMod = 2` makes the counter wrap within two packets; in the run about the
  wrong timestamp it is 4, so that no wrap is to
  blame. Two handlers: their stores can interleave, before an answer and during it. `AttemptsTXTS = 2`: one failed read and one more. `MaxAsked = 1`, with two handlers: a
  request may come while another is answered and a third one waits.
* `Workers = 2`, `DrainRounds = 1`: two visits, of different workers; with
  `DrainRounds = 2` for one worker in `drain_sigterm`. The theorems are for any
  number of both.
* `MaxRounds = 3`: a value that is two snapshots old could be seen.
* `MaxWorkers = 2`: `findWorker` can be called before the last worker is there. `MaxBoots = 2`: a process that ended in any way and the next one. `MaxEdits = 1`:
  with `Write` the file has three versions. `SigBuffer = 1`, 10 in the code: a full channel. The flags are two
  valid sets at opposite ends of what is allowed and one set for each check of `Validate`, just outside of it;
  `DSCP` has its real values. `Sec = 10` and `MaxDuration = 65535`
  make log intervals that truncate, truncate to 0, and overflow: -2, -4, 13.
* Codec sizes and lengths lie just below, at and above the sizes of headers,
  TLVs and texts, with 65535 and 255 as the extremes; two packets are decoded one after
  the other into the same struct.

Deadlock is checked except in `subscription_sync`, `subscription_live`,
`subscription_orphan` and `subscription_stop`, where a Stop can really stop everything, and in `codec_packets`, which ends when
`MaxPackets` packets were received, and in `server_reload`, where the server may have ended for the last time. In the other runs the loops of inventory,
drain and HTTP requests never end.

### Fairness

* Weak fairness for every process: the Go scheduler runs what can run. Clients, signals, files and the
  kernel owe nothing.
* `Subscription` assumes strong fairness in three places: for
  registration under the worker's mux, which inventoryClients takes again and
  again (`sync.Mutex` goes into starvation mode and hands over); for
  `ctx.Done()` in the goroutine's select and for the signaling queue in the
  worker's select (Go chooses at random among ready cases).
* `OrphanEnds` needs time to pass and says so (`WF_vars(Lapse(n))` as its hypothesis).
* `DrainControl` assumes strong fairness of a visit in the wait of Drain: Stops may
  block and go on time and again, and a goroutine that waits for a mutex gets it
  (starvation mode). A Stop that blocks need not go on.
* What a Stop that blocks for ever holds is excepted where it matters (see above); it is
  the defect that `subscription_stop` shows.
* In `Startup` and `Reload` each goroutine is weakly fair up to its loop, and
  handleSighup throughout; edits, signals, failures and clients are not.
  `ReloadReaches` supposes that the server stays up and the file as it is after the last SIGHUP; a
  server need not become ready within any time.
* `KillFileDrains` and `UnkillFileServes` suppose that the files stay as they are from
  some moment on.

## 4. Proofs

`tlapm <module>` checks them. They hold for every value of the constants that satisfies the
module's ASSUME.

**SubscriptionProofs.** `TypeCorrect`, `DrainReachesAll` (`NoSurvivor`),
`RunningIsServed` (`RunningHasGoroutine`), from the inductive invariant `IInv`:

* `HandlerInv`: a handler past the look-up holds a number that was issued, and
  the subscription it is about to use exists;
* `GoroutineInv`: a goroutine runs under a context that was created;
* `NumberInv`: a request number belongs to one handler and, while that handler
  has it, its goroutine has not been started. Without it `GoStart` might replace
  the goroutine that a running flag depends on;
* `CtxInv`: every context before the current one is cancelled, which is what
  `NoSurvivor` needs, since Undrain replaces only a cancelled context;
* `RunningHasGoroutine` itself.

Actions that change the same variables in the same way share a lemma
(`HandlerMovesSafe`, `GoroutineMovesSafe`, `StartsSafe`, `TakesNumberSafe`);
each action has one lemma that reduces it to these. `StopRunning` clears the
flag of a subscription that another goroutine may still serve: the implication
holds, the reverse does not, and is not claimed.

**GrantProofs.** `GrantsAreServed` (`NoSilentEnd`): a client that was last told
a grant, and to which no answer is on its way, is served by a goroutine. On
top of `IInv` it needs `GrantInv`:

* `KeyInv`: the subscription that a handler holds is of the handler's key,
  the client table maps a key to a subscription of that key, and the SubscriptionClient
  of a number does not exist before the registration: a key is given once;
* `SignalInv`: the packet from which the next answer is marshalled says
  grant only while a handler is about to launch the goroutine or one is alive.
  The worker marshals later than the answer was queued, so what counts is
  the packet at that time;
* `LastInv`: the last answer was a grant only if a handler is about to launch, another
  answer waits in the queue or at the worker, or a goroutine is alive. A send that
  fails keeps it: a lost grant changes nothing, and after a lost refusal or cancel the
  last answer no longer counts as a grant.

The two steps that could break it are `Launch`, which starts nothing when the
running flag is set (`RunningIsServed` gives the goroutine), and the end of a
goroutine, which queues its cancel before it is gone. An sptp subscription ends
without a cancel; it was never granted, which both invariants say.

`MutexesReturned` (`OnlyStopWaits`) says how far the defect of
`subscription_stop` reaches, and is the safety half of `HandlersReturn`. The mutex of a
SubscriptionClient is kept from one step to the next only by a Stop that
blocks; then two cancel TLVs at least were received, and the goroutine that Stop
waits for has not ended. inventoryClients, which keeps a worker's mux while
it walks the table, always finds a subscription at the key it visits, and
its mutex is free unless there were two cancels. So with fewer cancels nobody waits in a circle.
The invariant is `LockInv`:

* `MutexInv`: holder and blocked Stop name each other, and the subscription
  runs, since setRunning needs the mutex: `RunningIsServed` then gives the goroutine;
* `CancelInv`: each cancel is one handler at its Stop or one token in a stop
  channel. A Stop blocks on a token that another cancel left, hence two;
* `MuxInv`: what an inventory has still to visit is in the table of its own worker: a
  registration needs the mux, and only the inventory itself removes entries.

Two cancels suffice to block a Stop: in `subscription_live` and `subscription_orphan` one does.

**ServiceProofs.** `SubscriptionImplementsService`: `Spec => Abstract!Spec`. It
needs `IInv`, for the numbers of goroutines are used once (`NumberInv`), and
`CancelledInv`, that contexts not yet created are not cancelled: then Undrain,
which makes a new one, changes no lease, and Drain, which cancels the current
one, turns away exactly the leases that are not turned away yet, which is `CtxInv`. A
handler that read `s.ctx` before a drain begins a lease that is turned away from
its start; that is why `Begin` of `Service` looks at `drained`.

**TxTimestampProofs.** `TxTypeCorrect`, `FollowUpsNumbered`
(`FollowUpsConsecutive`), `SequenceNumbersAgree` (`OneSequenceNumber`),
`AnswersPaired` (`AnswerPaired`), `TimestampsUsedOnce` (`TimestampUsedOnce`) and
`ServerTimeIsPTP` (`PTPTime`), for any subscriptions, width of the counter and
number of attempts. The properties look at what was sent; the invariant says
what makes the next packet fit:

* `AskInv`: the two packets of an sptp subscription have one number once they are
  `Settled`: no handler is between its stores, and the last one to finish had met no
  other. A handler that met no other is alone with its subscription, so the number
  it will store in the Announce is still the one in the Sync;
* `WorkInv`: the number the worker has marshalled is the one it will read
  again, and its packets are `Settled`, unless `overlap`; and a software socket gets past its first packet
  only once its kernel counts as an older one. From the latter follows `PTPTime`: the
  branch that forgets the offset is not reached by software timestamps;
* `StampInv`: a timestamp is at one place only, on its way, in the error queue,
  with the worker or in one second packet. `TimestampUsedOnce` alone is
  not inductive, for it does not say that a used timestamp left the queue;
* `SequenceInv`: `sequenceID` is one more than the number of the last
  Follow_Up, which relates the two through all the `continue`s that skip
  IncSequenceID.

Two more theorems rest on these. `FollowUpsCounted` (`FollowUpNumbers`) turns
the step from one Follow_Up to the next into a closed form: the number of a Follow_Up is
that of the Follow_Ups of its subscription before it, modulo the width of the counter. It is
proved by the least Follow_Up that has another number. `OwnUntilOneIsMissed`
(`OwnWhileNoneMissed`) says what is left of "a Follow_Up has the timestamp of its own Sync", which
`txtimestamp_own` refutes: it holds up to the first packet that got no second
packet. A wrong timestamp needs one that came too late or never, and since no timestamp
is used twice (`TimestampUsedOnce`) the first mistake cannot come earlier.

**StatsProofs.** `StatsTypeCorrect`, `ReportsAddUp` (`NoneReportedTwice`),
`ReportCountsSubscriptions` (`SubscriptionsCounted`), `ReplyMixesTwo`
(`ReplyNotStale`), for any number of events, subscriptions, rounds and drains.
`EventInv`: a counter that was not copied in this round, or was reset since, holds only
events that no report has; between the two it holds reported ones too.
`InventoryInv` bounds `subscriptions` by the inventories of this round
and of Drain. `StampInv`: the report is of this round up to where Snapshot is
and of the round before from there on, so a reader that goes through it in the same
order falls back by one at the most.

**DrainControlProofs.** `DrainTypeCorrect`, `LoopRests`
(`RestFollowsDecision`), `UndrainAbandonsNone` (`NoneAbandoned`). `PcInv` says
which steps each goroutine can be at, `StoreInv` relates `ctx`, `cancel` and
`fresh` around the two stores, and `DecisionInv` carries the loop's decision
from the check to its rest. The argument is that only the loop replaces contexts,
that it rests with `cancel = ctx`, and that a SIGTERM drain between the two
stores cancels the old context or the new one, both of which `StoreInv` admits.

**CodecProofs.** `CodecTypeCorrect`, `DecoderInBounds` (`InBounds`),
`DecoderBounded` (`LoopBounded`), for packets of every size and content. `LengthChecked` remembers in the TLV loop what
checkPacketLength has established, `TLVsBehindPos` that every decoded TLV
moved the position by at least six bytes, `FreshMessage` that a message
is decoded into a struct without TLVs.

`DecodesWhatIsMade` (`RoundTrip`) has a second invariant. `WellFormed` says
of a message that the package makes that its TLVs follow one another without gap
from the fixed part to the end and that each has the length its decoder
wants; `MessagesFormed` shows it of all of them. `DecodeInv` then says that
what was decoded is a prefix of what was encoded, with `pos` at its
end: every check passes at the next TLV (`NextTLV`), and the loop goes on exactly while
one is left (`MoreWhileLeft`). The two bytes that BytesTo adds are
needed, by the check of a name's length. The theorem supposes `LongNames`,
that announced names have three bytes or more: with shorter ones the
property is false, as noted above.

**ReloadProofs.** `PidFileTheorem` (`PidFileCurrent`), `ConfigTheorem`
(`ConfigValidated`), `DSCPTheorem` (`DSCPHonoured`) and `PanicTheorem`
(`NoPanic`), for every set of command lines and file contents and any number of workers,
boots and edits. `FlagInv` ties each worker to flags that were validated,
`PlaceInv` says that a reload is under way only after the start, so main's
read of the file and handleSighup's cannot meet, and `CopyInv` that the fields copied so far are those of one
valid configuration: `UTCOffset` and the signs are bounded field by field and
survive a partial copy, while max >= min relates two fields and is regained only when
nothing is left to copy. For `NoPanic`, `WorkersInv` says that listeners
exist only after all workers, and `ReaderInv` that an interval waiting for its
second limit is at least a minimum that is not negative. `ContentsAssumption` says
that the values in files are integers, and bytes natural numbers; TLC evaluates it.

`ReloadTypeCorrect` (`TypeOK`) is proved in two halves, of the process and of
configuration, reader and handleSighup, on top of this invariant: a traffic
class is a byte because the flags were validated. `ClientUTCTheorem`
(`ClientDerivesUTC`) needs `UTCInv`, that while nothing is being stored the timestamp
in the packet is the corrected time split in seconds and the rest, and the
announced offset that of the configuration; `TimestampExact` and `WholeExact` say that splitting and
truncating lose nothing then. `TimeAssumption` says that times lie so far below 2^48
seconds that adding an offset does not wrap the seconds field.

`IntervalTheorem` (`IntervalAsAsked`): the interval a server announces is the
one that was asked for, for every log interval that a ticker accepts and a duration can hold.
`LogInv` keeps the duration of a subscription and the log interval it came from
together; what remains is that taking the logarithm of a truncated power of two gives the
exponent back (`IntervalBack`). `Pow2` of `Values` is a recursive function
of the naturals. Its equation, that it is positive and that it grows are
proved by taking the least counterexample, which the library grants since `<` is
well founded on the naturals (`Induction`); `BracketUnique` then says that a duration lies between
two neighbouring powers in one way only.

Only model-checked: the liveness properties (fairness and ENABLED are beyond
the prover), and with them the second half of `ImplementsService`, that leases end. Every safety property
of the passing runs is stated by a theorem, and so is the safety part of the refinement.

## 5. Not modelled

* TimeInterval, Correction and ClockAccuracy (`protocol/types.go`): used by clients
  only, floating-point arithmetic without control. String methods are formatting.
* The bytes of control messages, ioctl calls, conversions of addresses, flag
  parsing: formats and system calls without state of their own; a call that
  fails is modelled.
* Addresses of clients: answers go to the client, wherever it is.
* Two ptp4u at the same time: whoever runs it starts one after the other has ended.
* Tickers as shared state of two goroutines, and the domain of packets (see above).
* The gauges (UTC offset, clock quality, queue lengths): stored and reported as they are.
* ALTERNATE_RESPONSE_PORT as a choice of worker: `Home` is a function of the key.
* The data race of Drain on the worker's map as something that stops the
  process.

## 6. Plan

1. The choice of worker with ALTERNATE_RESPONSE_PORT, and the addresses of clients, in `Subscription`.
2. The limits as state of `Subscription`, composed with `Reload`, and its drain
   composed with `DrainControl`.
