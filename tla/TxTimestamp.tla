---------------------------- MODULE TxTimestamp ----------------------------
(***************************************************************************)
(* The send worker of ptp4u (server/worker.go, Start) and the way it gets  *)
(* the transmit timestamp of a Sync from the error queue of its socket     *)
(* (timestamp/timestamp_linux.go).  All subscriptions of a worker share    *)
(* that socket and that queue.                                             *)
(*                                                                         *)
(* A Sync is sent, its transmit timestamp is awaited for a bounded number  *)
(* of attempts, and a second packet (Follow_Up, or Announce for sptp)      *)
(* carries the timestamp.  Every failure abandons the message with         *)
(* `continue', which skips IncSequenceID.                                  *)
(*                                                                         *)
(* Packets on the event socket are numbered in the order of sending; a     *)
(* timestamp is the number of the packet it belongs to.  The kernel may    *)
(* deliver a timestamp at any later moment, in any order, or never.  Of    *)
(* its value only the timescale is kept: a hardware clock runs on PTP      *)
(* time, the system clock on UTC.                                          *)
(***************************************************************************)
EXTENDS Integers, Sequences, FiniteSets

CONSTANTS
    Client,         \* subscriptions served by this worker
    Kind,           \* [Client -> message type of the subscription]
    Handler,        \* goroutines running handleEventMessages (RecvWorkers)
    SeqMod,         \* sequence numbers are counted modulo SeqMod (2^16)
    AttemptsTXTS,   \* attempts to read a TX timestamp (100)
    MaxPackets,     \* bound: packets sent on the event socket
    MaxAsked,       \* bound: sptp requests waiting in the worker's queue
    None

Sync == "sync"
Announce == "announce"
DelayResp == "delay_resp"
DelayReq == "delay_req"

HW == "hardware"
SW == "software"

SeqID == 0 .. SeqMod - 1
Packet == 1 .. MaxPackets

ASSUME TxAssumption ==
    /\ Kind \in [Client -> {Sync, Announce, DelayResp, DelayReq}]
    /\ SeqMod \in Nat \ {0} /\ AttemptsTXTS \in Nat
    /\ MaxPackets \in Nat /\ MaxAsked \in Nat
    /\ None \notin Client /\ None \notin SeqID

VARIABLES
    sequenceID, \* sequenceID[c] of the subscription
    syncP,      \* syncP[c]: sequence number in the Sync packet of c
    announceP,  \* announceP[c]: sequence number in the Announce packet of c
    asked,      \* asked[c]: sptp requests of c waiting in the queue
    asking,     \* asking[h]: the request handler h is storing, between its two stores
    mixed,      \* history: handlers between their stores along with another one
                \* that stores for the same subscription
    torn,       \* history: subscriptions whose two packets were last stored so
    timestampType, \* Config.TimestampType: HW or SW, by Config.Validate
    newKernel,  \* the kernel knows SCM_TS_OPT_ID (6.13 and later)
    wk,         \* the worker: program counter and locals; and, as history,
                \* whether another request was stored during the answer
    olderKernel,\* the worker has seen EINVAL
    sent,       \* the packets sent on the event socket, in order
    inflight,   \* packets whose timestamp the kernel has not delivered
    errqueue,   \* timestamps in the error queue of the event socket
    follows     \* history: the second packets that were sent, in order

askVars == <<asking, mixed, torn>>
packetVars == <<sequenceID, syncP, announceP, asked, askVars>>
setupVars == <<timestampType, newKernel>>
kernelVars == <<setupVars, sent, inflight, errqueue>>
vars == <<sequenceID, syncP, announceP, asked, askVars, setupVars, wk,
          olderKernel, sent, inflight, errqueue, follows>>

NoRequest == [c |-> None, seq |-> 0]

IdleWorker == [pc |-> "idle", c |-> None, seq |-> 0, pkt |-> 0, attempts |-> 0,
               txfound |-> 0, overlap |-> FALSE]

Init ==
    /\ sequenceID = [c \in Client |-> 0]
    /\ syncP = [c \in Client |-> 0]
    /\ announceP = [c \in Client |-> 0]
    /\ asked = [c \in Client |-> 0]
    /\ asking = [h \in Handler |-> NoRequest]
    /\ mixed = {} /\ torn = {}
    /\ timestampType \in {HW, SW} /\ newKernel \in BOOLEAN
    /\ wk = IdleWorker
    /\ olderKernel = FALSE
    /\ sent = << >>
    /\ inflight = {}
    /\ errqueue = << >>
    /\ follows = << >>

-----------------------------------------------------------------------------
(***************************************************************************)
(* The socket options the worker sets before its loop.                     *)
(***************************************************************************)
EnableHWTimestamps ==
    {"TX_HARDWARE", "RX_HARDWARE", "RAW_HARDWARE", "OPT_ID", "OPT_TSONLY"}

\* Variant: packet ids are asked for with software timestamps, too.
EnableSWTimestampsWithID ==
    {"TX_SOFTWARE", "RX_SOFTWARE", "SOFTWARE", "OPT_ID", "OPT_TSONLY"}

EnableSWTimestamps == {"TX_SOFTWARE", "RX_SOFTWARE", "SOFTWARE", "OPT_TSONLY"}

EnableTimestamps ==
    IF timestampType = HW THEN EnableHWTimestamps ELSE EnableSWTimestamps

\* The kernel takes the id of a packet (SCM_TS_OPT_ID) if it knows the option
\* and ids are switched on for the socket; otherwise sendmsg fails with EINVAL.
AcceptsID == newKernel /\ "OPT_ID" \in EnableTimestamps

-----------------------------------------------------------------------------
(***************************************************************************)
(* Event handlers store the sequence number of an sptp request in the two  *)
(* packets of the subscription, one after the other, and queue it.  There  *)
(* is no lock: handlers with requests of one client may interleave.        *)
(***************************************************************************)
Asking(c) == {h \in Handler : asking[h].c = c}

UpdateSyncDelayReq(h, c, q) ==
    /\ asking[h] = NoRequest /\ Kind[c] = DelayReq /\ asked[c] < MaxAsked
    /\ syncP' = [syncP EXCEPT ![c] = q]
    /\ asking' = [asking EXCEPT ![h] = [c |-> c, seq |-> q]]
    /\ mixed' = IF Asking(c) = {} THEN mixed ELSE mixed \cup Asking(c) \cup {h}
    /\ wk' = [wk EXCEPT !.overlap = @ \/ wk.c = c]
    /\ UNCHANGED <<sequenceID, announceP, asked, torn, olderKernel, kernelVars,
                   follows>>

\* The request is stored: `sc.Once()' queues it.
Asked(h) ==
    LET c == asking[h].c
    IN  /\ asking' = [asking EXCEPT ![h] = NoRequest]
        /\ mixed' = mixed \ {h}
        /\ torn' = IF h \in mixed THEN torn \cup {c} ELSE torn \ {c}
        /\ asked' = [asked EXCEPT ![c] = @ + 1]

\* Variant: the Announce keeps the number it had.
UpdateAnnounceForgetful(h) ==
    /\ asking[h] # NoRequest
    /\ Asked(h)
    /\ UNCHANGED <<sequenceID, syncP, announceP, wk, olderKernel, kernelVars,
                   follows>>

UpdateAnnounceDelayReq(h) ==
    /\ asking[h] # NoRequest
    /\ announceP' = [announceP EXCEPT ![asking[h].c] = asking[h].seq]
    /\ Asked(h)
    /\ UNCHANGED <<sequenceID, syncP, wk, olderKernel, kernelVars, follows>>

-----------------------------------------------------------------------------
(***************************************************************************)
(* The worker.                                                             *)
(***************************************************************************)

\* Variant: the number is kept in a wider integer.
IncSequenceIDWide(c) == sequenceID' = [sequenceID EXCEPT ![c] = @ + 1]

\* A uint16 counter: it wraps.
IncSequenceID(c) == sequenceID' = [sequenceID EXCEPT ![c] = (@ + 1) % SeqMod]

\* Abandon the message: `continue'.
Continue == wk' = IdleWorker

\* Announce and DelayResp: one packet on the general socket.
SendGeneral(c) ==
    /\ wk.pc = "idle" /\ Kind[c] \in {Announce, DelayResp}
    /\ IncSequenceID(c)
    /\ UNCHANGED <<syncP, announceP, asked, askVars, wk, olderKernel, kernelVars,
                   follows>>

\* A Sync of a subscription takes the sequence number of the subscription and
\* is marshalled into the worker's buffer.
UpdateSync(c) ==
    /\ wk.pc = "idle" /\ Kind[c] = Sync /\ Len(sent) < MaxPackets
    /\ syncP' = [syncP EXCEPT ![c] = sequenceID[c]]
    /\ wk' = [IdleWorker EXCEPT !.pc = "send", !.c = c, !.seq = sequenceID[c]]
    /\ UNCHANGED <<sequenceID, announceP, asked, askVars, olderKernel, kernelVars,
                   follows>>

\* The Sync of an sptp answer is marshalled with the number of the latest request.
TakeSptp(c) ==
    /\ wk.pc = "idle" /\ Kind[c] = DelayReq /\ asked[c] > 0 /\ Len(sent) < MaxPackets
    /\ asked' = [asked EXCEPT ![c] = @ - 1]
    /\ wk' = [IdleWorker EXCEPT !.pc = "send", !.c = c, !.seq = syncP[c],
                              !.overlap = Asking(c) # {} \/ c \in torn]
    /\ UNCHANGED <<sequenceID, syncP, announceP, askVars, olderKernel, kernelVars,
                   follows>>

(***************************************************************************)
(* Sendto on an older kernel, Sendmsg on a newer one.  The id given to the *)
(* kernel is read from the Sync packet again, after the packet that goes   *)
(* out was marshalled: a handler may have stored another number meanwhile. *)
(***************************************************************************)
SendSync ==
    /\ wk.pc = "send"
    /\ olderKernel \/ AcceptsID
    /\ sent' = Append(sent, [c |-> wk.c, seq |-> wk.seq, id |-> syncP[wk.c]])
    /\ inflight' = inflight \cup {Len(sent) + 1}
    /\ wk' = [wk EXCEPT !.pc = "read", !.pkt = Len(sent) + 1]
    /\ UNCHANGED <<packetVars, setupVars, olderKernel, errqueue, follows>>

\* EINVAL: the worker takes the kernel for an older one from now on; this Sync
\* is lost.
SendRefused ==
    /\ wk.pc = "send" /\ ~ olderKernel /\ ~ AcceptsID
    /\ olderKernel' = TRUE
    /\ Continue
    /\ UNCHANGED <<packetVars, kernelVars, follows>>

\* Any other error: the message is abandoned.
SendFails ==
    /\ wk.pc = "send"
    /\ Continue
    /\ UNCHANGED <<packetVars, olderKernel, kernelVars, follows>>

Found(ts) == [wk EXCEPT !.pc = "follow", !.txfound = ts]

\* Variant: the attempt is not counted.
RetryUncounted == wk

Retry == [wk EXCEPT !.attempts = @ + 1]

\* Variant: any timestamp will do.
AnyTimestamp(p) == TRUE

\* The control message names the id the packet was sent with.
MatchesSeqID(p) == sent[p].id = sent[wk.pkt].id

\* Variant: the message stays in the error queue (MSG_PEEK).
ReadTimeStampPeek ==
    /\ wk.pc = "read" /\ ~ olderKernel /\ wk.attempts < AttemptsTXTS
    /\ wk' = IF errqueue # << >> /\ MatchesSeqID(Head(errqueue))
               THEN Found(Head(errqueue)) ELSE Retry
    /\ UNCHANGED <<packetVars, olderKernel, kernelVars, follows>>

(***************************************************************************)
(* ReadTimeStampSeqIDBuf: each attempt takes one message from the error    *)
(* queue, if there is one, and drops it unless the sequence number is that *)
(* of the Sync.                                                            *)
(***************************************************************************)
ReadTimeStampSeqID ==
    /\ wk.pc = "read" /\ ~ olderKernel /\ wk.attempts < AttemptsTXTS
    /\ IF errqueue = << >>
         THEN wk' = Retry /\ UNCHANGED errqueue
         ELSE /\ errqueue' = Tail(errqueue)
              /\ wk' = IF MatchesSeqID(Head(errqueue))
                         THEN Found(Head(errqueue)) ELSE Retry
    /\ UNCHANGED <<packetVars, setupVars, olderKernel, sent, inflight, follows>>

(***************************************************************************)
(* ReadTXtimestampBuf: keep the last message of the queue; an empty queue  *)
(* ends the search once something was found.                               *)
(***************************************************************************)
ReadTXtimestamp ==
    /\ wk.pc = "read" /\ olderKernel /\ wk.attempts < AttemptsTXTS
    /\ IF errqueue = << >>
         THEN /\ wk' = IF wk.txfound # 0 THEN Found(wk.txfound) ELSE Retry
              /\ UNCHANGED errqueue
         ELSE /\ errqueue' = Tail(errqueue)
              /\ wk' = [Retry EXCEPT !.txfound = Head(errqueue)]
    /\ UNCHANGED <<packetVars, setupVars, olderKernel, sent, inflight, follows>>

\* All attempts used: an older kernel's last find counts, else no timestamp.
ReadExhausted ==
    /\ wk.pc = "read" /\ wk.attempts >= AttemptsTXTS
    /\ IF wk.txfound # 0 THEN wk' = Found(wk.txfound) ELSE Continue
    /\ UNCHANGED <<packetVars, olderKernel, kernelVars, follows>>

\* Sequence number of the second packet of c.
FollowUpSeq(c) == IF Kind[c] = Sync THEN sequenceID[c] ELSE announceP[c]

\* The UTC offset is added in the branch for older kernels only.
AddsUTCOffset == olderKernel /\ timestampType # HW

\* Variant: the sequence number is not incremented.
FollowUpForgetful ==
    /\ wk.pc = "follow"
    /\ follows' = Append(follows, [c |-> wk.c, seq |-> FollowUpSeq(wk.c),
                                   pkt |-> wk.pkt, ts |-> wk.txfound,
                                   utc |-> AddsUTCOffset, overlap |-> wk.overlap])
    /\ Continue
    /\ UNCHANGED <<sequenceID, syncP, announceP, asked, askVars, olderKernel,
                   kernelVars>>

\* UpdateFollowup or UpdateAnnounceFollowUp, Sendto, IncSequenceID.
FollowUp ==
    /\ wk.pc = "follow"
    /\ follows' = Append(follows, [c |-> wk.c, seq |-> FollowUpSeq(wk.c),
                                   pkt |-> wk.pkt, ts |-> wk.txfound,
                                   utc |-> AddsUTCOffset, overlap |-> wk.overlap])
    /\ IncSequenceID(wk.c)
    /\ Continue
    /\ UNCHANGED <<syncP, announceP, asked, askVars, olderKernel, kernelVars>>

FollowUpFails ==
    /\ wk.pc = "follow"
    /\ Continue
    /\ UNCHANGED <<packetVars, olderKernel, kernelVars, follows>>

WorkerStep ==
    \/ SendSync \/ SendRefused \/ SendFails
    \/ ReadTimeStampSeqID \/ ReadTXtimestamp \/ ReadExhausted
    \/ FollowUp \/ FollowUpFails

-----------------------------------------------------------------------------
(***************************************************************************)
(* The kernel delivers the timestamp of a packet.  A timestamp that is     *)
(* lost stays in flight for ever.                                          *)
(***************************************************************************)
DeliverTimestamp(p) ==
    /\ p \in inflight
    /\ inflight' = inflight \ {p}
    /\ errqueue' = Append(errqueue, p)
    /\ UNCHANGED <<packetVars, setupVars, wk, olderKernel, sent, follows>>

Next ==
    \/ \E c \in Client :
        \/ SendGeneral(c) \/ UpdateSync(c) \/ TakeSptp(c)
        \/ \E h \in Handler, q \in SeqID : UpdateSyncDelayReq(h, c, q)
    \/ \E h \in Handler : UpdateAnnounceDelayReq(h)
    \/ WorkerStep
    \/ \E p \in Packet : DeliverTimestamp(p)

Spec == Init /\ [][Next]_vars

\* The worker is one goroutine; the kernel owes it nothing.
FairSpec == Spec /\ WF_vars(WorkerStep)

-----------------------------------------------------------------------------
WorkerRecord ==
    [pc : {"idle", "send", "read", "follow"}, c : Client \cup {None},
     seq : SeqID, pkt : 0 .. MaxPackets, attempts : 0 .. AttemptsTXTS,
     txfound : 0 .. MaxPackets, overlap : BOOLEAN]

SentRecord == [c : Client, seq : SeqID, id : SeqID]

FollowRecord == [c : Client, seq : SeqID, pkt : Packet, ts : Packet,
                 utc : BOOLEAN, overlap : BOOLEAN]

\* The types of the variables: packets, timestamps and the worker's locals.
TypeOK ==
    /\ sequenceID \in [Client -> SeqID]
    /\ syncP \in [Client -> SeqID] /\ announceP \in [Client -> SeqID]
    /\ asked \in [Client -> Nat]
    /\ asking \in [Handler -> [c : Client \cup {None}, seq : SeqID]]
    /\ mixed \subseteq Handler /\ torn \subseteq Client
    /\ wk \in WorkerRecord
    /\ timestampType \in {HW, SW}
    /\ newKernel \in BOOLEAN /\ olderKernel \in BOOLEAN
    /\ sent \in Seq(SentRecord)
    /\ inflight \subseteq Packet
    /\ errqueue \in Seq(Packet)
    /\ follows \in Seq(FollowRecord)

\* The places of c's second packets among all of them.
Follows(c) == {i \in 1 .. Len(follows) : follows[i].c = c}

(***************************************************************************)
(* The Follow_Ups of a subscription have consecutive sequence numbers, no  *)
(* number repeated or skipped, whatever was lost in between: the first one *)
(* has 0, and every other one a number one more than the one before it has *)
(* (IncSequenceID runs exactly when a Follow_Up went out).                 *)
(***************************************************************************)
FollowUpsConsecutive ==
    \A c \in Client : Kind[c] = Sync =>
        \A i \in Follows(c) :
            \/ follows[i].seq = 0 /\ \A j \in Follows(c) : j >= i
            \/ \E j \in Follows(c) :
                   /\ j < i /\ \A k \in Follows(c) : k <= j \/ k >= i
                   /\ follows[i].seq = (follows[j].seq + 1) % SeqMod

(***************************************************************************)
(* Where the kernel supports SCM_TS_OPT_ID, a follow-up's timestamp has    *)
(* the id given with the packet before it, whatever the error queue held;  *)
(* and the Follow_Up of a subscription, the Sync on the wire and that id   *)
(* all have the same sequence number.                                      *)
(***************************************************************************)
OneSequenceNumber ==
    \A i \in 1 .. Len(follows) :
        LET f == follows[i] IN
        ~ olderKernel =>
            /\ sent[f.ts].id = sent[f.pkt].id
            /\ Kind[f.c] = Sync => f.seq = sent[f.pkt].seq /\ f.seq = sent[f.ts].id

(***************************************************************************)
(* The two packets of an sptp answer and the id of its timestamp have one  *)
(* sequence number, although each is read at another moment from packets   *)
(* that event handlers write, unless a handler stored a request of the     *)
(* client while this one was being answered, or the stores of two handlers *)
(* overlapped before it.                                                   *)
(***************************************************************************)
AnswerPaired ==
    \A i \in 1 .. Len(follows) :
        LET f == follows[i] IN
        Kind[f.c] = DelayReq /\ ~ f.overlap =>
            f.seq = sent[f.pkt].seq /\ f.seq = sent[f.pkt].id

(***************************************************************************)
(* A timestamp is used for one Follow_Up only, late and duplicate reads    *)
(* notwithstanding, and never before its packet was sent.                  *)
(***************************************************************************)
TimestampUsedOnce ==
    /\ \A i, j \in 1 .. Len(follows) : follows[i].ts = follows[j].ts => i = j
    /\ \A i \in 1 .. Len(follows) : follows[i].ts <= follows[i].pkt

(***************************************************************************)
(* Announce says that the server's time is PTP time, and so it is: the UTC *)
(* offset is added to every software timestamp and to no hardware one, on  *)
(* every kernel.  The branch for recent kernels never adds it; what makes  *)
(* that right is that a software socket does not ask for packet ids, so    *)
(* that every kernel sends the worker to the branch that does.             *)
(***************************************************************************)
PTPTime == \A i \in 1 .. Len(follows) : follows[i].utc <=> timestampType = SW

(***************************************************************************)
(* The worker gives up on a missing timestamp and gets back to its queues. *)
(***************************************************************************)
WorkerReturns == wk.pc = "read" ~> wk.pc = "idle"

(***************************************************************************)
(* "The sequence ID is used to identify the SYNC packet that the timestamp *)
(* is associated with" (timestamp_linux.go, ReadTimeStampSeqIDBuf): where  *)
(* the kernel supports it, a Follow_Up carries the timestamp of the Sync   *)
(* it follows.                                                             *)
(***************************************************************************)
OwnTimestamp ==
    ~ olderKernel => \A i \in 1 .. Len(follows) : follows[i].ts = follows[i].pkt

=============================================================================
